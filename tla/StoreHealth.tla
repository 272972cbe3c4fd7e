---------------------------- MODULE StoreHealth -----------------------------
(***************************************************************************)
(* The construction of a store from its configuration (from_config of      *)
(* rust/src/lib.rs, NewStoreWithMetrics of go/store_impl.go) and its       *)
(* health checks: five probes run at once, each through the instrumented   *)
(* wrapper that sets a gauge, and the check combines what they report.     *)
(* Servers go down, hang and come back at any time; connections that were  *)
(* made before are then of no use, and pools have none left under load.    *)
(***************************************************************************)
EXTENDS Naturals, FiniteSets

CONSTANTS
  Setups,      \* language, back end and URL of each contract: see Setup
  Urls,        \* URLs of Redis servers
  Default,     \* the Redis at redis://127.0.0.1:6379
  Unset,       \* no URL is configured
  Checks,      \* the health checks ever made
  MaxChanges   \* bound of the model, for each setup: changes of servers, and
               \* pools that are used up

Contracts == {"kv", "relational", "sorted_set", "pubsub", "blob"}
OnRedis   == {"kv", "sorted_set", "pubsub"}

Setup ==
  [lang : {"go", "rust"},
   backend : [Contracts -> {"memory", "redis", "postgres", "local", "s3", "other"}],
   url : [Contracts -> Urls \cup {Unset}]]

ASSUME SetupAssumption == Setups \subseteq Setup
ASSUME ServerAssumption ==
  /\ Default \in Urls /\ Unset \notin Urls
  /\ Urls \cap {"memory", "postgres", "disk", "s3", "other"} = {}
ASSUME ChangesAssumption == \A s \in Setups : MaxChanges[s] \in Nat

(* Everything that a contract can be served by.  No store has "other".     *)
Servers == Urls \cup {"memory", "postgres", "disk", "s3", "other"}

VARIABLES
  setup,      \* the configuration
  store,      \* "new", "redis" (connected to), "ready" or "refused"
  serves,     \* the server behind each contract, once connected
  server,     \* "up", "down" (refuses, or answers with an error) or "hung"
  broken,     \* servers to which the clients still have connections from
              \* before an outage
  busy,       \* servers to which all connections of the pool are in use
  changes,    \* changes of server and busy so far
  check,      \* each check: "idle", "probing", "done" or "dropped"
  probe,      \* of each check and contract: "none", "asked", "told", "counted"
  status,     \* what the probe reported
  overall,    \* consolidated state of the check
  ended,      \* the context of the check is over (Go)
  gauge,      \* goy_store_health_check_status of each contract
  wasUp,      \* history: servers seen up during the check
  wasOut,     \* history: servers seen out of reach during the check
  latest,     \* history: the check that began last
  alone       \* history: checks that did not overlap an earlier one

links   == <<broken, busy>>
world   == <<setup, store, serves, server, links, changes>>
history == <<wasUp, wasOut, latest, alone>>
vars    == <<setup, store, serves, server, broken, busy, changes, check, probe,
             status, overall, ended, gauge, wasUp, wasOut, latest, alone>>

-----------------------------------------------------------------------------
(* Construction.                                                           *)

OrDefault(u) == IF u = Unset THEN Default ELSE u

\* Rust opens one connection for the three contracts, with the first URL
\* that is configured, whichever contract it is configured for.
RustUrl(s) ==
  CASE s.url["kv"] # Unset         -> s.url["kv"]
    [] s.url["kv"] = Unset /\ s.url["sorted_set"] # Unset -> s.url["sorted_set"]
    [] OTHER                       -> OrDefault(s.url["pubsub"])

\* Go shares the client of the key-value store if the URL is the same or
\* not given, and makes another one otherwise.
GoUrl(s, k) ==
  IF k # "kv" /\ s.backend["kv"] = "redis" /\ s.url[k] \in {Unset, s.url["kv"]}
    THEN OrDefault(s.url["kv"])
    ELSE OrDefault(s.url[k])

\* A slip for the properties to catch: the name of the back end is taken
\* for the server of the local store too.
ServingByName(s, k) ==
  IF s.backend[k] = "redis" /\ k \in OnRedis
    THEN IF s.lang = "rust" THEN RustUrl(s) ELSE GoUrl(s, k)
    ELSE s.backend[k]

(* The server behind contract k.  Rust takes a name it does not know for   *)
(* the in-memory store; Go refuses it (GoNew).                             *)
Serving(s, k) ==
  CASE s.backend[k] = "redis" /\ k \in OnRedis ->
         IF s.lang = "rust" THEN RustUrl(s) ELSE GoUrl(s, k)
    [] s.backend[k] = "postgres" /\ k = "relational" -> "postgres"
    [] s.backend[k] = "local" /\ k = "blob"          -> "disk"
    [] s.backend[k] = "s3" /\ k = "blob"             -> "s3"
    [] OTHER                                         -> "memory"

\* Go knows the back end for this contract.
Known(s, k) ==
  \/ s.backend[k] = "memory"
  \/ s.backend[k] = "redis" /\ k \in OnRedis
  \/ s.backend[k] = "postgres" /\ k = "relational"
  \/ s.backend[k] \in {"local", "s3"} /\ k = "blob"

(* The server that the configuration names for a contract: the URL given   *)
(* for it, or that of the key-value store, or the default.                 *)
Wanted(s, k) ==
  CASE s.backend[k] = "redis" /\ s.url[k] # Unset -> s.url[k]
    [] s.backend[k] = "redis" /\ s.url[k] = Unset ->
         IF s.backend["kv"] = "redis" THEN OrDefault(s.url["kv"]) ELSE Default
    [] s.backend[k] = "local" -> "disk"
    [] OTHER                  -> s.backend[k]

(* A server may be down when the program starts.                           *)
Init ==
  /\ setup \in Setups
  /\ store = "new"
  /\ serves = [k \in Contracts |-> "memory"]
  /\ \E out \in {{}} \cup {{Wanted(setup, k)} \ {"memory"} : k \in Contracts} :
       server = [v \in Servers |-> IF v \in out \cup {"other"} THEN "down" ELSE "up"]
  /\ broken = {}
  /\ busy = {}
  /\ changes = 0
  /\ check = [h \in Checks |-> "idle"]
  /\ probe = [h \in Checks |-> [k \in Contracts |-> "none"]]
  /\ status = [h \in Checks |-> [k \in Contracts |-> "healthy"]]
  /\ overall = [h \in Checks |-> "healthy"]
  /\ ended = [h \in Checks |-> FALSE]
  /\ gauge = [k \in Contracts |-> "none"]
  /\ wasUp = [h \in Checks |-> {}]
  /\ wasOut = [h \in Checks |-> {}]
  /\ latest = {}
  /\ alone = {}

checking == <<check, probe, status, overall, ended, gauge, history>>

\* Go connects later, when a client is first used.
GoNew ==
  /\ setup.lang = "go" /\ store = "new"
  /\ store' = IF \A k \in Contracts : Known(setup, k) THEN "ready" ELSE "refused"
  /\ serves' = [k \in Contracts |-> Serving(setup, k)]
  /\ UNCHANGED <<setup, server, links, changes, checking>>

ConnectRedis ==
  /\ setup.lang = "rust" /\ store = "new"
  /\ store' = IF /\ \E k \in OnRedis : setup.backend[k] = "redis"
                 /\ server[RustUrl(setup)] # "up"
                THEN "refused" ELSE "redis"
  /\ UNCHANGED <<setup, serves, server, links, changes, checking>>

ConnectPostgres ==
  /\ store = "redis"
  /\ store' = IF /\ setup.backend["relational"] = "postgres"
                 /\ server["postgres"] # "up"
                THEN "refused" ELSE "ready"
  /\ serves' = [k \in Contracts |-> Serving(setup, k)]
  /\ UNCHANGED <<setup, server, links, changes, checking>>

-----------------------------------------------------------------------------
(* Servers and connections change.  A check notes what it has seen.        *)

Remote == Urls \cup {"postgres", "s3"}

\* Clients that take their connections from a pool of limited size.
Pooled(v) == v = "postgres" \/ (v \in Urls /\ setup.lang = "go")

\* The client can reach the server at once.
Reachable(v) == server[v] = "up" /\ v \notin broken \cup busy

Noting ==
  /\ wasUp' = [h \in Checks |->
       wasUp[h] \cup {v \in Servers : check[h] = "probing" /\ server'[v] = "up"}]
  /\ wasOut' = [h \in Checks |->
       wasOut[h] \cup {v \in Servers : check[h] = "probing" /\ ~Reachable(v)'}]
  /\ UNCHANGED <<check, probe, status, overall, ended, gauge, latest, alone>>

Change(v, to) ==
  /\ changes < MaxChanges[setup]
  /\ \E k \in Contracts : v \in {serves[k], Wanted(setup, k)} \ {"memory", "other"}
  /\ server[v] # to
  /\ server' = [server EXCEPT ![v] = to]
  /\ broken' = IF to # "up" /\ v \in Remote /\ store # "new" THEN broken \cup {v} ELSE broken
  /\ changes' = changes + 1
  /\ UNCHANGED <<setup, store, serves, busy>>
  /\ Noting

\* The client has replaced its connections.
Reconnect(v) ==
  /\ v \in broken /\ server[v] = "up"
  /\ broken' = broken \ {v}
  /\ UNCHANGED <<setup, store, serves, server, busy, changes>>
  /\ Noting

\* Other calls hold every connection of the pool, and give one back.
Exhaust(v) ==
  /\ changes < MaxChanges[setup]
  /\ store = "ready" /\ Pooled(v) /\ v \notin busy
  /\ \E k \in Contracts : serves[k] = v
  /\ busy' = busy \cup {v}
  /\ changes' = changes + 1
  /\ UNCHANGED <<setup, store, serves, server, broken>>
  /\ Noting

Release(v) ==
  /\ v \in busy
  /\ busy' = busy \ {v}
  /\ UNCHANGED <<setup, store, serves, server, broken, changes>>
  /\ Noting

(* health_check: all probes start.  The in-memory stores answer at once.   *)
Begin(h) ==
  LET quick == {k \in Contracts : serves[k] = "memory"} IN
  /\ store = "ready" /\ check[h] = "idle"
  /\ check' = [check EXCEPT ![h] = "probing"]
  /\ probe' = [probe EXCEPT ![h] =
       [k \in Contracts |-> IF k \in quick THEN "counted" ELSE "asked"]]
  /\ gauge' = [k \in Contracts |-> IF k \in quick THEN "healthy" ELSE gauge[k]]
  /\ wasUp' = [wasUp EXCEPT ![h] = {v \in Servers : server[v] = "up"}]
  /\ wasOut' = [wasOut EXCEPT ![h] = {v \in Servers : ~Reachable(v)}]
  /\ latest' = {h}
  /\ alone' = IF \E g \in Checks : check[g] = "probing"
                THEN alone \ {g \in Checks : check[g] = "probing"}
                ELSE alone \cup {h}
  /\ UNCHANGED <<world, status, overall, ended>>

\* A slip for the properties to catch: the last status wins.
LastWins(s, t) == t

(* from_statuses and the loop of HealthCheck: one status more.             *)
Combine(s, t) ==
  CASE t = "unhealthy"                      -> "unhealthy"
    [] t = "degraded" /\ s # "unhealthy"    -> "degraded"
    [] OTHER                                -> s

(* What asking server v can give: nothing while it hangs or no connection  *)
(* is free, an error too if the connection is of before an outage, or if   *)
(* the context the client was given is over.                               *)
Asking(v, over) ==
  CASE server[v] = "down"                         -> {"unhealthy"}
    [] server[v] = "hung"                         -> {}
    [] server[v] = "up" /\ v \in busy             -> {}
    [] server[v] = "up" /\ v \notin busy          ->
         IF over \/ v \in broken THEN {"healthy", "unhealthy"} ELSE {"healthy"}

\* A slip: the timeout does not wait for the answer.
TimeoutFires(outcomes) == outcomes \cup {"unhealthy"}

WithTimeout(outcomes) == IF outcomes = {} THEN {"unhealthy"} ELSE outcomes

\* A slip: a probe without its timeout.
PingWaits(h, k) == Asking(serves[k], ended[h])

(* is_healthy of the back ends.  The local store has neither a timeout nor *)
(* the caller's context.                                                   *)
RedisPing(h, k)   == WithTimeout(Asking(serves[k], ended[h]))
SelectOne(h)      == WithTimeout(Asking("postgres", ended[h]))
HeadBucket(h)     == WithTimeout(Asking("s3", ended[h]))
LocalWriteTest(h) == Asking("disk", FALSE)

Answers(h, k) ==
  CASE serves[k] \in Urls     -> RedisPing(h, k)
    [] serves[k] = "postgres" -> SelectOne(h)
    [] serves[k] = "s3"       -> HeadBucket(h)
    [] serves[k] = "disk"     -> LocalWriteTest(h)

Probe(h, k) ==
  /\ check[h] = "probing" /\ probe[h][k] = "asked"
  /\ \E a \in Answers(h, k) : status' = [status EXCEPT ![h][k] = a]
  /\ probe' = [probe EXCEPT ![h][k] = "told"]
  /\ UNCHANGED <<world, check, overall, ended, gauge, history>>

\* A slip: a probe that failed leaves the wrapper before the gauge is set.
RecordHealthy(h, k) ==
  /\ check[h] = "probing" /\ probe[h][k] = "told"
  /\ gauge' = IF status[h][k] = "healthy" THEN [gauge EXCEPT ![k] = "healthy"] ELSE gauge
  /\ probe' = [probe EXCEPT ![h][k] = "counted"]
  /\ overall' = IF setup.lang = "go"
                  THEN [overall EXCEPT ![h] = Combine(@, status[h][k])]
                  ELSE overall
  /\ UNCHANGED <<world, check, status, ended, history>>

(* The instrumented wrapper sets the gauge, and the status goes to the     *)
(* check: Go combines it as it arrives, Rust when it has all five.         *)
Record(h, k) ==
  /\ check[h] = "probing" /\ probe[h][k] = "told"
  /\ gauge' = [gauge EXCEPT ![k] = status[h][k]]
  /\ probe' = [probe EXCEPT ![h][k] = "counted"]
  /\ overall' = IF setup.lang = "go"
                  THEN [overall EXCEPT ![h] = Combine(@, status[h][k])]
                  ELSE overall
  /\ UNCHANGED <<world, check, status, ended, history>>

\* ConsolidatedHealth::from_statuses, in the order of the vector.
FromStatuses(t) ==
  Combine(Combine(Combine(Combine(Combine("healthy", t["kv"]),
    t["relational"]), t["sorted_set"]), t["pubsub"]), t["blob"])

Return(h) ==
  /\ check[h] = "probing"
  /\ \A k \in Contracts : probe[h][k] = "counted"
  /\ check' = [check EXCEPT ![h] = "done"]
  /\ overall' = IF setup.lang = "rust"
                  THEN [overall EXCEPT ![h] = FromStatuses(status[h])]
                  ELSE overall
  /\ UNCHANGED <<world, probe, status, ended, gauge, history>>

(* The caller's context ends (Go), or the caller drops the check (Rust).   *)
Cancel(h) ==
  /\ check[h] = "probing" /\ setup.lang = "go" /\ ~ended[h]
  /\ ended' = [ended EXCEPT ![h] = TRUE]
  /\ UNCHANGED <<world, check, probe, status, overall, gauge, history>>

DropCheck(h) ==
  /\ check[h] = "probing" /\ setup.lang = "rust"
  /\ check' = [check EXCEPT ![h] = "dropped"]
  /\ UNCHANGED <<world, probe, status, overall, ended, gauge, history>>

-----------------------------------------------------------------------------
Work(h) == (\E k \in Contracts : Probe(h, k) \/ Record(h, k)) \/ Return(h)

Next ==
  \/ GoNew \/ ConnectRedis \/ ConnectPostgres
  \/ \E v \in Servers, to \in {"up", "down", "hung"} : Change(v, to)
  \/ \E v \in Servers : Reconnect(v) \/ Exhaust(v) \/ Release(v)
  \/ \E h \in Checks : Begin(h) \/ Work(h) \/ Cancel(h) \/ DropCheck(h)

Spec == Init /\ [][Next]_vars

(* The runtime runs the probes and the check; a probe of a remote server   *)
(* is over after its timeout.  Servers and callers promise nothing.        *)
FairSpec == Spec /\ \A h \in Checks : WF_vars(Work(h))

-----------------------------------------------------------------------------
States == {"healthy", "degraded", "unhealthy"}

TypeOK ==
  /\ setup \in Setups
  /\ store \in {"new", "redis", "ready", "refused"}
  /\ serves \in [Contracts -> Servers \ {"other"}]
  /\ server \in [Servers -> {"up", "down", "hung"}]
  /\ broken \subseteq Servers
  /\ busy \subseteq Servers
  /\ changes \in 0 .. MaxChanges[setup]
  /\ check \in [Checks -> {"idle", "probing", "done", "dropped"}]
  /\ probe \in [Checks -> [Contracts -> {"none", "asked", "told", "counted"}]]
  /\ status \in [Checks -> [Contracts -> States]]
  /\ overall \in [Checks -> States]
  /\ ended \in [Checks -> BOOLEAN]
  /\ gauge \in [Contracts -> States \cup {"none"}]
  /\ wasUp \in [Checks -> SUBSET Servers]
  /\ wasOut \in [Checks -> SUBSET Servers]
  /\ latest \subseteq Checks
  /\ alone \subseteq Checks

(* PRD.md:289 (OBS-09): "Returns `ready` if all backends are reachable": a *)
(* check that reports the store healthy has found every server that the    *)
(* configuration names up at some moment of the check.                     *)
ReadyMeansReachable ==
  \A h \in Checks : check[h] = "done" /\ overall[h] = "healthy" =>
    \A k \in Contracts : Wanted(setup, k) \in wasUp[h]

(* PRD.md:290 (OBS-10), "independent health status": a contract is         *)
(* reported unhealthy, and with it the store, only if its own server was   *)
(* out of reach at some moment of the check (not up, its pool used up, or  *)
(* an outage had broken the connections and they were not replaced yet),   *)
(* or the caller cancelled the check.  No trouble of another contract, and *)
(* no outage that is over and done with, raises the alarm.                 *)
NoFalseAlarm ==
  \A h \in Checks : check[h] = "done" /\ ~ended[h] =>
    /\ \A k \in Contracts :
         status[h][k] # "healthy" => Wanted(setup, k) \in wasOut[h]
    /\ overall[h] # "healthy" =>
         \E k \in Contracts : Wanted(setup, k) \in wasOut[h]

(* When the latest check is over and overlapped no other, the gauges show  *)
(* what it reported.                                                       *)
GaugeShowsLatest ==
  \A h \in alone \cap latest : check[h] = "done" => gauge = status[h]

(* Every health check returns, whatever servers are down or hang, unless   *)
(* the disk of the local blob store hangs or the caller drops the check.   *)
EveryCheckReturns ==
  \A h \in Checks :
    check[h] = "probing" ~>
      check[h] \in {"done", "dropped"} \/ server["disk"] = "hung"

(* PRD.md:291 (OBS-11): "Health check timeout [...] Local: 1s": the same,  *)
(* also when the disk hangs.                                               *)
LocalCheckReturns ==
  \A h \in Checks : check[h] = "probing" ~> check[h] \in {"done", "dropped"}

-----------------------------------------------------------------------------
(* A configuration that is served as it is written: what Go ensures of     *)
(* every store it makes, and Rust only where the URLs agree and every name *)
(* is known.                                                               *)
Agreed(s) ==
  s.lang = "rust" =>
    \A k \in Contracts :
      Known(s, k) /\ (s.backend[k] = "redis" => RustUrl(s) = Wanted(s, k))

(* The inductive invariant.  Memory is always there, and a store that is   *)
(* ready serves what Serving says.                                         *)
StoreInv ==
  /\ server["memory"] = "up" /\ "memory" \notin broken \cup busy
  /\ store = "redis" => setup.lang = "rust"
  /\ store = "ready" =>
       /\ setup.lang = "go" => \A k \in Contracts : Known(setup, k)
       /\ serves = [k \in Contracts |-> Serving(setup, k)]

\* Only a store that is ready is checked, and only its servers are asked.
CheckInv ==
  \A h \in Checks :
    /\ check[h] # "idle" => store = "ready"
    /\ check[h] = "idle" =>
         /\ h \notin alone /\ overall[h] = "healthy"
         /\ \A k \in Contracts : probe[h][k] = "none"
    /\ \A k \in Contracts : probe[h][k] = "asked" => serves[k] # "memory"

\* A check has noted how every server is, and what its probes were told.
SeenInv ==
  \A h \in Checks :
    /\ check[h] = "probing" =>
         \A v \in Servers :
           /\ server[v] = "up" => v \in wasUp[h]
           /\ ~Reachable(v) => v \in wasOut[h]
    /\ \A k \in Contracts :
         IF probe[h][k] \in {"told", "counted"}
           THEN /\ status[h][k] = "healthy" => serves[k] \in wasUp[h]
                /\ status[h][k] # "healthy" /\ ~ended[h] => serves[k] \in wasOut[h]
           ELSE status[h][k] = "healthy"

\* The consolidated state follows from the statuses that have arrived.
OverallInv ==
  \A h \in Checks :
    /\ check[h] = "done" => \A k \in Contracts : probe[h][k] = "counted"
    /\ setup.lang = "go" \/ check[h] = "done" =>
         (overall[h] = "healthy" <=>
            \A k \in Contracts : probe[h][k] = "counted" => status[h][k] = "healthy")

\* While the latest check is the only one, the gauges are its own.
GaugeInv ==
  \A h \in alone \cap latest :
    /\ \A g \in Checks : check[g] = "probing" => g = h
    /\ \A k \in Contracts : probe[h][k] = "counted" => gauge[k] = status[h][k]

IInv == TypeOK /\ StoreInv /\ CheckInv /\ SeenInv /\ OverallInv /\ GaugeInv
=============================================================================
