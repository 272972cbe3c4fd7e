----------------------------- MODULE StoreCalls -----------------------------
(***************************************************************************)
(* A call of a contract through the layers that NewStoreWithMetrics        *)
(* (go/store_impl.go) and GoyStore::from_config (rust/src/lib.rs) put      *)
(* around a back end: the resilience wrapper retries the attempt, the      *)
(* instrumented wrapper inside it measures each attempt, and the client    *)
(* sends a command to a server.  The reply of an attempt may be lost, and  *)
(* the command of an attempt that was given up may still be executed, late. *)
(* Some client libraries resend a command inside one attempt.              *)
(* The in-memory back ends have no connection: the attempt itself waits    *)
(* for their lock and executes the command, or is dropped before.          *)
(*                                                                         *)
(* The back end is one item of one contract (a key, a member of a sorted   *)
(* set, an object), in which every call writes its own identity.  Whether  *)
(* the breaker admits a call is left open here: GoResilience and           *)
(* RustResilience are about that.                                          *)
(***************************************************************************)
EXTENDS Integers, FiniteSets

CONSTANTS
  Calls,        \* the calls ever made, by whatever callers, in any order
  Absent,       \* the item does not exist
  MaxRetries,   \* retries of the resilience wrapper
  MaxResends    \* resends by a client library, inside the attempts of a call

ASSUME RetriesAssumption == MaxRetries \in Nat /\ MaxResends \in Nat
ASSUME AbsentAssumption == Absent \notin Calls

VARIABLES
  lang,       \* "go" or "rust": they differ in TTLs, timeouts and cancelling
  contract,   \* the contract of the item
  backend,    \* "memory" or "server"
  cell,       \* the call that wrote the item, Absent if there is none
  expiring,   \* the item has a TTL
  wire,       \* commands sent and not executed (some never will be)
  pc, op, cmd, ttl, attempt,   \* of each call
  copy,       \* how often the client library has resent a command of the call
  answer,     \* the reply to the current attempt of each call
  result,     \* what each call returned
  observed,   \* samples in the duration histogram of the contract
  errors,     \* goy_store_errors_total of the contract
  creators,   \* history: calls whose create found no item and made it
  executed,   \* history: the attempts of which a command was executed
  held        \* history: what the cell has held while a read was under way

server  == <<cell, expiring, executed, creators>>
metrics == <<observed, errors>>
config  == <<lang, contract, backend>>
request == <<op, cmd, ttl>>
loop    == <<attempt, copy>>
vars    == <<lang, contract, backend, cell, expiring, wire, pc, op, cmd, ttl, attempt,
             copy, answer, result, observed, errors, creators, executed, held>>

Values == Calls \cup {Absent}

-----------------------------------------------------------------------------
Contracts == {"kv", "relational", "sorted_set", "blob", "pubsub"}

(* The command each client sends for an operation, by what it does to the  *)
(* item.  The operations that are not here are not retried (Subscribe,     *)
(* Unsubscribe, IsHealthy), or are the subject of Migrate.                 *)
KV         == [get |-> "read", set |-> "write", delete |-> "erase",
               exists |-> "test", set_if_not_exists |-> "create"]
Relational == [query |-> "read", execute |-> "append", transaction |-> "append"]
SortedSet  == [add |-> "write", remove |-> "erase", range_by_score |-> "read",
               count |-> "test", remove_range |-> "take", score |-> "read"]
Blob       == [put |-> "write", get |-> "read", delete |-> "erase",
               list |-> "test", presign_url |-> "none"]
PubSub     == [publish |-> "append"]

(* The in-memory relational store answers and does nothing; the others do  *)
(* what the servers do.                                                    *)
MemoryRelational == [query |-> "none", execute |-> "none", transaction |-> "none"]
MemoryBlob       == Blob

\* A slip for the properties to catch: exists is not measured.
TimedAllButExists == {"get", "set", "delete", "set_if_not_exists"}

(* The operations that the instrumented wrappers measure.                  *)
TimedKV         == {"get", "set", "delete", "exists", "set_if_not_exists"}
TimedRelational == {"query", "execute", "transaction", "migrate"}
TimedSortedSet  == {"add", "remove", "range_by_score", "count", "remove_range", "score"}
TimedBlob       == {"put", "get", "delete", "list", "presign_url"}
TimedPubSub     == {"publish", "subscribe", "unsubscribe"}

Timed(k) ==
  CASE k = "kv"         -> TimedKV
    [] k = "relational" -> TimedRelational
    [] k = "sorted_set" -> TimedSortedSet
    [] k = "blob"       -> TimedBlob
    [] k = "pubsub"     -> TimedPubSub

Commands == {"read", "write", "erase", "test", "create", "append", "take", "none"}

TTLs == {"none", "zero", "some"}

(* What a TTL makes of the item.  Go passes a Duration, of which 0 means   *)
(* that the item does not expire; Rust sends it with EX or PX, and Redis   *)
(* refuses to expire an item after 0.  The in-memory stores ignore it.     *)
Expiry(t) ==
  CASE t = "none" \/ backend = "memory"                     -> "never"
    [] t = "zero" /\ backend = "server" /\ lang = "go"      -> "never"
    [] t = "zero" /\ backend = "server" /\ lang = "rust"    -> "refused"
    [] t = "some" /\ backend = "server"                      -> "expires"

(* A command at the server: the item after it, and the reply.              *)
Refused(m) ==
  cmd[m.call] \in {"write", "create"} /\ Expiry(ttl[m.call]) = "refused"

Makes(m) == cmd[m.call] = "create" /\ cell = Absent /\ ~Refused(m)

Writes(m) == Makes(m) \/ (cmd[m.call] = "write" /\ ~Refused(m))

Erases(m) == cmd[m.call] \in {"erase", "take"}

After(m) ==
  CASE Writes(m) -> m.call
    [] Erases(m) -> Absent
    [] OTHER     -> cell

ExpiringAfter(m) ==
  \/ Writes(m) /\ Expiry(ttl[m.call]) = "expires"
  \/ ~Writes(m) /\ ~Erases(m) /\ expiring

\* A reply without a value.
Plain(tag) == [tag |-> tag, val |-> Absent]

YesIf(b) == Plain(IF b THEN "yes" ELSE "no")

\* A slip for the properties to catch: SET NX answers that it has set the
\* item, whether or not it did.
ReplyAlwaysSet(m) ==
  CASE Refused(m)                                 -> Plain("error")
    [] ~Refused(m) /\ cmd[m.call] = "create"      -> Plain("yes")
    [] cmd[m.call] = "read"                       -> [tag |-> "value", val |-> cell]
    [] OTHER                                      -> Plain("ok")

\* A slip: an item that has a TTL is taken for one whose TTL is over.
ReplyExpired(m) ==
  CASE Refused(m)           -> Plain("error")
    [] cmd[m.call] = "read" -> [tag |-> "value", val |-> IF expiring THEN Absent ELSE cell]
    [] OTHER                -> Plain("ok")

Reply(m) ==
  CASE Refused(m)                       -> Plain("error")
    [] cmd[m.call] = "read"             -> [tag |-> "value", val |-> cell]
    [] cmd[m.call] \in {"test", "take"} -> YesIf(cell # Absent)
    [] cmd[m.call] = "create" /\ ~Refused(m) -> YesIf(cell = Absent)
    [] OTHER                            -> Plain("ok")

Nothing == Plain("nothing")
Success == {"value", "yes", "no", "ok"}

-----------------------------------------------------------------------------
Init ==
  /\ lang \in {"go", "rust"}
  /\ contract \in Contracts
  /\ backend \in {"memory", "server"}
  /\ cell = Absent
  /\ expiring = FALSE
  /\ wire = {}
  /\ pc = [c \in Calls |-> "unborn"]
  /\ op = [c \in Calls |-> "none"]
  /\ cmd = [c \in Calls |-> "none"]
  /\ ttl = [c \in Calls |-> "none"]
  /\ attempt = [c \in Calls |-> 1]
  /\ copy = [c \in Calls |-> 0]
  /\ answer = [c \in Calls |-> Nothing]
  /\ result = [c \in Calls |-> Plain("pending")]
  /\ observed = 0
  /\ errors = 0
  /\ creators = {}
  /\ executed = {}
  /\ held = [c \in Calls |-> {}]

Goto(c, from, to) == pc[c] = from /\ pc' = [pc EXCEPT ![c] = to]

\* The call returns r, and its locals are gone.
Returns(c, r) ==
  /\ pc' = [pc EXCEPT ![c] = "done"]
  /\ attempt' = [attempt EXCEPT ![c] = 1]
  /\ copy' = [copy EXCEPT ![c] = 0]
  /\ answer' = [answer EXCEPT ![c] = Nothing]
  /\ result' = [result EXCEPT ![c] = r]

\* A read is under way, and the item is v in the meantime.
Reading(c) == pc[c] \notin {"unborn", "done"} /\ cmd[c] = "read"

Seeing(v) ==
  held' = [c \in Calls |-> IF Reading(c) THEN held[c] \cup {v} ELSE held[c]]

(* The instrumented wrapper of call c, when the attempt has come back.     *)
Observe(c, failed) ==
  /\ observed' = IF op[c] \in Timed(contract) THEN observed + 1 ELSE observed
  /\ errors' = IF failed /\ op[c] \in Timed(contract) THEN errors + 1 ELSE errors

-----------------------------------------------------------------------------
(* Slips that the properties below must catch; no specification uses them. *)

\* The breaker is asked again before each retry.
RetryAsks(c) ==
  /\ attempt[c] <= MaxRetries
  /\ Goto(c, "failed", "ask")
  /\ attempt' = [attempt EXCEPT ![c] = @ + 1]
  /\ UNCHANGED <<config, server, wire, request, copy, answer, result, metrics, held>>

\* The wrapper is left at the deadline, before it has counted the attempt.
ErrorUnseen(c) ==
  /\ Goto(c, "await", "failed")
  /\ UNCHANGED <<config, server, wire, request, loop, answer, result, metrics, held>>

\* The in-memory store executes commands whose caller has given up.
AnyTime(m) == TRUE

\* The attempts of a call are counted down.
RetryBack(c) ==
  /\ attempt[c] <= MaxRetries
  /\ Goto(c, "failed", "send")
  /\ attempt' = [attempt EXCEPT ![c] = @ - 1]
  /\ UNCHANGED <<config, server, wire, request, copy, answer, result, metrics, held>>

-----------------------------------------------------------------------------
(* The caller calls an operation of a contract.                            *)
Invoke(c, o, k, t) ==
  /\ Goto(c, "unborn", "ask")
  /\ op' = [op EXCEPT ![c] = o]
  /\ cmd' = [cmd EXCEPT ![c] = k]
  /\ ttl' = [ttl EXCEPT ![c] = t]
  /\ held' = [held EXCEPT ![c] = IF k = "read" THEN {cell} ELSE {}]
  /\ UNCHANGED <<config, server, wire, loop, answer, result, metrics>>

InvokeKV(c) ==
  /\ contract = "kv"
  /\ \E o \in DOMAIN KV : \E t \in TTLs :
       /\ t # "none" => o \in {"set", "set_if_not_exists"}
       /\ Invoke(c, o, KV[o], t)

\* Rust has no transactions.
InvokeRelational(c) ==
  /\ contract = "relational"
  /\ \E o \in DOMAIN Relational :
       /\ o = "transaction" => lang = "go"
       /\ Invoke(c, o, IF backend = "memory" THEN MemoryRelational[o] ELSE Relational[o],
                 "none")

InvokeSortedSet(c) ==
  /\ contract = "sorted_set"
  /\ \E o \in DOMAIN SortedSet : Invoke(c, o, SortedSet[o], "none")

InvokeBlob(c) ==
  /\ contract = "blob"
  /\ \E o \in DOMAIN Blob :
       Invoke(c, o, IF backend = "memory" THEN MemoryBlob[o] ELSE Blob[o], "none")

InvokePubSub(c) ==
  /\ contract = "pubsub"
  /\ \E o \in DOMAIN PubSub : Invoke(c, o, PubSub[o], "none")

(* The breaker is asked, once per call.                                    *)
Reject(c) ==
  /\ pc[c] = "ask"
  /\ Returns(c, Plain("rejected"))
  /\ UNCHANGED <<config, server, wire, request, metrics, held>>

Admit(c) ==
  /\ Goto(c, "ask", "send")
  /\ UNCHANGED <<config, server, wire, request, loop, answer, result, metrics, held>>

\* The command of the current attempt, as it is sent after k resends.
Command(c, k) == [call |-> c, n |-> attempt[c], copy |-> k]

(* An attempt: the command is sent, and the client waits for its reply.    *)
Send(c) ==
  /\ Goto(c, "send", "await")
  /\ wire' = wire \cup {Command(c, copy[c])}
  /\ answer' = [answer EXCEPT ![c] = Nothing]
  /\ UNCHANGED <<config, server, request, loop, result, metrics, held>>

\* go-redis and the AWS SDKs resend what met a connection error, as often as
\* they do by default; pgx, sqlx and the Rust Redis client do not.
Resends ==
  /\ backend = "server"
  /\ contract = "blob" \/ (lang = "go" /\ contract \in {"kv", "sorted_set", "pubsub"})

(* The client gives up the connection, with the reply that may be on it,   *)
(* and sends the command again; the one sent before may be executed too.   *)
Resend(c) ==
  /\ Resends
  /\ pc[c] = "await"
  /\ copy[c] < MaxResends
  /\ copy' = [copy EXCEPT ![c] = @ + 1]
  /\ wire' = wire \cup {Command(c, copy[c] + 1)}
  /\ answer' = [answer EXCEPT ![c] = Nothing]
  /\ UNCHANGED <<config, server, pc, request, attempt, result, metrics, held>>

\* The attempt that m was sent in.
AttemptOf(m) == [call |-> m.call, n |-> m.n]

\* The call still waits for the reply to m.
Awaited(m) ==
  pc[m.call] = "await" /\ m.n = attempt[m.call] /\ m.copy = copy[m.call]

\* A server executes a command in time or late, an in-memory store only while
\* the attempt waits for its lock.
Executable(m) == backend = "server" \/ Awaited(m)

(* The back end executes a command.                                        *)
Execute(m) ==
  /\ Executable(m)
  /\ wire' = wire \ {m}
  /\ cell' = After(m)
  /\ expiring' = ExpiringAfter(m)
  /\ executed' = IF Refused(m) THEN executed ELSE executed \cup {AttemptOf(m)}
  /\ creators' = IF Makes(m) THEN creators \cup {m.call} ELSE creators
  /\ answer' = IF Awaited(m) THEN [answer EXCEPT ![m.call] = Reply(m)] ELSE answer
  /\ Seeing(After(m))
  /\ UNCHANGED <<config, pc, request, loop, result, metrics>>

(* The server removes an item whose TTL is over.                           *)
Expire ==
  /\ expiring
  /\ cell' = Absent
  /\ expiring' = FALSE
  /\ Seeing(Absent)
  /\ UNCHANGED <<config, wire, pc, request, loop, answer, result,
                 metrics, creators, executed>>

(* The attempt comes back with a reply.                                    *)
AttemptOk(c) ==
  /\ answer[c].tag \in Success
  /\ Goto(c, "await", "report")
  /\ Observe(c, FALSE)
  /\ UNCHANGED <<config, server, wire, request, loop, answer, result, held>>

(* The breaker has been told, and the call returns the reply.              *)
Report(c) ==
  /\ pc[c] = "report"
  /\ Returns(c, answer[c])
  /\ UNCHANGED <<config, server, wire, request, metrics, held>>

(* It comes back with an error: the server's, or of a connection that      *)
(* failed before or after the command was executed, or Go's deadline.      *)
AttemptErr(c) ==
  /\ backend = "server"
  /\ Goto(c, "await", "failed")
  /\ Observe(c, TRUE)
  /\ UNCHANGED <<config, server, wire, request, loop, answer, result, held>>

\* The attempt is at an await of its back end.  An in-memory store has none
\* behind that of its lock.
Suspended(c) == backend = "server" \/ answer[c] = Nothing

(* Rust's timeout drops the future of the attempt, instrumentation included. *)
AttemptDropped(c) ==
  /\ lang = "rust" /\ Suspended(c)
  /\ Goto(c, "await", "failed")
  /\ UNCHANGED <<config, server, wire, request, loop, answer, result, metrics, held>>

Retry(c) ==
  /\ attempt[c] <= MaxRetries
  /\ Goto(c, "failed", "send")
  /\ attempt' = [attempt EXCEPT ![c] = @ + 1]
  /\ UNCHANGED <<config, server, wire, request, copy, answer, result, metrics, held>>

(* The retries are used up, or Go's context ends in the backoff.           *)
Fail(c) ==
  /\ pc[c] = "failed"
  /\ attempt[c] > MaxRetries \/ lang = "go"
  /\ Returns(c, Plain("failed"))
  /\ UNCHANGED <<config, server, wire, request, metrics, held>>

(* The caller drops the future of the whole call (Rust).                   *)
Drop(c) ==
  /\ lang = "rust"
  /\ pc[c] \notin {"unborn", "done"}
  /\ pc[c] = "await" => Suspended(c)
  /\ Returns(c, Plain("dropped"))
  /\ UNCHANGED <<config, server, wire, request, metrics, held>>

-----------------------------------------------------------------------------
Step(c) ==
  \/ Reject(c) \/ Admit(c) \/ Send(c) \/ Resend(c)
  \/ AttemptOk(c) \/ Report(c) \/ AttemptErr(c) \/ AttemptDropped(c)
  \/ Retry(c) \/ Fail(c) \/ Drop(c)

(* Every call has returned, and the back end has nothing left to do. *)
Finished ==
  /\ \A c \in Calls : pc[c] = "done"
  /\ \A m \in wire : ~Executable(m)
  /\ UNCHANGED vars

Next ==
  \/ \E c \in Calls : \/ InvokeKV(c)
                        \/ InvokeRelational(c)
                        \/ InvokeSortedSet(c)
                        \/ InvokeBlob(c)
                        \/ InvokePubSub(c)
                        \/ Step(c)
  \/ \E m \in wire : Execute(m)
  \/ Expire
  \/ Finished

Spec == Init /\ [][Next]_vars

-----------------------------------------------------------------------------
Tags == Success \cup {"nothing", "error", "pending", "rejected", "failed", "dropped"}

OpNames == {"none"} \cup DOMAIN KV \cup DOMAIN Relational \cup DOMAIN SortedSet
             \cup DOMAIN Blob \cup DOMAIN PubSub

Attempts == [call : Calls, n : 1 .. MaxRetries + 1]
Sendings == [call : Calls, n : 1 .. MaxRetries + 1, copy : 0 .. MaxResends]

TypeOK ==
  /\ lang \in {"go", "rust"}
  /\ contract \in Contracts
  /\ backend \in {"memory", "server"}
  /\ cell \in Values
  /\ expiring \in BOOLEAN
  /\ wire \subseteq Sendings
  /\ pc \in [Calls -> {"unborn", "ask", "send", "await", "report", "failed", "done"}]
  /\ op \in [Calls -> OpNames]
  /\ cmd \in [Calls -> Commands]
  /\ ttl \in [Calls -> TTLs]
  /\ attempt \in [Calls -> 1 .. MaxRetries + 1]
  /\ copy \in [Calls -> 0 .. MaxResends]
  /\ answer \in [Calls -> [tag : Tags, val : Values]]
  /\ result \in [Calls -> [tag : Tags, val : Values]]
  /\ observed \in Nat
  /\ errors \in Nat
  /\ creators \subseteq Calls
  /\ executed \subseteq Attempts
  /\ held \in [Calls -> SUBSET Values]

(* A call that the circuit breaker rejected has done nothing and never     *)
(* will: no attempt of it was sent, whatever arrives late.  The caller may *)
(* safely do the work elsewhere.                                           *)
RejectedHasNoEffect ==
  \A c \in Calls : result[c].tag = "rejected" => \A m \in executed : m.call # c

(* PRD.md:143 (KV-05), the first half: a SetIfNotExists that returns true  *)
(* has itself made the item.  An item is made by one call only, so two     *)
(* callers are told true only if it was removed in between.                *)
TrueMeansCreated ==
  \A c \in Calls : cmd[c] = "create" /\ result[c].tag = "yes" => c \in creators

(* A read returns what the item was at some moment of the call, never a    *)
(* leftover of another call or of the time before it.                      *)
ReadIsCurrent ==
  \A c \in Calls : result[c].tag = "value" => result[c].val \in held[c]

\* Calls that have a reply to return, whose future was dropped, and that have
\* an attempt under way.
Good    == {c \in Calls : pc[c] = "report" \/ result[c].tag \in Success}
Gone    == {c \in Calls : result[c].tag = "dropped"}
Waiting == {c \in Calls : pc[c] = "await"}

(* The metrics account for the calls: the samples that are not errors are  *)
(* the calls that succeeded, whatever was retried or rejected, and at most *)
(* those besides whose future was dropped with the reply in hand.          *)
Accounted ==
  observed - errors \in Cardinality(Good) .. Cardinality(Good \cup Gone)

(* In Go no attempt that took effect escapes the metrics: whatever lost    *)
(* replies, retries, resends and late commands have made of a Publish, an  *)
(* Execute or a Set, each attempt of which a command was executed is a     *)
(* sample of the histogram, or is under way.  (Rust's timeouts drop the    *)
(* wrapper with the attempt; what a client library resends inside an       *)
(* attempt is no sample of its own in either language.)                    *)
EffectsAreMeasured ==
  lang = "go" => Cardinality(executed) <= observed + Cardinality(Waiting)

(* A call that succeeds has been executed, and in memory exactly once:     *)
(* there neither timeouts nor dropped futures make a retry repeat it.      *)
SuccessHappened ==
  \A c \in Calls : result[c].tag \in Success =>
    /\ \E m \in executed : m.call = c
    /\ backend = "memory" =>
         \A m1, m2 \in executed : m1.call = c /\ m2.call = c => m1 = m2

(* The inductive invariant behind the theorems of StoreCallsProofs.        *)
Quiet(c) == \A m \in executed \cup wire : m.call # c

SentInv ==
  \A c \in Calls :
    /\ pc[c] \in {"unborn", "ask"} => Quiet(c)
    /\ result[c].tag = "rejected" => Quiet(c)
    /\ pc[c] # "done" => result[c].tag = "pending"
    /\ pc[c] = "done" => result[c].tag # "pending"

CreateInv ==
  \A c \in Calls : cmd[c] = "create" =>
    /\ answer[c].tag = "yes" => c \in creators
    /\ result[c].tag = "yes" => c \in creators

ReadInv ==
  \A c \in Calls :
    /\ pc[c] = "unborn" => answer[c].tag = "nothing"
    /\ Reading(c) => cell \in held[c]
    /\ answer[c].tag = "value" => answer[c].val \in held[c]
    /\ result[c].tag = "value" => result[c].val \in held[c]

OnceInv ==
  /\ \A c \in Calls :
       /\ answer[c].tag \in Success => \E m \in executed : m.call = c
       /\ pc[c] = "report" => answer[c].tag \in Success
       /\ result[c].tag \in Success => \E m \in executed : m.call = c
  /\ backend = "memory" =>
       /\ \A c \in Calls : copy[c] = 0
       /\ \A w \in wire : w.copy = 0
       /\ \A m \in executed :
            /\ \A w \in wire : AttemptOf(w) # m
            /\ pc[m.call] \in {"await", "report", "done"}
            /\ pc[m.call] = "await" => m.n = attempt[m.call] /\ answer[m.call] # Nothing
            /\ \A m2 \in executed : m2.call = m.call => m2 = m

\* The current attempt of a call, and those that were executed or may be yet.
Current(c) == [call |-> c, n |-> attempt[c]]

Sent == executed \cup {AttemptOf(m) : m \in wire}

\* What may still be executed is measured already or will be; every operation
\* has a timer, and a resent command counts for the attempt that sent it.  The
\* sets that are counted are finite, whatever Calls is.
MeasuredInv ==
  /\ \A c \in Calls : pc[c] # "unborn" => op[c] \in Timed(contract)
  /\ IsFiniteSet(Good) /\ IsFiniteSet(Gone) /\ IsFiniteSet(Waiting)
  /\ IsFiniteSet(Sent)
  /\ lang = "go" =>
       /\ Cardinality(Sent) <= observed + Cardinality(Waiting)
       /\ \A c \in Waiting : Current(c) \in Sent

IInv ==
  /\ TypeOK /\ SentInv /\ CreateInv /\ ReadInv /\ OnceInv
  /\ Accounted /\ MeasuredInv

(* PRD.md:143 (KV-05), the second half: "`false` if key already existed":  *)
(* a SetIfNotExists that returns false is not the one that made the item.  *)
FalseMeansExisted ==
  \A c \in Calls : cmd[c] = "create" /\ result[c].tag = "no" => c \notin creators

(* adr/004-nats-as-pubsub-backend.md:41, "the contract's at-most-once      *)
(* semantics": no call of Publish (nor of Execute or Transaction) takes    *)
(* effect twice.  The code does not keep it, so no run checks it: the      *)
(* wrappers retry, and go-redis resends, what may have been executed.      *)
AppendsOnce ==
  \A m1, m2 \in executed :
    m1.call = m2.call /\ cmd[m1.call] = "append" => m1 = m2
=============================================================================
