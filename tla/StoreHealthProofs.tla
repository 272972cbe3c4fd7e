------------------------- MODULE StoreHealthProofs -------------------------
(* Proofs about StoreHealth, for any configurations, servers and checks. *)
EXTENDS StoreHealth, TLAPS

(* A store that is ready serves each contract from the server that its     *)
(* configuration names, if the configuration is agreed.                    *)
LEMMA ServedAsWanted ==
  ASSUME TypeOK, StoreInv, Agreed(setup), store = "ready", NEW k \in Contracts
  PROVE  serves[k] = Wanted(setup, k)
<1> USE SetupAssumption, ServerAssumption
<1>1. setup \in Setup
  BY DEF TypeOK
<1>2. serves[k] = Serving(setup, k) /\ Known(setup, k)
  BY <1>1 DEF StoreInv, Agreed, Setup
<1>3. CASE setup.backend[k] = "redis"
  <2>1. k \in OnRedis
    BY <1>2, <1>3 DEF Known
  <2>2. CASE setup.lang = "rust"
    BY <1>2, <1>3, <2>1, <2>2 DEF Serving, Agreed
  <2>3. CASE setup.lang = "go"
    <3>1. Serving(setup, k) = GoUrl(setup, k)
      BY <1>3, <2>1, <2>3 DEF Serving
    <3>2. GoUrl(setup, k) = Wanted(setup, k)
      BY <1>3 DEF GoUrl, Wanted, OrDefault
    <3> QED BY <1>2, <3>1, <3>2
  <2> QED BY <1>1, <2>2, <2>3 DEF Setup
<1>4. CASE setup.backend[k] # "redis"
  BY <1>2, <1>4 DEF Serving, Known, Wanted, OnRedis
<1> QED BY <1>3, <1>4

(* Whatever serves a contract is a server. *)
LEMMA ServingType ==
  ASSUME NEW s \in Setup, NEW k \in Contracts
  PROVE  Serving(s, k) \in Servers \ {"other"}
<1> USE ServerAssumption DEF Setup, Contracts
<1>1. \A u \in Urls \cup {Unset} : OrDefault(u) \in Urls
  BY DEF OrDefault
<1>2. RustUrl(s) \in Urls
  BY <1>1 DEF RustUrl
<1>3. GoUrl(s, k) \in Urls
  BY <1>1 DEF GoUrl
<1> QED BY <1>2, <1>3 DEF Serving, Servers

(* What a probe is told depends on its own server. *)
LEMMA AnswerFacts ==
  ASSUME TypeOK, NEW h \in Checks, NEW k \in Contracts, serves[k] # "memory",
         NEW a \in Answers(h, k)
  PROVE  /\ a \in {"healthy", "unhealthy"}
         /\ a = "healthy" => server[serves[k]] = "up"
         /\ a # "healthy" /\ ~ended[h] => ~Reachable(serves[k])
<1> USE ServerAssumption
<1>1. ASSUME NEW v \in Servers, NEW over \in BOOLEAN, NEW b \in WithTimeout(Asking(v, over))
      PROVE  /\ b \in {"healthy", "unhealthy"}
             /\ b = "healthy" => server[v] = "up"
             /\ b # "healthy" /\ ~over => ~Reachable(v)
  BY <1>1 DEF TypeOK, WithTimeout, Asking, Reachable
<1>2. serves[k] \in Servers \ {"other"} /\ ended[h] \in BOOLEAN
  BY DEF TypeOK
<1>3. CASE serves[k] = "disk"
  <2>1. a \in Asking("disk", FALSE)
    BY <1>3 DEF Answers, LocalWriteTest
  <2> QED BY <1>2, <1>3, <2>1 DEF TypeOK, Asking, Reachable
<1>4. CASE serves[k] # "disk"
  <2>1. a \in WithTimeout(Asking(serves[k], ended[h]))
    BY <1>2, <1>4 DEF Answers, RedisPing, SelectOne, HeadBucket, Servers
  <2> QED BY <1>1, <1>2, <2>1
<1> QED BY <1>3, <1>4

(* The worst of the statuses, in whatever order they come. *)
LEMMA CombineFacts ==
  ASSUME NEW s \in States, NEW t \in States
  PROVE  /\ Combine(s, t) \in States
         /\ Combine(s, t) = "healthy" <=> s = "healthy" /\ t = "healthy"
BY DEF Combine, States

LEMMA FromStatusesFacts ==
  ASSUME NEW t \in [Contracts -> States]
  PROVE  /\ FromStatuses(t) \in States
         /\ FromStatuses(t) = "healthy" <=> \A k \in Contracts : t[k] = "healthy"
BY CombineFacts DEF FromStatuses, Contracts, States

(* Every step preserves the types of the variables. *)
LEMMA TypePreserved ==
  TypeOK /\ CheckInv /\ [Next]_vars => TypeOK'
<1> SUFFICES ASSUME TypeOK, CheckInv, [Next]_vars PROVE TypeOK'
  OBVIOUS
<1>0. setup \in Setup
  BY SetupAssumption DEF TypeOK
<1> USE DEF TypeOK
<1>1. CASE GoNew
  <2>1. serves' \in [Contracts -> Servers \ {"other"}]
    BY <1>0, <1>1, ServingType DEF GoNew
  <2> QED BY <1>1, <2>1 DEF GoNew, checking, history, links
<1>2. CASE ConnectRedis
  BY <1>2 DEF ConnectRedis, checking, history, links
<1>3. CASE ConnectPostgres
  <2>1. serves' \in [Contracts -> Servers \ {"other"}]
    BY <1>0, <1>3, ServingType DEF ConnectPostgres
  <2> QED BY <1>3, <2>1 DEF ConnectPostgres, checking, history, links
<1>4. ASSUME NEW v \in Servers, NEW to \in {"up", "down", "hung"}, Change(v, to)
      PROVE  TypeOK'
  BY <1>4, ChangesAssumption DEF Change, Noting
<1>11. ASSUME NEW v \in Servers, Reconnect(v) \/ Exhaust(v) \/ Release(v) PROVE TypeOK'
  BY <1>11, ChangesAssumption DEF Reconnect, Exhaust, Release, Noting
<1>5. ASSUME NEW h \in Checks, Begin(h) PROVE TypeOK'
  BY <1>5 DEF Begin, world, links, States
<1>6. ASSUME NEW h \in Checks, NEW k \in Contracts, Probe(h, k) PROVE TypeOK'
  <2>1. ASSUME NEW a \in Answers(h, k) PROVE a \in States
    BY <1>6, <2>1, AnswerFacts DEF Probe, States, CheckInv
  <2> QED BY <1>6, <2>1 DEF Probe, world, links, history
<1>7. ASSUME NEW h \in Checks, NEW k \in Contracts, Record(h, k) PROVE TypeOK'
  <2>1. Combine(overall[h], status[h][k]) \in States
    BY CombineFacts
  <2> QED BY <1>7, <2>1 DEF Record, world, links, history
<1>8. ASSUME NEW h \in Checks, Return(h) PROVE TypeOK'
  <2>1. FromStatuses(status[h]) \in States
    BY FromStatusesFacts
  <2> QED BY <1>8, <2>1 DEF Return, world, links, history
<1>9. ASSUME NEW h \in Checks, Cancel(h) \/ DropCheck(h) PROVE TypeOK'
  BY <1>9 DEF Cancel, DropCheck, world, links, history
<1>10. CASE UNCHANGED vars
  BY <1>10 DEF vars
<1> QED
  BY <1>1, <1>2, <1>3, <1>4, <1>5, <1>6, <1>7, <1>8, <1>9, <1>10, <1>11
  DEF Next, Work
(* A store that is ready has been made from its configuration. *)
LEMMA StorePreserved ==
  TypeOK /\ StoreInv /\ CheckInv /\ [Next]_vars => StoreInv'
<1> SUFFICES ASSUME TypeOK, StoreInv, CheckInv, [Next]_vars PROVE StoreInv'
  OBVIOUS
<1> USE DEF TypeOK, StoreInv, Contracts
<1>1. CASE GoNew
  BY <1>1 DEF GoNew, checking, history, links
<1>2. CASE ConnectRedis
  BY <1>2 DEF ConnectRedis, checking, history, links
<1>3. CASE ConnectPostgres
  <2>1. setup.lang # "go" /\ UNCHANGED <<setup, server, broken, busy>>
    BY <1>3 DEF ConnectPostgres, links
  <2> QED BY <1>3, <2>1 DEF ConnectPostgres
<1>4. ASSUME NEW v \in Servers, NEW to \in {"up", "down", "hung"}, Change(v, to)
      PROVE  StoreInv'
  BY <1>4 DEF Change, Noting
<1>11. ASSUME NEW v \in Servers, Reconnect(v) \/ Exhaust(v) \/ Release(v) PROVE StoreInv'
  BY <1>11, ServerAssumption DEF Reconnect, Exhaust, Release, Pooled
<1>5. ASSUME NEW h \in Checks, Begin(h) PROVE StoreInv'
  BY <1>5 DEF Begin, world, links
<1>6. ASSUME NEW h \in Checks, NEW k \in Contracts, Probe(h, k) PROVE StoreInv'
  BY <1>6 DEF Probe, world, links, history
<1>7. ASSUME NEW h \in Checks, NEW k \in Contracts, Record(h, k) PROVE StoreInv'
  BY <1>7 DEF Record, world, links, history
<1>8. ASSUME NEW h \in Checks, Return(h) PROVE StoreInv'
  BY <1>8 DEF Return, world, links, history
<1>9. ASSUME NEW h \in Checks, Cancel(h) \/ DropCheck(h) PROVE StoreInv'
  BY <1>9 DEF Cancel, DropCheck, world, links, history
<1>10. CASE UNCHANGED vars
  BY <1>10 DEF vars
<1> QED
  BY <1>1, <1>2, <1>3, <1>4, <1>5, <1>6, <1>7, <1>8, <1>9, <1>10, <1>11
  DEF Next, Work

(* A check begins when the store is ready. *)
LEMMA CheckPreserved ==
  TypeOK /\ StoreInv /\ CheckInv /\ [Next]_vars => CheckInv'
<1> SUFFICES ASSUME TypeOK, StoreInv, CheckInv, [Next]_vars PROVE CheckInv'
  OBVIOUS
<1> USE DEF TypeOK, StoreInv, CheckInv
<1>1. CASE GoNew
  BY <1>1 DEF GoNew, checking, history, links
<1>2. CASE ConnectRedis
  BY <1>2 DEF ConnectRedis, checking, history, links
<1>3. CASE ConnectPostgres
  BY <1>3 DEF ConnectPostgres, checking, history, links
<1>4. ASSUME NEW v \in Servers, NEW to \in {"up", "down", "hung"}, Change(v, to)
      PROVE  CheckInv'
  BY <1>4 DEF Change, Noting
<1>11. ASSUME NEW v \in Servers, Reconnect(v) \/ Exhaust(v) \/ Release(v) PROVE CheckInv'
  BY <1>11 DEF Reconnect, Exhaust, Release, Noting
<1>5. ASSUME NEW h \in Checks, Begin(h) PROVE CheckInv'
  BY <1>5 DEF Begin, world, links
<1>6. ASSUME NEW h \in Checks, NEW k \in Contracts, Probe(h, k) PROVE CheckInv'
  BY <1>6 DEF Probe, world, links, history
<1>7. ASSUME NEW h \in Checks, NEW k \in Contracts, Record(h, k) PROVE CheckInv'
  BY <1>7 DEF Record, world, links, history
<1>8. ASSUME NEW h \in Checks, Return(h) PROVE CheckInv'
  BY <1>8 DEF Return, world, links, history
<1>9. ASSUME NEW h \in Checks, Cancel(h) \/ DropCheck(h) PROVE CheckInv'
  BY <1>9 DEF Cancel, DropCheck, world, links, history
<1>10. CASE UNCHANGED vars
  BY <1>10 DEF vars
<1> QED
  BY <1>1, <1>2, <1>3, <1>4, <1>5, <1>6, <1>7, <1>8, <1>9, <1>10, <1>11
  DEF Next, Work

(* A check knows what its probes were told. *)
LEMMA SeenPreserved ==
  TypeOK /\ StoreInv /\ CheckInv /\ SeenInv /\ [Next]_vars => SeenInv'
<1> SUFFICES ASSUME TypeOK, StoreInv, CheckInv, SeenInv, [Next]_vars PROVE SeenInv'
  OBVIOUS
<1> USE DEF TypeOK, StoreInv, CheckInv, SeenInv, Reachable
<1>1. CASE GoNew
  BY <1>1 DEF GoNew, checking, history, links
<1>2. CASE ConnectRedis
  BY <1>2 DEF ConnectRedis, checking, history, links
<1>3. CASE ConnectPostgres
  BY <1>3 DEF ConnectPostgres, checking, history, links
<1>4. ASSUME NEW v \in Servers, NEW to \in {"up", "down", "hung"}, Change(v, to)
      PROVE  SeenInv'
  BY <1>4 DEF Change, Noting
<1>11. ASSUME NEW v \in Servers, Reconnect(v) \/ Exhaust(v) \/ Release(v) PROVE SeenInv'
  BY <1>11 DEF Reconnect, Exhaust, Release, Noting
<1>5. ASSUME NEW h \in Checks, Begin(h) PROVE SeenInv'
  BY <1>5 DEF Begin, world, links
<1>6. ASSUME NEW h \in Checks, NEW k \in Contracts, Probe(h, k) PROVE SeenInv'
  <2>1. PICK a \in Answers(h, k) : status' = [status EXCEPT ![h][k] = a]
    BY <1>6 DEF Probe
  <2>2. serves[k] # "memory" /\ serves[k] \in Servers
    BY <1>6 DEF Probe
  <2>3. /\ a = "healthy" => server[serves[k]] = "up"
        /\ a # "healthy" /\ ~ended[h] => ~Reachable(serves[k])
    BY <2>2, AnswerFacts
  <2> QED BY <1>6, <2>1, <2>2, <2>3 DEF Probe, world, links, history
<1>7. ASSUME NEW h \in Checks, NEW k \in Contracts, Record(h, k) PROVE SeenInv'
  BY <1>7 DEF Record, world, links, history
<1>8. ASSUME NEW h \in Checks, Return(h) PROVE SeenInv'
  BY <1>8 DEF Return, world, links, history
<1>9. ASSUME NEW h \in Checks, Cancel(h) \/ DropCheck(h) PROVE SeenInv'
  <2>1. CASE Cancel(h)
    <3>1. \A g \in Checks : ~ended'[g] => ~ended[g]
      BY <2>1 DEF Cancel
    <3> QED BY <2>1, <3>1 DEF Cancel, world, links, history
  <2>2. CASE DropCheck(h)
    BY <2>2 DEF DropCheck, world, links, history
  <2> QED BY <1>9, <2>1, <2>2
<1>10. CASE UNCHANGED vars
  BY <1>10 DEF vars
<1> QED
  BY <1>1, <1>2, <1>3, <1>4, <1>5, <1>6, <1>7, <1>8, <1>9, <1>10, <1>11
  DEF Next, Work

(* The consolidated state takes every status into account. *)
LEMMA OverallPreserved ==
  TypeOK /\ CheckInv /\ SeenInv /\ OverallInv /\ [Next]_vars => OverallInv'
<1> SUFFICES ASSUME TypeOK, CheckInv, SeenInv, OverallInv, [Next]_vars PROVE OverallInv'
  OBVIOUS
<1> USE DEF TypeOK, CheckInv, SeenInv, OverallInv
<1>1. CASE GoNew
  BY <1>1 DEF GoNew, checking, history, links
<1>2. CASE ConnectRedis
  BY <1>2 DEF ConnectRedis, checking, history, links
<1>3. CASE ConnectPostgres
  BY <1>3 DEF ConnectPostgres, checking, history, links
<1>4. ASSUME NEW v \in Servers, NEW to \in {"up", "down", "hung"}, Change(v, to)
      PROVE  OverallInv'
  BY <1>4 DEF Change, Noting
<1>11. ASSUME NEW v \in Servers, Reconnect(v) \/ Exhaust(v) \/ Release(v) PROVE OverallInv'
  BY <1>11 DEF Reconnect, Exhaust, Release, Noting
<1>5. ASSUME NEW h \in Checks, Begin(h) PROVE OverallInv'
  BY <1>5 DEF Begin, world, links
<1>6. ASSUME NEW h \in Checks, NEW k \in Contracts, Probe(h, k) PROVE OverallInv'
  <2>1. \A g \in Checks, j \in Contracts :
          probe'[g][j] = "counted" =>
            probe[g][j] = "counted" /\ status'[g][j] = status[g][j]
    BY <1>6 DEF Probe
  <2>2. \A g \in Checks, j \in Contracts :
          probe[g][j] = "counted" => probe'[g][j] = "counted"
    BY <1>6 DEF Probe
  <2>3. UNCHANGED <<setup, check, overall>>
    BY <1>6 DEF Probe, world
  <2>4. \A g \in Checks :
          (\A j \in Contracts : probe'[g][j] = "counted" => status'[g][j] = "healthy")
            <=> (\A j \in Contracts : probe[g][j] = "counted" => status[g][j] = "healthy")
    <3> HIDE DEF TypeOK, CheckInv, SeenInv, OverallInv
    <3> TAKE g \in Checks
    <3>1. ASSUME \A j \in Contracts : probe'[g][j] = "counted" => status'[g][j] = "healthy",
                 NEW j \in Contracts, probe[g][j] = "counted"
          PROVE  status[g][j] = "healthy"
      BY <2>1, <2>2, <3>1
    <3>2. ASSUME \A j \in Contracts : probe[g][j] = "counted" => status[g][j] = "healthy",
                 NEW j \in Contracts, probe'[g][j] = "counted"
          PROVE  status'[g][j] = "healthy"
      BY <2>1, <3>2
    <3> QED BY <3>1, <3>2, Zenon
  <2> QED BY <2>2, <2>3, <2>4
<1>7. ASSUME NEW h \in Checks, NEW k \in Contracts, Record(h, k) PROVE OverallInv'
  <2>1. Combine(overall[h], status[h][k]) = "healthy"
          <=> overall[h] = "healthy" /\ status[h][k] = "healthy"
    BY CombineFacts
  <2> QED BY <1>7, <2>1 DEF Record, world, links, history
<1>8. ASSUME NEW h \in Checks, Return(h) PROVE OverallInv'
  <2>1. FromStatuses(status[h]) = "healthy" <=> \A k \in Contracts : status[h][k] = "healthy"
    BY FromStatusesFacts
  <2>2. /\ check' = [check EXCEPT ![h] = "done"]
        /\ \A k \in Contracts : probe[h][k] = "counted"
        /\ UNCHANGED <<setup, probe, status>>
    BY <1>8 DEF Return, world
  <2>3. CASE setup.lang = "rust"
    BY <1>8, <2>1, <2>2, <2>3 DEF Return
  <2>4. CASE setup.lang # "rust"
    <3>1. setup.lang = "go"
      BY <2>4, SetupAssumption DEF Setup
    <3> QED BY <1>8, <2>2, <2>4, <3>1 DEF Return
  <2> QED BY <2>3, <2>4
<1>9. ASSUME NEW h \in Checks, Cancel(h) \/ DropCheck(h) PROVE OverallInv'
  BY <1>9 DEF Cancel, DropCheck, world, links, history
<1>10. CASE UNCHANGED vars
  BY <1>10 DEF vars
<1> QED
  BY <1>1, <1>2, <1>3, <1>4, <1>5, <1>6, <1>7, <1>8, <1>9, <1>10, <1>11
  DEF Next, Work

(* The gauges are those of a check that runs alone. *)
LEMMA GaugePreserved ==
  TypeOK /\ CheckInv /\ SeenInv /\ GaugeInv /\ [Next]_vars => GaugeInv'
<1> SUFFICES ASSUME TypeOK, CheckInv, SeenInv, GaugeInv, [Next]_vars PROVE GaugeInv'
  OBVIOUS
<1> USE DEF TypeOK, CheckInv, SeenInv, GaugeInv
<1>1. CASE GoNew
  BY <1>1 DEF GoNew, checking, history, links
<1>2. CASE ConnectRedis
  BY <1>2 DEF ConnectRedis, checking, history, links
<1>3. CASE ConnectPostgres
  BY <1>3 DEF ConnectPostgres, checking, history, links
<1>4. ASSUME NEW v \in Servers, NEW to \in {"up", "down", "hung"}, Change(v, to)
      PROVE  GaugeInv'
  BY <1>4 DEF Change, Noting
<1>11. ASSUME NEW v \in Servers, Reconnect(v) \/ Exhaust(v) \/ Release(v) PROVE GaugeInv'
  BY <1>11 DEF Reconnect, Exhaust, Release, Noting
<1>5. ASSUME NEW h \in Checks, Begin(h) PROVE GaugeInv'
  <2>1. latest' = {h} /\ (h \in alone' => \A g \in Checks : check[g] # "probing")
    BY <1>5 DEF Begin
  <2>2. \A g \in Checks : check'[g] = "probing" => g = h \/ check[g] = "probing"
    BY <1>5 DEF Begin
  <2>3. \A k \in Contracts : probe'[h][k] = "counted" => gauge'[k] = "healthy"
    BY <1>5 DEF Begin
  <2>4. \A k \in Contracts : status'[h][k] = "healthy"
    BY <1>5 DEF Begin
  <2> HIDE DEF TypeOK, CheckInv, SeenInv
  <2> QED BY <2>1, <2>2, <2>3, <2>4
<1>6. ASSUME NEW h \in Checks, NEW k \in Contracts, Probe(h, k) PROVE GaugeInv'
  BY <1>6 DEF Probe, world, links, history
<1>7. ASSUME NEW h \in Checks, NEW k \in Contracts, Record(h, k) PROVE GaugeInv'
  BY <1>7 DEF Record, world, links, history
<1>8. ASSUME NEW h \in Checks, Return(h) PROVE GaugeInv'
  BY <1>8 DEF Return, world, links, history
<1>9. ASSUME NEW h \in Checks, Cancel(h) \/ DropCheck(h) PROVE GaugeInv'
  BY <1>9 DEF Cancel, DropCheck, world, links, history
<1>10. CASE UNCHANGED vars
  BY <1>10 DEF vars
<1> QED
  BY <1>1, <1>2, <1>3, <1>4, <1>5, <1>6, <1>7, <1>8, <1>9, <1>10, <1>11
  DEF Next, Work

-----------------------------------------------------------------------------
(* The invariant is inductive, whatever servers change, checks overlap and *)
(* callers cancel.                                                         *)
THEOREM Inductive == Spec => []IInv
<1>1. Init => IInv
  <2> SUFFICES ASSUME Init PROVE IInv
    OBVIOUS
  <2>1. "memory" \in Servers \ {"other"}
    BY DEF Servers
  <2>2. PICK out \in {{}} \cup {{Wanted(setup, k)} \ {"memory"} : k \in Contracts} :
          server = [v \in Servers |-> IF v \in out \cup {"other"} THEN "down" ELSE "up"]
    BY DEF Init
  <2>3. "memory" \notin out
    BY <2>2
  <2>4. TypeOK
    BY <2>1, <2>2, ChangesAssumption DEF Init, TypeOK, States
  <2>5. StoreInv
    BY <2>1, <2>2, <2>3 DEF Init, StoreInv
  <2>6. CheckInv /\ SeenInv /\ OverallInv /\ GaugeInv
    BY DEF Init, CheckInv, SeenInv, OverallInv, GaugeInv
  <2> QED BY <2>4, <2>5, <2>6 DEF IInv
<1>2. IInv /\ [Next]_vars => IInv'
  BY TypePreserved, StorePreserved, CheckPreserved, SeenPreserved, OverallPreserved,
     GaugePreserved DEF IInv
<1> QED BY <1>1, <1>2, PTL DEF Spec

(* The variables keep their types. *)
THEOREM TypeCorrect == Spec => []TypeOK
<1>1. IInv => TypeOK
  BY DEF IInv
<1> QED BY <1>1, Inductive, PTL

(* The configuration of a store never changes. *)
LEMMA AgreedStays == Spec /\ Agreed(setup) => []Agreed(setup)
<1>1. [Next]_vars => UNCHANGED setup
  BY DEF Next, Work, GoNew, ConnectRedis, ConnectPostgres, Change, Reconnect, Exhaust,
         Release, Begin, Probe, Record,
         Return, Cancel, DropCheck, world, vars
<1>2. Agreed(setup) /\ [Next]_vars => Agreed(setup)'
  BY <1>1
<1> QED BY <1>2, PTL DEF Spec

(* A check that reports a healthy store has found every server that the    *)
(* configuration names up during the check: for every Go configuration,    *)
(* and for every Rust one whose URLs agree.                                *)
THEOREM HealthyIsReachable == Spec /\ Agreed(setup) => []ReadyMeansReachable
<1>1. IInv /\ Agreed(setup) => ReadyMeansReachable
  <2> SUFFICES ASSUME IInv, Agreed(setup), NEW h \in Checks, check[h] = "done",
                      overall[h] = "healthy", NEW k \in Contracts
               PROVE  Wanted(setup, k) \in wasUp[h]
    BY DEF ReadyMeansReachable
  <2>1. status[h][k] = "healthy" /\ probe[h][k] = "counted"
    BY DEF IInv, OverallInv
  <2>2. serves[k] \in wasUp[h]
    BY <2>1 DEF IInv, SeenInv
  <2>3. serves[k] = Wanted(setup, k)
    BY ServedAsWanted DEF IInv, CheckInv
  <2> QED BY <2>2, <2>3
<1> QED BY <1>1, Inductive, AgreedStays, PTL

(* A contract is reported unhealthy only if its own server was out of      *)
(* reach at some moment of the check (not up, its pool used up, or its     *)
(* connections broken by an outage), and the store only if one of them     *)
(* was, however the probes of the other contracts went.                    *)
THEOREM AlarmHasCause == Spec /\ Agreed(setup) => []NoFalseAlarm
<1>1. IInv /\ Agreed(setup) => NoFalseAlarm
  <2> SUFFICES ASSUME IInv, Agreed(setup), NEW h \in Checks, check[h] = "done", ~ended[h]
               PROVE  /\ \A k \in Contracts :
                           status[h][k] # "healthy" => Wanted(setup, k) \in wasOut[h]
                      /\ overall[h] # "healthy" =>
                           \E k \in Contracts : Wanted(setup, k) \in wasOut[h]
    BY DEF NoFalseAlarm
  <2>1. ASSUME NEW k \in Contracts, status[h][k] # "healthy"
        PROVE  Wanted(setup, k) \in wasOut[h]
    <3>1. serves[k] \in wasOut[h]
      BY <2>1 DEF IInv, SeenInv
    <3>2. serves[k] = Wanted(setup, k)
      BY ServedAsWanted DEF IInv, CheckInv
    <3> QED BY <3>1, <3>2
  <2>2. overall[h] # "healthy" => \E k \in Contracts : status[h][k] # "healthy"
    BY DEF IInv, OverallInv
  <2> QED BY <2>1, <2>2
<1> QED BY <1>1, Inductive, AgreedStays, PTL

(* The gauges show what the latest check reported, if it ran alone.        *)
THEOREM GaugesAreLatest == Spec => []GaugeShowsLatest
<1>1. IInv => GaugeShowsLatest
  <2> SUFFICES ASSUME IInv, NEW h \in alone \cap latest, check[h] = "done"
               PROVE  gauge = status[h]
    BY DEF GaugeShowsLatest
  <2>1. h \in Checks
    BY DEF IInv, TypeOK
  <2>2. \A k \in Contracts : gauge[k] = status[h][k]
    BY <2>1 DEF IInv, GaugeInv, OverallInv
  <2>3. gauge \in [Contracts -> States \cup {"none"}] /\ status[h] \in [Contracts -> States]
    BY <2>1 DEF IInv, TypeOK
  <2> QED BY <2>2, <2>3
<1> QED BY <1>1, Inductive, PTL
=============================================================================
