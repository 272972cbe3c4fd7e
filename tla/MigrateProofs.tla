---------------------------- MODULE MigrateProofs ----------------------------
(***************************************************************************)
(* Proofs about Migrate, for any callers with any lists of migrations and  *)
(* any number of retries.                                                  *)
(***************************************************************************)
EXTENDS Migrate, TLAPS

(* The migration a caller is at belongs to Versions.                       *)
LEMMA CurrentVersion ==
  ASSUME TypeOK, NEW m \in Migrators, InList(m)
  PROVE  Current(m) \in Versions /\ idx[m] \in 1 .. Len(List[m])
  BY ListAssumption DEF TypeOK, InList, Current

(* The state variables keep their types.                                   *)
LEMMA TypePreserved ==
  TypeOK /\ ClientInv /\ [Next]_vars => TypeOK'
<1> SUFFICES ASSUME TypeOK, ClientInv, [Next]_vars
             PROVE  TypeOK'
  OBVIOUS
<1> USE NoneAssumption, ListAssumption, RetriesAssumption, CurrentVersion
    DEF TypeOK, PC, Modes, db, Goto, Release, ClientInv
<1>1. CASE Finished \/ UNCHANGED vars
  BY <1>1 DEF Finished, vars
<1>2. ASSUME NEW m \in Migrators, CreateTable(m) PROVE TypeOK'
  BY <1>2 DEF CreateTable
<1>3. ASSUME NEW m \in Migrators, CheckApplied(m) PROVE TypeOK'
  BY <1>3 DEF CheckApplied
<1>4. ASSUME NEW m \in Migrators, CheckMissing(m) PROVE TypeOK'
  BY <1>4 DEF CheckMissing
<1>5. ASSUME NEW m \in Migrators, Succeed(m) PROVE TypeOK'
  BY <1>5 DEF Succeed
<1>6. ASSUME NEW m \in Migrators, ExecuteUp(m) PROVE TypeOK'
  BY <1>6 DEF ExecuteUp
<1>7. ASSUME NEW m \in Migrators, Insert(m) PROVE TypeOK'
  <2>1. InList(m)
    BY <1>7 DEF Insert
  <2>2. Current(m) \in Versions
    BY <2>1
  <2>3. QED
    <3>1. CASE Current(m) \in recorded
      BY <1>7, <3>1 DEF Insert
    <3>2. CASE Current(m) \notin recorded
      <4>1. /\ lock' = [lock EXCEPT ![Current(m)] = m]
            /\ mode' = [mode EXCEPT ![Current(m)] = "open"]
            /\ pc' = [pc EXCEPT ![m] = "commit"]
            /\ UNCHANGED <<recorded, effects, idx, attempt>>
        BY <1>7, <3>2 DEF Insert
      <4>2. QED
        BY <4>1
    <3>3. QED
      BY <3>1, <3>2
<1>8. ASSUME NEW m \in Migrators, SendCommit(m) PROVE TypeOK'
  BY <1>8 DEF SendCommit
<1>9. ASSUME NEW m \in Migrators, Committed(m) PROVE TypeOK'
  BY <1>9 DEF Committed
<1>10. ASSUME NEW m \in Migrators, Retry(m) PROVE TypeOK'
  BY <1>10 DEF Retry
<1>11. ASSUME NEW m \in Migrators, GiveUp(m) PROVE TypeOK'
  BY <1>11 DEF GiveUp
<1>12. ASSUME NEW m \in Migrators, Fail(m) PROVE TypeOK'
  BY <1>12 DEF Fail
<1>13. ASSUME NEW v \in Versions, ServerCommit(v) PROVE TypeOK'
  <2>1. recorded' \subseteq Versions /\ effects' \in [Versions -> Nat]
    BY <1>13 DEF ServerCommit
  <2>2. lock' \in [Versions -> Migrators \cup {None}] /\ mode' \in [Versions -> Modes]
    BY <1>13 DEF ServerCommit
  <2>3. pc' \in [Migrators -> PC]
    BY <1>13 DEF ServerCommit
  <2>4. QED
    BY <1>13, <2>1, <2>2, <2>3 DEF ServerCommit
<1>14. ASSUME NEW v \in Versions, ServerAbort(v) PROVE TypeOK'
  BY <1>14 DEF ServerAbort
<1>15. QED
  BY <1>1, <1>2, <1>3, <1>4, <1>5, <1>6, <1>7, <1>8,
     <1>9, <1>10, <1>11, <1>12, <1>13, <1>14
     DEF Next, Step

(* A version whose key is held is not recorded, so committing it counts    *)
(* its UpSQL for the first time.                                           *)
LEMMA KeysPreserved ==
  TypeOK /\ ClientInv /\ AppliedOnce /\ KeyInv /\ [Next]_vars => (AppliedOnce /\ KeyInv)'
<1> SUFFICES ASSUME TypeOK, ClientInv, AppliedOnce, KeyInv, [Next]_vars
             PROVE  (AppliedOnce /\ KeyInv)'
  OBVIOUS
<1> USE NoneAssumption, ListAssumption, RetriesAssumption, CurrentVersion
    DEF TypeOK, PC, Modes, db, Goto, Release, ClientInv, AppliedOnce, KeyInv
<1>1. CASE Finished \/ UNCHANGED vars
  BY <1>1 DEF Finished, vars
<1>2. ASSUME NEW m \in Migrators, CreateTable(m) PROVE (AppliedOnce /\ KeyInv)'
  BY <1>2 DEF CreateTable
<1>3. ASSUME NEW m \in Migrators, CheckApplied(m) PROVE (AppliedOnce /\ KeyInv)'
  BY <1>3 DEF CheckApplied
<1>4. ASSUME NEW m \in Migrators, CheckMissing(m) PROVE (AppliedOnce /\ KeyInv)'
  BY <1>4 DEF CheckMissing
<1>5. ASSUME NEW m \in Migrators, Succeed(m) PROVE (AppliedOnce /\ KeyInv)'
  BY <1>5 DEF Succeed
<1>6. ASSUME NEW m \in Migrators, ExecuteUp(m) PROVE (AppliedOnce /\ KeyInv)'
  BY <1>6 DEF ExecuteUp
<1>7. ASSUME NEW m \in Migrators, Insert(m) PROVE (AppliedOnce /\ KeyInv)'
  BY <1>7 DEF Insert
<1>8. ASSUME NEW m \in Migrators, SendCommit(m) PROVE (AppliedOnce /\ KeyInv)'
  BY <1>8 DEF SendCommit
<1>9. ASSUME NEW m \in Migrators, Committed(m) PROVE (AppliedOnce /\ KeyInv)'
  BY <1>9 DEF Committed
<1>10. ASSUME NEW m \in Migrators, Retry(m) PROVE (AppliedOnce /\ KeyInv)'
  BY <1>10 DEF Retry
<1>11. ASSUME NEW m \in Migrators, GiveUp(m) PROVE (AppliedOnce /\ KeyInv)'
  BY <1>11 DEF GiveUp
<1>12. ASSUME NEW m \in Migrators, Fail(m) PROVE (AppliedOnce /\ KeyInv)'
  BY <1>12 DEF Fail
<1>13. ASSUME NEW v \in Versions, ServerCommit(v) PROVE (AppliedOnce /\ KeyInv)'
  BY <1>13 DEF ServerCommit
<1>14. ASSUME NEW v \in Versions, ServerAbort(v) PROVE (AppliedOnce /\ KeyInv)'
  BY <1>14 DEF ServerAbort
<1>15. QED
  BY <1>1, <1>2, <1>3, <1>4, <1>5, <1>6, <1>7, <1>8,
     <1>9, <1>10, <1>11, <1>12, <1>13, <1>14
     DEF Next, Step

(* Keys and callers agree on who is committing what.                       *)
LEMMA ClientPreserved ==
  TypeOK /\ KeyInv /\ ClientInv /\ [Next]_vars => ClientInv'
<1> SUFFICES ASSUME TypeOK, KeyInv, ClientInv, [Next]_vars
             PROVE  ClientInv'
  OBVIOUS
<1> USE NoneAssumption, ListAssumption, RetriesAssumption, CurrentVersion
    DEF TypeOK, PC, Modes, db, Goto, Release, KeyInv, ClientInv,
        InList, Current
<1>1. CASE Finished \/ UNCHANGED vars
  BY <1>1 DEF Finished, vars
<1>2. ASSUME NEW m \in Migrators, CreateTable(m) PROVE ClientInv'
  BY <1>2 DEF CreateTable
<1>3. ASSUME NEW m \in Migrators, CheckApplied(m) PROVE ClientInv'
  BY <1>3 DEF CheckApplied
<1>4. ASSUME NEW m \in Migrators, CheckMissing(m) PROVE ClientInv'
  BY <1>4 DEF CheckMissing
<1>5. ASSUME NEW m \in Migrators, Succeed(m) PROVE ClientInv'
  BY <1>5 DEF Succeed
<1>6. ASSUME NEW m \in Migrators, ExecuteUp(m) PROVE ClientInv'
  BY <1>6 DEF ExecuteUp
<1>7. ASSUME NEW m \in Migrators, Insert(m) PROVE ClientInv'
  <2>1. Current(m) \in Versions /\ InList(m)
    BY <1>7 DEF Insert
  <2>2. CASE Current(m) \in recorded
    <3>1. /\ pc' = [pc EXCEPT ![m] = "failed"] /\ pc[m] = "insert"
          /\ UNCHANGED <<lock, mode, idx>>
      BY <1>7, <2>2 DEF Insert
    <3>2. \A n \in Migrators : Current(n)' = Current(n) /\ InList(n)' = InList(n)
      BY <3>1
    <3>3. \A n \in Migrators : pc'[n] = pc[n] \/ (n = m /\ pc'[n] = "failed")
      BY <3>1
    <3>4. \A u \in Versions : mode[u] \in {"open", "sent"} =>
            lock[u] \in Migrators /\ lock[u] # m
      BY <3>1
    <3> HIDE DEF Current, InList
    <3> QED BY <3>1, <3>2, <3>3, <3>4
  <2>3. CASE Current(m) \notin recorded
    <3> DEFINE w == Current(m)
    <3>1. /\ lock' = [lock EXCEPT ![w] = m]
          /\ mode' = [mode EXCEPT ![w] = "open"]
          /\ pc' = [pc EXCEPT ![m] = "commit"]
          /\ UNCHANGED idx
          /\ lock[w] = None
          /\ pc[m] = "insert"
      BY <1>7, <2>3 DEF Insert
    <3>2. \A n \in Migrators : Current(n)' = Current(n) /\ InList(n)' = InList(n)
      BY <3>1
    <3>3. w \in Versions
      BY <2>1
    <3>4. \A n \in Migrators : pc[n] \in {"commit", "await"} =>
            Current(n) # w /\ Current(n) \in Versions
      BY <3>1, <3>3
    <3>5. \A u \in Versions : mode[u] \in {"open", "sent"} => lock[u] # m /\ u # w
      BY <3>1
    <3> HIDE DEF w, Current, InList
    <3>6. \A n \in Migrators : n # m =>
            /\ pc'[n] = pc[n]
            /\ pc[n] \in {"commit", "await"} =>
                 lock'[Current(n)] = lock[Current(n)] /\ mode'[Current(n)] = mode[Current(n)]
      BY <3>1, <3>3, <3>4
    <3>7. \A u \in Versions : u # w => lock'[u] = lock[u] /\ mode'[u] = mode[u]
      BY <3>1, <3>3
    <3>8. w = Current(m)
      BY DEF w
    <3>9. lock'[w] = m /\ mode'[w] = "open" /\ pc'[m] = "commit"
      BY <3>1, <3>3
    <3>10. ASSUME NEW n \in Migrators
           PROVE  /\ (pc[n] \in {"up", "insert", "commit", "await", "acked"} => InList(n))'
                  /\ (pc[n] = "commit" => lock[Current(n)] = n /\ mode[Current(n)] = "open")'
                  /\ (pc[n] = "await" => lock[Current(n)] = n /\ mode[Current(n)] = "sent")'
      BY <2>1, <3>2, <3>6, <3>8, <3>9
    <3>11. ASSUME NEW u \in Versions
           PROVE  /\ (mode[u] = "open" => pc[lock[u]] = "commit" /\ Current(lock[u]) = u)'
                  /\ (mode[u] = "sent" => pc[lock[u]] = "await" /\ Current(lock[u]) = u)'
      <4>1. CASE u = w
        <5>1. Current(lock[u])' = Current(m)
          BY <3>2, <3>9, <4>1 DEF Current
        <5>2. QED
          BY <3>8, <3>9, <4>1, <5>1
      <4>2. CASE u # w
        <5>1. mode[u] \in {"open", "sent"} => lock[u] \in Migrators \ {m}
          BY <3>5
        <5>2. lock'[u] = lock[u] /\ mode'[u] = mode[u]
          BY <3>7, <4>2
        <5>3. Current(lock[u])' = Current(lock[u])
          BY <3>1, <5>2 DEF Current
        <5>4. QED
          BY <3>6, <5>1, <5>2, <5>3
      <4>3. QED
        BY <4>1, <4>2
    <3>12. QED
      BY <3>10, <3>11
  <2>4. QED
    BY <2>2, <2>3
<1>8. ASSUME NEW m \in Migrators, SendCommit(m) PROVE ClientInv'
  BY <1>8 DEF SendCommit
<1>9. ASSUME NEW m \in Migrators, Committed(m) PROVE ClientInv'
  BY <1>9 DEF Committed
<1>10. ASSUME NEW m \in Migrators, Retry(m) PROVE ClientInv'
  BY <1>10 DEF Retry
<1>11. ASSUME NEW m \in Migrators, GiveUp(m) PROVE ClientInv'
  BY <1>11 DEF GiveUp
<1>12. ASSUME NEW m \in Migrators, Fail(m) PROVE ClientInv'
  BY <1>12 DEF Fail
<1>13. ASSUME NEW v \in Versions, ServerCommit(v) PROVE ClientInv'
  BY <1>13 DEF ServerCommit
<1>14. ASSUME NEW v \in Versions, ServerAbort(v) PROVE ClientInv'
  BY <1>14 DEF ServerAbort
<1>15. QED
  BY <1>1, <1>2, <1>3, <1>4, <1>5, <1>6, <1>7, <1>8,
     <1>9, <1>10, <1>11, <1>12, <1>13, <1>14
     DEF Next, Step

(* The loop passes a version only once it is recorded.                     *)
LEMMA PassedPreserved ==
  TypeOK /\ ClientInv /\ PassedInv /\ [Next]_vars => PassedInv'
<1> SUFFICES ASSUME TypeOK, ClientInv, PassedInv, [Next]_vars
             PROVE  PassedInv'
  OBVIOUS
<1> USE NoneAssumption, ListAssumption, RetriesAssumption, CurrentVersion
    DEF TypeOK, PC, Modes, db, Goto, Release, ClientInv, PassedInv,
        InList, Current
<1>1. CASE Finished \/ UNCHANGED vars
  BY <1>1 DEF Finished, vars
<1>2. ASSUME NEW m \in Migrators, CreateTable(m) PROVE PassedInv'
  BY <1>2 DEF CreateTable
<1>3. ASSUME NEW m \in Migrators, CheckApplied(m) PROVE PassedInv'
  BY <1>3 DEF CheckApplied
<1>4. ASSUME NEW m \in Migrators, CheckMissing(m) PROVE PassedInv'
  BY <1>4 DEF CheckMissing
<1>5. ASSUME NEW m \in Migrators, Succeed(m) PROVE PassedInv'
  BY <1>5 DEF Succeed
<1>6. ASSUME NEW m \in Migrators, ExecuteUp(m) PROVE PassedInv'
  BY <1>6 DEF ExecuteUp
<1>7. ASSUME NEW m \in Migrators, Insert(m) PROVE PassedInv'
  BY <1>7 DEF Insert
<1>8. ASSUME NEW m \in Migrators, SendCommit(m) PROVE PassedInv'
  BY <1>8 DEF SendCommit
<1>9. ASSUME NEW m \in Migrators, Committed(m) PROVE PassedInv'
  BY <1>9 DEF Committed
<1>10. ASSUME NEW m \in Migrators, Retry(m) PROVE PassedInv'
  BY <1>10 DEF Retry
<1>11. ASSUME NEW m \in Migrators, GiveUp(m) PROVE PassedInv'
  BY <1>11 DEF GiveUp
<1>12. ASSUME NEW m \in Migrators, Fail(m) PROVE PassedInv'
  BY <1>12 DEF Fail
<1>13. ASSUME NEW v \in Versions, ServerCommit(v) PROVE PassedInv'
  BY <1>13 DEF ServerCommit
<1>14. ASSUME NEW v \in Versions, ServerAbort(v) PROVE PassedInv'
  BY <1>14 DEF ServerAbort
<1>15. QED
  BY <1>1, <1>2, <1>3, <1>4, <1>5, <1>6, <1>7, <1>8,
     <1>9, <1>10, <1>11, <1>12, <1>13, <1>14
     DEF Next, Step

(* What is recorded stays recorded, so a version that is ready stays so.   *)
LEMMA ReadyStable ==
  ASSUME recorded \subseteq recorded', NEW m, NEW v, Ready(m, v)
  PROVE  Ready(m, v)'
  BY DEF Ready

(* A version is inserted only behind versions that are recorded.           *)
LEMMA OrderPreserved ==
  TypeOK /\ KeyInv /\ ClientInv /\ PassedInv /\ OrderInv /\ [Next]_vars => OrderInv'
<1> SUFFICES ASSUME TypeOK, KeyInv, ClientInv, PassedInv, OrderInv, [Next]_vars
             PROVE  OrderInv'
  OBVIOUS
<1> USE NoneAssumption, ListAssumption, CurrentVersion
    DEF TypeOK, db, Goto, Release, OrderInv
<1>r. recorded \subseteq recorded' =>
        \A n, w : Ready(n, w) => Ready(n, w)'
  BY ReadyStable
<1>1. CASE Finished \/ UNCHANGED vars
  BY <1>1, <1>r DEF Finished, vars
<1>2. ASSUME NEW m \in Migrators, CreateTable(m) PROVE OrderInv'
  BY <1>2, <1>r DEF CreateTable
<1>3. ASSUME NEW m \in Migrators, CheckApplied(m) PROVE OrderInv'
  BY <1>3, <1>r DEF CheckApplied
<1>4. ASSUME NEW m \in Migrators, CheckMissing(m) PROVE OrderInv'
  BY <1>4, <1>r DEF CheckMissing
<1>5. ASSUME NEW m \in Migrators, Succeed(m) PROVE OrderInv'
  BY <1>5, <1>r DEF Succeed
<1>6. ASSUME NEW m \in Migrators, ExecuteUp(m) PROVE OrderInv'
  BY <1>6, <1>r DEF ExecuteUp
<1>7. ASSUME NEW m \in Migrators, Insert(m) PROVE OrderInv'
  <2>1. InList(m) /\ Current(m) \in Versions
    BY <1>7 DEF Insert, ClientInv
  <2>2. Ready(m, Current(m))
    <3>1. idx[m] \in 1 .. Len(List[m]) /\ Len(List[m]) \in Nat
      BY <2>1
    <3>2. \A j \in 1 .. idx[m] - 1 : List[m][j] \in recorded
      <4> SUFFICES ASSUME NEW j \in 1 .. idx[m] - 1
                   PROVE  List[m][j] \in recorded
        OBVIOUS
      <4>1. j \in 1 .. Len(List[m]) /\ j < idx[m]
        BY <3>1
      <4>2. QED
        BY <4>1 DEF PassedInv
    <3>3. List[m][idx[m]] = Current(m)
      BY DEF Current
    <3>4. QED
      BY <3>1, <3>2, <3>3 DEF Ready
  <2>3. CASE Current(m) \in recorded
    BY <1>7, <1>r, <2>3 DEF Insert
  <2>4. CASE Current(m) \notin recorded
    <3>1. UNCHANGED recorded /\ lock' = [lock EXCEPT ![Current(m)] = m]
      BY <1>7, <2>4 DEF Insert
    <3>2. QED
      BY <1>r, <2>1, <2>2, <3>1
  <2>5. QED
    BY <2>3, <2>4
<1>8. ASSUME NEW m \in Migrators, SendCommit(m) PROVE OrderInv'
  BY <1>8, <1>r DEF SendCommit
<1>9. ASSUME NEW m \in Migrators, Committed(m) PROVE OrderInv'
  BY <1>9, <1>r DEF Committed
<1>10. ASSUME NEW m \in Migrators, Retry(m) PROVE OrderInv'
  BY <1>10, <1>r DEF Retry
<1>11. ASSUME NEW m \in Migrators, GiveUp(m) PROVE OrderInv'
  BY <1>11, <1>r DEF GiveUp
<1>12. ASSUME NEW m \in Migrators, Fail(m) PROVE OrderInv'
  BY <1>12, <1>r DEF Fail
<1>13. ASSUME NEW v \in Versions, ServerCommit(v) PROVE OrderInv'
  <2>1. lock[v] \in Migrators /\ Ready(lock[v], v)
    BY <1>13 DEF ServerCommit, KeyInv
  <2>2. recorded' = recorded \cup {v} /\ lock' = [lock EXCEPT ![v] = None]
    BY <1>13 DEF ServerCommit
  <2>3. \A w \in recorded' : \E n \in Migrators : Ready(n, w)'
    BY <1>r, <2>1, <2>2
  <2>4. \A w \in Versions : lock'[w] # None => Ready(lock[w], w)'
    BY <1>r, <2>2
  <2>5. QED
    BY <2>3, <2>4
<1>14. ASSUME NEW v \in Versions, ServerAbort(v) PROVE OrderInv'
  BY <1>14, <1>r DEF ServerAbort
<1>15. QED
  BY <1>1, <1>2, <1>3, <1>4, <1>5, <1>6, <1>7, <1>8,
     <1>9, <1>10, <1>11, <1>12, <1>13, <1>14
     DEF Next, Step

(* The invariant holds in every reachable state.                           *)
THEOREM Inductive == Spec => []IInv
<1>1. Init => IInv
  BY ListAssumption, NoneAssumption
     DEF Init, IInv, TypeOK, PC, Modes, AppliedOnce, KeyInv, ClientInv,
         PassedInv, OrderInv
<1>2. IInv /\ [Next]_vars => IInv'
  BY TypePreserved, KeysPreserved, ClientPreserved, PassedPreserved,
     OrderPreserved DEF IInv
<1>3. QED
  BY <1>1, <1>2, PTL DEF Spec

(* Type correctness.                                                       *)
THEOREM TypeCorrect == Spec => []TypeOK
<1>1. IInv => TypeOK
  BY DEF IInv
<1>2. QED
  BY <1>1, Inductive, PTL

(* Every migration takes effect at most once, exactly if it is recorded.   *)
THEOREM Idempotent == Spec => []AppliedOnce
<1>1. IInv => AppliedOnce
  BY DEF IInv
<1>2. QED
  BY <1>1, Inductive, PTL

(* Migrations take effect in the order of a caller's list.                 *)
THEOREM Ordered == Spec => []AppliedInOrder
<1>1. IInv => AppliedInOrder
  BY DEF IInv, OrderInv, Ready, AppliedInOrder
<1>2. QED
  BY <1>1, Inductive, PTL

(* A Migrate that succeeds has applied its whole list.                     *)
THEOREM SuccessIsComplete == Spec => []SuccessMeansApplied
<1>1. IInv => SuccessMeansApplied
  BY ListAssumption
     DEF IInv, TypeOK, PassedInv, InList, SuccessMeansApplied
<1>2. QED
  BY <1>1, Inductive, PTL

-----------------------------------------------------------------------------
(* However the releases of a service migrate one database at once, fail    *)
(* and retry, the schema is always that of some beginning of their list:   *)
(* Migrate stops at its first error and a version is inserted only behind  *)
(* the ones before it.                                                     *)
THEOREM SchemaHasNoGap ==
  ASSUME NEW list, Releases(list)
  PROVE  Spec => []NoGap(list)
<1>1. ASSUME IInv PROVE NoGap(list)
  <2>1. ASSUME NEW v \in recorded
        PROVE  \E i \in 1 .. Len(list) :
                 list[i] = v /\ \A j \in 1 .. i - 1 : list[j] \in recorded
    <3>1. PICK m \in Migrators : Ready(m, v)
      BY <1>1 DEF IInv, OrderInv
    <3>2. PICK i \in 1 .. Len(List[m]) :
            List[m][i] = v /\ \A j \in 1 .. i - 1 : List[m][j] \in recorded
      BY <3>1 DEF Ready
    <3>3. Len(List[m]) \in Nat /\ Len(list) \in Nat
      BY ListAssumption DEF Releases
    <3>4. i \in 1 .. Len(list) /\ list[i] = v
      BY <3>2, <3>3 DEF Releases
    <3>5. \A j \in 1 .. i - 1 : j \in 1 .. Len(List[m]) /\ List[m][j] = list[j]
      BY <3>3 DEF Releases
    <3>6. QED
      BY <3>2, <3>4, <3>5
  <2>2. \A v \in recorded : \E i \in 1 .. Len(list) : list[i] = v
    BY <2>1
  <2>3. ASSUME NEW i \in 1 .. Len(list), list[i] \in recorded
        PROVE  \A j \in 1 .. i - 1 : list[j] \in recorded
    <3>1. PICK k \in 1 .. Len(list) :
            list[k] = list[i] /\ \A j \in 1 .. k - 1 : list[j] \in recorded
      BY <2>1, <2>3
    <3>2. k = i
      BY <3>1 DEF Releases
    <3>3. QED
      BY <3>1, <3>2
  <2>4. QED
    BY <2>2, <2>3 DEF NoGap
<1>2. IInv => NoGap(list)
  BY <1>1
<1>3. QED
  BY <1>2, Inductive, PTL
=============================================================================
