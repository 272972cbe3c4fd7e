------------------------ MODULE RustResilienceProofs ------------------------
(***************************************************************************)
(* Proofs about RustResilience, for any set of tasks, any configuration    *)
(* and any number of calls.                                                *)
(***************************************************************************)
EXTENDS RustResilience, TLAPS

(* The state variables keep their types.                                   *)
LEMMA TypePreserved == TypeOK /\ [Next]_vars => TypeOK'
<1> SUFFICES ASSUME TypeOK, [Next]_vars PROVE TypeOK'
  OBVIOUS
<1> USE DEF TypeOK, PC, Await, stLock, ltLock, cells, metrics, locals, Goto,
            WriteState, ReadState, WriteLast, ReadLast, FreeState, FreeLast
<1>1. CASE TimePasses
  BY <1>1 DEF TimePasses
<1>2. CASE Finished \/ UNCHANGED vars
  BY <1>2 DEF Finished, vars
<1>3. ASSUME NEW t \in Tasks, Call(t) PROVE TypeOK'
  BY <1>3 DEF Call
<1>4. ASSUME NEW t \in Tasks, Drop(t) PROVE TypeOK'
  BY <1>4 DEF Drop
<1>5. ASSUME NEW t \in Tasks, Acquire(t) PROVE TypeOK'
  BY <1>5 DEF Acquire, CanLockState, CanLockTime, SucLockState, FailLockTime,
              FailLockState, CodeLockState
<1>6. ASSUME NEW t \in Tasks, Run(t) PROVE TypeOK'
  <2>1. CASE Admit(t) \/ SeeOpen(t) \/ Probe(t) \/ Reject(t)
    BY <2>1 DEF Admit, SeeOpen, Probe, Reject
  <2>2. CASE RunOk(t) \/ RunErr(t)
    BY <2>2 DEF RunOk, RunErr
  <2>3. CASE StoreZero(t) \/ SetClosed(t)
    BY <2>3 DEF StoreZero, SetClosed
  <2>4. CASE FetchAdd(t) \/ Stamp(t) \/ SetOpen(t)
    BY <2>4 DEF FetchAdd, Stamp, SetOpen
  <2>5. CASE ReadCode(t) \/ SetGauge(t)
    BY <2>5 DEF ReadCode, SetGauge
  <2>6. CASE Return(t) \/ CountRetry(t) \/ BackoffElapsed(t)
    BY <2>6 DEF Return, CountRetry, BackoffElapsed
  <2>7. QED
    BY <1>6, <2>1, <2>2, <2>3, <2>4, <2>5, <2>6 DEF Run
<1>7. QED
  BY <1>1, <1>2, <1>3, <1>4, <1>5, <1>6 DEF Next

(* The guards each task holds on the two locks are those its place in the  *)
(* code says, and a writer excludes everyone else.                         *)
LEMMA LocksPreserved == TypeOK /\ LockInv /\ [Next]_vars => LockInv'
<1> SUFFICES ASSUME TypeOK, LockInv, [Next]_vars PROVE LockInv'
  OBVIOUS
<1> USE TasksAssumption
    DEF TypeOK, PC, Await, LockInv, StateHeld, LastHeld,
        stLock, ltLock, cells, metrics, locals, Goto,
        WriteState, ReadState, WriteLast, ReadLast, FreeState, FreeLast
<1>1. CASE TimePasses
  BY <1>1 DEF TimePasses
<1>2. CASE Finished \/ UNCHANGED vars
  BY <1>2 DEF Finished, vars
<1>3. ASSUME NEW t \in Tasks, Call(t) PROVE LockInv'
  BY <1>3 DEF Call
<1>4. ASSUME NEW t \in Tasks, Drop(t) PROVE LockInv'
  BY <1>4 DEF Drop
<1>5. ASSUME NEW t \in Tasks, Acquire(t) PROVE LockInv'
  <2>1. CASE CanLockState(t)
    BY <2>1 DEF CanLockState
  <2>2. CASE CanLockTime(t)
    BY <2>2 DEF CanLockTime
  <2>3. CASE SucLockState(t)
    BY <2>3 DEF SucLockState
  <2>4. CASE FailLockTime(t)
    BY <2>4 DEF FailLockTime
  <2>5. CASE FailLockState(t)
    BY <2>5 DEF FailLockState
  <2>6. CASE CodeLockState(t)
    BY <2>6 DEF CodeLockState
  <2>7. QED
    BY <1>5, <2>1, <2>2, <2>3, <2>4, <2>5, <2>6 DEF Acquire
<1>6. ASSUME NEW t \in Tasks, Run(t) PROVE LockInv'
  <2>1. CASE Admit(t) \/ SeeOpen(t)
    BY <2>1 DEF Admit, SeeOpen
  <2>2. CASE Probe(t) \/ Reject(t)
    BY <2>2 DEF Probe, Reject
  <2>3. CASE RunOk(t) \/ RunErr(t)
    BY <2>3 DEF RunOk, RunErr
  <2>4. CASE StoreZero(t) \/ SetClosed(t)
    BY <2>4 DEF StoreZero, SetClosed
  <2>5. CASE FetchAdd(t) \/ Stamp(t)
    BY <2>5 DEF FetchAdd, Stamp
  <2>6. CASE SetOpen(t)
    BY <2>6 DEF SetOpen
  <2>7. CASE ReadCode(t) \/ SetGauge(t)
    BY <2>7 DEF ReadCode, SetGauge
  <2>8. CASE Return(t) \/ CountRetry(t) \/ BackoffElapsed(t)
    BY <2>8 DEF Return, CountRetry, BackoffElapsed
  <2>9. QED
    BY <1>6, <2>1, <2>2, <2>3, <2>4, <2>5, <2>6, <2>7, <2>8 DEF Run
<1>7. QED
  BY <1>1, <1>2, <1>3, <1>4, <1>5, <1>6 DEF Next

(* The failure time is written before the circuit opens, and stays.        *)
LEMMA TimePreserved == TypeOK /\ TimeInv /\ [Next]_vars => TimeInv'
<1> SUFFICES ASSUME TypeOK, TimeInv, [Next]_vars PROVE TimeInv'
  OBVIOUS
<1> USE DEF TypeOK, PC, TimeInv, OpenHasTimestamp,
            stLock, ltLock, cells, metrics, locals, Goto
<1>1. CASE TimePasses
  BY <1>1 DEF TimePasses
<1>2. CASE Finished \/ UNCHANGED vars
  BY <1>2 DEF Finished, vars
<1>3. ASSUME NEW t \in Tasks, Call(t) \/ Drop(t) PROVE TimeInv'
  BY <1>3 DEF Call, Drop
<1>4. ASSUME NEW t \in Tasks, Acquire(t) PROVE TimeInv'
  BY <1>4 DEF Acquire, CanLockState, CanLockTime, SucLockState, FailLockTime,
              FailLockState, CodeLockState
<1>5. ASSUME NEW t \in Tasks, Run(t) PROVE TimeInv'
  <2>1. CASE Admit(t) \/ SeeOpen(t) \/ Probe(t) \/ Reject(t)
    BY <2>1 DEF Admit, SeeOpen, Probe, Reject
  <2>2. CASE RunOk(t) \/ RunErr(t) \/ StoreZero(t) \/ SetClosed(t)
    BY <2>2 DEF RunOk, RunErr, StoreZero, SetClosed
  <2>3. CASE FetchAdd(t) \/ Stamp(t) \/ SetOpen(t)
    BY <2>3 DEF FetchAdd, Stamp, SetOpen
  <2>4. CASE ReadCode(t) \/ SetGauge(t) \/ Return(t) \/ CountRetry(t)
             \/ BackoffElapsed(t)
    BY <2>4 DEF ReadCode, SetGauge, Return, CountRetry, BackoffElapsed
  <2>5. QED
    BY <1>5, <2>1, <2>2, <2>3, <2>4 DEF Run
<1>6. QED
  BY <1>1, <1>2, <1>3, <1>4, <1>5 DEF Next

(* The on_failure that took the counter to the threshold stays on its way  *)
(* to SetOpen until the state lock is its own, and then no on_success is   *)
(* between its reset and its close; or its future is dropped.              *)
LEMMA CounterPreserved ==
  TypeOK /\ LockInv /\ CounterInv /\ [Next]_vars => CounterInv'
<1> SUFFICES ASSUME TypeOK, LockInv, CounterInv, [Next]_vars,
                    (state = "closed" \/ Closing)',
                    failures' > 0, failures' >= Threshold,
                    abandoned' = {}
             PROVE  \E t \in Tasks : WillOpen(t)'
  BY DEF CounterInv
<1> USE CfgAssumption DEF TypeOK, stLock, ltLock, cells, metrics, locals, Goto
<1>1. ASSUME NEW t \in Tasks, FetchAdd(t)
      PROVE  WillOpen(t)'
  BY <1>1 DEF FetchAdd, WillOpen
<1>2. ASSUME NEW t \in Tasks, StoreZero(t)
      PROVE  FALSE
  BY <1>2 DEF StoreZero
<1>3. ASSUME NEW t \in Tasks, SetOpen(t)
      PROVE  FALSE
  <2>1. \A u \in Tasks : pc[u] # "sucClose"
    BY <1>3 DEF SetOpen, LockInv, StateHeld
  <2>2. \A u \in Tasks : pc'[u] # "sucClose"
    BY <1>3, <2>1 DEF SetOpen
  <2>3. QED
    BY <1>3, <2>2 DEF SetOpen, Closing
<1>4. ASSUME NEW t \in Tasks, Drop(t)
      PROVE  \E u \in Tasks : WillOpen(u)'
  <2>1. state = "closed" \/ Closing
    BY <1>4 DEF Drop, Closing, Await
  <2>2. abandoned = {} /\ ~WillOpen(t)
    BY <1>4 DEF Drop
  <2>3. PICK u \in Tasks : WillOpen(u)
    BY <1>4, <2>1, <2>2 DEF Drop, CounterInv
  <2>4. u # t
    BY <2>2, <2>3
  <2>5. pc'[u] = pc[u] /\ seen' = seen
    BY <1>4, <2>4 DEF Drop
  <2>6. QED
    BY <2>3, <2>5 DEF WillOpen
<1>5. CASE \A t \in Tasks : ~(FetchAdd(t) \/ StoreZero(t) \/ SetOpen(t) \/ Drop(t))
  <2>1. failures' = failures /\ seen' = seen /\ abandoned' = abandoned
    BY <1>5
       DEF Next, TimePasses, Finished, vars, Call, Acquire, Run,
           CanLockState, CanLockTime, SucLockState, FailLockTime,
           FailLockState, CodeLockState, Admit, SeeOpen, Probe, Reject,
           RunOk, RunErr, SetClosed, Stamp, ReadCode, SetGauge, Return,
           CountRetry, BackoffElapsed
  <2>2. state = "closed" \/ Closing
    BY <1>5
       DEF Next, TimePasses, Finished, vars, Call, Acquire, Run,
           CanLockState, CanLockTime, SucLockState, FailLockTime,
           FailLockState, CodeLockState, Admit, SeeOpen, Probe, Reject,
           RunOk, RunErr, SetClosed, Stamp, ReadCode, SetGauge, Return,
           CountRetry, BackoffElapsed, Closing
  <2>3. PICK t \in Tasks : WillOpen(t)
    BY <2>1, <2>2 DEF CounterInv
  <2>4. pc'[t] \in {"failTime", "failStamp", "failState", "failOpen"}
    BY <1>5, <2>3
       DEF Next, TimePasses, Finished, vars, Call, Acquire, Run,
           CanLockState, CanLockTime, SucLockState, FailLockTime,
           FailLockState, CodeLockState, Admit, SeeOpen, Probe, Reject,
           RunOk, RunErr, SetClosed, Stamp, ReadCode, SetGauge, Return,
           CountRetry, BackoffElapsed, WillOpen
  <2>5. QED
    BY <2>1, <2>3, <2>4 DEF WillOpen
<1>6. QED
  BY <1>1, <1>2, <1>3, <1>4, <1>5

-----------------------------------------------------------------------------
(* Type correctness.                                                       *)
THEOREM TypeCorrect == Spec => []TypeOK
<1>1. Init => TypeOK
  BY DEF Init, TypeOK, PC
<1>2. QED
  BY <1>1, TypePreserved, PTL DEF Spec

(* An open circuit always has a failure time, dropped futures or not, so   *)
(* can_execute can half-open it.                                           *)
THEOREM OpenIsStamped == Spec => []OpenHasTimestamp
<1>1. Init => TimeInv
  BY DEF Init, TimeInv, OpenHasTimestamp
<1>2. TimeInv => OpenHasTimestamp
  BY DEF TimeInv
<1>3. QED
  BY <1>1, <1>2, TypeCorrect, TimePreserved, PTL DEF Spec

(* The circuit is never left closed with the counter at the threshold,     *)
(* unless the future that was to open it has been dropped.                 *)
THEOREM NeverLeftClosed == Spec => []NotLeftClosed
<1>1. Init => LockInv /\ CounterInv
  BY TasksAssumption
     DEF Init, LockInv, StateHeld, LastHeld, CounterInv, Closing
<1>2. TypeOK /\ LockInv /\ CounterInv /\ [Next]_vars => LockInv' /\ CounterInv'
  BY LocksPreserved, CounterPreserved
<1>3. CounterInv => NotLeftClosed
  BY DEF CounterInv, NotLeftClosed
<1>4. QED
  BY <1>1, <1>2, <1>3, TypeCorrect, PTL DEF Spec
=============================================================================
