------------------------- MODULE GoResilienceProofs -------------------------
(***************************************************************************)
(* Proofs about GoResilience, for any set of goroutines, any configuration *)
(* and any number of calls.                                                *)
(***************************************************************************)
EXTENDS GoResilience, TLAPS

(* NewResilientExecutor never leaves a threshold or a retry count that is  *)
(* not positive, whatever the configuration says.                          *)
LEMMA Defaults == Threshold \in Nat \ {0} /\ MaxRetries \in Nat \ {0}
  BY CfgAssumption DEF Threshold, MaxRetries, OrDefault

(* The state variables keep their types.                                   *)
LEMMA TypePreserved == TypeOK /\ [Next]_vars => TypeOK'
<1> SUFFICES ASSUME TypeOK, [Next]_vars PROVE TypeOK'
  OBVIOUS
<1> USE DEF TypeOK, PC, breaker, mu, metrics, locals, Goto,
            Lock, Unlock, RLock, RUnlock
<1>1. CASE TimePasses
  BY <1>1 DEF TimePasses
<1>2. CASE Finished
  BY <1>2 DEF Finished, vars
<1>3. CASE UNCHANGED vars
  BY <1>3 DEF vars
<1>4. ASSUME NEW t \in Tasks, Call(t) PROVE TypeOK'
  BY <1>4 DEF Call
<1>5. ASSUME NEW t \in Tasks, CancelCtx(t) PROVE TypeOK'
  BY <1>5 DEF CancelCtx
<1>6. ASSUME NEW t \in Tasks, Acquire(t) PROVE TypeOK'
  BY <1>6 DEF Acquire, LockCanExecute, LockOnSuccess, LockOnFailure,
              RLockStateCode
<1>7. ASSUME NEW t \in Tasks, Run(t) PROVE TypeOK'
  <2>1. CASE Admit(t) \/ Probe(t) \/ Reject(t)
    BY <2>1 DEF Admit, Probe, Reject
  <2>2. CASE RunOk(t) \/ RunErr(t)
    BY <2>2 DEF RunOk, RunErr
  <2>3. CASE StoreZero(t) \/ SetClosed(t)
    BY <2>3 DEF StoreZero, SetClosed
  <2>4. CASE StampFailure(t) \/ AddFailure(t) \/ SetOpenAtThreshold(t)
    BY <2>4 DEF StampFailure, AddFailure, SetOpenAtThreshold
  <2>5. CASE ReadStateCode(t) \/ SetGauge(t)
    BY <2>5 DEF ReadStateCode, SetGauge
  <2>6. CASE Return(t) \/ CountRetry(t)
    BY <2>6 DEF Return, CountRetry
  <2>7. CASE BackoffElapsed(t) \/ BackoffCancelled(t)
    BY <2>7 DEF BackoffElapsed, BackoffCancelled
  <2>8. QED
    BY <1>7, <2>1, <2>2, <2>3, <2>4, <2>5, <2>6, <2>7 DEF Run
<1>8. QED
  BY <1>1, <1>2, <1>3, <1>4, <1>5, <1>6, <1>7 DEF Next

(* Init establishes the inductive invariant.                               *)
LEMMA InitInv == Init => IInv
  BY Defaults, TasksAssumption
     DEF Init, IInv, TypeOK, PC, MutexInv, CounterInv, Holding,
         HalfOpenHasTrial, InFlight

(* The lock discipline of cb.mu: the writer is the one goroutine inside a  *)
(* critical section, and readers never overlap with it.                    *)
LEMMA MutexPreserved == TypeOK /\ MutexInv /\ [Next]_vars => MutexInv'
<1> SUFFICES ASSUME TypeOK, MutexInv, [Next]_vars PROVE MutexInv'
  OBVIOUS
<1> USE TasksAssumption
    DEF TypeOK, PC, MutexInv, Holding, breaker, mu, metrics, locals, Goto,
        Lock, Unlock, RLock, RUnlock
<1>1. CASE TimePasses
  BY <1>1 DEF TimePasses
<1>2. CASE Finished
  BY <1>2 DEF Finished, vars
<1>3. CASE UNCHANGED vars
  BY <1>3 DEF vars
<1>4. ASSUME NEW t \in Tasks, Call(t) PROVE MutexInv'
  BY <1>4 DEF Call
<1>5. ASSUME NEW t \in Tasks, CancelCtx(t) PROVE MutexInv'
  BY <1>5 DEF CancelCtx
<1>6. ASSUME NEW t \in Tasks, Acquire(t) PROVE MutexInv'
  <2>1. CASE LockCanExecute(t)
    BY <2>1 DEF LockCanExecute
  <2>2. CASE LockOnSuccess(t)
    BY <2>2 DEF LockOnSuccess
  <2>3. CASE LockOnFailure(t)
    BY <2>3 DEF LockOnFailure
  <2>4. CASE RLockStateCode(t)
    BY <2>4 DEF RLockStateCode
  <2>5. QED
    BY <1>6, <2>1, <2>2, <2>3, <2>4 DEF Acquire
<1>7. ASSUME NEW t \in Tasks, Run(t) PROVE MutexInv'
  <2>1. CASE Admit(t) \/ Probe(t) \/ Reject(t)
    BY <2>1 DEF Admit, Probe, Reject
  <2>2. CASE RunOk(t) \/ RunErr(t)
    BY <2>2 DEF RunOk, RunErr
  <2>3. CASE StoreZero(t) \/ SetClosed(t)
    BY <2>3 DEF StoreZero, SetClosed
  <2>4. CASE StampFailure(t) \/ AddFailure(t) \/ SetOpenAtThreshold(t)
    BY <2>4 DEF StampFailure, AddFailure, SetOpenAtThreshold
  <2>5. CASE ReadStateCode(t) \/ SetGauge(t)
    BY <2>5 DEF ReadStateCode, SetGauge
  <2>6. CASE Return(t) \/ CountRetry(t)
    BY <2>6 DEF Return, CountRetry
  <2>7. CASE BackoffElapsed(t) \/ BackoffCancelled(t)
    BY <2>7 DEF BackoffElapsed, BackoffCancelled
  <2>8. QED
    BY <1>7, <2>1, <2>2, <2>3, <2>4, <2>5, <2>6, <2>7 DEF Run
<1>8. QED
  BY <1>1, <1>2, <1>3, <1>4, <1>5, <1>6, <1>7 DEF Next

(* Every step keeps the breaker's counter, state and failure time in step: *)
(* only the holder of the mutex touches them.                              *)
LEMMA CounterPreserved ==
  TypeOK /\ MutexInv /\ CounterInv /\ [Next]_vars => CounterInv'
<1> SUFFICES ASSUME TypeOK, MutexInv, CounterInv, [Next]_vars
             PROVE  CounterInv'
  OBVIOUS
<1> USE Defaults, TasksAssumption
    DEF TypeOK, PC, MutexInv, Holding, CounterInv,
        breaker, mu, metrics, locals, Goto, Lock, Unlock, RLock, RUnlock
<1>1. CASE TimePasses
  BY <1>1 DEF TimePasses
<1>2. CASE Finished
  BY <1>2 DEF Finished, vars
<1>3. CASE UNCHANGED vars
  BY <1>3 DEF vars
<1>4. ASSUME NEW t \in Tasks, Call(t) PROVE CounterInv'
  BY <1>4 DEF Call
<1>5. ASSUME NEW t \in Tasks, CancelCtx(t) PROVE CounterInv'
  BY <1>5 DEF CancelCtx
<1>6. ASSUME NEW t \in Tasks, Acquire(t) PROVE CounterInv'
  <2>1. CASE LockCanExecute(t)
    BY <2>1 DEF LockCanExecute
  <2>2. CASE LockOnSuccess(t)
    BY <2>2 DEF LockOnSuccess
  <2>3. CASE LockOnFailure(t)
    BY <2>3 DEF LockOnFailure
  <2>4. CASE RLockStateCode(t)
    BY <2>4 DEF RLockStateCode
  <2>5. QED
    BY <1>6, <2>1, <2>2, <2>3, <2>4 DEF Acquire
<1>7. ASSUME NEW t \in Tasks, Run(t) PROVE CounterInv'
  <2>1. CASE Admit(t)
    BY <2>1 DEF Admit
  <2>2. CASE Probe(t)
    BY <2>2 DEF Probe
  <2>3. CASE Reject(t)
    BY <2>3 DEF Reject
  <2>4. CASE RunOk(t) \/ RunErr(t)
    BY <2>4 DEF RunOk, RunErr
  <2>5. CASE StoreZero(t)
    BY <2>5 DEF StoreZero
  <2>6. CASE SetClosed(t)
    BY <2>6 DEF SetClosed
  <2>7. CASE StampFailure(t)
    BY <2>7 DEF StampFailure
  <2>8. CASE AddFailure(t)
    BY <2>8 DEF AddFailure
  <2>9. CASE SetOpenAtThreshold(t)
    BY <2>9 DEF SetOpenAtThreshold
  <2>10. CASE ReadStateCode(t) \/ SetGauge(t)
    BY <2>10 DEF ReadStateCode, SetGauge
  <2>11. CASE Return(t) \/ CountRetry(t)
    BY <2>11 DEF Return, CountRetry
  <2>12. CASE BackoffElapsed(t) \/ BackoffCancelled(t)
    BY <2>12 DEF BackoffElapsed, BackoffCancelled
  <2>13. QED
    BY <1>7, <2>1, <2>2, <2>3, <2>4, <2>5, <2>6, <2>7, <2>8, <2>9, <2>10,
       <2>11, <2>12 DEF Run
<1>8. QED
  BY <1>1, <1>2, <1>3, <1>4, <1>5, <1>6, <1>7 DEF Next

(* A trial leaves InFlight only through SetClosed or SetOpenAtThreshold,   *)
(* and both leave the circuit closed or open.                              *)
LEMMA TrialPreserved ==
  IInv /\ [Next]_vars => HalfOpenHasTrial'
<1> SUFFICES ASSUME IInv, [Next]_vars, state' = "half"
             PROVE  \E t \in Tasks : InFlight(t)'
  BY DEF HalfOpenHasTrial
<1> USE DEF IInv, TypeOK, PC, InFlight, breaker, mu, metrics, locals, Goto
<1>1. CASE state = "half" /\ \E t \in Tasks :
             SetClosed(t) \/ SetOpenAtThreshold(t)
  BY <1>1, Defaults
     DEF SetClosed, SetOpenAtThreshold, MutexInv, CounterInv, Holding
<1>2. CASE state = "half" /\ \A t \in Tasks :
             ~(SetClosed(t) \/ SetOpenAtThreshold(t))
  <2>1. PICK t \in Tasks : InFlight(t)
    BY <1>2 DEF HalfOpenHasTrial
  <2>2. InFlight(t)'
    BY <1>2, <2>1
       DEF Next, TimePasses, Finished, vars, Call, CancelCtx, Acquire, Run,
           LockCanExecute, LockOnSuccess, LockOnFailure, RLockStateCode,
           Admit, Probe, Reject, RunOk, RunErr, StoreZero, StampFailure,
           AddFailure, ReadStateCode, SetGauge, Return, CountRetry,
           BackoffElapsed, BackoffCancelled
  <2>3. QED
    BY <2>2
<1>3. CASE state # "half"
  <2>1. PICK t \in Tasks : Probe(t)
    BY <1>3
       DEF Next, TimePasses, Finished, vars, Call, CancelCtx, Acquire, Run,
           LockCanExecute, LockOnSuccess, LockOnFailure, RLockStateCode,
           Admit, Reject, RunOk, RunErr, StoreZero, SetClosed, StampFailure,
           AddFailure, SetOpenAtThreshold, ReadStateCode, SetGauge, Return,
           CountRetry, BackoffElapsed, BackoffCancelled
  <2>2. QED
    BY <2>1 DEF Probe
<1>4. QED
  BY <1>1, <1>2, <1>3

(* The invariant holds in every reachable state.                           *)
THEOREM Inductive == Spec => []IInv
<1>1. IInv /\ [Next]_vars => IInv'
  BY TypePreserved, MutexPreserved, CounterPreserved, TrialPreserved DEF IInv
<1>2. QED
  BY InitInv, <1>1, PTL DEF Spec

(* Type correctness.                                                       *)
THEOREM TypeCorrect == Spec => []TypeOK
<1>1. IInv => TypeOK
  BY DEF IInv
<1>2. QED
  BY <1>1, Inductive, PTL

(* A half-open circuit always has a trial whose outcome will decide it.    *)
THEOREM TrialUnderWay == Spec => []HalfOpenHasTrial
<1>1. IInv => HalfOpenHasTrial
  BY DEF IInv
<1>2. QED
  BY <1>1, Inductive, PTL

-----------------------------------------------------------------------------
(* A step that touches neither the breaker nor the critical sections that  *)
(* write it leaves the mapped breaker as it was.                           *)
LEMMA Stutters ==
  ASSUME TypeOK, UNCHANGED <<state, failures, last>>,
         NEW t \in Tasks, NEW l \in PC,
         pc' = [pc EXCEPT ![t] = l],
         pc[t] \notin {"sucClose", "failAdd", "failOpen"},
         l \notin {"sucClose", "failAdd", "failOpen"},
         UNCHANGED seen
  PROVE  UNCHANGED <<stateBar, streakBar, last>>
<1>1. \A m \in {"sucClose", "failAdd", "failOpen"}, u \in Tasks :
        pc'[u] = m <=> pc[u] = m
  BY DEF TypeOK
<1>2. At("sucClose")' = At("sucClose") /\ At("failAdd")' = At("failAdd")
  BY <1>1 DEF At
<1>3. OpensNow' = OpensNow
  BY <1>1, <1>2 DEF OpensNow
<1>4. QED
  BY <1>2, <1>3 DEF stateBar, streakBar

(* Each step of the goroutines is a step of the atomic breaker, or leaves  *)
(* it unchanged.                                                           *)
LEMMA StepRefines == IInv /\ [Next]_vars => [B!Next]_(B!vars)
<1> SUFFICES ASSUME IInv, [Next]_vars PROVE [B!Next]_(B!vars)
  OBVIOUS
<1> USE DEF B!vars
<1>a. TypeOK /\ MutexInv /\ CounterInv
  BY DEF IInv
<1>1. CASE TimePasses
  <2>1. UNCHANGED <<stateBar, streakBar>>
    BY <1>1 DEF TimePasses, locals, stateBar, streakBar, OpensNow, At
  <2>2. QED
    BY <1>1, <2>1 DEF TimePasses, B!Next, B!Expire
<1>2. CASE Finished \/ UNCHANGED vars
  BY <1>2 DEF Finished, vars, stateBar, streakBar, OpensNow, At
<1>3. ASSUME NEW t \in Tasks, Call(t) \/ CancelCtx(t) \/ Acquire(t)
      PROVE  [B!Next]_(B!vars)
  <2> USE DEF breaker, locals, Goto, PC
  <2>1. CASE Call(t)
    BY <1>a, <2>1, Stutters DEF Call
  <2>2. CASE CancelCtx(t)
    BY <2>2 DEF CancelCtx, stateBar, streakBar, OpensNow, At
  <2>3. CASE LockCanExecute(t)
    BY <1>a, <2>3, Stutters DEF LockCanExecute
  <2>4. CASE LockOnSuccess(t)
    BY <1>a, <2>4, Stutters DEF LockOnSuccess
  <2>5. CASE LockOnFailure(t)
    BY <1>a, <2>5, Stutters DEF LockOnFailure
  <2>6. CASE RLockStateCode(t)
    BY <1>a, <2>6, Stutters DEF RLockStateCode
  <2>7. QED
    BY <1>3, <2>1, <2>2, <2>3, <2>4, <2>5, <2>6 DEF Acquire
<1>4. ASSUME NEW t \in Tasks, Run(t) PROVE [B!Next]_(B!vars)
  <2> USE DEF breaker, locals, Goto, PC
  <2>1. CASE Admit(t) \/ Reject(t)
    BY <1>a, <2>1, Stutters DEF Admit, Reject
  <2>2. CASE RunOk(t) \/ RunErr(t)
    BY <1>a, <2>2, Stutters DEF RunOk, RunErr
  <2>3. CASE ReadStateCode(t) \/ SetGauge(t)
    BY <1>a, <2>3, Stutters DEF ReadStateCode, SetGauge
  <2>4. CASE Return(t) \/ CountRetry(t)
    BY <1>a, <2>4, Stutters DEF Return, CountRetry
  <2>5. CASE BackoffElapsed(t) \/ BackoffCancelled(t)
    BY <1>a, <2>5, Stutters DEF BackoffElapsed, BackoffCancelled
  <2>6. CASE Probe(t)
    <3>1. \A u \in Tasks : pc[u] \notin {"sucClose", "failAdd", "failOpen"}
      BY <1>a, <2>6 DEF Probe, MutexInv, Holding, TypeOK
    <3>2. \A u \in Tasks : pc'[u] \notin {"sucClose", "failAdd", "failOpen"}
      BY <1>a, <2>6, <3>1 DEF Probe, TypeOK
    <3>3. stateBar = state /\ stateBar' = state'
      BY <3>1, <3>2 DEF stateBar, OpensNow, At
    <3>4. streakBar' = streakBar
      BY <2>6, <3>1, <3>2 DEF Probe, streakBar, At
    <3>5. B!Probe
      BY <1>a, <2>6, <3>3, <3>4 DEF Probe, CounterInv, TypeOK, B!Probe
    <3>6. QED
      BY <3>5 DEF B!Next
  <2>7. CASE StoreZero(t)
    <3>1. At("sucClose")' /\ ~At("failAdd")'
      BY <1>a, <2>7 DEF StoreZero, At, MutexInv, Holding, TypeOK
    <3>2. B!Success
      BY <2>7, <3>1 DEF StoreZero, stateBar, streakBar, B!Success
    <3>3. QED
      BY <3>2 DEF B!Next
  <2>8. CASE SetClosed(t)
    <3>1. At("sucClose") /\ ~At("failAdd")
      BY <1>a, <2>8 DEF SetClosed, At, MutexInv, Holding, TypeOK
    <3>2. \A u \in Tasks : pc'[u] \notin {"sucClose", "failAdd", "failOpen"}
      BY <1>a, <2>8 DEF SetClosed, MutexInv, Holding, TypeOK
    <3>3. stateBar = "closed" /\ stateBar' = "closed" /\ streakBar' = streakBar
      BY <2>8, <3>1, <3>2 DEF SetClosed, stateBar, streakBar, OpensNow, At
    <3>4. QED
      BY <2>8, <3>3 DEF SetClosed
  <2>9. CASE StampFailure(t)
    <3>1. \A u \in Tasks : pc[u] \notin {"sucClose", "failAdd", "failOpen"}
      BY <1>a, <2>9 DEF StampFailure, MutexInv, Holding, TypeOK
    <3>2. /\ At("failAdd")' /\ ~At("sucClose")'
          /\ \A u \in Tasks : pc'[u] # "failOpen"
      BY <1>a, <2>9, <3>1 DEF StampFailure, At, TypeOK
    <3>3. stateBar = state /\ streakBar = failures
      BY <3>1 DEF stateBar, streakBar, OpensNow, At
    <3>4. OpensNow' <=> failures + 1 >= Threshold
      BY <2>9, <3>2 DEF StampFailure, OpensNow, Threshold
    <3>5. /\ streakBar' = failures + 1
          /\ stateBar' = IF failures + 1 >= Threshold THEN "open" ELSE state
      BY <2>9, <3>2, <3>4 DEF StampFailure, stateBar, streakBar
    <3>6. B!Failure
      BY <2>9, <3>3, <3>5 DEF StampFailure, B!Failure
    <3>7. QED
      BY <3>6 DEF B!Next
  <2>10. CASE AddFailure(t)
    <3>1. /\ \A u \in Tasks : pc[u] \notin {"sucClose", "failOpen"}
          /\ At("failAdd")
      BY <1>a, <2>10 DEF AddFailure, At, MutexInv, Holding, TypeOK
    <3>2. /\ \A u \in Tasks : pc'[u] \notin {"sucClose", "failAdd"}
          /\ \A u \in Tasks : pc'[u] = "failOpen" <=> u = t
          /\ seen'[t] = failures + 1
      BY <1>a, <2>10, <3>1 DEF AddFailure, MutexInv, Holding, TypeOK
    <3>3. streakBar' = streakBar
      BY <2>10, <3>1, <3>2 DEF AddFailure, streakBar, At
    <3>4. OpensNow' = OpensNow
      BY <3>1, <3>2 DEF OpensNow, At, Threshold
    <3>5. stateBar' = stateBar
      BY <2>10, <3>1, <3>2, <3>4 DEF AddFailure, stateBar, At
    <3>6. QED
      BY <2>10, <3>3, <3>5 DEF AddFailure
  <2>11. CASE SetOpenAtThreshold(t)
    <3>1. /\ \A u \in Tasks : pc[u] \notin {"sucClose", "failAdd"}
          /\ \A u \in Tasks : pc[u] = "failOpen" <=> u = t
      BY <1>a, <2>11 DEF SetOpenAtThreshold, MutexInv, Holding, TypeOK
    <3>2. \A u \in Tasks : pc'[u] \notin {"sucClose", "failAdd", "failOpen"}
      BY <1>a, <2>11, <3>1 DEF SetOpenAtThreshold, TypeOK
    <3>3. OpensNow <=> seen[t] >= Threshold
      BY <3>1 DEF OpensNow, At
    <3>4. stateBar' = stateBar /\ streakBar' = streakBar
      BY <2>11, <3>1, <3>2, <3>3
         DEF SetOpenAtThreshold, stateBar, streakBar, OpensNow, At
    <3>5. QED
      BY <2>11, <3>4 DEF SetOpenAtThreshold
  <2>12. QED
    BY <1>4, <2>1, <2>2, <2>3, <2>4, <2>5, <2>6, <2>7, <2>8, <2>9, <2>10,
       <2>11 DEF Run
<1>5. QED
  BY <1>1, <1>2, <1>3, <1>4 DEF Next

(* The goroutines' breaker implements the atomic one.                      *)
THEOREM Refinement == Spec => ImplementsBreaker
<1>1. Init => B!Init
  BY DEF Init, B!Init, stateBar, streakBar, OpensNow, At
<1>2. QED
  BY <1>1, Inductive, StepRefines, PTL DEF Spec, B!Spec, ImplementsBreaker

(* The circuit is closed exactly while the failures since the last success *)
(* are fewer than the threshold.                                           *)
THEOREM ClosedExactlyBelowThreshold == Spec => []ClosedBelowThreshold
<1>1. IInv => ClosedBelowThreshold
  <2> SUFFICES ASSUME IInv PROVE ClosedBelowThreshold
    OBVIOUS
  <2> USE DEF IInv, TypeOK, MutexInv, Holding, CounterInv, At
  <2>1. CASE At("sucClose")
    BY <2>1, Defaults
       DEF ClosedBelowThreshold, B!ClosedBelowThreshold, stateBar, streakBar
  <2>2. CASE \E t \in Tasks : pc[t] = "failAdd"
    BY <2>2, Defaults
       DEF ClosedBelowThreshold, B!ClosedBelowThreshold, stateBar, streakBar,
           OpensNow
  <2>3. CASE \E t \in Tasks : pc[t] = "failOpen"
    BY <2>3, Defaults
       DEF ClosedBelowThreshold, B!ClosedBelowThreshold, stateBar, streakBar,
           OpensNow
  <2>4. CASE \A t \in Tasks : pc[t] \notin {"sucClose", "failAdd", "failOpen"}
    BY <2>4, Defaults
       DEF ClosedBelowThreshold, B!ClosedBelowThreshold, stateBar, streakBar,
           OpensNow
  <2>5. QED
    BY <2>1, <2>2, <2>3, <2>4
<1>2. QED
  BY <1>1, Inductive, PTL
=============================================================================
