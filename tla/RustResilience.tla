--------------------------- MODULE RustResilience ---------------------------
(***************************************************************************)
(* rust/src/resilience.rs: tasks that run ResilientExecutor::execute on    *)
(* one executor.  The breaker has two tokio RwLocks (state and             *)
(* last_failure_time) and an atomic counter outside both; the steps are    *)
(* the lock acquisitions and the accesses between them.  Each order in     *)
(* which waiting tasks may be granted a lock is allowed.                   *)
(***************************************************************************)
EXTENDS Integers

CONSTANTS
  Tasks,        \* tokio tasks
  NoTask,       \* the value of a lock without a writer
  Threshold,    \* config.circuit_breaker_threshold, a u32 taken as it is
  MaxRetries,   \* config.max_retries, a u32 taken as it is
  MaxCalls,     \* bound of the model: calls a task makes
  MayDrop       \* whether a caller may drop the future it awaits

ASSUME TasksAssumption == NoTask \notin Tasks
ASSUME CfgAssumption ==
  /\ Threshold \in Nat
  /\ MaxRetries \in Nat
  /\ MaxCalls \in Nat
  /\ MayDrop \in BOOLEAN

VARIABLES
  stW, stR,   \* cb.state lock: its writer and its readers
  ltW, ltR,   \* cb.last_failure_time lock: its writer and its readers
  state,      \* *cb.state
  failures,   \* cb.consecutive_failures
  last,       \* *cb.last_failure_time against the clock: "none", "fresh", "stale"
  gauge,      \* metrics.circuit_breaker_state of this contract and backend
  retries,    \* metrics.retries_total of this contract and backend
  pc, calls, attempt, res,
  seen,       \* local of on_failure: failures
  code,       \* result of current_state_code
  abandoned   \* history, not in the code: the tasks whose future was dropped
              \* in an on_failure that was to open the circuit, since on_success

stLock  == <<stW, stR>>
ltLock  == <<ltW, ltR>>
cells   == <<state, failures, last, abandoned>>
metrics == <<gauge, retries>>
locals  == <<calls, attempt, res, seen, code>>
vars    == <<stW, stR, ltW, ltR, state, failures, last, gauge, retries,
             pc, calls, attempt, res, seen, code, abandoned>>

\* A task at an Await label is suspended; its future may be dropped there.
Await == {"can", "canTime", "attempt", "suc", "failTime", "failState", "code",
          "backoff"}
PC == Await \cup
      {"idle", "canHeld", "canTimeHeld", "sucStore", "sucClose", "failAdd",
       "failStamp", "failOpen", "codeRead", "gauge", "decide"}

Init ==
  /\ stW = NoTask /\ stR = {}
  /\ ltW = NoTask /\ ltR = {}
  /\ state = "closed"
  /\ failures = 0
  /\ last = "none"
  /\ gauge = "closed"
  /\ retries = 0
  /\ pc = [t \in Tasks |-> "idle"]
  /\ calls = [t \in Tasks |-> 0]
  /\ attempt = [t \in Tasks |-> 0]
  /\ res = [t \in Tasks |-> "ok"]
  /\ seen = [t \in Tasks |-> 0]
  /\ code = [t \in Tasks |-> "closed"]
  /\ abandoned = {}

Goto(t, from, to) == pc[t] = from /\ pc' = [pc EXCEPT ![t] = to]

WriteState(t) == stW = NoTask /\ stR = {} /\ stW' = t /\ UNCHANGED stR
ReadState(t)  == stW = NoTask /\ stR' = stR \cup {t} /\ UNCHANGED stW
WriteLast(t)  == ltW = NoTask /\ ltR = {} /\ ltW' = t /\ UNCHANGED ltR
ReadLast(t)   == ltW = NoTask /\ ltR' = ltR \cup {t} /\ UNCHANGED ltW

\* The guards a task holds on a lock are dropped.
FreeState(t) == stW' = (IF stW = t THEN NoTask ELSE stW) /\ stR' = stR \ {t}
FreeLast(t)  == ltW' = (IF ltW = t THEN NoTask ELSE ltW) /\ ltR' = ltR \ {t}

\* on_failure has reached the threshold and has not set the state yet.
WillOpen(t) == pc[t] \in {"failTime", "failStamp", "failState", "failOpen"}
               /\ seen[t] >= Threshold

-----------------------------------------------------------------------------
(* Slips that the properties below must catch; no specification uses them. *)

\* on_failure counts down.
FetchSub(t) ==
  /\ Goto(t, "failAdd", "failTime")
  /\ failures' = failures - 1
  /\ seen' = [seen EXCEPT ![t] = failures - 1]
  /\ UNCHANGED <<stLock, ltLock, state, last, abandoned,
                 metrics, calls, attempt, res, code>>

\* on_failure forgets the time of the failure.
StampForgotten(t) ==
  /\ pc[t] = "failStamp"
  /\ \/ /\ seen[t] >= Threshold
        /\ pc' = [pc EXCEPT ![t] = "failState"]
        /\ UNCHANGED ltLock
     \/ /\ seen[t] < Threshold
        /\ pc' = [pc EXCEPT ![t] = "code"]
        /\ FreeLast(t)
  /\ UNCHANGED <<stLock, cells, metrics, locals>>

\* on_failure opens the circuit one failure late.
StampAbove(t) ==
  /\ pc[t] = "failStamp"
  /\ last' = "fresh"
  /\ \/ /\ seen[t] > Threshold
        /\ pc' = [pc EXCEPT ![t] = "failState"]
        /\ UNCHANGED ltLock
     \/ /\ seen[t] <= Threshold
        /\ pc' = [pc EXCEPT ![t] = "code"]
        /\ FreeLast(t)
  /\ UNCHANGED <<stLock, state, failures, abandoned, metrics, locals>>

-----------------------------------------------------------------------------
Call(t) ==
  /\ calls[t] < MaxCalls
  /\ Goto(t, "idle", "can")
  /\ calls' = [calls EXCEPT ![t] = @ + 1]
  /\ UNCHANGED <<stLock, ltLock, cells, metrics, attempt, res, seen, code>>

(* The caller drops the future (a select!, an outer timeout): it ends at   *)
(* an await, and its guards are dropped with it.                           *)
Drop(t) ==
  /\ MayDrop
  /\ pc[t] \in Await
  /\ pc' = [pc EXCEPT ![t] = "idle"]
  /\ FreeState(t)
  /\ FreeLast(t)
  /\ abandoned' = IF WillOpen(t) THEN abandoned \cup {t} ELSE abandoned
  /\ UNCHANGED <<state, failures, last, metrics, locals>>

(* instant.elapsed() >= self.reset_timeout *)
TimePasses ==
  /\ last = "fresh"
  /\ last' = "stale"
  /\ UNCHANGED <<stLock, ltLock, state, failures, abandoned, metrics, pc,
                 locals>>

-----------------------------------------------------------------------------
(* can_execute *)
CanLockState(t) ==
  /\ Goto(t, "can", "canHeld")
  /\ WriteState(t)
  /\ UNCHANGED <<ltLock, cells, metrics, locals>>

Admit(t) ==
  /\ state # "open"
  /\ Goto(t, "canHeld", "attempt")
  /\ attempt' = [attempt EXCEPT ![t] = 1]
  /\ FreeState(t)
  /\ UNCHANGED <<ltLock, cells, metrics, calls, res, seen, code>>

SeeOpen(t) ==
  /\ state = "open"
  /\ Goto(t, "canHeld", "canTime")
  /\ UNCHANGED <<stLock, ltLock, cells, metrics, locals>>

CanLockTime(t) ==
  /\ Goto(t, "canTime", "canTimeHeld")
  /\ ReadLast(t)
  /\ UNCHANGED <<stLock, cells, metrics, locals>>

Probe(t) ==
  /\ last = "stale"
  /\ Goto(t, "canTimeHeld", "attempt")
  /\ state' = "half"
  /\ attempt' = [attempt EXCEPT ![t] = 1]
  /\ FreeState(t)
  /\ FreeLast(t)
  /\ UNCHANGED <<failures, last, abandoned, metrics, calls, res, seen, code>>

Reject(t) ==
  /\ last # "stale"
  /\ Goto(t, "canTimeHeld", "idle")
  /\ FreeState(t)
  /\ FreeLast(t)
  /\ UNCHANGED <<cells, metrics, locals>>

-----------------------------------------------------------------------------
(* One attempt: the operation, or the timeout around it.                   *)
RunOk(t) ==
  /\ Goto(t, "attempt", "suc")
  /\ res' = [res EXCEPT ![t] = "ok"]
  /\ UNCHANGED <<stLock, ltLock, cells, metrics, calls, attempt, seen, code>>

RunErr(t) ==
  /\ Goto(t, "attempt", "failAdd")
  /\ res' = [res EXCEPT ![t] = "err"]
  /\ UNCHANGED <<stLock, ltLock, cells, metrics, calls, attempt, seen, code>>

(* on_success *)
SucLockState(t) ==
  /\ Goto(t, "suc", "sucStore")
  /\ WriteState(t)
  /\ UNCHANGED <<ltLock, cells, metrics, locals>>

StoreZero(t) ==
  /\ Goto(t, "sucStore", "sucClose")
  /\ failures' = 0
  /\ abandoned' = {}
  /\ UNCHANGED <<stLock, ltLock, state, last, metrics, locals>>

SetClosed(t) ==
  /\ Goto(t, "sucClose", "code")
  /\ state' = "closed"
  /\ FreeState(t)
  /\ UNCHANGED <<ltLock, failures, last, abandoned, metrics, locals>>

(* on_failure: the counter first, before any lock *)
FetchAdd(t) ==
  /\ Goto(t, "failAdd", "failTime")
  /\ failures' = failures + 1
  /\ seen' = [seen EXCEPT ![t] = failures + 1]
  /\ UNCHANGED <<stLock, ltLock, state, last, abandoned,
                 metrics, calls, attempt, res, code>>

FailLockTime(t) ==
  /\ Goto(t, "failTime", "failStamp")
  /\ WriteLast(t)
  /\ UNCHANGED <<stLock, cells, metrics, locals>>

(* The time is written; at the threshold the guard is kept while the state *)
(* lock is awaited.                                                        *)
Stamp(t) ==
  /\ pc[t] = "failStamp"
  /\ last' = "fresh"
  /\ \/ /\ seen[t] >= Threshold
        /\ pc' = [pc EXCEPT ![t] = "failState"]
        /\ UNCHANGED ltLock
     \/ /\ seen[t] < Threshold
        /\ pc' = [pc EXCEPT ![t] = "code"]
        /\ FreeLast(t)
  /\ UNCHANGED <<stLock, state, failures, abandoned, metrics, locals>>

FailLockState(t) ==
  /\ Goto(t, "failState", "failOpen")
  /\ WriteState(t)
  /\ UNCHANGED <<ltLock, cells, metrics, locals>>

SetOpen(t) ==
  /\ Goto(t, "failOpen", "code")
  /\ state' = "open"
  /\ FreeState(t)
  /\ FreeLast(t)
  /\ UNCHANGED <<failures, last, abandoned, metrics, locals>>

-----------------------------------------------------------------------------
(* current_state_code, then the gauge *)
CodeLockState(t) ==
  /\ Goto(t, "code", "codeRead")
  /\ ReadState(t)
  /\ UNCHANGED <<ltLock, cells, metrics, locals>>

ReadCode(t) ==
  /\ Goto(t, "codeRead", "gauge")
  /\ code' = [code EXCEPT ![t] = state]
  /\ FreeState(t)
  /\ UNCHANGED <<ltLock, cells, metrics, calls, attempt, res, seen>>

SetGauge(t) ==
  /\ Goto(t, "gauge", "decide")
  /\ gauge' = code[t]
  /\ UNCHANGED <<stLock, ltLock, cells, retries, locals>>

Return(t) ==
  /\ res[t] = "ok" \/ attempt[t] > MaxRetries
  /\ Goto(t, "decide", "idle")
  /\ UNCHANGED <<stLock, ltLock, cells, metrics, locals>>

CountRetry(t) ==
  /\ res[t] = "err"
  /\ attempt[t] <= MaxRetries
  /\ Goto(t, "decide", "backoff")
  /\ retries' = retries + 1
  /\ UNCHANGED <<stLock, ltLock, cells, gauge, locals>>

BackoffElapsed(t) ==
  /\ Goto(t, "backoff", "attempt")
  /\ attempt' = [attempt EXCEPT ![t] = @ + 1]
  /\ UNCHANGED <<stLock, ltLock, cells, metrics, calls, res, seen, code>>

-----------------------------------------------------------------------------
Acquire(t) ==
  \/ CanLockState(t) \/ CanLockTime(t) \/ SucLockState(t)
  \/ FailLockTime(t) \/ FailLockState(t) \/ CodeLockState(t)

Run(t) ==
  \/ Admit(t) \/ SeeOpen(t) \/ Probe(t) \/ Reject(t)
  \/ RunOk(t) \/ RunErr(t)
  \/ StoreZero(t) \/ SetClosed(t)
  \/ FetchAdd(t) \/ Stamp(t) \/ SetOpen(t)
  \/ ReadCode(t) \/ SetGauge(t)
  \/ Return(t) \/ CountRetry(t) \/ BackoffElapsed(t)

(* Every call has returned and no task makes another. *)
Finished ==
  /\ \A t \in Tasks : pc[t] = "idle" /\ calls[t] = MaxCalls
  /\ UNCHANGED vars

Next ==
  \/ TimePasses
  \/ Finished
  \/ \E t \in Tasks : Call(t) \/ Drop(t) \/ Acquire(t) \/ Run(t)

Spec == Init /\ [][Next]_vars

(* A task that can run does run, the operation ends with its timeout at    *)
(* the latest, and tokio's RwLock grants a lock in the order of requests,  *)
(* so that no waiter is passed over forever.                               *)
Fairness == \A t \in Tasks : WF_vars(Run(t)) /\ SF_vars(Acquire(t))

FairSpec == Spec /\ Fairness

-----------------------------------------------------------------------------
TypeOK ==
  /\ stW \in Tasks \cup {NoTask} /\ stR \subseteq Tasks
  /\ ltW \in Tasks \cup {NoTask} /\ ltR \subseteq Tasks
  /\ state \in {"closed", "open", "half"}
  /\ failures \in Nat
  /\ last \in {"none", "fresh", "stale"}
  /\ gauge \in {"closed", "open", "half"}
  /\ retries \in Nat
  /\ pc \in [Tasks -> PC]
  /\ calls \in [Tasks -> Nat]
  /\ attempt \in [Tasks -> Nat]
  /\ res \in [Tasks -> {"ok", "err"}]
  /\ seen \in [Tasks -> Nat]
  /\ code \in [Tasks -> {"closed", "open", "half"}]
  /\ abandoned \subseteq Tasks

(* can_execute half-opens only `if let Some(instant)`: an open circuit     *)
(* without a failure time would reject every call forever.  on_failure     *)
(* writes the time before the state, and a future dropped between the two  *)
(* leaves the circuit closed.                                              *)
OpenHasTimestamp == state # "closed" => last # "none"

(* Although the counter is outside the locks, on_success and on_failure    *)
(* cannot leave the circuit closed at the threshold: when the counter has  *)
(* reached it and the circuit is closed, an on_failure is about to open    *)
(* it, unless its caller dropped it on the way.                            *)
NotLeftClosed ==
  state = "closed" /\ failures > 0 /\ failures >= Threshold
    => abandoned # {} \/ \E t \in Tasks : WillOpen(t)

(* The inductive invariant behind the theorems of RustResilienceProofs.    *)
StateHeld == {"canHeld", "canTime", "canTimeHeld", "sucStore", "sucClose",
              "failOpen"}
LastHeld  == {"failStamp", "failState", "failOpen"}

LockInv ==
  /\ \A t \in Tasks : pc[t] \in StateHeld <=> stW = t
  /\ \A t \in Tasks : pc[t] = "codeRead" <=> t \in stR
  /\ \A t \in Tasks : pc[t] \in LastHeld <=> ltW = t
  /\ \A t \in Tasks : pc[t] = "canTimeHeld" <=> t \in ltR
  /\ stW # NoTask => stR = {}
  /\ ltW # NoTask => ltR = {}

TimeInv ==
  /\ OpenHasTimestamp
  /\ \A t \in Tasks : pc[t] \in {"failState", "failOpen"} => last # "none"

\* on_success has reset the counter and will close the circuit.
Closing == \E t \in Tasks : pc[t] = "sucClose"

CounterInv ==
  (state = "closed" \/ Closing) /\ failures > 0 /\ failures >= Threshold
    => abandoned # {} \/ \E t \in Tasks : WillOpen(t)

(* PRD.md:228 (NFR-09): "returns a clear error within the operation        *)
(* timeout. No hangs.": every execute returns.                             *)
EveryCallReturns == \A t \in Tasks : pc[t] # "idle" ~> pc[t] = "idle"

(* PRD.md:229 (NFR-10): the circuit "Opens after 5 consecutive failures":  *)
(* it opens only when the failures since the last success have reached the *)
(* threshold.                                                              *)
OpensOnlyAtThreshold ==
  [][state # "open" /\ state' = "open" => failures >= Threshold]_vars
=============================================================================
