---------------------------- MODULE GoResilience ----------------------------
(***************************************************************************)
(* go/resilience.go: goroutines that run ExecuteWithResilience on one      *)
(* ResilientExecutor, whose circuit breaker they share.  Every access to   *)
(* the breaker is made under its RWMutex; each critical section is split   *)
(* into its assignments, so that its atomicity is a result and not an      *)
(* assumption.  The protected operation fn is abstracted to its outcome.   *)
(***************************************************************************)
EXTENDS Integers, FiniteSets

CONSTANTS
  Tasks,           \* goroutines
  NoTask,          \* the value of an unlocked mutex
  CfgThreshold,    \* ResilienceConfig.CircuitBreakerThreshold
  CfgMaxRetries,   \* ResilienceConfig.MaxRetries
  MaxCalls         \* bound of the model: calls that each goroutine makes

ASSUME TasksAssumption == NoTask \notin Tasks
ASSUME CfgAssumption ==
  /\ CfgThreshold \in Int
  /\ CfgMaxRetries \in Int
  /\ MaxCalls \in [Tasks -> Nat]

\* NewResilientExecutor replaces a value that is not positive by a default.
OrDefault(v, default) == IF v <= 0 THEN default ELSE v

Threshold  == OrDefault(CfgThreshold, 5)
MaxRetries == OrDefault(CfgMaxRetries, 3)

VARIABLES
  writer,    \* cb.mu: the goroutine that holds it for writing
  readers,   \* cb.mu: the goroutines that hold it for reading
  state,     \* cb.state
  failures,  \* cb.consecutiveFailures
  last,      \* cb.lastFailureTime against the clock: "none", "fresh", "stale"
  gauge,     \* metrics.CircuitBreakerState of this contract and backend
  retries,   \* metrics.RetriesTotal of this contract and backend
  pc,        \* where each goroutine is
  calls,     \* calls each goroutine has made
  attempt,   \* local: attempt
  res,       \* local: the outcome of the last fn, "ok" or "err"
  seen,      \* local of OnFailure: failures
  code,      \* result of StateCode, before it is stored in the gauge
  ctx        \* parentCtx: "live" or "done"

breaker == <<state, failures, last>>
mu      == <<writer, readers>>
metrics == <<gauge, retries>>
locals  == <<calls, attempt, res, seen, code, ctx>>
vars    == <<writer, readers, state, failures, last, gauge, retries,
             pc, calls, attempt, res, seen, code, ctx>>

PC == {"idle", "can", "canHeld", "attempt",
       "suc", "sucStore", "sucClose",
       "fail", "failTime", "failAdd", "failOpen",
       "code", "codeRead", "gauge", "decide", "backoff"}

Init ==
  /\ writer = NoTask
  /\ readers = {}
  /\ state = "closed"
  /\ failures = 0
  /\ last = "none"
  /\ gauge = "closed"
  /\ retries = 0
  /\ pc = [t \in Tasks |-> "idle"]
  /\ calls = [t \in Tasks |-> 0]
  /\ attempt = [t \in Tasks |-> 0]
  /\ res = [t \in Tasks |-> "ok"]
  /\ seen = [t \in Tasks |-> 0]
  /\ code = [t \in Tasks |-> "closed"]
  /\ ctx = [t \in Tasks |-> "live"]

Goto(t, from, to) == pc[t] = from /\ pc' = [pc EXCEPT ![t] = to]

Lock(t)   == writer = NoTask /\ readers = {} /\ writer' = t /\ UNCHANGED readers
Unlock    == writer' = NoTask /\ UNCHANGED readers
RLock(t)  == writer = NoTask /\ readers' = readers \cup {t} /\ UNCHANGED writer
RUnlock(t) == readers' = readers \ {t} /\ UNCHANGED writer

-----------------------------------------------------------------------------
(* Slips that the properties below must catch; no specification uses them. *)

\* The break of the timer's case leaves the select only, and the wait begins
\* again.
BackoffAgain(t) == pc[t] = "backoff" /\ UNCHANGED vars

\* CanExecute half-opens the circuit and falls through to the error.
ProbeFallsThrough(t) ==
  /\ state = "open"
  /\ last # "fresh"
  /\ state' = "half"
  /\ Goto(t, "canHeld", "idle")
  /\ Unlock
  /\ UNCHANGED <<failures, last, metrics, locals>>

\* OnFailure without cb.mu.Lock().
OnFailureWithoutLock(t) ==
  /\ Goto(t, "fail", "failTime")
  /\ UNCHANGED <<mu, breaker, metrics, locals>>

\* OnFailure counts down.
SubFailure(t) ==
  /\ Goto(t, "failAdd", "failOpen")
  /\ failures' = failures - 1
  /\ seen' = [seen EXCEPT ![t] = failures - 1]
  /\ UNCHANGED <<mu, state, last, metrics, calls, attempt, res, code, ctx>>

\* OnFailure opens one failure late.
SetOpenAboveThreshold(t) ==
  /\ Goto(t, "failOpen", "code")
  /\ state' = IF seen[t] > Threshold THEN "open" ELSE state
  /\ Unlock
  /\ UNCHANGED <<failures, last, metrics, locals>>

-----------------------------------------------------------------------------
(* A caller invokes a wrapped operation; its context may be cancelled at   *)
(* any time until the call returns.                                        *)
Call(t) ==
  /\ calls[t] < MaxCalls[t]
  /\ Goto(t, "idle", "can")
  /\ calls' = [calls EXCEPT ![t] = @ + 1]
  /\ ctx' = [ctx EXCEPT ![t] = "live"]
  /\ UNCHANGED <<mu, breaker, metrics, attempt, res, seen, code>>

CancelCtx(t) ==
  /\ pc[t] # "idle"
  /\ ctx[t] = "live"
  /\ ctx' = [ctx EXCEPT ![t] = "done"]
  /\ UNCHANGED <<mu, breaker, metrics, pc, calls, attempt, res, seen, code>>

(* The reset timeout elapses: time.Since(lastFailureTime) >= resetTimeout. *)
TimePasses ==
  /\ last = "fresh"
  /\ last' = "stale"
  /\ UNCHANGED <<mu, state, failures, metrics, pc, locals>>

-----------------------------------------------------------------------------
(* CanExecute *)
LockCanExecute(t) ==
  /\ Goto(t, "can", "canHeld")
  /\ Lock(t)
  /\ UNCHANGED <<breaker, metrics, locals>>

Admit(t) ==
  /\ state \in {"closed", "half"}
  /\ Goto(t, "canHeld", "attempt")
  /\ attempt' = [attempt EXCEPT ![t] = 1]
  /\ Unlock
  /\ UNCHANGED <<breaker, metrics, calls, res, seen, code, ctx>>

Probe(t) ==
  /\ state = "open"
  /\ last # "fresh"      \* the zero time is long past
  /\ state' = "half"
  /\ Goto(t, "canHeld", "attempt")
  /\ attempt' = [attempt EXCEPT ![t] = 1]
  /\ Unlock
  /\ UNCHANGED <<failures, last, metrics, calls, res, seen, code, ctx>>

Reject(t) ==
  /\ state = "open"
  /\ last = "fresh"
  /\ Goto(t, "canHeld", "idle")
  /\ Unlock
  /\ UNCHANGED <<breaker, metrics, locals>>

-----------------------------------------------------------------------------
(* One attempt: fn returns before or when its timeout ends the context.    *)
RunOk(t) ==
  /\ Goto(t, "attempt", "suc")
  /\ res' = [res EXCEPT ![t] = "ok"]
  /\ UNCHANGED <<mu, breaker, metrics, calls, attempt, seen, code, ctx>>

RunErr(t) ==
  /\ Goto(t, "attempt", "fail")
  /\ res' = [res EXCEPT ![t] = "err"]
  /\ UNCHANGED <<mu, breaker, metrics, calls, attempt, seen, code, ctx>>

(* OnSuccess *)
LockOnSuccess(t) ==
  /\ Goto(t, "suc", "sucStore")
  /\ Lock(t)
  /\ UNCHANGED <<breaker, metrics, locals>>

StoreZero(t) ==
  /\ Goto(t, "sucStore", "sucClose")
  /\ failures' = 0
  /\ UNCHANGED <<mu, state, last, metrics, locals>>

SetClosed(t) ==
  /\ Goto(t, "sucClose", "code")
  /\ state' = "closed"
  /\ Unlock
  /\ UNCHANGED <<failures, last, metrics, locals>>

(* OnFailure *)
LockOnFailure(t) ==
  /\ Goto(t, "fail", "failTime")
  /\ Lock(t)
  /\ UNCHANGED <<breaker, metrics, locals>>

StampFailure(t) ==
  /\ Goto(t, "failTime", "failAdd")
  /\ last' = "fresh"
  /\ UNCHANGED <<mu, state, failures, metrics, locals>>

AddFailure(t) ==
  /\ Goto(t, "failAdd", "failOpen")
  /\ failures' = failures + 1
  /\ seen' = [seen EXCEPT ![t] = failures + 1]
  /\ UNCHANGED <<mu, state, last, metrics, calls, attempt, res, code, ctx>>

SetOpenAtThreshold(t) ==
  /\ Goto(t, "failOpen", "code")
  /\ state' = IF seen[t] >= Threshold THEN "open" ELSE state
  /\ Unlock
  /\ UNCHANGED <<failures, last, metrics, locals>>

-----------------------------------------------------------------------------
(* The gauge: StateCode under the read lock, then Set outside it.          *)
RLockStateCode(t) ==
  /\ Goto(t, "code", "codeRead")
  /\ RLock(t)
  /\ UNCHANGED <<breaker, metrics, locals>>

ReadStateCode(t) ==
  /\ Goto(t, "codeRead", "gauge")
  /\ code' = [code EXCEPT ![t] = state]
  /\ RUnlock(t)
  /\ UNCHANGED <<breaker, metrics, calls, attempt, res, seen, ctx>>

SetGauge(t) ==
  /\ Goto(t, "gauge", "decide")
  /\ gauge' = code[t]
  /\ UNCHANGED <<mu, breaker, retries, locals>>

(* The call returns its value, or its last error once the retries are used. *)
Return(t) ==
  /\ res[t] = "ok" \/ attempt[t] > MaxRetries
  /\ Goto(t, "decide", "idle")
  /\ UNCHANGED <<mu, breaker, metrics, locals>>

(* The retry is counted, then the goroutine waits out the backoff.         *)
CountRetry(t) ==
  /\ res[t] = "err"
  /\ attempt[t] <= MaxRetries
  /\ Goto(t, "decide", "backoff")
  /\ retries' = retries + 1
  /\ UNCHANGED <<mu, breaker, gauge, locals>>

(* select: both branches may be ready, and then either is taken.           *)
BackoffElapsed(t) ==
  /\ Goto(t, "backoff", "attempt")
  /\ attempt' = [attempt EXCEPT ![t] = @ + 1]
  /\ UNCHANGED <<mu, breaker, metrics, calls, res, seen, code, ctx>>

BackoffCancelled(t) ==
  /\ ctx[t] = "done"
  /\ Goto(t, "backoff", "idle")
  /\ UNCHANGED <<mu, breaker, metrics, locals>>

-----------------------------------------------------------------------------
Acquire(t) ==
  \/ LockCanExecute(t)
  \/ LockOnSuccess(t)
  \/ LockOnFailure(t)
  \/ RLockStateCode(t)

Run(t) ==
  \/ Admit(t) \/ Probe(t) \/ Reject(t)
  \/ RunOk(t) \/ RunErr(t)
  \/ StoreZero(t) \/ SetClosed(t)
  \/ StampFailure(t) \/ AddFailure(t) \/ SetOpenAtThreshold(t)
  \/ ReadStateCode(t) \/ SetGauge(t)
  \/ Return(t) \/ CountRetry(t)
  \/ BackoffElapsed(t) \/ BackoffCancelled(t)

(* Every call has returned and no goroutine makes another. *)
Finished ==
  /\ \A t \in Tasks : pc[t] = "idle" /\ calls[t] = MaxCalls[t]
  /\ UNCHANGED vars

Next ==
  \/ TimePasses
  \/ Finished
  \/ \E t \in Tasks : Call(t) \/ CancelCtx(t) \/ Acquire(t) \/ Run(t)

Spec == Init /\ [][Next]_vars

(* A goroutine that can run does run, fn ends with its timeout at the      *)
(* latest, and the mutex does not starve a waiter (sync.RWMutex blocks new *)
(* readers behind a waiting writer and wakes the others in turn).  Calls,  *)
(* cancellations and the clock are the environment's.                      *)
Fairness == \A t \in Tasks : WF_vars(Run(t)) /\ SF_vars(Acquire(t))

FairSpec == Spec /\ Fairness

-----------------------------------------------------------------------------
TypeOK ==
  /\ writer \in Tasks \cup {NoTask}
  /\ readers \subseteq Tasks
  /\ state \in {"closed", "open", "half"}
  /\ failures \in Nat
  /\ last \in {"none", "fresh", "stale"}
  /\ gauge \in {"closed", "open", "half"}
  /\ retries \in Nat
  /\ pc \in [Tasks -> PC]
  /\ calls \in [Tasks -> Nat]
  /\ attempt \in [Tasks -> Nat]
  /\ res \in [Tasks -> {"ok", "err"}]
  /\ seen \in [Tasks -> Nat]
  /\ code \in [Tasks -> {"closed", "open", "half"}]
  /\ ctx \in [Tasks -> {"live", "done"}]

\* A goroutine runs an attempt whose outcome the breaker has not recorded yet.
InFlight(t) == pc[t] \in {"attempt", "suc", "sucStore", "sucClose",
                          "fail", "failTime", "failAdd", "failOpen"}

(* A half-open circuit has a trial under way (CanExecute admits one, and   *)
(* every outcome, cancellation included, reaches OnSuccess or OnFailure):  *)
(* the circuit is never left half-open with nobody about to decide it.     *)
HalfOpenHasTrial == state = "half" => \E t \in Tasks : InFlight(t)

(* The refinement mapping to the atomic breaker.  OnSuccess takes effect   *)
(* when the counter is stored, OnFailure when the failure is stamped.      *)
At(l) == \E t \in Tasks : pc[t] = l

OpensNow ==
  \/ At("failAdd") /\ failures + 1 >= Threshold
  \/ \E t \in Tasks : pc[t] = "failOpen" /\ seen[t] >= Threshold

stateBar  == IF At("sucClose") THEN "closed" ELSE IF OpensNow THEN "open" ELSE state
streakBar == IF At("failAdd") THEN failures + 1 ELSE failures

B == INSTANCE Breaker WITH state <- stateBar, streak <- streakBar, last <- last

(* The breaker that goroutines share behaves as if CanExecute, OnSuccess   *)
(* and OnFailure were single steps: opened by the Threshold-th consecutive *)
(* failure, half-opened only after the reset timeout, closed by a success. *)
ImplementsBreaker == B!Spec

(* The circuit is closed exactly while fewer than Threshold attempts have  *)
(* failed since the last success, whatever goroutines are in OnSuccess,    *)
(* OnFailure or CanExecute.                                                *)
ClosedBelowThreshold == B!ClosedBelowThreshold

(* The inductive invariant behind the theorems of GoResilienceProofs: who  *)
(* holds the mutex, and what the holder has done to the breaker so far.    *)
Holding == {"canHeld", "sucStore", "sucClose",
            "failTime", "failAdd", "failOpen"}

MutexInv ==
  /\ \A t \in Tasks : pc[t] \in Holding <=> writer = t
  /\ \A t \in Tasks : pc[t] = "codeRead" <=> t \in readers
  /\ writer # NoTask => readers = {}

CounterInv ==
  /\ (\A t \in Tasks : pc[t] \notin {"sucClose", "failOpen"})
       => (state = "closed" <=> failures < Threshold)
  /\ \A t \in Tasks :
       /\ pc[t] = "sucClose" => failures = 0
       /\ pc[t] = "failOpen" =>
            /\ seen[t] = failures
            /\ failures > 0
            /\ state = "closed" <=> failures - 1 < Threshold
       /\ pc[t] \in {"failAdd", "failOpen"} => last # "none"
  /\ state # "closed" => last # "none"

IInv == TypeOK /\ MutexInv /\ CounterInv /\ HalfOpenHasTrial

(* Every call of ExecuteWithResilience returns: the retry loop ends, no    *)
(* goroutine waits for cb.mu forever.                                      *)
EveryCallReturns == \A t \in Tasks : pc[t] # "idle" ~> pc[t] = "idle"

-----------------------------------------------------------------------------
(* A statement of the documentation that the code does not keep.           *)

(* README.md:198: goy_store_circuit_breaker_state is the breaker's status, *)
(* at least once no call is under way.                                     *)
GaugeShowsState == (\A t \in Tasks : pc[t] = "idle") => gauge = state
=============================================================================
