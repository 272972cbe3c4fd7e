------------------------------- MODULE Breaker -------------------------------
(***************************************************************************)
(* What a circuit breaker of goy-store promises, with every operation a    *)
(* single step: the state machine both language ports set out to           *)
(* implement.  The clock is abstracted to what the breaker asks of it:     *)
(* whether the reset timeout has elapsed since the last failure.           *)
(***************************************************************************)
EXTENDS Naturals

CONSTANT Threshold      \* consecutive failures that open the circuit

VARIABLES
  state,    \* "closed", "open" or "half"
  streak,   \* failures recorded since the last success
  last      \* age of the last failure: "none", "fresh", or "stale" (>= reset)

vars == <<state, streak, last>>

Init ==
  /\ state = "closed"
  /\ streak = 0
  /\ last = "none"

\* CanExecute on an open circuit whose reset timeout has elapsed.
Probe ==
  /\ state = "open"
  /\ last = "stale"
  /\ state' = "half"
  /\ UNCHANGED <<streak, last>>

\* OnSuccess: one success closes the circuit from any state.
Success ==
  /\ state' = "closed"
  /\ streak' = 0
  /\ UNCHANGED last

\* OnFailure: the failure that reaches the threshold opens the circuit.
Failure ==
  /\ last' = "fresh"
  /\ streak' = streak + 1
  /\ state' = IF streak + 1 >= Threshold THEN "open" ELSE state

\* The reset timeout elapses.
Expire ==
  /\ last = "fresh"
  /\ last' = "stale"
  /\ UNCHANGED <<state, streak>>

Next == Probe \/ Success \/ Failure \/ Expire

Spec == Init /\ [][Next]_vars

-----------------------------------------------------------------------------
TypeOK ==
  /\ state \in {"closed", "open", "half"}
  /\ streak \in Nat
  /\ last \in {"none", "fresh", "stale"}

(* The circuit is closed exactly while fewer than Threshold failures have  *)
(* been recorded since the last success (OnFailure and OnSuccess): it      *)
(* opens at the threshold, a failed half-open trial always opens it again, *)
(* and it never stays open after a success.                                *)
ClosedBelowThreshold == state = "closed" <=> streak < Threshold

(* An open circuit has a failure time, without which CanExecute could      *)
(* never see the reset timeout elapse and would reject every call forever. *)
OpenHasTimestamp == state # "closed" => last # "none"
=============================================================================
