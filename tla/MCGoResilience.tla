--------------------------- MODULE MCGoResilience ---------------------------
(* Small instances of GoResilience for TLC. *)
EXTENDS GoResilience, TLC

CONSTANTS t1, t2

TwoTasks  == {t1, t2}

\* t1 makes two calls, t2 one.
UnevenCalls == t1 :> 2 @@ t2 :> 1
=============================================================================
