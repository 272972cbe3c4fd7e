---------------------------- MODULE MCStoreCalls ----------------------------
(* Small instances of StoreCalls for TLC. *)
EXTENDS StoreCalls, TLC

CONSTANTS c1, c2

TwoCalls == {c1, c2}
Symmetry2 == Permutations(TwoCalls)
=============================================================================
