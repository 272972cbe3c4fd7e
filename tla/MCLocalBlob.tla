---------------------------- MODULE MCLocalBlob -----------------------------
(* Small instances of LocalBlob for TLC. *)
EXTENDS LocalBlob, TLC

CONSTANTS c1, c2, c3

ThreeCalls == {c1, c2, c3}
Symmetry3  == Permutations(ThreeCalls)
=============================================================================
