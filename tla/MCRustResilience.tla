-------------------------- MODULE MCRustResilience --------------------------
(* Small instances of RustResilience for TLC. *)
EXTENDS RustResilience, TLC

CONSTANTS t1, t2

TwoTasks  == {t1, t2}
Symmetry2 == Permutations(TwoTasks)
=============================================================================
