--------------------------- MODULE MCRustSortedSet ---------------------------
(* A score, then -0.0 and 0.0, then NaN, in the order of total_cmp; ranges *)
(* of all kinds, inverted ones and such with NaN as well.                  *)
EXTENDS RustSortedSet

CONSTANTS m1, m2, m3

ThreeMembers == {m1, m2, m3}
WithZeros    == {-1, 0, 1, 9}
ValueOf      == [s \in WithZeros |-> CASE s = -1 -> -1 [] s \in {0, 1} -> 0 [] s = 9 -> Nil]
AllRanges    == WithZeros \X WithZeros
AllLimits    == {Nil, 0, 1, 2}

(* There are calls that are disputed and calls that are not. *)
ASSUME BothKinds ==
  /\ \E r \in AllRanges, l \in AllLimits \ {0} : r[1] <= r[2] /\ Disputed(r[1], r[2], l)
  /\ \E r \in AllRanges, l \in AllLimits : r[1] < r[2] /\ ~Disputed(r[1], r[2], l)
=============================================================================
