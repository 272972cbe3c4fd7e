------------------------------ MODULE SortedSet ------------------------------
(***************************************************************************)
(* One sorted set as memorySortedSet of go/memory.go keeps it: a map from  *)
(* members to scores.  Every operation runs under the store's lock.  A     *)
(* score stands for its rank in the total order of float64 values; Value   *)
(* is what the comparison operators see of it, Nil for NaN, so that       *)
(* -0.0 and 0.0 are two scores of the same value.                          *)
(***************************************************************************)
EXTENDS Integers, Sequences, FiniteSets, Functions

CONSTANTS
  Members, Scores, Nil,
  Value,     \* what `>=` and `<=` compare
  Ranges,    \* the arguments (min, max) of RangeByScore
  Limits     \* the argument limit; Nil is nil

VARIABLES
  members,   \* sets[set]
  out        \* the last call and what it returned

\* score >= min && score <= max
Within(s, min, max) ==
  /\ Nil \notin {Value[s], Value[min], Value[max]}
  /\ Value[min] <= Value[s]
  /\ Value[s] <= Value[max]

Selected(min, max) == {m \in DOMAIN members : Within(members[m], min, max)}

Init == members = <<>> /\ out = <<<<"none">>, Nil>>

Add(m, s) ==
  /\ members' = [x \in DOMAIN members \cup {m} |->
                   IF x = m THEN s ELSE members[x]]
  /\ out' = <<<<"add", m, s>>, "ok">>

(* Deleting an absent member is not an error.                              *)
Remove(m) ==
  /\ members' = Restrict(members, DOMAIN members \ {m})
  /\ out' = <<<<"remove", m>>, "ok">>

(* The members in the range in the order of their scores, the first limit  *)
(* of them; sort.Slice leaves the order of equal scores open.              *)
Listing(q, min, max, limit) ==
  LET in  == Selected(min, max)
      all == Cardinality(in)
  IN  /\ Len(q) = (IF limit # Nil /\ all > limit THEN limit ELSE all)
      /\ \A i \in 1 .. Len(q) : q[i][1] \in in /\ q[i][2] = members[q[i][1]]
      /\ \A i, j \in 1 .. Len(q) :
           i < j => q[i][1] # q[j][1] /\ Value[q[i][2]] <= Value[q[j][2]]
      /\ \A i \in 1 .. Len(q) : \A m \in in :
           (\A j \in 1 .. Len(q) : q[j][1] # m)
             => Value[q[i][2]] <= Value[members[m]]

RangeByScore(min, max, limit) ==
  /\ out'[1] = <<"range_by_score", min, max, limit>>
  /\ Listing(out'[2], min, max, limit)
  /\ UNCHANGED members

Count ==
  /\ out' = <<<<"count">>, Cardinality(DOMAIN members)>>
  /\ UNCHANGED members

RemoveRange(min, max) ==
  /\ members' = Restrict(members, DOMAIN members \ Selected(min, max))
  /\ out' = <<<<"remove_range", min, max>>, Cardinality(Selected(min, max))>>

Score(m) ==
  /\ out' = <<<<"score", m>>,
              IF m \in DOMAIN members THEN members[m] ELSE Nil>>
  /\ UNCHANGED members

Next ==
  \/ \E m \in Members, s \in Scores : Add(m, s)
  \/ \E m \in Members : Remove(m) \/ Score(m)
  \/ \E r \in Ranges, l \in Limits : RangeByScore(r[1], r[2], l)
  \/ Count
  \/ \E min, max \in Scores : RemoveRange(min, max)

Spec == Init /\ [][Next]_<<members, out>>
=============================================================================
