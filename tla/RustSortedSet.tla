---------------------------- MODULE RustSortedSet ----------------------------
(***************************************************************************)
(* One set of MemorySortedSetStore (rust/src/sorted_set.rs).  It keeps two *)
(* indexes, a BTreeMap from scores to the members that have them and a     *)
(* HashMap from members to scores, and answers some operations from one    *)
(* and some from the other.  Every operation runs under the store's lock.  *)
(* range_by_score compares scores with total_cmp, remove_range with the    *)
(* comparison operators; see SortedSet for scores and their values.  The   *)
(* names of the specification have Set in them, so that a module can       *)
(* extend this one and that of another store.                              *)
(***************************************************************************)
EXTENDS Integers, Sequences, FiniteSets, Functions

CONSTANTS Members, Scores, Nil, Value, Ranges, Limits,
  Panic   \* what a caller gets of a call that panics

ASSUME ScoresAssumption == Scores \subseteq Int /\ Nil \notin Scores
ASSUME ValueAssumption ==
  /\ Value \in [Scores -> Int \cup {Nil}]
  /\ \A s, t \in Scores :   \* total_cmp refines the order of the values
       s <= t /\ Nil \notin {Value[s], Value[t]} => Value[s] <= Value[t]
  /\ \A s, t, u \in Scores :   \* and has the NaNs at both ends
       s <= t /\ t <= u /\ Nil \notin {Value[s], Value[u]} => Value[t] # Nil
ASSUME RangesAssumption == Ranges \subseteq Scores \X Scores
ASSUME LimitsAssumption == Limits \subseteq Nat \cup {Nil}

VARIABLES
  scores,          \* InnerSet.scores
  member_scores,   \* InnerSet.member_scores
  out              \* the last call and what it returned

setVars == <<scores, member_scores, out>>

SetInit == scores = <<>> /\ member_scores = <<>> /\ out = <<<<"none">>, Nil>>

-----------------------------------------------------------------------------
(* An entry <<s, i>> of a BTreeMap b is the place i of the bucket b[s].    *)
Entries(b) == UNION {{s} \X DOMAIN b[s] : s \in DOMAIN b}

At(b, e) == b[e[1]][e[2]]

\* Iteration takes the scores in their order, and a bucket from its front.
Before(d, e) == d[1] < e[1] \/ (d[1] = e[1] /\ d[2] < e[2])

\* The entries of a finite set E as iteration takes them.
Iteration(E) ==
  [k \in 1 .. Cardinality(E) |->
     CHOOSE e \in E : Cardinality({d \in E : Before(d, e)}) = k - 1]

-----------------------------------------------------------------------------
(* members.retain(|m| m != member) of the bucket of s. *)
Retained(b, s, m) ==
  LET kept == Iteration({e \in Entries(b) : e[1] = s /\ At(b, e) # m})
  IN  [k \in DOMAIN kept |-> At(b, kept[k])]

(* Slips that the properties below must catch; no specification uses them. *)

\* add does not take the member out of the bucket of its old score.
UnlistNothing(m) == scores

\* The limit counts one entry more.
LimitedLate(q, limit) ==
  IF limit = Nil \/ Len(q) <= limit THEN q ELSE SubSeq(q, 1, limit + 1)

\* count answers with the length of the other index.
CountBuckets ==
  /\ out' = <<<<"count">>, Cardinality(DOMAIN scores)>>
  /\ UNCHANGED <<scores, member_scores>>

-----------------------------------------------------------------------------
\* BTreeMap b without m in the bucket of s; an empty bucket is removed.
Unlist(b, s, m) ==
  CASE s \notin DOMAIN b -> b
    [] s \in DOMAIN b /\ Retained(b, s, m) = <<>> -> Restrict(b, DOMAIN b \ {s})
    [] OTHER -> [b EXCEPT ![s] = Retained(b, s, m)]

\* scores without the bucket entry that member_scores has for m, if any.
Unlisted(m) ==
  IF m \in DOMAIN member_scores THEN Unlist(scores, member_scores[m], m)
                                ELSE scores

\* b with m at the end of the bucket of s: entry(s).or_default().push(m)
Push(b, s, m) ==
  [x \in DOMAIN b \cup {s} |->
     IF x = s THEN Append(IF s \in DOMAIN b THEN b[s] ELSE <<>>, m) ELSE b[x]]

\* s.0 >= min && s.0 <= max
Within(s, min, max) ==
  /\ Nil \notin {Value[s], Value[min], Value[max]}
  /\ Value[min] <= Value[s]
  /\ Value[s] <= Value[max]

\* What is between min and max in the order of the BTreeMap.
Traversal(min, max) ==
  LET es == Iteration({e \in Entries(scores) : min <= e[1] /\ e[1] <= max})
  IN  [k \in DOMAIN es |-> <<At(scores, es[k]), es[k][1]>>]

\* An entry is pushed before the limit is compared: a limit of 0 gives one.
Limited(q, limit) ==
  LET most == IF limit = 0 THEN 1 ELSE limit
  IN  IF limit = Nil \/ Len(q) <= most THEN q ELSE SubSeq(q, 1, most)

-----------------------------------------------------------------------------
add(m, s) ==
  /\ scores' = Push(Unlisted(m), s, m)
  /\ member_scores' = [x \in DOMAIN member_scores \cup {m} |->
                         IF x = m THEN s ELSE member_scores[x]]
  /\ out' = <<<<"add", m, s>>, "ok">>

remove(m) ==
  /\ scores' = Unlisted(m)
  /\ member_scores' = Restrict(member_scores, DOMAIN member_scores \ {m})
  /\ out' = <<<<"remove", m>>, "ok">>

(* BTreeMap::range panics when its start is behind its end, except on a    *)
(* map that has never held an entry.                                       *)
Listings(min, max, limit) ==
  CASE min <= max                    -> {Limited(Traversal(min, max), limit)}
    [] min > max /\ scores # <<>>    -> {Panic}
    [] OTHER                         -> {<<>>, Panic}

range_by_score(min, max, limit) ==
  /\ \E q \in Listings(min, max, limit) :
       out' = <<<<"range_by_score", min, max, limit>>, q>>
  /\ UNCHANGED <<scores, member_scores>>

count ==
  /\ out' = <<<<"count">>, Cardinality(DOMAIN member_scores)>>
  /\ UNCHANGED <<scores, member_scores>>

remove_range(min, max) ==
  LET doomed == {e \in Entries(scores) : Within(e[1], min, max)}
      gone   == {At(scores, e) : e \in doomed}
  IN  /\ scores' = Restrict(scores, {s \in DOMAIN scores : ~Within(s, min, max)})
      /\ member_scores' = Restrict(member_scores, DOMAIN member_scores \ gone)
      /\ out' = <<<<"remove_range", min, max>>, Cardinality(doomed)>>

score(m) ==
  /\ out' = <<<<"score", m>>,
              IF m \in DOMAIN member_scores THEN member_scores[m] ELSE Nil>>
  /\ UNCHANGED <<scores, member_scores>>

SetNext ==
  \/ \E m \in Members, s \in Scores : add(m, s)
  \/ \E m \in Members : remove(m) \/ score(m)
  \/ \E r \in Ranges, l \in Limits : range_by_score(r[1], r[2], l)
  \/ count
  \/ \E min, max \in Scores : remove_range(min, max)

SetSpec == SetInit /\ [][SetNext]_setVars

-----------------------------------------------------------------------------
SetTypeOK ==
  /\ DOMAIN scores \subseteq Scores
  /\ \A s \in DOMAIN scores : scores[s] \in Seq(Members)
  /\ DOMAIN member_scores \subseteq Members
  /\ IsFiniteSet(DOMAIN member_scores)
  /\ \A m \in DOMAIN member_scores : member_scores[m] \in Scores

(* The two indexes agree: a member is in exactly the bucket of its score,  *)
(* and once; a bucket whose members have all left is gone.                 *)
IndexesAgree ==
  /\ \A s \in DOMAIN scores : IsInjective(scores[s]) /\ scores[s] # <<>>
  /\ \A m \in Members, s \in Scores :
       (s \in DOMAIN scores /\ m \in Range(scores[s]))
         <=> (m \in DOMAIN member_scores /\ member_scores[m] = s)

Go == INSTANCE SortedSet WITH members <- member_scores

(* Calls on which the code of the two languages disagrees: a limit of 0,   *)
(* an inverted range, and a range with a score that total_cmp and the      *)
(* operators do not place alike (a bound that is NaN, -0.0 or 0.0).        *)
Disputed(min, max, limit) ==
  \/ limit = 0 \/ min > max
  \/ \E s \in Scores : ~((min <= s /\ s <= max) <=> Within(s, min, max))

(* The Rust store with its two indexes answers every sequence of calls as  *)
(* the Go store with its one map may: the same scores, counts, numbers of  *)
(* removed members and listings, up to the order of equal scores.  Only a  *)
(* disputed listing may differ, and it changes nothing.                    *)
ImplementsGo ==
  /\ Go!Init
  /\ [][ \/ \E r \in Ranges, l \in Limits :
              /\ out'[1] = <<"range_by_score", r[1], r[2], l>>
              /\ Disputed(r[1], r[2], l)
              /\ UNCHANGED member_scores
         \/ Go!Next
       ]_<<member_scores, out>>

(* What a listing owes its caller by SS-03 (PRD.md:166, "Returns members   *)
(* with scores in [min, max]. Supports limit/offset."), in the order of    *)
(* the numbers, and leaving open what the code gets wrong: whatever the    *)
(* call, members once each, with their present scores, and no more than a  *)
(* limit above 0.  Between bounds that are numbers, the members are in     *)
(* [min, max] and in order, and one that is in [min, max] is left out only *)
(* when the limit is reached, by one that is not before those listed, or   *)
(* when its score is a zero and a bound the other zero.                    *)
Sound(q, min, max, limit) ==
  /\ \A i, j \in 1 .. Len(q) : i < j => q[i][1] # q[j][1]
  /\ \A i \in 1 .. Len(q) :
       q[i][1] \in DOMAIN member_scores /\ q[i][2] = member_scores[q[i][1]]
  /\ limit \notin {Nil, 0} => Len(q) <= limit
  /\ Nil \notin {Value[min], Value[max]} =>
       /\ \A i \in 1 .. Len(q) : Within(q[i][2], min, max)
       /\ \A i, j \in 1 .. Len(q) :
            i < j => Value[q[i][2]] <= Value[q[j][2]]
       /\ \A m \in DOMAIN member_scores \ {q[i][1] : i \in 1 .. Len(q)} :
            Within(member_scores[m], min, max) =>
              \/ /\ limit # Nil /\ Len(q) >= limit
                 /\ \A i \in 1 .. Len(q) :
                      Value[q[i][2]] <= Value[member_scores[m]]
              \/ \E b \in {min, max} :
                   b # member_scores[m] /\ Value[b] = Value[member_scores[m]]

(* range_by_score of whatever range and limit, a disputed one too, shows   *)
(* what the set holds between the bounds and loses nothing inside them.    *)
RangeIsSound ==
  out[1][1] = "range_by_score" /\ out[2] # Panic
    => Sound(out[2], out[1][2], out[1][3], out[1][4])

(* All that PRD.md:166 says.  The code does not keep it, so no run checks  *)
(* it: a limit of 0 lists a member, a bound that is NaN lists numbers, a   *)
(* bound of 0.0 leaves -0.0 out, and an inverted range panics.             *)
RangeAsPromised ==
  out[1][1] = "range_by_score" =>
    LET q == out[2]  min == out[1][2]  max == out[1][3]  limit == out[1][4]
    IN  /\ q # Panic
        /\ Sound(q, min, max, limit)
        /\ limit = 0 => q = <<>>
        /\ \A i \in 1 .. Len(q) : Within(q[i][2], min, max)
        /\ limit = Nil => \A m \in DOMAIN member_scores :
             Within(member_scores[m], min, max) => \E i \in 1 .. Len(q) : q[i][1] = m
=============================================================================
