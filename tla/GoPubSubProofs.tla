--------------------------- MODULE GoPubSubProofs ---------------------------
(* Proofs about GoPubSub, for any channels, subscriptions, capacities and  *)
(* number of messages.                                                     *)
EXTENDS GoPubSub, SequenceTheorems, FiniteSetTheorems, TLAPS

-----------------------------------------------------------------------------
(* Sequences. *)

\* r is what is left of q when some messages are dropped.
Thinned(r, q) ==
  \E f \in [1 .. Len(r) -> 1 .. Len(q)] :
    /\ \A i, j \in 1 .. Len(r) : i < j => f[i] < f[j]
    /\ \A i \in 1 .. Len(r) : r[i] = q[f[i]]

(* Nothing is dropped. *)
LEMMA ThinSame == ASSUME NEW q \in Seq(Messages) PROVE Thinned(q, q)
<1> DEFINE f == [i \in 1 .. Len(q) |-> i]
<1>1. f \in [1 .. Len(q) -> 1 .. Len(q)]
  OBVIOUS
<1>2. /\ \A i, j \in 1 .. Len(q) : i < j => f[i] < f[j]
      /\ \A i \in 1 .. Len(q) : q[i] = q[f[i]]
  OBVIOUS
<1> QED BY <1>1, <1>2 DEF Thinned

(* The end of a sequence is dropped. *)
LEMMA ThinPrefix ==
  ASSUME NEW b \in Seq(Messages), NEW q \in Seq(Messages), NEW k \in 0 .. Len(q)
  PROVE  Thinned(b \o SubSeq(q, 1, k), b \o q)
<1> DEFINE r == b \o SubSeq(q, 1, k)
           f == [i \in 1 .. Len(r) |-> i]
<1>1. /\ SubSeq(q, 1, k) \in Seq(Messages) /\ Len(SubSeq(q, 1, k)) = k
      /\ \A i \in 1 .. k : SubSeq(q, 1, k)[i] = q[i]
  OBVIOUS
<1>2. Len(r) = Len(b) + k /\ Len(b \o q) = Len(b) + Len(q)
  BY <1>1, ConcatProperties
<1>3. \A i \in 1 .. Len(r) : r[i] = (b \o q)[i]
  BY <1>1, <1>2, ConcatProperties
<1>4. f \in [1 .. Len(r) -> 1 .. Len(b \o q)]
  BY <1>2
<1>5. /\ \A i, j \in 1 .. Len(r) : i < j => f[i] < f[j]
      /\ \A i \in 1 .. Len(r) : r[i] = (b \o q)[f[i]]
  BY <1>3
<1> QED BY <1>4, <1>5 DEF Thinned

(* One message in the middle is dropped. *)
LEMMA ThinDelete ==
  ASSUME NEW b \in Seq(Messages), NEW q \in Seq(Messages), NEW k \in Nat, k < Len(q)
  PROVE  /\ SubSeq(q, 1, k) \o SubSeq(q, k + 2, Len(q)) \in Seq(Messages)
         /\ Thinned(b \o (SubSeq(q, 1, k) \o SubSeq(q, k + 2, Len(q))), b \o q)
<1> DEFINE u == SubSeq(q, 1, k)
           v == SubSeq(q, k + 2, Len(q))
           w == u \o v
           r == b \o w
           f == [i \in 1 .. Len(r) |-> IF i <= Len(b) + k THEN i ELSE i + 1]
<1>1. u \in Seq(Messages) /\ Len(u) = k /\ \A i \in 1 .. k : u[i] = q[i]
  OBVIOUS
<1>2. /\ v \in Seq(Messages) /\ Len(v) = Len(q) - k - 1
      /\ \A i \in 1 .. Len(v) : v[i] = q[k + 1 + i]
  <2>1. \A i \in (k + 2) .. Len(q) : q[i] \in Messages
    OBVIOUS
  <2>2. v \in Seq(Messages) /\ Len(v) = (IF k + 2 <= Len(q) THEN Len(q) - (k + 2) + 1 ELSE 0)
    BY <2>1, SubSeqProperties
  <2>3. \A i \in 1 .. Len(q) - (k + 2) + 1 : v[i] = q[k + 2 + i - 1]
    BY <2>1, SubSeqProperties
  <2> QED BY <2>2, <2>3
<1>3. /\ w \in Seq(Messages) /\ Len(w) = Len(q) - 1
      /\ \A i \in 1 .. Len(w) : w[i] = IF i <= k THEN q[i] ELSE q[i + 1]
  <2>1. w \in Seq(Messages) /\ Len(w) = Len(u) + Len(v)
    BY <1>1, <1>2, ConcatProperties
  <2>2. \A i \in 1 .. Len(u) + Len(v) : w[i] = IF i <= Len(u) THEN u[i] ELSE v[i - Len(u)]
    BY <1>1, <1>2, ConcatProperties
  <2> HIDE DEF u, v, w
  <2> QED BY <1>1, <1>2, <2>1, <2>2
<1> HIDE DEF u, v, w
<1>4. /\ Len(r) = Len(b) + Len(q) - 1 /\ Len(b \o q) = Len(b) + Len(q)
      /\ \A i \in 1 .. Len(r) : r[i] = IF i <= Len(b) THEN b[i] ELSE w[i - Len(b)]
      /\ \A i \in 1 .. Len(b \o q) : (b \o q)[i] = IF i <= Len(b) THEN b[i] ELSE q[i - Len(b)]
  <2>1. /\ Len(b \o q) = Len(b) + Len(q)
        /\ \A i \in 1 .. Len(b) + Len(q) :
             (b \o q)[i] = IF i <= Len(b) THEN b[i] ELSE q[i - Len(b)]
    BY ConcatProperties
  <2>2. /\ Len(r) = Len(b) + Len(w)
        /\ \A i \in 1 .. Len(b) + Len(w) :
             r[i] = IF i <= Len(b) THEN b[i] ELSE w[i - Len(b)]
    BY <1>3, ConcatProperties
  <2> QED BY <1>3, <2>1, <2>2
<1>5. f \in [1 .. Len(r) -> 1 .. Len(b \o q)]
  BY <1>4
<1>6. \A i, j \in 1 .. Len(r) : i < j => f[i] < f[j]
  OBVIOUS
<1>7. ASSUME NEW i \in 1 .. Len(r) PROVE r[i] = (b \o q)[f[i]]
  <2> DEFINE B == Len(b)
             N == Len(q)
             j == i - B
             a == b \o q
  <2>1. B \in Nat /\ N \in Nat
    BY LenProperties
  <2>2. Len(r) = B + N - 1
    BY <1>4
  <2>3. f[i] = IF i <= B + k THEN i ELSE i + 1
    OBVIOUS
  <2> HIDE DEF f
  <2>4. /\ r[i] = IF i <= B THEN b[i] ELSE w[j]
        /\ \A x \in 1 .. B + N : a[x] = IF x <= B THEN b[x] ELSE q[x - B]
        /\ \A x \in 1 .. N - 1 : w[x] = IF x <= k THEN q[x] ELSE q[x + 1]
    BY <1>3, <1>4
  <2> HIDE DEF r, B, N, a
  <2>5. i \in 1 .. B + N - 1 /\ i \in Nat
    BY <2>1, <2>2
  <2>6. ASSUME i <= B PROVE r[i] = a[f[i]]
    BY <2>1, <2>3, <2>4, <2>5, <2>6
  <2>7. ASSUME i > B /\ i <= B + k PROVE r[i] = a[f[i]]
    <3>1. j \in 1 .. N - 1 /\ j <= k /\ i \in 1 .. B + N
      BY <2>1, <2>5, <2>7
    <3>2. r[i] = w[j] /\ f[i] = i /\ a[i] = q[j]
      BY <2>1, <2>3, <2>4, <2>5, <2>7, <3>1
    <3> HIDE DEF j
    <3> QED BY <2>4, <3>1, <3>2
  <2>8. ASSUME i > B + k PROVE r[i] = a[f[i]]
    <3>1. /\ j \in 1 .. N - 1 /\ ~(j <= k) /\ i + 1 \in 1 .. B + N
          /\ ~(i + 1 <= B) /\ ~(i <= B) /\ (i + 1) - B = j + 1
      BY <2>1, <2>5, <2>8
    <3>2. f[i] = i + 1
      BY <2>1, <2>3, <2>5, <2>8
    <3> HIDE DEF j
    <3>3. r[i] = w[j] /\ a[i + 1] = q[j + 1]
      BY <2>4, <3>1
    <3>4. w[j] = q[j + 1]
      BY <2>4, <3>1
    <3> QED BY <3>2, <3>3, <3>4
  <2>9. i <= B \/ (i > B /\ i <= B + k) \/ i > B + k
    BY <2>1, <2>5
  <2>10. r[i] = a[f[i]]
    BY <2>6, <2>7, <2>8, <2>9, Zenon
  <2> QED BY <2>10 DEF a
<1>8. Thinned(r, b \o q)
  BY <1>5, <1>6, <1>7 DEF Thinned
<1> QED BY <1>3, <1>8 DEF u, v, w

LEMMA Assoc ==
  ASSUME NEW a \in Seq(Messages), NEW b \in Seq(Messages), NEW c \in Seq(Messages)
  PROVE  a \o (b \o c) = (a \o b) \o c
BY ConcatAssociative

(* A message moves from one channel to the next. *)
LEMMA Moves ==
  ASSUME NEW a \in Seq(Messages), NEW b \in Seq(Messages), b # <<>>
  PROVE  /\ a \o b = (a \o <<Head(b)>>) \o Tail(b)
         /\ Head(b) \in Messages /\ Tail(b) \in Seq(Messages)
<1>1. /\ Head(b) \in Messages /\ Tail(b) \in Seq(Messages)
      /\ Len(Tail(b)) = Len(b) - 1
      /\ \A i \in 1 .. Len(Tail(b)) : Tail(b)[i] = b[i + 1]
      /\ Head(b) = b[1]
  BY HeadTailProperties
<1>2. b = <<Head(b)>> \o Tail(b)
  <2>1. <<Head(b)>> \in Seq(Messages) /\ Len(<<Head(b)>>) = 1 /\ <<Head(b)>>[1] = b[1]
    BY <1>1
  <2>2. /\ <<Head(b)>> \o Tail(b) \in Seq(Messages)
        /\ Len(<<Head(b)>> \o Tail(b)) = Len(b)
        /\ \A i \in 1 .. Len(b) : (<<Head(b)>> \o Tail(b))[i] = b[i]
    BY <1>1, <2>1, ConcatProperties
  <2> QED BY <2>2, SeqEqual
<1>3. (a \o <<Head(b)>>) \o Tail(b) = a \o (<<Head(b)>> \o Tail(b))
  BY <1>1, ConcatAssociative
<1> QED BY <1>1, <1>2, <1>3

(* The numbers in a sequence of messages. *)
LEMMA OfType == ASSUME NEW q \in Seq(Messages) PROVE Of(q) \subseteq Numbers
<1>1. ASSUME NEW i \in 1 .. Len(q) PROVE q[i].n \in Numbers
  <2>1. q[i] \in Messages
    BY ElementOfSeq
  <2> QED BY <2>1 DEF Messages
<1> QED BY <1>1 DEF Of

-----------------------------------------------------------------------------
(* Every step preserves the types of the variables. *)
LEMMA TypePreserved == TypeOK /\ LinkInv /\ [Next]_vars => TypeOK'
<1> SUFFICES ASSUME TypeOK, LinkInv, [Next]_vars PROVE TypeOK'
  OBVIOUS
<1> USE WishAssumption, SizeAssumption DEF TypeOK
<1>1. ASSUME NEW s \in Subs, Subscribe(s) \/ MemorySubscribe(s) PROVE TypeOK'
  <2>1. CASE Subscribe(s)
    BY <2>1 DEF Subscribe, outlet, history
  <2>2. CASE MemorySubscribe(s)
    BY <2>2 DEF MemorySubscribe, Listed, link, history
  <2> QED BY <1>1, <2>1, <2>2
<1>2. ASSUME NEW cs \in SUBSET Channels, Unsubscribe(cs) PROVE TypeOK'
  <2> DEFINE gone == UNION {table[c] : c \in cs}
  <2>1. PICK keep \in [gone -> 0 .. MaxMessages] :
          /\ \A s \in gone : keep[s] <= Len(inbox[s])
          /\ inbox' = [s \in Subs |-> IF s \in gone THEN SubSeq(inbox[s], 1, keep[s])
                                                    ELSE inbox[s]]
          /\ lost' = [s \in Subs |->
               IF s \in gone
                 THEN lost[s] \cup (Of(inbox[s]) \ Of(SubSeq(inbox[s], 1, keep[s])))
                 ELSE lost[s]]
    BY <1>2 DEF Unsubscribe, CloseAll
  <2>2. inbox' \in [Subs -> Seq(Messages)]
    <3>1. ASSUME NEW s \in gone PROVE SubSeq(inbox[s], 1, keep[s]) \in Seq(Messages)
      <4>1. s \in Subs
        OBVIOUS
      <4> HIDE DEF gone
      <4>2. keep[s] \in 0 .. MaxMessages /\ keep[s] <= Len(inbox[s])
        BY <2>1
      <4>3. inbox[s] \in Seq(Messages) /\ Len(inbox[s]) \in Nat
        BY <4>1
      <4> QED BY <4>2, <4>3
    <3> QED BY <2>1, <3>1
  <2>3. \A s \in Subs : Of(inbox[s]) \subseteq Numbers
    BY OfType
  <2>4. lost' \in [Subs -> SUBSET Numbers]
    BY <2>1, <2>3
  <2>5. conn' \in [Subs -> {"none", "open", "closed"}] /\ table' \in [Channels -> SUBSET Subs]
    BY <1>2 DEF Unsubscribe, CloseAll
  <2> QED BY <1>2, <2>2, <2>4, <2>5 DEF Unsubscribe, outlet
<1>3. ASSUME NEW cs \in SUBSET Channels, MemoryUnsubscribe(cs) PROVE TypeOK'
  BY <1>3 DEF MemoryUnsubscribe, link, outlet
<1>4. ASSUME NEW s \in Subs, Register(s) \/ SubscribeFails(s) PROVE TypeOK'
  <2>1. CASE Register(s)
    BY <2>1 DEF Register, Listed, history
  <2>2. CASE SubscribeFails(s)
    BY <2>2 DEF SubscribeFails, outlet, history
  <2> QED BY <1>4, <2>1, <2>2
<1>5. ASSUME NEW s \in Subs, Forward(s) PROVE TypeOK'
  <2>1. CASE CtxDone(s)
    <3>1. Of(inbox[s]) \subseteq Numbers
      BY OfType
    <3> QED BY <2>1, <3>1 DEF CtxDone
  <2>2. CASE Take(s)
    <3>1. <<Head(inbox[s])>> \in Seq(Messages) /\ Tail(inbox[s]) \in Seq(Messages)
      BY <2>2, HeadTailProperties DEF Take
    <3> QED BY <2>2, <3>1 DEF Take, outlet, history
  <2>3. CASE SeeEnd(s)
    BY <2>3 DEF SeeEnd, history
  <2>4. CASE Send(s)
    <3>1. Len(hold[s]) <= 1 /\ Len(out[s]) < OutSize
      BY <2>4 DEF Send, LinkInv
    <3>2. out[s] \o hold[s] \in Seq(Messages) /\ Len(out[s] \o hold[s]) <= OutSize
      BY <3>1
    <3> QED BY <2>4, <3>2 DEF Send, history
  <2> QED BY <1>5, <2>1, <2>2, <2>3, <2>4 DEF Forward
<1>6. ASSUME NEW s \in Subs, Overflow(s) PROVE TypeOK'
  <2>1. SubSeq(inbox[s], 1, InSize) \o SubSeq(inbox[s], InSize + 2, Len(inbox[s]))
          \in Seq(Messages)
    BY <1>6, ThinDelete DEF Overflow
  <2>2. inbox[s][InSize + 1].n \in Numbers
    <3>1. inbox[s][InSize + 1] \in Messages
      BY <1>6, ElementOfSeq DEF Overflow
    <3> QED BY <3>1 DEF Messages
  <2> QED BY <1>6, <2>1, <2>2 DEF Overflow, outlet
<1>7. ASSUME NEW s \in Subs, Read(s) PROVE TypeOK'
  <2>1. out[s] # <<>> =>
          /\ Head(out[s]) \in Messages /\ Tail(out[s]) \in Seq(Messages)
          /\ Len(Tail(out[s])) <= OutSize
    BY HeadTailProperties
  <2>2. CASE out[s] # <<>>
    <3>1. /\ got' = [got EXCEPT ![s] = Append(@, Head(out[s]))]
          /\ out' = [out EXCEPT ![s] = Tail(@)]
          /\ UNCHANGED <<backend, table, wanted, link, closed, ctx, reader, publishing, sent,
                         history>>
      BY <1>7, <2>2 DEF Read
    <3>2. got' \in [Subs -> Seq(Messages)] /\ out' \in [Subs -> Seq(Messages)]
      BY <2>1, <2>2, <3>1
    <3>3. \A t \in Subs : Len(out'[t]) <= OutSize
      BY <2>1, <2>2, <3>1
    <3> QED BY <3>1, <3>2, <3>3 DEF link, history
  <2>3. CASE out[s] = <<>>
    <3>1. /\ reader' = [reader EXCEPT ![s] = "over"]
          /\ UNCHANGED <<backend, table, wanted, conn, inbox, fwd, hold, out, closed, ctx,
                         got, publishing, sent, overlap, lost>>
      BY <1>7, <2>3 DEF Read, link, history
    <3>2. reader' \in [Subs -> {"none", "reading", "over", "left"}]
      BY <3>1
    <3> QED BY <3>1, <3>2
  <2> QED BY <2>2, <2>3
<1>8. ASSUME NEW s \in Subs, Cancel(s) \/ Leave(s) PROVE TypeOK'
  <2>1. CASE Cancel(s)
    BY <2>1 DEF Cancel, link, history
  <2>2. CASE Leave(s)
    BY <2>2 DEF Leave, link, history
  <2> QED BY <1>8, <2>1, <2>2
<1>9. ASSUME NEW c \in Channels, Publish(c) PROVE TypeOK'
  <2>1. [n |-> sent + 1, channel |-> c] \in Messages
    BY <1>9 DEF Publish, Messages, Numbers
  <2> QED BY <1>9, <2>1 DEF Publish, outlet, history
<1>10. ASSUME NEW c \in Channels, MemoryPublish(c) PROVE TypeOK'
  <2>1. sent + 1 \in Numbers
    BY <1>10 DEF MemoryPublish, Numbers
  <2> QED BY <1>10, <2>1 DEF MemoryPublish, link, outlet
<1>11. ASSUME NEW p \in publishing, Deliver(p) PROVE TypeOK'
  <2>1. ASSUME NEW s \in p.left, MemoryOffer(p, s) PROVE TypeOK'
    <3>1. p \in [n : Numbers, channel : Channels, left : SUBSET Subs]
      OBVIOUS
    <3> DEFINE m == [n |-> p.n, channel |-> p.channel]
    <3>2. m \in Messages /\ m.n \in Numbers /\ s \in Subs
      BY <3>1 DEF Messages
    <3>3. Offer(s, m)
      BY <2>1 DEF MemoryOffer
    <3> HIDE DEF m
    <3>4. /\ out' \in [Subs -> Seq(Messages)] /\ lost' \in [Subs -> SUBSET Numbers]
          /\ \A t \in Subs : Len(out'[t]) <= OutSize
      <4>1. CASE Len(out[s]) < OutSize
        <5>1. Append(out[s], m) \in Seq(Messages) /\ Len(Append(out[s], m)) <= OutSize
          BY <3>2, <4>1
        <5>2. out' = [out EXCEPT ![s] = Append(@, m)] /\ lost' = lost
          BY <3>3, <4>1 DEF Offer
        <5> QED BY <3>2, <5>1, <5>2
      <4>2. CASE ~(Len(out[s]) < OutSize)
        <5>1. lost' = [lost EXCEPT ![s] = @ \cup {m.n}] /\ out' = out
          BY <3>3, <4>2 DEF Offer
        <5> QED BY <3>2, <5>1
      <4> QED BY <4>1, <4>2
    <3>5. [p EXCEPT !.left = @ \ {s}] \in [n : Numbers, channel : Channels, left : SUBSET Subs]
      BY <3>1
    <3>6. publishing' \subseteq [n : Numbers, channel : Channels, left : SUBSET Subs]
      BY <2>1, <3>5 DEF MemoryOffer
    <3> QED BY <2>1, <3>4, <3>6 DEF MemoryOffer, link
  <2>2. CASE MemoryPublished(p)
    BY <2>2 DEF MemoryPublished, link, outlet, history
  <2> QED BY <1>11, <2>1, <2>2 DEF Deliver
<1>12. CASE UNCHANGED vars
  BY <1>12 DEF vars
<1> QED
  BY <1>1, <1>2, <1>3, <1>4, <1>5, <1>6, <1>7, <1>8, <1>9, <1>10, <1>11, <1>12 DEF Next

(* Every step keeps the table, the connections and the goroutines in step. *)
LEMMA LinkPreserved == TypeOK /\ LinkInv /\ PublishInv /\ [Next]_vars => LinkInv'
<1> SUFFICES ASSUME TypeOK, LinkInv, PublishInv, [Next]_vars PROVE LinkInv'
  OBVIOUS
<1> USE WishAssumption DEF TypeOK, LinkInv
<1>1. ASSUME NEW s \in Subs, Subscribe(s) PROVE LinkInv'
  BY <1>1 DEF Subscribe, outlet, history
<1>2. ASSUME NEW s \in Subs, MemorySubscribe(s) PROVE LinkInv'
  <2>1. /\ wanted' = [wanted EXCEPT ![s] = Wish[s]]
        /\ \A c \in Channels : table'[c] = IF c \in Wish[s] THEN table[c] \cup {s} ELSE table[c]
        /\ UNCHANGED <<backend, conn, inbox, fwd, hold>> /\ backend = "memory"
    BY <1>2 DEF MemorySubscribe, Listed, link
  <2>2. ASSUME NEW c \in Channels, NEW t \in table'[c] PROVE c \in wanted'[t]
    <3>0. table[c] \subseteq Subs
      OBVIOUS
    <3>1. t \in Subs /\ (t \in table[c] \/ (t = s /\ c \in Wish[s]))
      <4>1. CASE c \in Wish[s]
        <5>1. table'[c] = table[c] \cup {s}
          BY <2>1, <4>1
        <5> QED BY <2>2, <3>0, <4>1, <5>1
      <4>2. CASE c \notin Wish[s]
        BY <2>1, <3>0, <4>2
      <4> QED BY <4>1, <4>2
    <3>2. wanted[s] \subseteq Wish[s] /\ wanted'[s] = Wish[s]
      BY <2>1
    <3> QED BY <2>1, <3>1, <3>2
  <2> QED BY <2>1, <2>2
<1>3. ASSUME NEW cs \in SUBSET Channels, Unsubscribe(cs) PROVE LinkInv'
  BY <1>3 DEF Unsubscribe, CloseAll, outlet
<1>4. ASSUME NEW cs \in SUBSET Channels, MemoryUnsubscribe(cs) PROVE LinkInv'
  BY <1>4 DEF MemoryUnsubscribe, link, outlet
<1>5. ASSUME NEW s \in Subs, Register(s) PROVE LinkInv'
  BY <1>5 DEF Register, Listed, history
<1>6. ASSUME NEW s \in Subs, SubscribeFails(s) PROVE LinkInv'
  BY <1>6 DEF SubscribeFails, outlet, history
<1>7. ASSUME NEW s \in Subs, Forward(s) PROVE LinkInv'
  <2>1. CASE CtxDone(s)
    BY <2>1 DEF CtxDone
  <2>2. CASE Take(s)
    BY <2>2 DEF Take, outlet, history
  <2>3. CASE SeeEnd(s)
    BY <2>3 DEF SeeEnd, history
  <2>4. CASE Send(s)
    BY <2>4 DEF Send, history
  <2> QED BY <1>7, <2>1, <2>2, <2>3, <2>4 DEF Forward
<1>8. ASSUME NEW s \in Subs, Overflow(s) PROVE LinkInv'
  BY <1>8, SizeAssumption DEF Overflow, outlet
<1>9. ASSUME NEW s \in Subs, Read(s) PROVE LinkInv'
  <2>1. \A t \in Subs : reader'[t] # "none" => reader[t] # "none"
    BY <1>9 DEF Read
  <2>2. UNCHANGED <<backend, table, wanted, conn, inbox, fwd, hold>>
    BY <1>9 DEF Read, link
  <2> QED BY <2>1, <2>2
<1>10. ASSUME NEW s \in Subs, Cancel(s) \/ Leave(s) PROVE LinkInv'
  <2>1. \A t \in Subs : reader'[t] # "none" => reader[t] # "none"
    BY <1>10 DEF Cancel, Leave
  <2>2. UNCHANGED <<backend, table, wanted, conn, inbox, fwd, hold>>
    BY <1>10 DEF Cancel, Leave, link
  <2> QED BY <2>1, <2>2
<1>11. ASSUME NEW c \in Channels, Publish(c) PROVE LinkInv'
  BY <1>11 DEF Publish, outlet, history
<1>12. ASSUME NEW c \in Channels, MemoryPublish(c) PROVE LinkInv'
  BY <1>12 DEF MemoryPublish, link, outlet
<1>13. ASSUME NEW p \in publishing, Deliver(p) PROVE LinkInv'
  BY <1>13 DEF Deliver, MemoryOffer, MemoryPublished, link, outlet
<1>14. CASE UNCHANGED vars
  BY <1>14 DEF vars
<1> QED
  BY <1>1, <1>2, <1>3, <1>4, <1>5, <1>6, <1>7, <1>8, <1>9, <1>10, <1>11, <1>12, <1>13, <1>14
  DEF Next

(* The table does not change while a message is offered to those in it.    *)
LEMMA PublishPreserved == TypeOK /\ LinkInv /\ PublishInv /\ [Next]_vars => PublishInv'
<1> SUFFICES ASSUME TypeOK, LinkInv, PublishInv, [Next]_vars PROVE PublishInv'
  OBVIOUS
<1> USE DEF TypeOK, PublishInv
<1>1. ASSUME UNCHANGED <<backend, publishing, sent, overlap>>,
             backend = "redis" \/ publishing = {} \/ UNCHANGED table
      PROVE  PublishInv'
  BY <1>1
<1>2. ASSUME NEW s \in Subs, Subscribe(s) \/ MemorySubscribe(s) PROVE PublishInv'
  BY <1>1, <1>2 DEF Subscribe, MemorySubscribe, Unlocked, outlet, history
<1>3. ASSUME NEW cs \in SUBSET Channels, Unsubscribe(cs) \/ MemoryUnsubscribe(cs)
      PROVE  PublishInv'
  BY <1>1, <1>3 DEF Unsubscribe, MemoryUnsubscribe, Unlocked, outlet
<1>4. ASSUME NEW s \in Subs, Register(s) PROVE PublishInv'
  <2>1. backend = "redis"
    BY <1>4 DEF Register, LinkInv
  <2> QED BY <1>1, <1>4, <2>1 DEF Register, history
<1>5. ASSUME NEW s \in Subs, SubscribeFails(s) \/ Forward(s) \/ Overflow(s) PROVE PublishInv'
  BY <1>1, <1>5
  DEF SubscribeFails, Forward, CtxDone, Take, SeeEnd, Send, Overflow, outlet, history
<1>6. ASSUME NEW s \in Subs, Read(s) \/ Cancel(s) \/ Leave(s) PROVE PublishInv'
  BY <1>1, <1>6 DEF Read, Cancel, Leave, link, history
<1>7. ASSUME NEW c \in Channels, Publish(c) PROVE PublishInv'
  BY <1>7 DEF Publish, outlet, history
<1>8. ASSUME NEW c \in Channels, MemoryPublish(c) PROVE PublishInv'
  <2> DEFINE new == [n |-> sent + 1, channel |-> c, left |-> table[c]]
  <2>1. /\ sent' = sent + 1 /\ sent + 1 \in Numbers
        /\ publishing' = publishing \cup {new}
        /\ overlap' = [overlap EXCEPT ![sent + 1] = {p.n : p \in publishing}]
        /\ UNCHANGED <<backend, table>> /\ backend = "memory"
    BY <1>8, SizeAssumption DEF MemoryPublish, Numbers
  <2>2. ASSUME NEW p \in publishing'
        PROVE  p.n <= sent' /\ p.left \subseteq table'[p.channel]
    BY <2>1, <2>2 DEF Numbers
  <2>3. ASSUME NEW p \in publishing', NEW k \in Numbers, p.n < k, k <= sent'
        PROVE  p.n \in overlap'[k]
    <3>1. p \in publishing
      BY <2>1, <2>3 DEF Numbers
    <3>2. CASE k = sent + 1
      BY <2>1, <3>1, <3>2
    <3>3. CASE k # sent + 1
      BY <2>1, <2>3, <3>1, <3>3 DEF Numbers
    <3> QED BY <3>2, <3>3
  <2>4. ASSUME NEW p \in publishing', NEW q \in publishing', p.n = q.n PROVE p = q
    BY <2>1, <2>4 DEF Numbers
  <2> QED BY <2>1, <2>2, <2>3, <2>4
<1>9. ASSUME NEW p \in publishing, Deliver(p) PROVE PublishInv'
  <2>1. ASSUME NEW s \in p.left, MemoryOffer(p, s) PROVE PublishInv'
    <3> DEFINE new == [p EXCEPT !.left = @ \ {s}]
    <3>1. new.n = p.n /\ new.channel = p.channel /\ new.left \subseteq p.left
      OBVIOUS
    <3>2. publishing' = (publishing \ {p}) \cup {new}
      BY <2>1 DEF MemoryOffer
    <3>3. UNCHANGED <<backend, table, sent, overlap>>
      BY <2>1 DEF MemoryOffer
    <3> HIDE DEF new
    <3>4. \A q \in publishing' : \E r \in publishing :
            q.n = r.n /\ q.channel = r.channel /\ q.left \subseteq r.left
      BY <3>1, <3>2
    <3>5. \A q, r \in publishing' : q.n = r.n => q = r
      BY <3>1, <3>2
    <3>6. backend = "redis" => publishing' = {}
      OBVIOUS
    <3> QED BY <3>3, <3>4, <3>5, <3>6
  <2>2. CASE MemoryPublished(p)
    BY <2>2 DEF MemoryPublished, history
  <2> QED BY <1>9, <2>1, <2>2 DEF Deliver
<1>10. CASE UNCHANGED vars
  BY <1>10 DEF vars
<1> QED
  BY <1>2, <1>3, <1>4, <1>5, <1>6, <1>7, <1>8, <1>9, <1>10 DEF Next

-----------------------------------------------------------------------------
(* What is on its way to a subscriber is a sequence of messages. *)
LEMMA StreamType ==
  ASSUME TypeOK, NEW s \in Subs
  PROVE  /\ Stream(s) \in Seq(Messages)
         /\ got[s] \o out[s] \o hold[s] \in Seq(Messages)
         /\ got[s] \o out[s] \in Seq(Messages)
<1>1. /\ got[s] \in Seq(Messages) /\ out[s] \in Seq(Messages)
      /\ hold[s] \in Seq(Messages) /\ inbox[s] \in Seq(Messages)
  BY DEF TypeOK
<1> QED BY <1>1, ConcatProperties DEF Stream

\* The ways in which a message is given to a subscription.
GivenByRedis(s) ==
  /\ backend = "redis" /\ conn[s] = "open"
  /\ sent < MaxMessages /\ sent' = sent + 1
  /\ \E c \in wanted[s] : Stream(s)' = Append(Stream(s), [n |-> sent + 1, channel |-> c])

GivenInMemory(s) ==
  \E p \in publishing :
    /\ s \in p.left
    /\ Stream(s)' = Append(Stream(s), [n |-> p.n, channel |-> p.channel])
    /\ \A q \in publishing' : s \in q.left => q.n # p.n

(* A step moves messages on, drops some, or gives the subscription one.    *)
LEMMA StreamStep ==
  ASSUME TypeOK, LinkInv, PublishInv, [Next]_vars, NEW s \in Subs
  PROVE  Thinned(Stream(s)', Stream(s)) \/ GivenByRedis(s) \/ GivenInMemory(s)
<1> DEFINE Goal == Thinned(Stream(s)', Stream(s)) \/ GivenByRedis(s) \/ GivenInMemory(s)
<1>0. /\ got[s] \in Seq(Messages) /\ out[s] \in Seq(Messages)
      /\ hold[s] \in Seq(Messages) /\ inbox[s] \in Seq(Messages)
  BY DEF TypeOK
<1>a. got[s] \o out[s] \o hold[s] \in Seq(Messages) /\ got[s] \o out[s] \in Seq(Messages)
  BY StreamType
<1>1. ASSUME Stream(s)' = Stream(s) PROVE Goal
  BY <1>1, StreamType, ThinSame
<1>2. ASSUME UNCHANGED <<got, out, hold, inbox>> PROVE Goal
  <2>1. Stream(s)' = Stream(s)
    BY <1>2 DEF Stream
  <2> QED BY <1>1, <2>1
<1>3. ASSUME UNCHANGED <<got, out, hold>>, NEW k \in 0 .. Len(inbox[s]),
             inbox'[s] = SubSeq(inbox[s], 1, k)
      PROVE  Goal
  <2>1. Stream(s)' = (got[s] \o out[s] \o hold[s]) \o SubSeq(inbox[s], 1, k)
    BY <1>3 DEF Stream
  <2> QED BY <1>0, <1>a, <2>1, ThinPrefix DEF Stream
<1>4. ASSUME NEW t \in Subs, Subscribe(t) \/ MemorySubscribe(t) PROVE Goal
  BY <1>2, <1>4 DEF Subscribe, MemorySubscribe, link, outlet
<1>5. ASSUME NEW cs \in SUBSET Channels, Unsubscribe(cs) PROVE Goal
  <2> DEFINE gone == UNION {table[c] : c \in cs}
  <2>1. PICK keep \in [gone -> 0 .. MaxMessages] :
          /\ \A t \in gone : keep[t] <= Len(inbox[t])
          /\ inbox' = [t \in Subs |-> IF t \in gone THEN SubSeq(inbox[t], 1, keep[t])
                                                    ELSE inbox[t]]
    BY <1>5 DEF Unsubscribe, CloseAll
  <2>2. UNCHANGED <<got, out, hold>>
    BY <1>5 DEF Unsubscribe, outlet
  <2> HIDE DEF gone
  <2>3. CASE s \in gone
    <3>1. keep[s] \in 0 .. Len(inbox[s]) /\ inbox'[s] = SubSeq(inbox[s], 1, keep[s])
      BY <1>0, <2>1, <2>3, SizeAssumption
    <3> QED BY <1>3, <2>2, <3>1
  <2>4. CASE s \notin gone
    <3>1. inbox'[s] = inbox[s]
      BY <2>1, <2>4
    <3> QED BY <1>1, <2>2, <3>1 DEF Stream
  <2> QED BY <2>3, <2>4
<1>6. ASSUME NEW cs \in SUBSET Channels, MemoryUnsubscribe(cs) PROVE Goal
  BY <1>2, <1>6 DEF MemoryUnsubscribe, link, outlet
<1>7. ASSUME NEW t \in Subs, Register(t) PROVE Goal
  BY <1>2, <1>7 DEF Register
<1>8. ASSUME NEW t \in Subs, SubscribeFails(t) \/ CtxDone(t) PROVE Goal
  <2>1. UNCHANGED <<got, out, hold>> /\ inbox' = [inbox EXCEPT ![t] = <<>>]
    BY <1>8 DEF SubscribeFails, CtxDone, outlet
  <2>2. CASE t = s
    <3>1. inbox'[s] = SubSeq(inbox[s], 1, 0) /\ 0 \in 0 .. Len(inbox[s])
      BY <1>0, <2>1, <2>2, SubSeqEmpty DEF TypeOK
    <3> QED BY <1>3, <2>1, <3>1
  <2>3. CASE t # s
    BY <1>1, <2>1, <2>3 DEF TypeOK, Stream
  <2> QED BY <2>2, <2>3
<1>9. ASSUME NEW t \in Subs, Take(t) PROVE Goal
  <2>1. CASE t = s
    <3>1. /\ hold'[s] = <<Head(inbox[s])>> /\ inbox'[s] = Tail(inbox[s])
          /\ UNCHANGED <<got, out>> /\ inbox[s] # <<>> /\ hold[s] = <<>>
      BY <1>9, <2>1 DEF Take, TypeOK, LinkInv, outlet
    <3>2. Stream(s) = (got[s] \o out[s]) \o inbox[s]
      BY <1>a, <3>1, ConcatEmptySeq DEF Stream
    <3>3. Stream(s)' = ((got[s] \o out[s]) \o <<Head(inbox[s])>>) \o Tail(inbox[s])
      BY <3>1 DEF Stream
    <3> QED BY <1>0, <1>1, <1>a, <3>1, <3>2, <3>3, Moves
  <2>2. CASE t # s
    BY <1>1, <1>9, <2>2 DEF Take, TypeOK, Stream, outlet
  <2> QED BY <2>1, <2>2
<1>10. ASSUME NEW t \in Subs, SeeEnd(t) PROVE Goal
  BY <1>2, <1>10 DEF SeeEnd
<1>11. ASSUME NEW t \in Subs, Send(t) PROVE Goal
  <2>1. CASE t = s
    <3>1. /\ out'[s] = out[s] \o hold[s] /\ hold'[s] = <<>>
          /\ UNCHANGED <<got, inbox>>
      BY <1>11, <2>1 DEF Send, TypeOK
    <3>2. Stream(s)' = (got[s] \o (out[s] \o hold[s])) \o <<>> \o inbox[s]
      BY <3>1 DEF Stream
    <3>3. got[s] \o (out[s] \o hold[s]) = got[s] \o out[s] \o hold[s]
      BY <1>0, Assoc
    <3>4. (got[s] \o out[s] \o hold[s]) \o <<>> = got[s] \o out[s] \o hold[s]
      BY <1>a, ConcatEmptySeq
    <3> QED BY <1>1, <3>2, <3>3, <3>4 DEF Stream
  <2>2. CASE t # s
    BY <1>1, <1>11, <2>2 DEF Send, TypeOK, Stream
  <2> QED BY <2>1, <2>2
<1>12. ASSUME NEW t \in Subs, Overflow(t) PROVE Goal
  <2>1. CASE t = s
    <3>1. /\ inbox'[s] = SubSeq(inbox[s], 1, InSize)
                           \o SubSeq(inbox[s], InSize + 2, Len(inbox[s]))
          /\ InSize < Len(inbox[s]) /\ InSize \in Nat /\ UNCHANGED <<got, out, hold>>
      BY <1>0, <1>12, <2>1, SizeAssumption DEF Overflow, TypeOK, outlet
    <3>2. Stream(s)' = (got[s] \o out[s] \o hold[s]) \o inbox'[s]
      BY <3>1 DEF Stream
    <3> QED BY <1>0, <1>a, <3>1, <3>2, ThinDelete DEF Stream
  <2>2. CASE t # s
    BY <1>1, <1>12, <2>2 DEF Overflow, TypeOK, Stream, outlet
  <2> QED BY <2>1, <2>2
<1>13. ASSUME NEW t \in Subs, Read(t) PROVE Goal
  <2>1. CASE t = s /\ out[s] # <<>>
    <3>1. /\ got'[s] = Append(got[s], Head(out[s])) /\ out'[s] = Tail(out[s])
          /\ UNCHANGED <<hold, inbox>>
      BY <1>13, <2>1 DEF Read, TypeOK, link
    <3>2. Head(out[s]) \in Messages
      BY <1>0, <2>1, HeadTailProperties
    <3>3. got'[s] = got[s] \o <<Head(out[s])>>
      BY <1>0, <3>1, <3>2, AppendIsConcat
    <3>4. got'[s] \o out'[s] = got[s] \o out[s]
      <4>1. got[s] \o out[s] = (got[s] \o <<Head(out[s])>>) \o Tail(out[s])
        BY <1>0, <2>1, Moves
      <4> QED BY <3>1, <3>3, <4>1, Zenon
    <3> QED BY <1>1, <3>1, <3>4 DEF Stream
  <2>2. CASE t # s \/ out[s] = <<>>
    BY <1>1, <1>13, <2>2 DEF Read, TypeOK, Stream, link
  <2> QED BY <2>1, <2>2
<1>14. ASSUME NEW t \in Subs, Cancel(t) \/ Leave(t) PROVE Goal
  BY <1>2, <1>14 DEF Cancel, Leave, link
<1>15. ASSUME NEW c \in Channels, Publish(c) PROVE Goal
  <2> DEFINE m == [n |-> sent + 1, channel |-> c]
  <2>1. /\ UNCHANGED <<got, out, hold>> /\ backend = "redis"
        /\ sent < MaxMessages /\ sent' = sent + 1
    BY <1>15 DEF Publish, outlet
  <2>2. CASE inbox'[s] = inbox[s]
    BY <1>1, <2>1, <2>2 DEF Stream
  <2>3. CASE inbox'[s] # inbox[s]
    <3>1. conn[s] = "open" /\ c \in wanted[s] /\ inbox'[s] = Append(inbox[s], m)
      BY <1>15, <2>3 DEF Publish
    <3>2. m \in Messages
      BY <2>1, SizeAssumption DEF TypeOK, Messages, Numbers
    <3> HIDE DEF m
    <3>3. Stream(s)' = (got[s] \o out[s] \o hold[s]) \o (inbox[s] \o <<m>>)
      BY <1>0, <2>1, <3>1, <3>2, AppendIsConcat DEF Stream
    <3>4. Stream(s)' = ((got[s] \o out[s] \o hold[s]) \o inbox[s]) \o <<m>>
      <4>1. <<m>> \in Seq(Messages)
        BY <3>2
      <4> DEFINE b == got[s] \o out[s] \o hold[s]
      <4>2. b \in Seq(Messages)
        BY <1>a
      <4> HIDE DEF b
      <4>3. b \o (inbox[s] \o <<m>>) = (b \o inbox[s]) \o <<m>>
        BY <1>0, <4>1, <4>2, Assoc
      <4> QED BY <3>3, <4>3, Zenon DEF b
    <3>5. Stream(s)' = Append(Stream(s), m)
      BY <3>2, <3>4, StreamType, AppendIsConcat DEF Stream
    <3> QED BY <2>1, <3>1, <3>5 DEF GivenByRedis, m
  <2> QED BY <2>2, <2>3
<1>16. ASSUME NEW c \in Channels, MemoryPublish(c) PROVE Goal
  BY <1>2, <1>16 DEF MemoryPublish, link, outlet
<1>17. ASSUME NEW p \in publishing, Deliver(p) PROVE Goal
  <2>1. CASE MemoryPublished(p)
    BY <1>2, <2>1 DEF MemoryPublished, link, outlet
  <2>2. ASSUME NEW t \in p.left, MemoryOffer(p, t) PROVE Goal
    <3> DEFINE m == [n |-> p.n, channel |-> p.channel]
               new == [p EXCEPT !.left = @ \ {t}]
    <3>1. UNCHANGED <<got, hold, inbox>> /\ Offer(t, m)
      BY <2>2 DEF MemoryOffer, link
    <3>2. t \in Subs
      BY DEF TypeOK
    <3>3. CASE out'[s] = out[s]
      BY <1>1, <3>1, <3>3 DEF Stream
    <3>4. CASE out'[s] # out[s]
      <4>1. t = s /\ out'[s] = Append(out[s], m)
        BY <3>1, <3>2, <3>4 DEF Offer, TypeOK
      <4>2. m \in Messages
        <5>1. p \in [n : Numbers, channel : Channels, left : SUBSET Subs]
          BY DEF TypeOK
        <5> QED BY <5>1 DEF Messages
      <4>3. hold[s] = <<>> /\ inbox[s] = <<>>
        BY DEF LinkInv, PublishInv, TypeOK
      <4>4. publishing' = (publishing \ {p}) \cup {new} /\ s \notin new.left
        BY <2>2, <4>1 DEF MemoryOffer
      <4>5. \A q \in publishing' : s \in q.left => q.n # p.n
        BY <4>4 DEF PublishInv
      <4> HIDE DEF m, new
      <4>6. Stream(s) = got[s] \o out[s]
        BY <1>a, <4>3, ConcatEmptySeq DEF Stream
      <4>7. /\ got[s] \o (out[s] \o <<m>>) = (got[s] \o out[s]) \o <<m>>
            /\ (got[s] \o out[s]) \o <<m>> \in Seq(Messages)
        <5>1. <<m>> \in Seq(Messages)
          BY <4>2
        <5>2. got[s] \o (out[s] \o <<m>>) = (got[s] \o out[s]) \o <<m>>
          BY <1>0, <5>1, Assoc
        <5> QED BY <1>a, <5>1, <5>2, ConcatProperties
      <4>8. Stream(s)' = (got[s] \o out[s]) \o <<m>> \o <<>> \o <<>>
        BY <1>0, <3>1, <4>1, <4>2, <4>3, <4>7, AppendIsConcat DEF Stream
      <4>9. Stream(s)' = (got[s] \o out[s]) \o <<m>>
        BY <4>7, <4>8, ConcatEmptySeq
      <4>10. Stream(s)' = Append(Stream(s), m)
        BY <1>a, <4>2, <4>6, <4>9, AppendIsConcat
      <4> QED BY <4>1, <4>5, <4>10 DEF GivenInMemory, m
    <3> QED BY <3>3, <3>4
  <2> QED BY <1>17, <2>1, <2>2 DEF Deliver
<1>18. CASE UNCHANGED vars
  BY <1>2, <1>18 DEF vars
<1>19. ASSUME NEW t \in Subs, Forward(t) PROVE Goal
  BY <1>8, <1>9, <1>10, <1>11, <1>19 DEF Forward
<1>20. CASE Next
  <2>1. CASE \E t \in Subs : Subscribe(t) \/ MemorySubscribe(t)
    BY <1>4, <2>1
  <2>2. CASE \E cs \in SUBSET Channels : Unsubscribe(cs) \/ MemoryUnsubscribe(cs)
    BY <1>5, <1>6, <2>2
  <2>3. CASE \E t \in Subs : Register(t) \/ SubscribeFails(t) \/ Forward(t) \/ Overflow(t)
    BY <1>7, <1>8, <1>12, <1>19, <2>3
  <2>4. CASE \E t \in Subs : Read(t) \/ Cancel(t) \/ Leave(t)
    BY <1>13, <1>14, <2>4
  <2>5. CASE \E c \in Channels : Publish(c) \/ MemoryPublish(c)
    BY <1>15, <1>16, <2>5
  <2> QED BY <1>17, <1>20, <2>1, <2>2, <2>3, <2>4, <2>5 DEF Next
<1> QED BY <1>18, <1>20 DEF Goal

(* Numbers go up, and what overlapped a message is known when it begins.   *)
LEMMA NumbersGrow ==
  ASSUME TypeOK, LinkInv, [Next]_vars
  PROVE  /\ sent <= sent'
         /\ \A m \in Numbers : m <= sent => overlap'[m] = overlap[m]
         /\ \A s \in Subs : wanted[s] \subseteq wanted'[s]
<1> USE SizeAssumption, WishAssumption DEF TypeOK
<1>1. ASSUME NEW s \in Subs, Subscribe(s) \/ MemorySubscribe(s)
      PROVE  UNCHANGED <<sent, overlap>> /\ wanted' = [wanted EXCEPT ![s] = Wish[s]]
  BY <1>1 DEF Subscribe, MemorySubscribe, history
<1>2. ASSUME NEW c \in Channels, MemoryPublish(c)
      PROVE  /\ sent' = sent + 1 /\ UNCHANGED wanted
             /\ \A m \in Numbers : m <= sent => overlap'[m] = overlap[m]
  BY <1>2 DEF MemoryPublish, Numbers
<1>3. ASSUME NEW c \in Channels, Publish(c)
      PROVE  sent' = sent + 1 /\ UNCHANGED <<wanted, overlap>>
  BY <1>3 DEF Publish, history
<1>4. ASSUME \/ \E cs \in SUBSET Channels : Unsubscribe(cs) \/ MemoryUnsubscribe(cs)
             \/ \E s \in Subs : Register(s) \/ SubscribeFails(s) \/ Forward(s) \/ Overflow(s)
             \/ \E s \in Subs : Read(s) \/ Cancel(s) \/ Leave(s)
             \/ \E p \in publishing : Deliver(p)
             \/ UNCHANGED vars
      PROVE  UNCHANGED <<sent, overlap, wanted>>
  BY <1>4 DEF Unsubscribe, MemoryUnsubscribe, Register, SubscribeFails, Forward,
     CtxDone, Take,
              SeeEnd, Send, Overflow, Read, Cancel, Leave, Deliver, MemoryOffer,
              MemoryPublished, history, vars
<1>5. CASE \E s \in Subs : Subscribe(s) \/ MemorySubscribe(s)
  <2>1. PICK s \in Subs : Subscribe(s) \/ MemorySubscribe(s)
    BY <1>5
  <2>2. UNCHANGED <<sent, overlap>> /\ wanted' = [wanted EXCEPT ![s] = Wish[s]]
    BY <1>1, <2>1
  <2>3. wanted[s] \subseteq Wish[s]
    BY DEF LinkInv
  <2>4. \A t \in Subs : wanted[t] \subseteq wanted'[t]
    BY <2>2, <2>3
  <2> QED BY <2>2, <2>4
<1>6. CASE \E c \in Channels : MemoryPublish(c) \/ Publish(c)
  BY <1>2, <1>3, <1>6
<1> QED BY <1>4, <1>5, <1>6 DEF Next

(* The back end is chosen once, and no Publish comes to owe a subscriber   *)
(* its message again.                                                      *)
LEMMA PublishersStay ==
  ASSUME TypeOK, [Next]_vars
  PROVE  /\ backend' = backend
         /\ \A p \in publishing' :
              p.n > sent \/ \E o \in publishing : o.n = p.n /\ p.left \subseteq o.left
<1>1. ASSUME UNCHANGED publishing
      PROVE  \A p \in publishing' :
               p.n > sent \/ \E o \in publishing : o.n = p.n /\ p.left \subseteq o.left
  BY <1>1
<1>2. ASSUME \/ \E s \in Subs : Subscribe(s) \/ MemorySubscribe(s)
             \/ \E cs \in SUBSET Channels : Unsubscribe(cs) \/ MemoryUnsubscribe(cs)
             \/ \E s \in Subs : Register(s) \/ SubscribeFails(s) \/ Forward(s) \/ Overflow(s)
             \/ \E s \in Subs : Read(s) \/ Cancel(s) \/ Leave(s)
             \/ \E c \in Channels : Publish(c)
             \/ UNCHANGED vars
      PROVE  UNCHANGED <<backend, publishing>>
  BY <1>2 DEF Subscribe, MemorySubscribe, Unsubscribe, MemoryUnsubscribe, Register,
              SubscribeFails, Forward, CtxDone, Take, SeeEnd, Send, Overflow, Read, Cancel,
              Leave, Publish, vars
<1>3. ASSUME NEW c \in Channels, MemoryPublish(c)
      PROVE  /\ backend' = backend
             /\ \A p \in publishing' :
                  p.n > sent \/ \E o \in publishing : o.n = p.n /\ p.left \subseteq o.left
  <2>1. /\ backend' = backend /\ sent \in Nat
        /\ publishing' = publishing \cup {[n |-> sent + 1, channel |-> c, left |-> table[c]]}
    BY <1>3, SizeAssumption DEF MemoryPublish, TypeOK
  <2> QED BY <2>1
<1>4. ASSUME NEW q \in publishing, Deliver(q)
      PROVE  /\ backend' = backend
             /\ \A p \in publishing' :
                  p.n > sent \/ \E o \in publishing : o.n = p.n /\ p.left \subseteq o.left
  <2>1. CASE MemoryPublished(q)
    BY <2>1 DEF MemoryPublished
  <2>2. ASSUME NEW s \in q.left, MemoryOffer(q, s)
        PROVE  /\ backend' = backend
               /\ \A p \in publishing' : \E o \in publishing : o.n = p.n /\ p.left \subseteq o.left
    <3> DEFINE new == [q EXCEPT !.left = @ \ {s}]
    <3>1. backend' = backend /\ publishing' = (publishing \ {q}) \cup {new}
      BY <2>2 DEF MemoryOffer
    <3>2. new.n = q.n /\ new.left \subseteq q.left
      BY DEF TypeOK
    <3> HIDE DEF new
    <3> QED BY <3>1, <3>2
  <2> QED BY <1>4, <2>1, <2>2 DEF Deliver
<1> QED BY <1>1, <1>2, <1>3, <1>4 DEF Next

(* A subscriber is given what is new to it, and after all that was         *)
(* published before.                                                       *)
LEMMA OrderPreserved ==
  ASSUME IInv, [Next]_vars
  PROVE  NumberInv' /\ InOrderOnce'
<1> SUFFICES ASSUME NEW s \in Subs
             PROVE  /\ \A i \in 1 .. Len(Stream(s)') :
                         /\ Stream(s)'[i].n <= sent'
                         /\ \A p \in publishing' : s \in p.left => Stream(s)'[i].n # p.n
                         /\ Stream(s)'[i].channel \in wanted'[s]
                    /\ \A i, j \in 1 .. Len(Stream(s)') :
                         i < j => \/ Stream(s)'[i].n < Stream(s)'[j].n
                                  \/ /\ Stream(s)'[j].n # Stream(s)'[i].n
                                     /\ Stream(s)'[j].n \in overlap'[Stream(s)'[i].n]
  BY DEF NumberInv, InOrderOnce, MayPrecede
<1> DEFINE q == Stream(s)
           r == Stream(s)'
           N == Len(q)
           Known(m) == /\ m.n <= sent'
                       /\ \A p \in publishing' : s \in p.left => m.n # p.n
                       /\ m.channel \in wanted'[s]
           Before(m, k) == m.n < k.n \/ (k.n # m.n /\ k.n \in overlap'[m.n])
<1>0. TypeOK /\ LinkInv /\ PublishInv /\ PublishInv'
  BY PublishPreserved DEF IInv
<1>1. /\ q \in Seq(Messages) /\ N \in Nat
      /\ \A i \in 1 .. N : q[i].n \in Numbers /\ q[i].n <= sent /\ q[i].channel \in wanted[s]
      /\ \A i \in 1 .. N : \A p \in publishing : s \in p.left => q[i].n # p.n
      /\ \A i, j \in 1 .. N :
           i < j => q[i].n < q[j].n \/ (q[j].n # q[i].n /\ q[j].n \in overlap[q[i].n])
  <2>1. q \in Seq(Messages) /\ N \in Nat
    BY <1>0, StreamType, LenProperties
  <2>2. \A i \in 1 .. N : q[i] \in Messages
    BY <2>1, ElementOfSeq
  <2>3. \A i \in 1 .. N : q[i].n \in Numbers
    BY <2>2 DEF Messages
  <2> QED BY <2>1, <2>3 DEF IInv, NumberInv, InOrderOnce, MayPrecede
<1>2. /\ sent <= sent' /\ sent \in Nat /\ sent' \in Nat
      /\ \A m \in Numbers : m <= sent => overlap'[m] = overlap[m]
      /\ wanted[s] \subseteq wanted'[s]
  <2>1. sent \in 0 .. MaxMessages /\ sent' \in 0 .. MaxMessages
    BY <1>0, TypePreserved DEF TypeOK
  <2> QED BY <1>0, <2>1, NumbersGrow, SizeAssumption
<1>3. Numbers \subseteq Nat
  BY SizeAssumption DEF Numbers
<1> HIDE DEF q, N
<1>4. \A i \in 1 .. N : Known(q[i])
  <2> SUFFICES ASSUME NEW i \in 1 .. N PROVE Known(q[i])
    OBVIOUS
  <2>1. q[i].n \in Nat /\ q[i].n <= sent /\ q[i].channel \in wanted[s]
    BY <1>1, <1>3
  <2>2. ASSUME NEW p \in publishing', s \in p.left PROVE q[i].n # p.n
    <3>1. CASE p.n > sent
      BY <1>2, <2>1, <3>1
    <3>2. CASE \E o \in publishing : o.n = p.n /\ p.left \subseteq o.left
      BY <1>1, <2>2, <3>2
    <3> QED BY <1>0, <3>1, <3>2, PublishersStay
  <2>3. q[i].n <= sent'
    BY <1>2, <2>1
  <2> QED BY <1>2, <2>1, <2>2, <2>3
<1>5. \A i, j \in 1 .. N : i < j => Before(q[i], q[j])
  BY <1>1, <1>2
<1> HIDE DEF Known, Before
<1>6. ASSUME NEW m, r = Append(q, m), Known(m), \A i \in 1 .. N : Before(q[i], m)
      PROVE  /\ \A i \in 1 .. Len(r) : Known(r[i])
             /\ \A i, j \in 1 .. Len(r) : i < j => Before(r[i], r[j])
  <2>1. /\ Len(r) = N + 1 /\ r[N + 1] = m
        /\ \A i \in 1 .. N : r[i] = q[i]
    BY <1>1, <1>6, AppendProperties DEF N
  <2>2. \A i \in 1 .. Len(r) : i \in 1 .. N \/ i = N + 1
    BY <1>1, <2>1
  <2>3. ASSUME NEW i \in 1 .. Len(r), NEW j \in 1 .. Len(r), i < j PROVE Before(r[i], r[j])
    <3>1. i \in 1 .. N
      BY <1>1, <2>1, <2>3
    <3> QED BY <1>5, <1>6, <2>1, <2>2, <2>3, <3>1
  <2> QED BY <1>4, <1>6, <2>1, <2>2, <2>3
<1>7. CASE Thinned(r, q)
  <2>1. PICK f \in [1 .. Len(r) -> 1 .. N] :
          /\ \A i, j \in 1 .. Len(r) : i < j => f[i] < f[j]
          /\ \A i \in 1 .. Len(r) : r[i] = q[f[i]]
    BY <1>7 DEF Thinned, N
  <2>2. /\ \A i \in 1 .. Len(r) : Known(r[i])
        /\ \A i, j \in 1 .. Len(r) : i < j => Before(r[i], r[j])
    BY <1>4, <1>5, <2>1
  <2> QED BY <2>2 DEF Known, Before
<1>8. CASE GivenByRedis(s)
  <2>1. PICK c \in wanted[s] : r = Append(q, [n |-> sent + 1, channel |-> c])
    BY <1>8 DEF GivenByRedis, q
  <2> DEFINE m == [n |-> sent + 1, channel |-> c]
  <2>2. sent' = sent + 1 /\ publishing' = {}
    BY <1>0, <1>8, PublishersStay DEF GivenByRedis, PublishInv
  <2>3. Known(m)
    BY <1>2, <2>2 DEF Known
  <2>4. \A i \in 1 .. N : Before(q[i], m)
    <3>1. \A i \in 1 .. N : q[i].n \in Nat /\ q[i].n <= sent
      BY <1>1, <1>3
    <3>2. m.n = sent + 1
      OBVIOUS
    <3> HIDE DEF m
    <3> QED BY <1>2, <3>1, <3>2 DEF Before
  <2> HIDE DEF m
  <2>5. r = Append(q, m)
    BY <2>1 DEF m
  <2>6. /\ \A i \in 1 .. Len(r) : Known(r[i])
        /\ \A i, j \in 1 .. Len(r) : i < j => Before(r[i], r[j])
    BY <1>6, <2>3, <2>4, <2>5
  <2> QED BY <2>6 DEF Known, Before
<1>9. CASE GivenInMemory(s)
  <2>1. PICK p \in publishing :
          /\ s \in p.left
          /\ r = Append(q, [n |-> p.n, channel |-> p.channel])
          /\ \A o \in publishing' : s \in o.left => o.n # p.n
    BY <1>9 DEF GivenInMemory, q
  <2> DEFINE m == [n |-> p.n, channel |-> p.channel]
  <2>2. p \in [n : Numbers, channel : Channels, left : SUBSET Subs]
    BY <1>0 DEF TypeOK
  <2>3. /\ p.n \in Nat /\ p.n <= sent /\ s \in table[p.channel] /\ p.channel \in Channels
        /\ \A k \in Numbers : p.n < k /\ k <= sent => p.n \in overlap[k]
    BY <1>0, <1>3, <2>1, <2>2 DEF PublishInv
  <2>4. p.channel \in wanted[s]
    BY <1>0, <2>3 DEF LinkInv
  <2>5. Known(m)
    BY <1>2, <2>1, <2>3, <2>4 DEF Known
  <2>6. ASSUME NEW i \in 1 .. N PROVE Before(q[i], m)
    <3>1. q[i].n \in Numbers /\ q[i].n <= sent /\ q[i].n # p.n /\ q[i].n \in Nat
      BY <1>1, <1>3, <2>1
    <3>2. q[i].n < p.n \/ (p.n # q[i].n /\ p.n \in overlap[q[i].n])
      BY <2>3, <3>1
    <3> QED BY <1>2, <3>1, <3>2 DEF Before
  <2> HIDE DEF m
  <2>7. r = Append(q, m)
    BY <2>1 DEF m
  <2>8. /\ \A i \in 1 .. Len(r) : Known(r[i])
        /\ \A i, j \in 1 .. Len(r) : i < j => Before(r[i], r[j])
    BY <1>6, <2>5, <2>6, <2>7
  <2> QED BY <2>8 DEF Known, Before
<1> QED BY <1>0, <1>7, <1>8, <1>9, StreamStep DEF q

-----------------------------------------------------------------------------
(* IInv is inductive: it holds at first, and every step keeps it.          *)
THEOREM Inductive == Spec => []IInv
<1>1. Init => IInv
  <2> SUFFICES ASSUME Init PROVE IInv
    OBVIOUS
  <2>1. TypeOK
    <3>1. <<>> \in Seq(Messages) /\ Len(<<>>) = 0
      OBVIOUS
    <3> QED BY <3>1, SizeAssumption DEF Init, TypeOK
  <2>2. LinkInv /\ PublishInv
    BY DEF Init, LinkInv, PublishInv
  <2>3. ASSUME NEW s \in Subs PROVE Len(Stream(s)) = 0
    <3>1. got[s] = <<>> /\ out[s] = <<>> /\ hold[s] = <<>> /\ inbox[s] = <<>>
      BY DEF Init
    <3> QED BY <3>1 DEF Stream
  <2>4. NumberInv /\ InOrderOnce
    BY <2>3 DEF NumberInv, InOrderOnce
  <2> QED BY <2>1, <2>2, <2>4 DEF IInv
<1>2. IInv /\ [Next]_vars => IInv'
  <2> SUFFICES ASSUME IInv, [Next]_vars PROVE IInv'
    OBVIOUS
  <2> QED BY TypePreserved, LinkPreserved, PublishPreserved, OrderPreserved DEF IInv
<1> QED BY <1>1, <1>2, PTL DEF Spec

(* Every variable keeps its type, and no subscriber's channel holds more   *)
(* than its capacity (go/redis.go:305, go/memory.go:270).                  *)
THEOREM TypeCorrect == Spec => []TypeOK
<1>1. IInv => TypeOK
  BY DEF IInv
<1> QED BY <1>1, Inductive, PTL

(* PS-05 (PRD.md:182), over Redis and in memory: a subscriber is given     *)
(* messages of its channels only, none twice, and none before another that *)
(* had been published when it was.                                         *)
THEOREM InOrder == Spec => []InOrderOnce
<1>1. IInv => InOrderOnce
  BY DEF IInv
<1> QED BY <1>1, Inductive, PTL

-----------------------------------------------------------------------------
(* A sequence has no more places of one channel than one it is thinned of. *)
LEMMA ThinCount ==
  ASSUME NEW r \in Seq(Messages), NEW q \in Seq(Messages), Thinned(r, q), NEW c
  PROVE  Cardinality({i \in 1 .. Len(r) : r[i].channel = c})
           <= Cardinality({i \in 1 .. Len(q) : q[i].channel = c})
<1> DEFINE A == {i \in 1 .. Len(r) : r[i].channel = c}
           B == {i \in 1 .. Len(q) : q[i].channel = c}
<1>1. PICK f \in [1 .. Len(r) -> 1 .. Len(q)] :
        /\ \A i, j \in 1 .. Len(r) : i < j => f[i] < f[j]
        /\ \A i \in 1 .. Len(r) : r[i] = q[f[i]]
  BY DEF Thinned
<1>2. Len(r) \in Nat /\ Len(q) \in Nat
  BY LenProperties
<1> DEFINE g == [i \in A |-> f[i]]
<1>3. g \in [A -> B]
  BY <1>1
<1>4. \A i, j \in A : i # j => g[i] # g[j]
  <2> SUFFICES ASSUME NEW i \in A, NEW j \in A, i # j PROVE f[i] # f[j]
    OBVIOUS
  <2>1. f[i] \in Nat /\ f[j] \in Nat /\ (i < j \/ j < i)
    BY <1>1, <1>2
  <2> QED BY <1>1, <2>1
<1>5. g \in Injection(A, B)
  <2> HIDE DEF A, B, g
  <2> QED BY <1>3, <1>4 DEF Injection, IsInjective
<1>6. IsFiniteSet(B)
  <2>1. IsFiniteSet(1 .. Len(q))
    BY <1>2, FS_Interval
  <2> QED BY <2>1, FS_Subset
<1> HIDE DEF A, B, g
<1>7. Cardinality(A) <= Cardinality(B)
  BY <1>5, <1>6, FS_Injection
<1> QED BY <1>7 DEF A, B

(* Unsubscribe is final (go/redis.go:332, go/memory.go:280): what it has   *)
(* found in the table is given nothing more of the channel, in any order   *)
(* of the goroutine, the server and the publishes under way.               *)
THEOREM UnsubscribeFinal == Spec => UnsubscribeHolds
<1>1. ASSUME IInv, [Next]_vars, NEW s \in Subs, NEW c \in wanted[s],
             reader[s] # "none", s \notin table[c]
      PROVE  Cardinality(Given(s, c)') <= Cardinality(Given(s, c))
  <2>0. TypeOK /\ LinkInv /\ PublishInv /\ TypeOK'
    BY <1>1, TypePreserved DEF IInv
  <2>1. Stream(s) \in Seq(Messages) /\ Stream(s)' \in Seq(Messages)
    <3>1. TypeOK => Stream(s) \in Seq(Messages)
      BY StreamType
    <3>2. (TypeOK => Stream(s) \in Seq(Messages))'
      BY StreamType, PTL
    <3> QED BY <2>0, <3>1, <3>2
  <2>2. CASE Thinned(Stream(s)', Stream(s))
    BY <2>1, <2>2, ThinCount DEF Given
  <2>3. ~GivenByRedis(s)
    BY <1>1, <2>0 DEF GivenByRedis, LinkInv
  <2>4. CASE GivenInMemory(s)
    <3>1. PICK p \in publishing :
            s \in p.left /\ Stream(s)' = Append(Stream(s), [n |-> p.n, channel |-> p.channel])
      BY <2>4 DEF GivenInMemory
    <3> DEFINE q == Stream(s)
               m == [n |-> p.n, channel |-> p.channel]
    <3>2. m.channel # c
      BY <1>1, <2>0, <3>1 DEF PublishInv
    <3>3. m \in Messages
      <4>1. p \in [n : Numbers, channel : Channels, left : SUBSET Subs]
        BY <2>0 DEF TypeOK
      <4> QED BY <4>1 DEF Messages
    <3>4. q \in Seq(Messages) /\ Stream(s)' = Append(q, m)
      BY <2>1, <3>1
    <3> HIDE DEF q, m
    <3>5. /\ Len(Append(q, m)) = Len(q) + 1 /\ Append(q, m)[Len(q) + 1] = m
          /\ \A i \in 1 .. Len(q) : Append(q, m)[i] = q[i]
          /\ Len(q) \in Nat
      BY <3>3, <3>4, AppendProperties, LenProperties
    <3>6. {i \in 1 .. Len(Append(q, m)) : Append(q, m)[i].channel = c}
            = {i \in 1 .. Len(q) : q[i].channel = c}
      <4>1. \A i \in 1 .. Len(q) + 1 : i \in 1 .. Len(q) \/ i = Len(q) + 1
        BY <3>5
      <4>2. \A i \in 1 .. Len(q) : i \in 1 .. Len(q) + 1
        BY <3>5
      <4> QED BY <3>2, <3>5, <4>1, <4>2
    <3>7. Given(s, c)' = Given(s, c)
      BY <3>4, <3>6 DEF Given, q
    <3>8. IsFiniteSet(Given(s, c))
      <4>1. IsFiniteSet(1 .. Len(Stream(s)))
        BY <3>5, FS_Interval DEF q
      <4> QED BY <4>1, FS_Subset DEF Given
    <3>9. Cardinality(Given(s, c)) \in Nat
      BY <3>8, FS_CardinalityType
    <3> QED BY <3>7, <3>9
  <2> QED BY <1>1, <2>0, <2>2, <2>3, <2>4, StreamStep
<1>2. IInv /\ [Next]_vars
        => [\A s \in Subs : \A c \in wanted[s] :
              reader[s] # "none" /\ s \notin table[c] =>
                Cardinality(Given(s, c)') <= Cardinality(Given(s, c))]_vars
  BY <1>1
<1> QED BY <1>2, Inductive, PTL DEF Spec, UnsubscribeHolds

=============================================================================
