--------------------------- MODULE RustStoreProofs ---------------------------
(* Proofs about two stores of the Rust crate: RustPubSub, for any          *)
(* channels, streams, tasks, capacity and number of messages, and then     *)
(* RustSortedSet, for any members, scores, ranges and limits.              *)
EXTENDS RustPubSub, RustSortedSet, SequenceTheorems, FiniteSetTheorems, TLAPS

-----------------------------------------------------------------------------
(* Sequences of messages. *)

LEMMA MessageFacts ==
  ASSUME NEW q \in Seq(Messages), NEW i \in 1 .. Len(q)
  PROVE  q[i] \in Messages /\ q[i].n \in Nat /\ q[i].channel \in Channels
<1>1. q[i] \in Messages
  BY ElementOfSeq
<1> QED BY <1>1, BoundAssumption DEF Messages

LEMMA AppendFacts ==
  ASSUME NEW q \in Seq(Messages), NEW m \in Messages
  PROVE  /\ Append(q, m) \in Seq(Messages)
         /\ Len(q) \in Nat /\ Len(Append(q, m)) = Len(q) + 1
         /\ Append(q, m)[Len(q) + 1] = m
         /\ \A i \in 1 .. Len(q) : Append(q, m)[i] = q[i]
         /\ \A i \in 1 .. Len(q) + 1 : i \in 1 .. Len(q) \/ i = Len(q) + 1
<1>1. Len(q) \in Nat
  BY LenProperties
<1> QED BY <1>1, AppendProperties

LEMMA TailFacts ==
  ASSUME NEW q \in Seq(Messages), q # <<>>
  PROVE  /\ Head(q) \in Messages /\ Head(q) = q[1] /\ 1 \in 1 .. Len(q)
         /\ Tail(q) \in Seq(Messages)
         /\ \A i \in 1 .. Len(Tail(q)) : Tail(q)[i] = q[i + 1] /\ i + 1 \in 1 .. Len(q)
<1>1. /\ Head(q) \in Messages /\ Head(q) = q[1] /\ Tail(q) \in Seq(Messages)
      /\ Len(Tail(q)) = Len(q) - 1 /\ Len(q) \in Nat /\ Len(q) # 0
      /\ \A i \in 1 .. Len(Tail(q)) : Tail(q)[i] = q[i + 1]
  BY HeadTailProperties, EmptySeq, LenProperties
<1> QED BY <1>1

(* A message with a greater number goes to the end. *)
LEMMA IncreasingAppend ==
  ASSUME NEW q \in Seq(Messages), NEW m \in Messages, Increasing(q),
         \A i \in 1 .. Len(q) : q[i].n < m.n
  PROVE  Increasing(Append(q, m))
<1> DEFINE r == Append(q, m)
<1>1. /\ Len(q) \in Nat /\ Len(r) = Len(q) + 1 /\ r[Len(q) + 1] = m
      /\ \A i \in 1 .. Len(q) : r[i] = q[i]
      /\ \A i \in 1 .. Len(q) + 1 : i \in 1 .. Len(q) \/ i = Len(q) + 1
  BY AppendFacts
<1> HIDE DEF r
<1>2. ASSUME NEW i \in 1 .. Len(r), NEW j \in 1 .. Len(r), i < j PROVE r[i].n < r[j].n
  <2>1. i \in 1 .. Len(q)
    BY <1>1, <1>2
  <2> QED BY <1>1, <1>2, <2>1 DEF Increasing
<1>3. Increasing(r)
  BY <1>2 DEF Increasing
<1> QED BY <1>3 DEF r

(* The first message is taken. *)
LEMMA IncreasingTail ==
  ASSUME NEW q \in Seq(Messages), q # <<>>, Increasing(q)
  PROVE  /\ Increasing(Tail(q))
         /\ \A i \in 1 .. Len(Tail(q)) : Head(q).n < Tail(q)[i].n
<1>1. /\ Head(q) = q[1] /\ 1 \in 1 .. Len(q)
      /\ \A i \in 1 .. Len(Tail(q)) : Tail(q)[i] = q[i + 1] /\ i + 1 \in 1 .. Len(q)
  BY TailFacts
<1>2. \A i, j \in 1 .. Len(Tail(q)) : i < j => q[i + 1].n < q[j + 1].n
  BY <1>1 DEF Increasing
<1>3. \A i \in 1 .. Len(Tail(q)) : q[1].n < q[i + 1].n
  BY <1>1 DEF Increasing
<1> QED BY <1>1, <1>2, <1>3 DEF Increasing

LEMMA IncreasingEmpty == Increasing(<<>>) /\ <<>> \in Seq(Messages)
BY DEF Increasing

-----------------------------------------------------------------------------
(* Every step is one of the operations. *)
LEMMA NextCases ==
  ASSUME [Next]_vars, NEW P,
         \A s \in Streams, c \in Channels : Join(s, c) => P,
         \A s \in Streams, c \in Channels : Create(s, c) => P,
         \A s \in Streams, c \in Channels : MemoryCreate(s, c) => P,
         \A s \in Streams : DropStream(s) => P,
         \A s \in Streams : Receive(s) => P,
         \A cs \in SUBSET Channels : Unsubscribe(cs) => P,
         \A f \in Forwarders : Connect(f) => P,
         \A f \in Forwarders : Disconnect(f) => P,
         \A f \in Forwarders : Forward(f) => P,
         \A c \in Channels : Publish(c) => P,
         \A c \in Channels : MemoryPublish(c) => P,
         UNCHANGED vars => P
  PROVE  P
BY DEF Next

(* Every step preserves the types of the variables. *)
LEMMA TypePreserved == ASSUME TypeOK, TaskInv, [Next]_vars PROVE TypeOK'
<1> USE NoneAssumption, BoundAssumption DEF TypeOK
<1>1. ASSUME NEW s \in Streams, NEW c \in Channels, NEW r \in Forwarders, Attach(s, c, r)
      PROVE  /\ rx' \in [Streams -> Forwarders \cup {None}]
             /\ pos' \in [Streams -> Nat \ {0}]
             /\ want' \in [Streams -> Channels \cup {None}]
             /\ got' \in [Streams -> Seq(Messages)]
  <2>1. Len(ring[r]) + 1 \in Nat \ {0}
    BY LenProperties
  <2>2. <<>> \in Seq(Messages)
    BY IncreasingEmpty
  <2> QED BY <1>1, <2>1, <2>2 DEF Attach
<1>2. ASSUME NEW s \in Streams, NEW c \in Channels, Join(s, c) PROVE TypeOK'
  <2>1. table[c] \in Forwarders /\ Attach(s, c, table[c])
    BY <1>2 DEF Join
  <2>2. UNCHANGED <<backend, table, task, topic, sender, feed, ring, sent>>
    BY <1>2 DEF Join, tasks
  <2> QED BY <1>1, <2>1, <2>2
<1>3. ASSUME NEW s \in Streams, NEW c \in Channels, Create(s, c) PROVE TypeOK'
  <2>1. PICK f \in Forwarders :
          Spawn(f, c, f) /\ table' = [table EXCEPT ![c] = f] /\ Attach(s, c, f)
    BY <1>3 DEF Create
  <2>2. UNCHANGED <<backend, ring, sent, feed>>
    BY <1>3, <2>1 DEF Create, Spawn
  <2>3. /\ task' \in [Forwarders -> {"unborn", "connecting", "listening", "ended", "lost"}]
        /\ topic' \in [Forwarders -> Channels \cup {None}]
        /\ sender' \in [Forwarders -> Forwarders \cup {None}]
        /\ table' \in [Channels -> Forwarders \cup {None}]
    BY <2>1 DEF Spawn
  <2> QED BY <1>1, <2>1, <2>2, <2>3
<1>4. ASSUME NEW s \in Streams, NEW c \in Channels, MemoryCreate(s, c) PROVE TypeOK'
  <2>1. PICK r \in Forwarders : table' = [table EXCEPT ![c] = r] /\ Attach(s, c, r)
    BY <1>4 DEF MemoryCreate
  <2>2. UNCHANGED <<backend, task, topic, sender, feed, ring, sent>>
    BY <1>4 DEF MemoryCreate, tasks
  <2>3. table' \in [Channels -> Forwarders \cup {None}]
    BY <2>1
  <2> QED BY <1>1, <2>1, <2>2, <2>3
<1>5. ASSUME NEW s \in Streams, DropStream(s) PROVE TypeOK'
  BY <1>5 DEF DropStream, tasks
<1>6. ASSUME NEW s \in Streams, Receive(s) PROVE TypeOK'
  <2>1. rx[s] \in Forwarders /\ ring[rx[s]] \in Seq(Messages) /\ pos[s] \in Nat \ {0}
    BY <1>6 DEF Receive
  <2>2. Len(ring[rx[s]]) \in Nat /\ pos[s] \in 1 .. Len(ring[rx[s]])
    BY <1>6, <2>1, LenProperties DEF Receive
  <2>3. ring[rx[s]][pos[s]] \in Messages
    BY <2>1, <2>2, ElementOfSeq
  <2>4. Append(got[s], ring[rx[s]][pos[s]]) \in Seq(Messages)
    BY <2>3, AppendFacts
  <2>5. Oldest(rx[s]) \in Nat \ {0}
    BY <2>2 DEF Oldest
  <2>6. pos' \in [Streams -> Nat \ {0}] /\ got' \in [Streams -> Seq(Messages)]
    <3>1. CASE /\ got' = [got EXCEPT ![s] = Append(@, ring[rx[s]][pos[s]])]
               /\ pos' = [pos EXCEPT ![s] = @ + 1]
      <4>1. pos[s] + 1 \in Nat \ {0}
        BY <2>1
      <4> QED BY <2>4, <3>1, <4>1
    <3>2. CASE pos' = [pos EXCEPT ![s] = Oldest(rx[s])] /\ UNCHANGED got
      BY <2>5, <3>2
    <3> QED BY <1>6, <3>1, <3>2 DEF Receive
  <2>7. UNCHANGED <<backend, table, task, topic, sender, feed, ring, rx, want, sent>>
    BY <1>6 DEF Receive, tasks
  <2> QED BY <2>6, <2>7
<1>7. ASSUME NEW cs \in SUBSET Channels, Unsubscribe(cs) PROVE TypeOK'
  BY <1>7 DEF Unsubscribe, tasks, streams
<1>8. ASSUME NEW f \in Forwarders, Connect(f) PROVE TypeOK'
  BY <1>8 DEF Connect, streams
<1>9. ASSUME NEW f \in Forwarders, Disconnect(f) PROVE TypeOK'
  <2>1. feed' \in [Forwarders -> Seq(Messages)]
    BY <1>9, IncreasingEmpty DEF Disconnect
  <2> QED BY <1>9, <2>1 DEF Disconnect, streams
<1>10. ASSUME NEW f \in Forwarders, Forward(f) PROVE TypeOK'
  <2>1. feed[f] \in Seq(Messages) /\ feed[f] # <<>> /\ sender[f] = f
    BY <1>10 DEF Forward, TaskInv
  <2>2. Head(feed[f]) \in Messages /\ Tail(feed[f]) \in Seq(Messages)
    BY <2>1, TailFacts
  <2>3. Append(ring[f], Head(feed[f])) \in Seq(Messages)
    BY <2>2, AppendFacts
  <2>4. /\ ring' \in [Forwarders -> Seq(Messages)]
        /\ feed' \in [Forwarders -> Seq(Messages)]
        /\ task' \in [Forwarders -> {"unborn", "connecting", "listening", "ended", "lost"}]
    <3>1. CASE /\ ring' = [ring EXCEPT ![f] = Append(@, Head(feed[f]))]
               /\ feed' = [feed EXCEPT ![f] = Tail(@)]
               /\ UNCHANGED task
      BY <2>2, <2>3, <3>1
    <3>2. CASE /\ task' = [task EXCEPT ![f] = "ended"]
               /\ feed' = [feed EXCEPT ![f] = <<>>]
               /\ UNCHANGED ring
      BY <3>2, IncreasingEmpty
    <3> QED BY <1>10, <2>1, <3>1, <3>2 DEF Forward
  <2>5. UNCHANGED <<backend, table, topic, sender, rx, pos, want, got, sent>>
    BY <1>10 DEF Forward, streams
  <2> QED BY <2>4, <2>5
<1>11. ASSUME NEW c \in Channels, sent < MaxMessages
       PROVE  [n |-> sent + 1, channel |-> c] \in Messages
  BY <1>11 DEF Messages
<1>12. ASSUME NEW c \in Channels, Publish(c) PROVE TypeOK'
  <2> DEFINE m == [n |-> sent + 1, channel |-> c]
  <2>1. m \in Messages
    BY <1>11, <1>12 DEF Publish
  <2> HIDE DEF m
  <2>2. \A f \in Forwarders : Append(feed[f], m) \in Seq(Messages)
    BY <2>1, AppendFacts
  <2>3. feed' \in [Forwarders -> Seq(Messages)]
    BY <1>12, <2>2 DEF Publish, m
  <2> QED BY <1>12, <2>3 DEF Publish, streams
<1>13. ASSUME NEW c \in Channels, MemoryPublish(c) PROVE TypeOK'
  <2> DEFINE m == [n |-> sent + 1, channel |-> c]
  <2>1. m \in Messages
    BY <1>11, <1>13 DEF MemoryPublish
  <2> HIDE DEF m
  <2>2. \A f \in Forwarders : Append(ring[f], m) \in Seq(Messages)
    BY <2>1, AppendFacts
  <2>3. ring' \in [Forwarders -> Seq(Messages)]
    BY <1>13, <2>2 DEF MemoryPublish, m
  <2> QED BY <1>13, <2>3 DEF MemoryPublish, tasks, streams
<1>14. UNCHANGED vars => TypeOK'
  BY DEF vars
<1>15. QED
  <2> HIDE DEF TypeOK
  <2> QED BY <1>2, <1>3, <1>4, <1>5, <1>6, <1>7, <1>8, <1>9, <1>10, <1>12, <1>13, <1>14,
             NextCases

-----------------------------------------------------------------------------
(* A task keeps to its ring and to its channel. *)
LEMMA TaskPreserved == ASSUME TypeOK, TaskInv, [Next]_vars PROVE TaskInv'
<1>1. ASSUME UNCHANGED <<backend, task, topic, sender, feed>> PROVE TaskInv'
  BY <1>1 DEF TaskInv
<1>2. ASSUME \/ \E s \in Streams, c \in Channels : Join(s, c) \/ MemoryCreate(s, c)
             \/ \E s \in Streams : DropStream(s) \/ Receive(s)
             \/ \E cs \in SUBSET Channels : Unsubscribe(cs)
             \/ \E c \in Channels : MemoryPublish(c)
             \/ UNCHANGED vars
      PROVE  TaskInv'
  BY <1>1, <1>2 DEF Join, MemoryCreate, DropStream, Receive, Unsubscribe, MemoryPublish,
                    tasks, vars
<1>3. ASSUME NEW s \in Streams, NEW c \in Channels, Create(s, c) PROVE TaskInv'
  <2>1. PICK f \in Forwarders : Spawn(f, c, f)
    BY <1>3 DEF Create
  <2>2. UNCHANGED <<backend, feed>> /\ backend = "redis"
    BY <1>3, <2>1 DEF Create, Spawn
  <2>3. /\ task[f] = "unborn" /\ task' = [task EXCEPT ![f] = "connecting"]
        /\ topic' = [topic EXCEPT ![f] = c] /\ sender' = [sender EXCEPT ![f] = f]
    BY <2>1 DEF Spawn
  <2>4. feed[f] = <<>> /\ Len(feed[f]) = 0
    BY <2>3 DEF TaskInv
  <2> QED BY <2>2, <2>3, <2>4 DEF TaskInv, TypeOK
<1>4. ASSUME NEW f \in Forwarders, Connect(f) PROVE TaskInv'
  BY <1>4 DEF Connect, TaskInv, TypeOK
<1>5. ASSUME NEW f \in Forwarders, feed' = [feed EXCEPT ![f] = <<>>],
             task[f] # "unborn", \E x \in {"ended", "lost"} : task' = [task EXCEPT ![f] = x],
             UNCHANGED <<backend, topic, sender>>
      PROVE  TaskInv'
  <2>1. Len(<<>>) = 0
    OBVIOUS
  <2> QED BY <1>5, <2>1 DEF TaskInv, TypeOK
<1>6. ASSUME NEW f \in Forwarders, Disconnect(f) PROVE TaskInv'
  BY <1>5, <1>6 DEF Disconnect
<1>7. ASSUME NEW f \in Forwarders, Forward(f) PROVE TaskInv'
  <2>1. CASE feed' = [feed EXCEPT ![f] = Tail(@)] /\ UNCHANGED task
    <3>1. feed[f] # <<>> /\ feed[f] \in Seq(Messages) /\ task[f] # "unborn"
      BY <1>7 DEF Forward, TypeOK
    <3>2. \A i \in 1 .. Len(Tail(feed[f])) : Tail(feed[f])[i].channel = topic[f]
      BY <3>1, TailFacts DEF TaskInv
    <3>3. UNCHANGED <<backend, topic, sender>>
      BY <1>7 DEF Forward
    <3> QED BY <2>1, <3>1, <3>2, <3>3 DEF TaskInv, TypeOK
  <2>2. CASE task' = [task EXCEPT ![f] = "ended"] /\ feed' = [feed EXCEPT ![f] = <<>>]
    BY <1>5, <1>7, <2>2 DEF Forward
  <2> QED BY <1>7, <2>1, <2>2 DEF Forward
<1>8. ASSUME NEW c \in Channels, Publish(c) PROVE TaskInv'
  <2> DEFINE m == [n |-> sent + 1, channel |-> c]
  <2>1. m \in Messages /\ m.channel = c
    BY <1>8, BoundAssumption DEF Publish, TypeOK, Messages
  <2>2. UNCHANGED <<backend, task, topic, sender>>
    BY <1>8 DEF Publish
  <2>3. ASSUME NEW f \in Forwarders
        PROVE  /\ task[f] = "unborn" => feed'[f] = <<>>
               /\ \A i \in 1 .. Len(feed'[f]) : feed'[f][i].channel = topic[f]
    <3>1. CASE task[f] = "listening" /\ topic[f] = c
      <4>1. feed'[f] = Append(feed[f], m)
        BY <1>8, <3>1 DEF Publish
      <4>2. feed[f] \in Seq(Messages)
        BY DEF TypeOK
      <4> HIDE DEF m
      <4> QED BY <2>1, <3>1, <4>1, <4>2, AppendFacts DEF TaskInv
    <3>2. CASE ~(task[f] = "listening" /\ topic[f] = c)
      BY <1>8, <3>2 DEF Publish, TaskInv
    <3> QED BY <3>1, <3>2
  <2> QED BY <2>2, <2>3 DEF TaskInv
<1> QED BY <1>2, <1>3, <1>4, <1>6, <1>7, <1>8, NextCases

-----------------------------------------------------------------------------
(* A ring keeps to its channel. *)
LEMMA ChannelPreserved ==
  ASSUME TypeOK, TaskInv, ChannelInv, [Next]_vars PROVE ChannelInv'
<1>0. ASSUME NEW r \in Forwarders, NEW i \in 1 .. Len(ring[r])
      PROVE  ring[r][i].channel \in Channels
  BY MessageFacts DEF TypeOK
<1>1. ASSUME UNCHANGED <<backend, table, topic, ring, rx, want>> PROVE ChannelInv'
  BY <1>1 DEF ChannelInv, Carries
<1>2. ASSUME \/ \E s \in Streams : Receive(s)
             \/ \E f \in Forwarders : Connect(f) \/ Disconnect(f)
             \/ \E c \in Channels : Publish(c)
             \/ UNCHANGED vars
      PROVE  ChannelInv'
  BY <1>1, <1>2 DEF Receive, Connect, Disconnect, Publish, tasks, streams, vars
<1>3. ASSUME NEW s \in Streams, DropStream(s) PROVE ChannelInv'
  BY <1>3 DEF DropStream, tasks, ChannelInv, Carries, TypeOK
<1>4. ASSUME NEW cs \in SUBSET Channels, Unsubscribe(cs) PROVE ChannelInv'
  BY <1>4 DEF Unsubscribe, tasks, streams, ChannelInv, Carries, TypeOK
<1>5. ASSUME NEW s \in Streams, NEW c \in Channels, Join(s, c) PROVE ChannelInv'
  <2>1. /\ UNCHANGED <<backend, table, topic, ring>> /\ table[c] # None
        /\ rx' = [rx EXCEPT ![s] = table[c]] /\ want' = [want EXCEPT ![s] = c]
    BY <1>5 DEF Join, Attach, tasks
  <2> QED BY <2>1 DEF ChannelInv, Carries, TypeOK
<1>6. ASSUME NEW s \in Streams, NEW c \in Channels, Create(s, c) PROVE ChannelInv'
  <2>1. PICK f \in Forwarders :
          Spawn(f, c, f) /\ table' = [table EXCEPT ![c] = f] /\ Attach(s, c, f)
    BY <1>6 DEF Create
  <2>2. /\ UNCHANGED <<backend, ring>> /\ backend = "redis"
        /\ topic' = [topic EXCEPT ![f] = c] /\ topic[f] = None
        /\ rx' = [rx EXCEPT ![s] = f] /\ want' = [want EXCEPT ![s] = c]
    BY <1>6, <2>1 DEF Create, Spawn, Attach, TaskInv
  <2>3. ASSUME NEW r \in Forwarders, NEW i \in 1 .. Len(ring[r])
        PROVE  topic'[r] = ring[r][i].channel
    <3>1. topic[r] = ring[r][i].channel
      BY <2>2 DEF ChannelInv, Carries
    <3>2. r # f
      BY <1>0, <2>2, <3>1, NoneAssumption
    <3> QED BY <2>2, <3>1, <3>2 DEF TypeOK
  <2>4. ASSUME NEW d \in Channels, table'[d] # None PROVE topic'[table'[d]] = d
    <3>1. CASE d = c
      BY <2>1, <2>2, <3>1 DEF TypeOK
    <3>2. CASE d # c
      <4>1. table'[d] = table[d] /\ table[d] \in Forwarders /\ topic[table[d]] = d
        BY <2>1, <2>2, <2>4, <3>2 DEF TypeOK, ChannelInv, Carries
      <4>2. table[d] # f
        BY <2>2, <4>1, NoneAssumption
      <4> QED BY <2>2, <4>1, <4>2 DEF TypeOK
    <3> QED BY <3>1, <3>2
  <2>5. ASSUME NEW t \in Streams, rx'[t] # None
        PROVE  want'[t] \in Channels /\ topic'[rx'[t]] = want'[t]
    <3>1. CASE t = s
      BY <2>2, <3>1 DEF TypeOK
    <3>2. CASE t # s
      <4>1. /\ rx'[t] = rx[t] /\ want'[t] = want[t] /\ rx[t] \in Forwarders
            /\ want[t] \in Channels /\ topic[rx[t]] = want[t]
        BY <2>2, <2>5, <3>2 DEF TypeOK, ChannelInv, Carries
      <4>2. rx[t] # f
        BY <2>2, <4>1, NoneAssumption
      <4> QED BY <2>2, <4>1, <4>2 DEF TypeOK
    <3> QED BY <3>1, <3>2
  <2> QED BY <2>2, <2>3, <2>4, <2>5 DEF ChannelInv, Carries
<1>7. ASSUME NEW s \in Streams, NEW c \in Channels, MemoryCreate(s, c) PROVE ChannelInv'
  <2>1. PICK r \in Forwarders :
          /\ \A d \in Channels : table[d] # r
          /\ table' = [table EXCEPT ![c] = r] /\ Attach(s, c, r)
    BY <1>7 DEF MemoryCreate
  <2>2. /\ UNCHANGED <<backend, ring>> /\ backend = "memory" /\ table[c] = None
        /\ rx' = [rx EXCEPT ![s] = r] /\ want' = [want EXCEPT ![s] = c]
    BY <1>7, <2>1 DEF MemoryCreate, Attach
  <2>3. ASSUME NEW x \in Forwarders, NEW i \in 1 .. Len(ring[x])
        PROVE  table'[ring[x][i].channel] = x
    <3>1. table[ring[x][i].channel] = x /\ ring[x][i].channel \in Channels
      BY <1>0, <2>2 DEF ChannelInv, Carries
    <3>2. ring[x][i].channel # c
      BY <2>2, <3>1, NoneAssumption
    <3> QED BY <2>1, <3>1, <3>2 DEF TypeOK
  <2>4. \A d, e \in Channels : table'[d] # None /\ table'[d] = table'[e] => d = e
    BY <2>1, <2>2 DEF ChannelInv, TypeOK
  <2>5. ASSUME NEW t \in Streams, rx'[t] # None
        PROVE  want'[t] \in Channels /\ table'[want'[t]] = rx'[t]
    <3>1. CASE t = s
      BY <2>1, <2>2, <3>1 DEF TypeOK
    <3>2. CASE t # s
      <4>1. /\ rx'[t] = rx[t] /\ want'[t] = want[t]
            /\ want[t] \in Channels /\ table[want[t]] = rx[t] /\ rx[t] # None
        BY <2>2, <2>5, <3>2 DEF TypeOK, ChannelInv, Carries
      <4>2. want[t] # c
        BY <2>2, <4>1
      <4> QED BY <2>1, <4>1, <4>2 DEF TypeOK
    <3> QED BY <3>1, <3>2
  <2> QED BY <2>2, <2>3, <2>4, <2>5 DEF ChannelInv, Carries
<1>8. ASSUME NEW r \in Forwarders, NEW m \in Messages, Carries(r, m.channel),
             ring' = [ring EXCEPT ![r] = Append(@, m)],
             UNCHANGED <<backend, table, topic, rx, want>>
      PROVE  ChannelInv'
  <2>1. ring[r] \in Seq(Messages)
    BY DEF TypeOK
  <2>2. \A i \in 1 .. Len(Append(ring[r], m)) : Carries(r, Append(ring[r], m)[i].channel)
    BY <1>8, <2>1, AppendFacts DEF ChannelInv
  <2>3. ASSUME NEW x \in Forwarders, NEW i \in 1 .. Len(ring'[x])
        PROVE  Carries(x, ring'[x][i].channel)
    BY <1>8, <2>2 DEF ChannelInv, TypeOK
  <2> QED BY <1>8, <2>3 DEF ChannelInv, Carries
<1>9. ASSUME NEW f \in Forwarders, Forward(f) PROVE ChannelInv'
  <2>1. CASE UNCHANGED ring
    BY <1>1, <1>9, <2>1 DEF Forward, streams
  <2>2. CASE ring' = [ring EXCEPT ![sender[f]] = Append(@, Head(feed[f]))]
    <3>1. feed[f] # <<>> /\ feed[f] \in Seq(Messages) /\ sender[f] = f /\ backend = "redis"
      BY <1>9 DEF Forward, TypeOK, TaskInv
    <3>2. Head(feed[f]) \in Messages /\ Head(feed[f]) = feed[f][1] /\ 1 \in 1 .. Len(feed[f])
      BY <3>1, TailFacts
    <3>3. Carries(f, Head(feed[f]).channel)
      BY <3>1, <3>2 DEF TaskInv, Carries
    <3>4. UNCHANGED <<backend, table, topic, rx, want>>
      BY <1>9 DEF Forward, streams
    <3> QED BY <1>8, <2>2, <3>1, <3>2, <3>3, <3>4
  <2> QED BY <1>9, <2>1, <2>2 DEF Forward
<1>10. ASSUME NEW c \in Channels, MemoryPublish(c) PROVE ChannelInv'
  <2> DEFINE m == [n |-> sent + 1, channel |-> c]
  <2>1. UNCHANGED <<backend, table, topic, rx, want>> /\ backend = "memory"
    BY <1>10 DEF MemoryPublish, tasks, streams
  <2>2. CASE UNCHANGED ring
    BY <1>1, <2>1, <2>2
  <2>3. CASE table[c] # None /\ ring' = [ring EXCEPT ![table[c]] = Append(@, m)]
    <3>1. m \in Messages /\ m.channel = c
      BY <1>10, BoundAssumption DEF MemoryPublish, TypeOK, Messages
    <3>2. table[c] \in Forwarders /\ Carries(table[c], c)
      BY <2>1, <2>3 DEF TypeOK, Carries
    <3> HIDE DEF m
    <3> QED BY <1>8, <2>1, <2>3, <3>1, <3>2
  <2> QED BY <1>10, <2>2, <2>3 DEF MemoryPublish
<1> QED BY <1>2, <1>3, <1>4, <1>5, <1>6, <1>7, <1>9, <1>10, NextCases

-----------------------------------------------------------------------------
(* A ring is fed in the order of publication. *)
LEMMA QueuePreserved ==
  ASSUME TypeOK, TaskInv, QueueInv, [Next]_vars PROVE QueueInv'
<1> DEFINE Ordered(q, p, k) ==
      /\ Increasing(q) /\ Increasing(p)
      /\ \A i \in 1 .. Len(q), j \in 1 .. Len(p) : q[i].n < p[j].n
      /\ \A i \in 1 .. Len(q) : q[i].n <= k
      /\ \A i \in 1 .. Len(p) : p[i].n <= k
<1>0. /\ ring \in [Forwarders -> Seq(Messages)] /\ feed \in [Forwarders -> Seq(Messages)]
      /\ sent \in Nat
  BY BoundAssumption DEF TypeOK
<1>1. \A f \in Forwarders : Ordered(ring[f], feed[f], sent)
  BY DEF QueueInv
<1>2. ASSUME NEW f \in Forwarders
      PROVE  Ordered(ring[f], feed[f], sent + 1) /\ Ordered(ring[f], <<>>, sent)
  <2>1. /\ \A i \in 1 .. Len(ring[f]) : ring[f][i].n \in Nat
        /\ \A i \in 1 .. Len(feed[f]) : feed[f][i].n \in Nat
    BY <1>0, MessageFacts
  <2>2. /\ \A i \in 1 .. Len(ring[f]) : ring[f][i].n <= sent + 1
        /\ \A i \in 1 .. Len(feed[f]) : feed[f][i].n <= sent + 1
    BY <1>0, <1>1, <2>1
  <2>3. Len(<<>>) = 0
    OBVIOUS
  <2> QED BY <1>1, <2>2, <2>3, IncreasingEmpty
<1>3. ASSUME \A f \in Forwarders : Ordered(ring'[f], feed'[f], sent') PROVE QueueInv'
  BY <1>3 DEF QueueInv
<1> HIDE DEF Ordered
<1>4. ASSUME UNCHANGED <<ring, feed, sent>> PROVE QueueInv'
  BY <1>1, <1>3, <1>4
<1>5. ASSUME \/ \E s \in Streams, c \in Channels :
                  Join(s, c) \/ Create(s, c) \/ MemoryCreate(s, c)
             \/ \E s \in Streams : DropStream(s) \/ Receive(s)
             \/ \E cs \in SUBSET Channels : Unsubscribe(cs)
             \/ \E f \in Forwarders : Connect(f)
             \/ UNCHANGED vars
      PROVE  QueueInv'
  BY <1>4, <1>5 DEF Join, Create, Spawn, MemoryCreate, DropStream, Receive, Unsubscribe,
                    Connect, tasks, vars
<1>6. ASSUME NEW f \in Forwarders, feed' = [feed EXCEPT ![f] = <<>>], UNCHANGED <<ring, sent>>
      PROVE  QueueInv'
  <2>1. \A g \in Forwarders : Ordered(ring'[g], feed'[g], sent')
    BY <1>0, <1>1, <1>2, <1>6
  <2> QED BY <1>3, <2>1
<1>7. ASSUME NEW f \in Forwarders, Disconnect(f) PROVE QueueInv'
  BY <1>6, <1>7 DEF Disconnect
<1>8. ASSUME NEW f \in Forwarders, Forward(f) PROVE QueueInv'
  <2>1. CASE feed' = [feed EXCEPT ![f] = <<>>] /\ UNCHANGED ring
    BY <1>6, <1>8, <2>1 DEF Forward
  <2>2. CASE /\ ring' = [ring EXCEPT ![sender[f]] = Append(@, Head(feed[f]))]
             /\ feed' = [feed EXCEPT ![f] = Tail(@)]
    <3> DEFINE q == ring[f]
               p == feed[f]
               m == Head(p)
    <3>1. /\ q \in Seq(Messages) /\ p \in Seq(Messages) /\ p # <<>>
          /\ sender[f] = f /\ sent' = sent
      BY <1>0, <1>8 DEF Forward, TaskInv
    <3>2. Ordered(q, p, sent)
      BY <1>1
    <3>3. ring' = [ring EXCEPT ![f] = Append(q, m)] /\ feed' = [feed EXCEPT ![f] = Tail(p)]
      BY <2>2, <3>1
    <3> HIDE DEF q, p
    <3>4. /\ m \in Messages /\ m = p[1] /\ 1 \in 1 .. Len(p) /\ Tail(p) \in Seq(Messages)
          /\ \A i \in 1 .. Len(Tail(p)) : Tail(p)[i] = p[i + 1] /\ i + 1 \in 1 .. Len(p)
      BY <3>1, TailFacts
    <3>5. Increasing(Tail(p)) /\ \A i \in 1 .. Len(Tail(p)) : m.n < Tail(p)[i].n
      BY <3>1, <3>2, IncreasingTail DEF Ordered
    <3> HIDE DEF m
    <3>6. Increasing(Append(q, m))
      BY <3>1, <3>2, <3>4, IncreasingAppend DEF Ordered
    <3>7. /\ Len(Append(q, m)) = Len(q) + 1 /\ Append(q, m)[Len(q) + 1] = m
          /\ \A i \in 1 .. Len(q) : Append(q, m)[i] = q[i]
          /\ \A i \in 1 .. Len(q) + 1 : i \in 1 .. Len(q) \/ i = Len(q) + 1
      BY <3>1, <3>4, AppendFacts
    <3>8. \A i \in 1 .. Len(Append(q, m)), j \in 1 .. Len(Tail(p)) :
            Append(q, m)[i].n < Tail(p)[j].n
      BY <3>2, <3>4, <3>5, <3>7 DEF Ordered
    <3>9. /\ \A i \in 1 .. Len(Append(q, m)) : Append(q, m)[i].n <= sent
          /\ \A i \in 1 .. Len(Tail(p)) : Tail(p)[i].n <= sent
      BY <3>2, <3>4, <3>7 DEF Ordered
    <3>10. Ordered(Append(q, m), Tail(p), sent)
      BY <3>5, <3>6, <3>8, <3>9 DEF Ordered
    <3>11. \A g \in Forwarders : Ordered(ring'[g], feed'[g], sent')
      BY <1>0, <1>1, <3>1, <3>3, <3>10
    <3> QED BY <1>3, <3>11
  <2> QED BY <1>8, <2>1, <2>2 DEF Forward
<1>9. ASSUME NEW q \in Seq(Messages), NEW c \in Channels, sent < MaxMessages, Increasing(q),
             \A i \in 1 .. Len(q) : q[i].n <= sent
      PROVE  LET m == [n |-> sent + 1, channel |-> c]
             IN  /\ m \in Messages /\ Increasing(Append(q, m))
                 /\ \A i \in 1 .. Len(Append(q, m)) :
                      /\ Append(q, m)[i].n <= sent + 1
                      /\ \/ i \in 1 .. Len(q) /\ Append(q, m)[i] = q[i]
                         \/ Append(q, m)[i] = m
  <2> DEFINE m == [n |-> sent + 1, channel |-> c]
  <2>1. m \in Messages /\ m.n = sent + 1
    BY <1>0, <1>9, BoundAssumption DEF Messages
  <2> HIDE DEF m
  <2>2. \A i \in 1 .. Len(q) : q[i].n \in Nat
    BY MessageFacts
  <2>3. \A i \in 1 .. Len(q) : q[i].n < m.n
    BY <1>0, <1>9, <2>1, <2>2
  <2>4. Increasing(Append(q, m))
    BY <1>9, <2>1, <2>3, IncreasingAppend
  <2>5. \A i \in 1 .. Len(Append(q, m)) :
          \/ i \in 1 .. Len(q) /\ Append(q, m)[i] = q[i]
          \/ Append(q, m)[i] = m
    BY <2>1, AppendFacts
  <2>6. \A i \in 1 .. Len(Append(q, m)) : Append(q, m)[i].n <= sent + 1
    BY <1>0, <1>9, <2>1, <2>2, <2>5
  <2>7. /\ m \in Messages /\ Increasing(Append(q, m))
        /\ \A i \in 1 .. Len(Append(q, m)) :
             /\ Append(q, m)[i].n <= sent + 1
             /\ \/ i \in 1 .. Len(q) /\ Append(q, m)[i] = q[i]
                \/ Append(q, m)[i] = m
    BY <2>1, <2>4, <2>5, <2>6
  <2> QED BY <2>7 DEF m
<1>10. ASSUME NEW c \in Channels, Publish(c) PROVE QueueInv'
  <2> DEFINE m == [n |-> sent + 1, channel |-> c]
  <2>1. UNCHANGED ring /\ sent' = sent + 1 /\ sent < MaxMessages
    BY <1>10 DEF Publish
  <2>2. ASSUME NEW f \in Forwarders PROVE Ordered(ring[f], Append(feed[f], m), sent + 1)
    <3> DEFINE q == ring[f]
               p == feed[f]
    <3>1. q \in Seq(Messages) /\ p \in Seq(Messages) /\ Ordered(q, p, sent)
      BY <1>0, <1>1
    <3>a. m.n = sent + 1
      OBVIOUS
    <3>2. /\ m \in Messages /\ Increasing(Append(p, m))
          /\ \A i \in 1 .. Len(Append(p, m)) :
               /\ Append(p, m)[i].n <= sent + 1
               /\ \/ i \in 1 .. Len(p) /\ Append(p, m)[i] = p[i]
                  \/ Append(p, m)[i] = m
      <4> HIDE DEF p, q
      <4> QED BY <1>9, <2>1, <3>1 DEF Ordered
    <3>3. \A i \in 1 .. Len(q) : q[i].n \in Nat
      BY <3>1, MessageFacts
    <3> HIDE DEF p, q, m
    <3>4. \A i \in 1 .. Len(q) : q[i].n < m.n /\ q[i].n <= sent + 1
      BY <1>0, <3>1, <3>3, <3>a DEF Ordered
    <3>5. \A i \in 1 .. Len(q), j \in 1 .. Len(Append(p, m)) : q[i].n < Append(p, m)[j].n
      BY <3>1, <3>2, <3>4 DEF Ordered
    <3>6. Ordered(q, Append(p, m), sent + 1)
      BY <3>1, <3>2, <3>4, <3>5 DEF Ordered
    <3> QED BY <3>6 DEF p, q
  <2>3. \A f \in Forwarders : feed'[f] \in {feed[f], Append(feed[f], m)}
    BY <1>10 DEF Publish
  <2> HIDE DEF m
  <2>4. \A f \in Forwarders : Ordered(ring'[f], feed'[f], sent')
    BY <1>2, <2>1, <2>2, <2>3
  <2> QED BY <1>3, <2>4
<1>11. ASSUME NEW c \in Channels, MemoryPublish(c) PROVE QueueInv'
  <2> DEFINE m == [n |-> sent + 1, channel |-> c]
  <2>1. UNCHANGED feed /\ sent' = sent + 1 /\ sent < MaxMessages /\ backend = "memory"
    BY <1>11 DEF MemoryPublish, tasks
  <2>2. \A f \in Forwarders : feed[f] = <<>>
    BY <2>1 DEF TaskInv
  <2>3. ASSUME NEW f \in Forwarders PROVE Ordered(Append(ring[f], m), <<>>, sent + 1)
    <3> DEFINE q == ring[f]
    <3>1. q \in Seq(Messages) /\ Ordered(q, <<>>, sent)
      BY <1>0, <1>2
    <3> HIDE DEF q
    <3>2. /\ Increasing(Append(q, m))
          /\ \A i \in 1 .. Len(Append(q, m)) : Append(q, m)[i].n <= sent + 1
      BY <1>9, <2>1, <3>1 DEF Ordered
    <3>3. Len(<<>>) = 0
      OBVIOUS
    <3>4. Ordered(Append(q, m), <<>>, sent + 1)
      <4> HIDE DEF m
      <4> QED BY <3>2, <3>3, IncreasingEmpty DEF Ordered
    <3> QED BY <3>4 DEF q
  <2>4. \A f \in Forwarders : ring'[f] \in {ring[f], Append(ring[f], m)}
    BY <1>0, <1>11 DEF MemoryPublish, TypeOK
  <2> HIDE DEF m
  <2>5. \A f \in Forwarders : Ordered(ring'[f], feed'[f], sent')
    BY <1>2, <2>1, <2>2, <2>3, <2>4
  <2> QED BY <1>3, <2>5
<1> QED BY <1>5, <1>7, <1>8, <1>10, <1>11, NextCases

(* Rings only grow. *)
LEMMA RingsGrow ==
  ASSUME TypeOK, TaskInv, [Next]_vars, NEW r \in Forwarders, NEW i \in 1 .. Len(ring[r])
  PROVE  i \in 1 .. Len(ring'[r]) /\ ring'[r][i] = ring[r][i]
<1>0. ring[r] \in Seq(Messages)
  BY DEF TypeOK
<1>1. ASSUME NEW m \in Messages, ring'[r] = Append(ring[r], m)
      PROVE  i \in 1 .. Len(ring'[r]) /\ ring'[r][i] = ring[r][i]
  BY <1>0, <1>1, AppendFacts
<1>2. ASSUME \/ \E s \in Streams, c \in Channels :
                  Join(s, c) \/ Create(s, c) \/ MemoryCreate(s, c)
             \/ \E s \in Streams : DropStream(s) \/ Receive(s)
             \/ \E cs \in SUBSET Channels : Unsubscribe(cs)
             \/ \E f \in Forwarders : Connect(f) \/ Disconnect(f)
             \/ \E c \in Channels : Publish(c)
             \/ UNCHANGED vars
      PROVE  UNCHANGED ring
  BY <1>2 DEF Join, Create, Spawn, MemoryCreate, DropStream, Receive, Unsubscribe,
              Connect, Disconnect, Publish, tasks, vars
<1>3. ASSUME NEW f \in Forwarders, Forward(f)
      PROVE  ring'[r] = ring[r] \/ \E m \in Messages : ring'[r] = Append(ring[r], m)
  <2>1. feed[f] \in Seq(Messages) /\ feed[f] # <<>> /\ sender[f] = f
    BY <1>3 DEF Forward, TypeOK, TaskInv
  <2>2. Head(feed[f]) \in Messages
    BY <2>1, TailFacts
  <2>3. UNCHANGED ring \/ ring' = [ring EXCEPT ![f] = Append(@, Head(feed[f]))]
    BY <1>3, <2>1 DEF Forward
  <2> QED BY <2>2, <2>3 DEF TypeOK
<1>4. ASSUME NEW c \in Channels, MemoryPublish(c)
      PROVE  ring'[r] = ring[r] \/ \E m \in Messages : ring'[r] = Append(ring[r], m)
  <2> DEFINE m == [n |-> sent + 1, channel |-> c]
  <2>1. m \in Messages
    BY <1>4, BoundAssumption DEF MemoryPublish, TypeOK, Messages
  <2>2. ring'[r] \in {ring[r], Append(ring[r], m)}
    BY <1>4 DEF MemoryPublish, TypeOK
  <2> HIDE DEF m
  <2> QED BY <2>1, <2>2
<1> QED BY <1>1, <1>2, <1>3, <1>4 DEF Next

(* A stream yields what is behind it in its ring, and goes on. *)
LEMMA GotPreserved ==
  ASSUME IInv, [Next]_vars PROVE GotInv' /\ InOrderOnce'
<1>0. TypeOK /\ TaskInv /\ ChannelInv /\ QueueInv /\ GotInv /\ InOrderOnce
  BY DEF IInv
<1> DEFINE Behind(s) == rx'[s] # None =>
             \A i \in 1 .. Len(got'[s]) : \E j \in 1 .. Len(ring'[rx'[s]]) :
               j < pos'[s] /\ ring'[rx'[s]][j] = got'[s][i]
           Right(s) == /\ Increasing(got'[s])
                       /\ \A i \in 1 .. Len(got'[s]) : got'[s][i].channel = want'[s]
<1>1. ASSUME \A s \in Streams : Behind(s) /\ Right(s) PROVE GotInv' /\ InOrderOnce'
  BY <1>1 DEF GotInv, InOrderOnce
<1>2. ASSUME NEW s \in Streams, got'[s] = got[s], want'[s] = want[s], pos'[s] >= pos[s],
             rx'[s] \in {None, rx[s]}
      PROVE  Behind(s) /\ Right(s)
  <2>1. Right(s)
    BY <1>0, <1>2 DEF InOrderOnce
  <2>2. ASSUME rx'[s] # None, NEW i \in 1 .. Len(got'[s])
        PROVE  \E j \in 1 .. Len(ring'[rx'[s]]) : j < pos'[s] /\ ring'[rx'[s]][j] = got'[s][i]
    <3>1. rx'[s] = rx[s] /\ rx[s] \in Forwarders /\ Len(ring[rx[s]]) \in Nat
      BY <1>0, <1>2, <2>2, LenProperties DEF TypeOK
    <3>2. PICK j \in 1 .. Len(ring[rx[s]]) : j < pos[s] /\ ring[rx[s]][j] = got[s][i]
      BY <1>0, <1>2, <2>2, <3>1 DEF GotInv
    <3>3. j \in 1 .. Len(ring'[rx[s]]) /\ ring'[rx[s]][j] = ring[rx[s]][j]
      BY <1>0, <3>1, <3>2, RingsGrow
    <3>4. pos[s] \in Nat /\ pos'[s] \in Nat
      BY <1>0, TypePreserved DEF TypeOK
    <3>5. j < pos'[s]
      BY <1>2, <3>1, <3>2, <3>4
    <3> QED BY <1>2, <3>1, <3>2, <3>3, <3>5
  <2> QED BY <2>1, <2>2
<1>3. ASSUME UNCHANGED streams PROVE GotInv' /\ InOrderOnce'
  <2>1. ASSUME NEW s \in Streams PROVE pos'[s] >= pos[s]
    BY <1>0, <1>3 DEF TypeOK, streams
  <2> HIDE DEF Behind, Right
  <2> QED BY <1>1, <1>2, <1>3, <2>1 DEF streams
<1>4. ASSUME NEW s \in Streams, NEW c \in Channels, NEW r \in Forwarders, Attach(s, c, r)
      PROVE  GotInv' /\ InOrderOnce'
  <2>1. ASSUME NEW t \in Streams, t # s
        PROVE  got'[t] = got[t] /\ want'[t] = want[t] /\ pos'[t] >= pos[t] /\ rx'[t] = rx[t]
    BY <1>0, <1>4, <2>1 DEF Attach, TypeOK
  <2>2. got'[s] = <<>> /\ Len(<<>>) = 0
    BY <1>0, <1>4 DEF Attach, TypeOK
  <2>3. Behind(s) /\ Right(s)
    BY <2>2, IncreasingEmpty
  <2> HIDE DEF Behind, Right
  <2> QED BY <1>1, <1>2, <2>1, <2>3
<1>5. ASSUME NEW s \in Streams, DropStream(s) PROVE GotInv' /\ InOrderOnce'
  <2>1. ASSUME NEW t \in Streams
        PROVE  /\ got'[t] = got[t] /\ want'[t] = want[t] /\ pos'[t] >= pos[t]
               /\ rx'[t] \in {None, rx[t]}
    BY <1>0, <1>5 DEF DropStream, TypeOK
  <2> HIDE DEF Behind, Right
  <2> QED BY <1>1, <1>2, <2>1
<1>6. ASSUME NEW s \in Streams, Receive(s) PROVE GotInv' /\ InOrderOnce'
  <2> DEFINE r == rx[s]
             p == pos[s]
  <2>1. /\ r \in Forwarders /\ ring[r] \in Seq(Messages) /\ got[s] \in Seq(Messages)
        /\ p \in 1 .. Len(ring[r]) /\ Len(ring[r]) \in Nat /\ p \in Nat
    <3>1. r \in Forwarders /\ ring[r] \in Seq(Messages) /\ got[s] \in Seq(Messages)
      BY <1>0, <1>6 DEF Receive, TypeOK
    <3>2. Len(ring[r]) \in Nat
      BY <3>1, LenProperties
    <3> QED BY <1>0, <1>6, <3>1, <3>2 DEF Receive, TypeOK
  <2>2. UNCHANGED <<ring, rx, want, sent>>
    BY <1>6 DEF Receive
  <2>3. ASSUME NEW t \in Streams, t # s
        PROVE  got'[t] = got[t] /\ pos'[t] = pos[t] /\ pos'[t] >= pos[t]
    BY <1>0, <1>6, <2>3 DEF Receive, TypeOK
  <2>4. ASSUME NEW t \in Streams, t # s PROVE Behind(t) /\ Right(t)
    <3> HIDE DEF Behind, Right
    <3> QED BY <1>2, <2>2, <2>3, <2>4
  <2>5. CASE p < Oldest(r) /\ pos' = [pos EXCEPT ![s] = Oldest(r)] /\ UNCHANGED got
    <3>1. Oldest(r) \in Nat
      BY <2>1, BoundAssumption DEF Oldest
    <3>2. pos'[s] >= pos[s]
      BY <1>0, <2>1, <2>5, <3>1 DEF TypeOK
    <3>3. Behind(s) /\ Right(s)
      <4> HIDE DEF Behind, Right
      <4> QED BY <1>2, <2>2, <2>5, <3>2
    <3> HIDE DEF Behind, Right
    <3> QED BY <1>1, <2>4, <3>3
  <2>6. CASE /\ got' = [got EXCEPT ![s] = Append(@, ring[r][p])]
             /\ pos' = [pos EXCEPT ![s] = @ + 1]
    <3> DEFINE m == ring[r][p]
               q == got[s]
    <3>1. got'[s] = Append(q, m) /\ pos'[s] = p + 1
      BY <1>0, <2>6 DEF TypeOK
    <3>2. m \in Messages /\ q \in Seq(Messages)
      BY <2>1, ElementOfSeq
    <3>3. /\ Increasing(q) /\ \A i \in 1 .. Len(q) : q[i].channel = want[s]
      BY <1>0 DEF InOrderOnce
    <3>4. \A i \in 1 .. Len(q) : \E j \in 1 .. Len(ring[r]) : j < p /\ ring[r][j] = q[i]
      BY <1>0, <2>1, NoneAssumption DEF GotInv
    <3>5. \A i \in 1 .. Len(q) : q[i].n < m.n
      <4>1. Increasing(ring[r])
        BY <1>0, <2>1 DEF QueueInv
      <4> QED BY <2>1, <3>4, <4>1 DEF Increasing
    <3>6. m.channel = want[s]
      <4>1. Carries(r, m.channel) /\ want[s] \in Channels /\ Carries(r, want[s])
        BY <1>0, <2>1, NoneAssumption DEF ChannelInv
      <4>2. m.channel \in Channels
        BY <3>2 DEF Messages
      <4>3. r # None
        BY <2>1, NoneAssumption
      <4>4. CASE backend = "redis"
        BY <4>1, <4>4 DEF Carries
      <4>5. CASE backend = "memory"
        BY <1>0, <4>1, <4>2, <4>3, <4>5 DEF Carries, ChannelInv
      <4> QED BY <1>0, <4>4, <4>5 DEF TypeOK
    <3> HIDE DEF m, q
    <3>7. Increasing(Append(q, m))
      BY <3>2, <3>3, <3>5, IncreasingAppend
    <3>8. /\ Len(Append(q, m)) = Len(q) + 1 /\ Append(q, m)[Len(q) + 1] = m
          /\ \A i \in 1 .. Len(q) : Append(q, m)[i] = q[i]
          /\ \A i \in 1 .. Len(q) + 1 : i \in 1 .. Len(q) \/ i = Len(q) + 1
      BY <3>2, AppendFacts
    <3>9. Right(s)
      BY <2>2, <3>1, <3>3, <3>6, <3>7, <3>8
    <3>10. ASSUME NEW i \in 1 .. Len(Append(q, m))
           PROVE  \E j \in 1 .. Len(ring[r]) : j < p + 1 /\ ring[r][j] = Append(q, m)[i]
      <4>1. CASE i \in 1 .. Len(q)
        <5>1. PICK j \in 1 .. Len(ring[r]) : j < p /\ ring[r][j] = q[i]
          BY <3>4, <4>1
        <5>2. j < p + 1
          BY <2>1, <5>1
        <5> QED BY <3>8, <4>1, <5>1, <5>2
      <4>2. CASE i = Len(q) + 1
        BY <2>1, <3>8, <4>2 DEF m
      <4> QED BY <3>8, <4>1, <4>2
    <3>11. Behind(s)
      BY <2>2, <3>1, <3>10
    <3> HIDE DEF Behind, Right
    <3> QED BY <1>1, <2>4, <3>9, <3>11
  <2> QED BY <1>6, <2>5, <2>6 DEF Receive
<1>7. ASSUME NEW s \in Streams, NEW c \in Channels,
             Join(s, c) \/ Create(s, c) \/ MemoryCreate(s, c)
      PROVE  GotInv' /\ InOrderOnce'
  <2>1. \E r \in Forwarders : Attach(s, c, r)
    BY <1>0, <1>7 DEF Join, Create, MemoryCreate, TypeOK
  <2> QED BY <1>4, <2>1
<1>8. ASSUME \/ \E cs \in SUBSET Channels : Unsubscribe(cs)
             \/ \E f \in Forwarders : Connect(f) \/ Disconnect(f) \/ Forward(f)
             \/ \E c \in Channels : Publish(c) \/ MemoryPublish(c)
             \/ UNCHANGED vars
      PROVE  UNCHANGED streams
  BY <1>8 DEF Unsubscribe, Connect, Disconnect, Forward, Publish, MemoryPublish,
     streams, vars
<1> QED BY <1>3, <1>5, <1>6, <1>7, <1>8 DEF Next

-----------------------------------------------------------------------------
(* IInv is inductive: it holds at first, and every step keeps it.          *)
THEOREM Inductive == Spec => []IInv
<1>1. Init => IInv
  <2> SUFFICES ASSUME Init PROVE IInv
    OBVIOUS
  <2>1. <<>> \in Seq(Messages) /\ Increasing(<<>>) /\ Len(<<>>) = 0
    BY IncreasingEmpty
  <2>2. TypeOK
    BY <2>1, BoundAssumption DEF Init, TypeOK
  <2>3. TaskInv /\ ChannelInv
    BY <2>1, NoneAssumption DEF Init, TaskInv, ChannelInv, Carries
  <2>4. QueueInv /\ GotInv /\ InOrderOnce
    BY <2>1 DEF Init, QueueInv, GotInv, InOrderOnce
  <2> QED BY <2>2, <2>3, <2>4 DEF IInv
<1>2. IInv /\ [Next]_vars => IInv'
  <2> SUFFICES ASSUME IInv, [Next]_vars PROVE IInv'
    OBVIOUS
  <2> QED BY TypePreserved, TaskPreserved, ChannelPreserved, QueuePreserved, GotPreserved
          DEF IInv
<1> QED BY <1>1, <1>2, PTL DEF Spec

(* Every variable keeps its type; no task sends into a ring that does not  *)
(* exist (rust/src/pubsub.rs:157).                                          *)
THEOREM TypeCorrect == Spec => []TypeOK
<1>1. IInv => TypeOK
  BY DEF IInv
<1> QED BY <1>1, Inductive, PTL

(* PS-05 (PRD.md:182), over Redis and in memory: a stream yields the       *)
(* messages of its own channel, in the order they were published and none  *)
(* twice, however often the channel is unsubscribed and subscribed again,  *)
(* connections are lost, and streams lag.                                  *)
THEOREM InOrder == Spec => []InOrderOnce
<1>1. IInv => InOrderOnce
  BY DEF IInv
<1> QED BY <1>1, Inductive, PTL

-----------------------------------------------------------------------------
(* The in-memory sorted set. *)

(* Entries are totally ordered. *)
LEMMA EntryOrder ==
  ASSUME NEW d \in Int \X Int, NEW e \in Int \X Int, NEW f \in Int \X Int
  PROVE  /\ ~Before(d, d)
         /\ d = e \/ Before(d, e) \/ Before(e, d)
         /\ Before(d, e) => ~Before(e, d) /\ d # e
         /\ Before(d, e) /\ Before(e, f) => Before(d, f)
<1>1. /\ d = <<d[1], d[2]>> /\ d[1] \in Int /\ d[2] \in Int
      /\ e = <<e[1], e[2]>> /\ e[1] \in Int /\ e[2] \in Int
      /\ f = <<f[1], f[2]>> /\ f[1] \in Int /\ f[2] \in Int
  OBVIOUS
<1> QED BY <1>1 DEF Before

(* Iteration lists the entries of a finite set, each once, in their order:   *)
(* the number of entries before it takes an entry to a place, different    *)
(* entries to different ones, so that no place is left.                    *)
LEMMA IterationFacts ==
  ASSUME NEW E, IsFiniteSet(E), E \subseteq Int \X Int
  PROVE  /\ Cardinality(E) \in Nat
         /\ Iteration(E) \in [1 .. Cardinality(E) -> E]
         /\ \A i, j \in 1 .. Cardinality(E) :
              i < j => Before(Iteration(E)[i], Iteration(E)[j])
         /\ \A e \in E : \E i \in 1 .. Cardinality(E) : Iteration(E)[i] = e
<1> DEFINE n == Cardinality(E)
           Low(e) == {d \in E : Before(d, e)}
           rank == [e \in E |-> Cardinality(Low(e)) + 1]
           q == Iteration(E)
<1>1. n \in Nat
  BY FS_CardinalityType
<1>2. ASSUME NEW e \in E
      PROVE  IsFiniteSet(Low(e)) /\ Cardinality(Low(e)) \in 0 .. n - 1
  <2>1. e \notin Low(e)
    BY EntryOrder
  <2>2. Low(e) \in SUBSET E /\ Low(e) # E
    BY <2>1
  <2> HIDE DEF Low
  <2>3. IsFiniteSet(Low(e)) /\ Cardinality(Low(e)) <= n /\ n # Cardinality(Low(e))
    BY <2>2, FS_Subset
  <2> QED BY <1>1, <2>3, FS_CardinalityType
<1>3. ASSUME NEW d \in E, NEW e \in E, Before(d, e)
      PROVE  Cardinality(Low(d)) < Cardinality(Low(e))
  <2>1. Low(d) \subseteq Low(e)
    BY <1>3, EntryOrder
  <2>2. d \in Low(e) /\ d \notin Low(d)
    BY <1>3, EntryOrder
  <2> HIDE DEF Low
  <2>3. /\ IsFiniteSet(Low(e)) /\ Low(d) \in SUBSET Low(e) /\ Low(d) # Low(e)
    BY <1>2, <2>1, <2>2
  <2>4. Cardinality(Low(d)) <= Cardinality(Low(e)) /\ Cardinality(Low(e)) # Cardinality(Low(d))
    BY <2>3, FS_Subset
  <2> QED BY <1>1, <1>2, <2>4
<1>4. ASSUME NEW d \in E, NEW e \in E, Cardinality(Low(d)) = Cardinality(Low(e))
      PROVE  d = e
  <2> HIDE DEF Low
  <2>1. d = e \/ Before(d, e) \/ Before(e, d)
    BY EntryOrder
  <2>2. Cardinality(Low(d)) \in Int /\ Cardinality(Low(e)) \in Int
    BY <1>1, <1>2
  <2> QED BY <1>3, <1>4, <2>1, <2>2
<1>5. rank \in Injection(E, 1 .. n)
  <2> HIDE DEF Low
  <2>1. \A e \in E : Cardinality(Low(e)) \in Nat /\ Cardinality(Low(e)) + 1 \in 1 .. n
    BY <1>1, <1>2
  <2>2. rank \in [E -> 1 .. n] /\ \A e \in E : rank[e] = Cardinality(Low(e)) + 1
    BY <2>1
  <2> HIDE DEF rank
  <2>3. \A d, e \in E : rank[d] = rank[e] => d = e
    BY <1>4, <2>1, <2>2
  <2> QED BY <2>2, <2>3 DEF Injection, IsInjective
<1>6. ASSUME NEW k \in 1 .. n PROVE \E e \in E : Cardinality(Low(e)) = k - 1
  <2>1. IsFiniteSet(1 .. n) /\ Cardinality(1 .. n) = n
    BY <1>1, FS_Interval
  <2>2. rank \in Surjection(E, 1 .. n)
    <3> HIDE DEF rank, n
    <3> QED BY <1>5, <2>1, FS_Injection DEF n
  <2>3. PICK e \in E : rank[e] = k
    <3> HIDE DEF rank, n
    <3> QED BY <2>2 DEF Surjection
  <2>4. Cardinality(Low(e)) + 1 = k
    BY <2>3
  <2> HIDE DEF Low
  <2>5. Cardinality(Low(e)) = k - 1
    BY <1>1, <1>2, <2>4
  <2> QED BY <2>5
<1>7. q = [k \in 1 .. n |-> CHOOSE e \in E : Cardinality(Low(e)) = k - 1]
  BY DEF Iteration
<1>8. /\ \A k \in 1 .. n : q[k] \in E /\ Cardinality(Low(q[k])) = k - 1
      /\ q \in [1 .. n -> E]
  <2> HIDE DEF Low, q, n
  <2> QED BY <1>6, <1>7
<1>9. ASSUME NEW i \in 1 .. n, NEW j \in 1 .. n, i < j PROVE Before(q[i], q[j])
  <2> HIDE DEF Low, q, n
  <2>1. /\ q[i] \in E /\ Cardinality(Low(q[i])) = i - 1
        /\ q[j] \in E /\ Cardinality(Low(q[j])) = j - 1
    BY <1>8
  <2>2. q[i] = q[j] \/ Before(q[i], q[j]) \/ Before(q[j], q[i])
    BY <2>1, EntryOrder
  <2>3. ~Before(q[j], q[i])
    BY <1>1, <1>3, <1>9, <2>1
  <2>4. q[i] # q[j]
    BY <1>1, <1>9, <2>1
  <2> QED BY <2>2, <2>3, <2>4
<1>10. ASSUME NEW e \in E PROVE \E i \in 1 .. n : q[i] = e
  <2> HIDE DEF Low, q, n
  <2> DEFINE k == Cardinality(Low(e)) + 1
  <2>1. k \in 1 .. n /\ Cardinality(Low(e)) = k - 1
    BY <1>1, <1>2
  <2>2. q[k] = e
    <3> HIDE DEF k
    <3> QED BY <1>4, <1>8, <2>1
  <2> QED BY <2>1, <2>2
<1> HIDE DEF q
<1> QED BY <1>1, <1>8, <1>9, <1>10 DEF q

(* The inductive invariant: the buckets are sequences without repetitions, *)
(* none is empty, and they list just the members that have a score, under  *)
(* it.                                                                     *)
Buckets(b) ==
  /\ DOMAIN b \subseteq Scores
  /\ \A s \in DOMAIN b :
       b[s] \in Seq(Members) /\ b[s] # <<>> /\ IsInjective(b[s])

Lists(b, m, s) == s \in DOMAIN b /\ \E i \in 1 .. Len(b[s]) : b[s][i] = m

Consistent(b, ms) ==
  /\ Buckets(b)
  /\ DOMAIN ms \subseteq Members
  /\ IsFiniteSet(DOMAIN ms)
  /\ \A m \in DOMAIN ms : ms[m] \in Scores
  /\ \A m, s : Lists(b, m, s) <=> m \in DOMAIN ms /\ ms[m] = s

LEMMA RangeOfBucket ==
  ASSUME NEW q \in Seq(Members)
  PROVE  /\ Len(q) \in Nat /\ DOMAIN q = 1 .. Len(q)
         /\ \A m : m \in Range(q) <=> \E i \in 1 .. Len(q) : q[i] = m
         /\ \A i \in 1 .. Len(q) : q[i] \in Members
         /\ IsInjective(q) <=> \A i, j \in 1 .. Len(q) : q[i] = q[j] => i = j
<1>1. Len(q) \in Nat /\ DOMAIN q = 1 .. Len(q)
  BY LenProperties
<1>2. \A m : m \in Range(q) <=> \E i \in 1 .. Len(q) : q[i] = m
  BY <1>1 DEF Range
<1>3. \A i \in 1 .. Len(q) : q[i] \in Members
  BY ElementOfSeq
<1>4. IsInjective(q) <=> \A i, j \in 1 .. Len(q) : q[i] = q[j] => i = j
  BY <1>1 DEF IsInjective
<1> QED BY <1>1, <1>2, <1>3, <1>4

LEMMA ConsistentIndexes ==
  ASSUME Consistent(scores, member_scores)
  PROVE  SetTypeOK /\ IndexesAgree
<1>1. SetTypeOK
  BY DEF Consistent, Buckets, SetTypeOK
<1>2. ASSUME NEW m, NEW s
      PROVE  Lists(scores, m, s) <=> s \in DOMAIN scores /\ m \in Range(scores[s])
  BY RangeOfBucket DEF Consistent, Buckets, Lists
<1>3. IndexesAgree
  BY <1>2 DEF Consistent, Buckets, IndexesAgree
<1> QED BY <1>1, <1>3

(* An entry holds a member, and a member with a score has just one entry,  *)
(* so that there are finitely many.                                        *)
LEMMA EntriesFacts ==
  ASSUME Consistent(scores, member_scores)
  PROVE  /\ \A e : e \in Entries(scores) <=>
               /\ e = <<e[1], e[2]>> /\ e[1] \in DOMAIN scores
               /\ e[2] \in 1 .. Len(scores[e[1]])
         /\ Entries(scores) \subseteq Int \X Int
         /\ \A e \in Entries(scores) :
              /\ At(scores, e) \in DOMAIN member_scores
              /\ member_scores[At(scores, e)] = e[1]
         /\ \A d, e \in Entries(scores) : At(scores, d) = At(scores, e) => d = e
         /\ \A m \in DOMAIN member_scores : \E e \in Entries(scores) : At(scores, e) = m
         /\ IsFiniteSet(Entries(scores))
<1> DEFINE E == Entries(scores)
           at == [e \in E |-> At(scores, e)]
<1>0. /\ Buckets(scores)
      /\ \A m, s : Lists(scores, m, s) <=> m \in DOMAIN member_scores /\ member_scores[m] = s
  BY DEF Consistent
<1>1. \A s \in DOMAIN scores : /\ Len(scores[s]) \in Nat /\ DOMAIN scores[s] = 1 .. Len(scores[s])
                              /\ s \in Int
  BY <1>0, RangeOfBucket, ScoresAssumption DEF Buckets
<1>2. ASSUME NEW e
      PROVE  e \in E <=> /\ e = <<e[1], e[2]>> /\ e[1] \in DOMAIN scores
                         /\ e[2] \in 1 .. Len(scores[e[1]])
  <2>1. e \in E <=> \E s \in DOMAIN scores : e \in {s} \X DOMAIN scores[s]
    BY DEF Entries
  <2>2. ASSUME NEW s \in DOMAIN scores
        PROVE  e \in {s} \X DOMAIN scores[s]
                 <=> e = <<e[1], e[2]>> /\ e[1] = s /\ e[2] \in 1 .. Len(scores[s])
    <3> DEFINE D == 1 .. Len(scores[s])
    <3>1. DOMAIN scores[s] = D
      BY <1>1
    <3> HIDE DEF D
    <3>2. e \in {s} \X D <=> e = <<e[1], e[2]>> /\ e[1] = s /\ e[2] \in D
      OBVIOUS
    <3> QED BY <3>1, <3>2 DEF D
  <2> HIDE DEF E
  <2> QED BY <2>1, <2>2
<1> HIDE DEF E
<1>3. E \subseteq Int \X Int
  <2>1. ASSUME NEW e \in E PROVE e \in Int \X Int
    <3>1. e = <<e[1], e[2]>> /\ e[1] \in Int /\ e[2] \in Int
      BY <1>1, <1>2
    <3> QED BY <3>1
  <2> QED BY <2>1
<1>4. ASSUME NEW e \in E
      PROVE  At(scores, e) \in DOMAIN member_scores /\ member_scores[At(scores, e)] = e[1]
  <2>1. Lists(scores, At(scores, e), e[1])
    BY <1>2 DEF Lists, At
  <2> QED BY <1>0, <2>1
<1>5. ASSUME NEW d \in E, NEW e \in E, At(scores, d) = At(scores, e) PROVE d = e
  <2>1. d[1] = e[1]
    BY <1>4, <1>5
  <2>2. /\ e[1] \in DOMAIN scores /\ d[2] \in 1 .. Len(scores[e[1]]) /\ e[2] \in 1 .. Len(scores[e[1]])
        /\ d = <<d[1], d[2]>> /\ e = <<e[1], e[2]>>
    BY <1>2, <2>1
  <2>3. scores[e[1]][d[2]] = scores[e[1]][e[2]]
    BY <1>5, <2>1 DEF At
  <2>4. d[2] = e[2]
    BY <1>0, <2>2, <2>3, RangeOfBucket DEF Buckets
  <2> QED BY <2>1, <2>2, <2>4
<1>6. ASSUME NEW m \in DOMAIN member_scores PROVE \E e \in E : At(scores, e) = m
  <2>1. Lists(scores, m, member_scores[m])
    BY <1>0
  <2>2. PICK i \in 1 .. Len(scores[member_scores[m]]) : scores[member_scores[m]][i] = m
    BY <2>1 DEF Lists
  <2> DEFINE e == <<member_scores[m], i>>
  <2>3. e \in E /\ At(scores, e) = m
    BY <1>2, <2>1, <2>2 DEF Lists, At
  <2> QED BY <2>3
<1>7. IsFiniteSet(E)
  <2>1. at \in Injection(E, DOMAIN member_scores)
    BY <1>4, <1>5 DEF Injection, IsInjective
  <2>2. IsFiniteSet(DOMAIN member_scores)
    BY DEF Consistent
  <2> QED BY <2>1, <2>2, FS_Injection
<1> QED BY <1>2, <1>3, <1>4, <1>5, <1>6, <1>7 DEF E

(* retain keeps the other members of the bucket, each in one place. *)
LEMMA RetainedFacts ==
  ASSUME Consistent(scores, member_scores),
         NEW s \in DOMAIN scores, NEW m,
         NEW q, q = Retained(scores, s, m)
  PROVE  /\ q \in Seq(Members) /\ IsInjective(q)
         /\ \A x : (\E k \in 1 .. Len(q) : q[k] = x)
                    <=> x # m /\ Lists(scores, x, s)
<1> DEFINE E == Entries(scores)
           K == {e \in E : e[1] = s /\ At(scores, e) # m}
           r == Iteration(K)
           n == Cardinality(K)
<1>1. /\ \A e : e \in E <=> /\ e = <<e[1], e[2]>> /\ e[1] \in DOMAIN scores
                            /\ e[2] \in 1 .. Len(scores[e[1]])
      /\ E \subseteq Int \X Int
      /\ \A e \in E : At(scores, e) \in DOMAIN member_scores
      /\ \A d, e \in E : At(scores, d) = At(scores, e) => d = e
      /\ IsFiniteSet(E)
  BY EntriesFacts
<1> HIDE DEF E
<1>2. IsFiniteSet(K) /\ K \subseteq Int \X Int
  BY <1>1, FS_Subset
<1>3. q = [k \in DOMAIN r |-> At(scores, r[k])]
  BY DEF Retained, E
<1>4. \A e \in K : /\ e \in E /\ At(scores, e) \in Members /\ At(scores, e) # m
                   /\ Lists(scores, At(scores, e), s)
  BY <1>1 DEF Consistent, Lists, At
<1>5. ASSUME NEW x, x # m, Lists(scores, x, s) PROVE \E e \in K : At(scores, e) = x
  <2>1. PICK i \in 1 .. Len(scores[s]) : scores[s][i] = x
    BY <1>5 DEF Lists
  <2>2. <<s, i>> \in E /\ At(scores, <<s, i>>) = x
    BY <1>1, <2>1 DEF At
  <2>3. <<s, i>> \in K
    BY <1>5, <2>2
  <2> HIDE DEF K
  <2> QED BY <2>2, <2>3
<1> HIDE DEF K
<1>6. /\ n \in Nat /\ r \in [1 .. n -> K]
      /\ \A i, j \in 1 .. n : i < j => Before(r[i], r[j])
      /\ \A e \in K : \E i \in 1 .. n : r[i] = e
  BY <1>2, IterationFacts
<1> HIDE DEF r, n
<1>7. \A i, j \in 1 .. n : r[i] = r[j] => i = j
  <2>1. ASSUME NEW i \in 1 .. n, NEW j \in 1 .. n, r[i] = r[j], i < j PROVE FALSE
    <3>1. r[i] \in Int \X Int /\ Before(r[i], r[i])
      BY <1>2, <1>6, <2>1
    <3> QED BY <3>1, EntryOrder
  <2> QED BY <1>6, <2>1
<1>8. /\ q = [k \in 1 .. n |-> At(scores, r[k])]
      /\ \A k \in 1 .. n : q[k] = At(scores, r[k]) /\ r[k] \in K /\ q[k] \in Members
  BY <1>3, <1>4, <1>6
<1>9. q \in Seq(Members) /\ Len(q) = n
  <2>1. q \in [1 .. n -> Members]
    BY <1>8
  <2> QED BY <1>6, <2>1, SeqDef
<1>10. IsInjective(q)
  <2>1. ASSUME NEW i \in 1 .. n, NEW j \in 1 .. n, q[i] = q[j] PROVE i = j
    <3>1. r[i] = r[j]
      BY <1>1, <1>4, <1>8, <2>1
    <3> QED BY <1>7, <3>1
  <2> QED BY <1>9, <2>1, RangeOfBucket
<1>11. ASSUME NEW x
       PROVE  (\E k \in 1 .. Len(q) : q[k] = x) <=> x # m /\ Lists(scores, x, s)
  <2>1. ASSUME NEW k \in 1 .. n, q[k] = x PROVE x # m /\ Lists(scores, x, s)
    BY <1>4, <1>8, <2>1
  <2>2. ASSUME x # m, Lists(scores, x, s) PROVE \E k \in 1 .. n : q[k] = x
    BY <1>5, <1>6, <1>8, <2>2
  <2> QED BY <1>9, <2>1, <2>2
<1> QED BY <1>9, <1>10, <1>11

(* The buckets without m: the other members stay listed. *)
LEMMA UnlistedFacts ==
  ASSUME Consistent(scores, member_scores), NEW m
  PROVE  /\ Buckets(Unlisted(m))
         /\ \A x, s : Lists(Unlisted(m), x, s) <=> x # m /\ Lists(scores, x, s)
<1> DEFINE b == Unlisted(m)
           t == member_scores[m]
           q == Retained(scores, t, m)
<1>1. CASE m \notin DOMAIN member_scores
  <2>1. b = scores
    BY <1>1 DEF Unlisted
  <2>2. \A s : ~Lists(scores, m, s)
    BY <1>1 DEF Consistent
  <2> QED BY <2>1, <2>2 DEF Consistent
<1>2. CASE m \in DOMAIN member_scores
  <2>1. t \in DOMAIN scores /\ \A s : Lists(scores, m, s) => s = t
    BY <1>2 DEF Consistent, Lists
  <2>2. b = Unlist(scores, t, m)
    BY <1>2 DEF Unlisted
  <2>3. /\ q \in Seq(Members) /\ IsInjective(q)
        /\ \A x : (\E k \in 1 .. Len(q) : q[k] = x) <=> x # m /\ Lists(scores, x, t)
    BY <2>1, RetainedFacts
  <2>4. CASE q = <<>>
    <3>1. b = [s \in DOMAIN scores \ {t} |-> scores[s]]
      BY <2>1, <2>2, <2>4 DEF Unlist, Restrict
    <3> HIDE DEF b, q, t
    <3>2. \A x : Lists(scores, x, t) => x = m
      BY <2>3, <2>4
    <3>3. Buckets(b)
      BY <3>1 DEF Consistent, Buckets
    <3>4. \A x, s : Lists(b, x, s) <=> s # t /\ Lists(scores, x, s)
      BY <3>1 DEF Lists
    <3>5. \A x, s : Lists(b, x, s) <=> x # m /\ Lists(scores, x, s)
      BY <2>1, <3>2, <3>4
    <3> QED BY <3>3, <3>5 DEF b
  <2>5. CASE q # <<>>
    <3>1. b = [scores EXCEPT ![t] = q]
      BY <2>1, <2>2, <2>5 DEF Unlist
    <3> HIDE DEF b, q, t
    <3>2. DOMAIN b = DOMAIN scores /\ \A s \in DOMAIN scores : b[s] = IF s = t THEN q ELSE scores[s]
      BY <3>1
    <3>3. Buckets(b)
      BY <2>3, <2>5, <3>2 DEF Consistent, Buckets
    <3>4. ASSUME NEW x, NEW s PROVE Lists(b, x, s) <=> x # m /\ Lists(scores, x, s)
      <4>1. CASE s = t
        BY <2>1, <2>3, <3>2, <4>1 DEF Lists
      <4>2. CASE s # t
        BY <2>1, <3>2, <4>2 DEF Lists
      <4> QED BY <4>1, <4>2
    <3> QED BY <3>3, <3>4 DEF b
  <2> QED BY <2>4, <2>5
<1> QED BY <1>1, <1>2

(* A member that is nowhere goes to the end of the bucket of s. *)
LEMMA PushFacts ==
  ASSUME NEW b, Buckets(b), NEW m \in Members, NEW s \in Scores,
         \A x : ~Lists(b, m, x)
  PROVE  /\ Buckets(Push(b, s, m))
         /\ \A x, u : Lists(Push(b, s, m), x, u) <=> (x = m /\ u = s) \/ Lists(b, x, u)
<1> DEFINE old == IF s \in DOMAIN b THEN b[s] ELSE <<>>
           new == Append(old, m)
           c == Push(b, s, m)
<1>1. c = [u \in DOMAIN b \cup {s} |-> IF u = s THEN new ELSE b[u]]
  BY DEF Push
<1>2. /\ old \in Seq(Members) /\ IsInjective(old)
      /\ \A x : (\E i \in 1 .. Len(old) : old[i] = x) <=> Lists(b, x, s)
  <2>1. CASE s \in DOMAIN b
    BY <2>1 DEF Buckets, Lists
  <2>2. CASE s \notin DOMAIN b
    <3>1. old = <<>>
      BY <2>2
    <3>2. IsInjective(<<>>)
      BY DEF IsInjective
    <3> QED BY <2>2, <3>1, <3>2 DEF Lists
  <2> QED BY <2>1, <2>2
<1> HIDE DEF old, c
<1>3. /\ Len(old) \in Nat /\ new \in Seq(Members) /\ Len(new) = Len(old) + 1
      /\ new[Len(old) + 1] = m /\ \A i \in 1 .. Len(old) : new[i] = old[i]
      /\ \A i \in 1 .. Len(old) + 1 : i \in 1 .. Len(old) \/ i = Len(old) + 1
      /\ \A i \in 1 .. Len(old) : i \in 1 .. Len(old) + 1
      /\ Len(old) + 1 \in 1 .. Len(old) + 1
  BY <1>2, AppendProperties, LenProperties
<1> HIDE DEF new
<1>4. \A i \in 1 .. Len(old) : old[i] # m
  BY <1>2
<1>5. IsInjective(new) /\ new # <<>>
  <2>1. \A i, j \in 1 .. Len(old) : old[i] = old[j] => i = j
    BY <1>2, RangeOfBucket
  <2>2. \A i, j \in 1 .. Len(new) : new[i] = new[j] => i = j
    BY <1>3, <1>4, <2>1
  <2>3. new # <<>>
    BY <1>3
  <2> QED BY <1>3, <2>2, <2>3, RangeOfBucket
<1>6. \A x : (\E i \in 1 .. Len(new) : new[i] = x) <=> x = m \/ Lists(b, x, s)
  BY <1>2, <1>3
<1>7. Buckets(c)
  BY <1>1, <1>3, <1>5 DEF Buckets
<1>8. ASSUME NEW x, NEW u PROVE Lists(c, x, u) <=> (x = m /\ u = s) \/ Lists(b, x, u)
  <2>1. CASE u = s
    BY <1>1, <1>6, <2>1 DEF Lists
  <2>2. CASE u # s
    BY <1>1, <2>2 DEF Lists
  <2> QED BY <2>1, <2>2
<1> QED BY <1>7, <1>8 DEF c

LEMMA AddKeepsConsistent ==
  ASSUME Consistent(scores, member_scores),
         NEW m \in Members, NEW s \in Scores, add(m, s)
  PROVE  Consistent(scores', member_scores')
<1> DEFINE b == Unlisted(m)
           c == Push(b, s, m)
<1>1. Buckets(b) /\ \A x, u : Lists(b, x, u) <=> x # m /\ Lists(scores, x, u)
  BY UnlistedFacts
<1>2. Buckets(c) /\ \A x, u : Lists(c, x, u) <=> (x = m /\ u = s) \/ Lists(b, x, u)
  <2> HIDE DEF b
  <2> QED BY <1>1, PushFacts
<1>3. scores' = c
  BY DEF add
<1> HIDE DEF b, c
<1>4. /\ DOMAIN member_scores' = DOMAIN member_scores \cup {m}
      /\ \A x \in DOMAIN member_scores' : member_scores'[x] = IF x = m THEN s ELSE member_scores[x]
  BY DEF add
<1>5. IsFiniteSet(DOMAIN member_scores')
  BY <1>4, FS_AddElement DEF Consistent
<1>6. /\ DOMAIN member_scores' \subseteq Members
      /\ \A x \in DOMAIN member_scores' : member_scores'[x] \in Scores
  BY <1>4 DEF Consistent
<1>7. \A x, u : Lists(scores, x, u) <=> x \in DOMAIN member_scores /\ member_scores[x] = u
  BY DEF Consistent
<1>8. \A x, u : Lists(c, x, u) <=> x \in DOMAIN member_scores' /\ member_scores'[x] = u
  BY <1>1, <1>2, <1>4, <1>7
<1> QED BY <1>2, <1>3, <1>5, <1>6, <1>8 DEF Consistent

LEMMA RemoveKeepsConsistent ==
  ASSUME Consistent(scores, member_scores), NEW m \in Members, remove(m)
  PROVE  Consistent(scores', member_scores')
<1> DEFINE b == Unlisted(m)
<1>1. Buckets(b) /\ \A x, u : Lists(b, x, u) <=> x # m /\ Lists(scores, x, u)
  BY UnlistedFacts
<1>2. scores' = b
  BY DEF remove
<1> HIDE DEF b
<1>3. /\ DOMAIN member_scores' = DOMAIN member_scores \ {m}
      /\ \A x \in DOMAIN member_scores' : member_scores'[x] = member_scores[x]
  BY DEF remove, Restrict
<1>4. IsFiniteSet(DOMAIN member_scores')
  BY <1>3, FS_RemoveElement DEF Consistent
<1> QED BY <1>1, <1>2, <1>3, <1>4 DEF Consistent

(* What remove_range takes out of the one index it takes out of the other. *)
LEMMA RemoveRangeKeepsConsistent ==
  ASSUME Consistent(scores, member_scores),
         NEW min, NEW max, remove_range(min, max)
  PROVE  /\ Consistent(scores', member_scores')
         /\ DOMAIN member_scores' =
              {m \in DOMAIN member_scores : ~Within(member_scores[m], min, max)}
<1> DEFINE E == Entries(scores)
           gone == {At(scores, e) : e \in {e \in E : Within(e[1], min, max)}}
           left == {m \in DOMAIN member_scores : ~Within(member_scores[m], min, max)}
<1>1. /\ \A e \in E : /\ At(scores, e) \in DOMAIN member_scores
                     /\ member_scores[At(scores, e)] = e[1]
      /\ \A m \in DOMAIN member_scores : \E e \in E : At(scores, e) = m
  BY EntriesFacts
<1>2. /\ member_scores' = [m \in DOMAIN member_scores \ gone |-> member_scores[m]]
      /\ scores' = [s \in {s \in DOMAIN scores : ~Within(s, min, max)} |-> scores[s]]
  BY DEF remove_range, Restrict
<1>3. DOMAIN member_scores \ gone = left
  <2> HIDE DEF E
  <2>1. ASSUME NEW m \in DOMAIN member_scores
        PROVE  m \in gone <=> Within(member_scores[m], min, max)
    BY <1>1
  <2> HIDE DEF gone
  <2> QED BY <2>1
<1> HIDE DEF gone, E
<1>4. /\ DOMAIN member_scores' = left
      /\ \A m \in left : member_scores'[m] = member_scores[m]
  BY <1>2, <1>3
<1>5. \A m, s : Lists(scores', m, s) <=> ~Within(s, min, max) /\ Lists(scores, m, s)
  BY <1>2 DEF Lists
<1>6. Buckets(scores')
  BY <1>2 DEF Consistent, Buckets
<1>7. IsFiniteSet(DOMAIN member_scores')
  BY <1>4, FS_Subset DEF Consistent
<1>8. \A m, s : Lists(scores', m, s) <=> m \in left /\ member_scores[m] = s
  BY <1>5 DEF Consistent
<1> HIDE DEF left
<1>9. left \subseteq DOMAIN member_scores
  BY DEF left
<1>10. Consistent(scores', member_scores')
  BY <1>4, <1>6, <1>7, <1>8, <1>9 DEF Consistent
<1> QED BY <1>4, <1>10 DEF left

LEMMA ConsistentInductive ==
  ASSUME Consistent(scores, member_scores), [SetNext]_setVars
  PROVE  Consistent(scores', member_scores')
<1>1. ASSUME NEW m \in Members, NEW s \in Scores, add(m, s)
      PROVE  Consistent(scores', member_scores')
  BY <1>1, AddKeepsConsistent
<1>2. ASSUME NEW m \in Members, remove(m)
      PROVE  Consistent(scores', member_scores')
  BY <1>2, RemoveKeepsConsistent
<1>3. ASSUME NEW min \in Scores, NEW max \in Scores, remove_range(min, max)
      PROVE  Consistent(scores', member_scores')
  BY <1>3, RemoveRangeKeepsConsistent
<1>4. CASE UNCHANGED <<scores, member_scores>>
  BY <1>4
<1>5. ASSUME NEW m \in Members, score(m) PROVE UNCHANGED <<scores, member_scores>>
  BY <1>5 DEF score
<1>6. ASSUME NEW r \in Ranges, NEW l \in Limits, range_by_score(r[1], r[2], l)
      PROVE  UNCHANGED <<scores, member_scores>>
  BY <1>6 DEF range_by_score
<1>7. ASSUME count PROVE UNCHANGED <<scores, member_scores>>
  BY <1>7 DEF count
<1>8. ASSUME UNCHANGED setVars PROVE UNCHANGED <<scores, member_scores>>
  BY <1>8 DEF setVars
<1> QED BY <1>1, <1>2, <1>3, <1>4, <1>5, <1>6, <1>7, <1>8 DEF SetNext

LEMMA AlwaysConsistent ==
  SetSpec => []Consistent(scores, member_scores)
<1>1. SetInit => Consistent(scores, member_scores)
  <2> SUFFICES ASSUME SetInit PROVE Consistent(scores, member_scores)
    OBVIOUS
  <2>1. scores = <<>> /\ member_scores = <<>> /\ DOMAIN scores = {} /\ DOMAIN member_scores = {}
    BY DEF SetInit
  <2>2. IsFiniteSet(DOMAIN member_scores)
    BY <2>1, FS_EmptySet
  <2> QED BY <2>1, <2>2 DEF Consistent, Buckets, Lists
<1>2. Consistent(scores, member_scores) /\ [SetNext]_setVars
        => Consistent(scores, member_scores)'
  BY ConsistentInductive
<1> QED BY <1>1, <1>2, PTL DEF SetSpec

(* SetTypeOK of the sorted set (rust/src/sorted_set.rs): the maps hold     *)
(* members and scores, and are finite.                                     *)
THEOREM SortedSetTyped ==
  SetSpec => []SetTypeOK
<1>1. Consistent(scores, member_scores) => SetTypeOK
  BY ConsistentIndexes
<1> QED BY <1>1, AlwaysConsistent, PTL

(* add, remove and remove_range keep the two indexes in agreement: a       *)
(* member is in exactly the bucket of its score, and once, and no bucket   *)
(* is empty.                                                               *)
THEOREM SortedSetIndexesAgree ==
  SetSpec => []IndexesAgree
<1>1. Consistent(scores, member_scores) => IndexesAgree
  BY ConsistentIndexes
<1> QED BY <1>1, AlwaysConsistent, PTL

-----------------------------------------------------------------------------
(* Listings and counts. *)

LEMMA SameInSortedSet ==
  ASSUME NEW E, NEW f, NEW s, NEW min, NEW max
  PROVE  /\ Go!Cardinality(E) = Cardinality(E)
         /\ Go!Restrict(f, E) = Restrict(f, E)
         /\ Go!Within(s, min, max) <=> Within(s, min, max)
<1>1. Go!Cardinality(E) = Cardinality(E)
  BY Zenon DEF Go!Cardinality, Cardinality
<1>2. Go!Restrict(f, E) = Restrict(f, E)
  BY Zenon DEF Go!Restrict, Restrict
<1>3. Go!Within(s, min, max) <=> Within(s, min, max)
  BY Zenon DEF Go!Within, Within
<1> QED BY <1>1, <1>2, <1>3

(* There are as many entries under some scores as members that have them. *)
LEMMA AsManyEntries ==
  ASSUME Consistent(scores, member_scores), NEW D
  PROVE  LET E == {e \in Entries(scores) : e[1] \in D}
             M == {m \in DOMAIN member_scores : member_scores[m] \in D}
         IN  /\ IsFiniteSet(E) /\ E \subseteq Int \X Int
             /\ Cardinality(E) = Cardinality(M) /\ Cardinality(M) \in Nat
             /\ \A e \in E : At(scores, e) \in M /\ member_scores[At(scores, e)] = e[1]
             /\ \A d, e \in E : At(scores, d) = At(scores, e) => d = e
             /\ \A m \in M : \E e \in E : At(scores, e) = m
<1> DEFINE A == Entries(scores)
           E == {e \in A : e[1] \in D}
           M == {m \in DOMAIN member_scores : member_scores[m] \in D}
           at == [e \in E |-> At(scores, e)]
<1>1. /\ A \subseteq Int \X Int /\ IsFiniteSet(A)
      /\ \A e \in A : /\ At(scores, e) \in DOMAIN member_scores
                     /\ member_scores[At(scores, e)] = e[1]
      /\ \A d, e \in A : At(scores, d) = At(scores, e) => d = e
      /\ \A m \in DOMAIN member_scores : \E e \in A : At(scores, e) = m
  BY EntriesFacts
<1> HIDE DEF A
<1>2. IsFiniteSet(E) /\ E \subseteq Int \X Int
  BY <1>1, FS_Subset
<1>3. IsFiniteSet(M) /\ Cardinality(M) \in Nat
  BY FS_Subset, FS_CardinalityType DEF Consistent
<1>4. \A e \in E : At(scores, e) \in M /\ member_scores[At(scores, e)] = e[1]
  BY <1>1
<1>5. \A d, e \in E : At(scores, d) = At(scores, e) => d = e
  BY <1>1
<1>6. \A m \in M : \E e \in E : At(scores, e) = m
  BY <1>1
<1> HIDE DEF E, M
<1>7. at \in Injection(E, M)
  BY <1>4, <1>5 DEF Injection, IsInjective
<1>8. at \in Surjection(E, M)
  BY <1>4, <1>6 DEF Surjection
<1>9. Cardinality(E) = Cardinality(M)
  BY <1>3, <1>7, <1>8, FS_Injection
<1> QED BY <1>2, <1>3, <1>4, <1>5, <1>6, <1>9 DEF E, M, A

Between(min, max) ==
  {m \in DOMAIN member_scores : min <= member_scores[m] /\ member_scores[m] <= max}

(* w lists the members M, each once, with its score and in the order of    *)
(* the scores.                                                             *)
ListsInOrder(w, M) ==
  /\ w \in Seq(Members \X Scores) /\ Len(w) = Cardinality(M) /\ Len(w) \in Nat
  /\ \A k \in 1 .. Len(w) : w[k][1] \in M /\ w[k][2] = member_scores[w[k][1]]
  /\ \A i, j \in 1 .. Len(w) : i < j => w[i][1] # w[j][1] /\ w[i][2] <= w[j][2]
  /\ \A m \in M : \E k \in 1 .. Len(w) : w[k][1] = m

LEMMA TraversalFacts ==
  ASSUME Consistent(scores, member_scores),
         NEW min \in Scores, NEW max \in Scores
  PROVE  ListsInOrder(Traversal(min, max), Between(min, max))
<1> DEFINE A == Entries(scores)
           D == {s \in Scores : min <= s /\ s <= max}
           E == {e \in A : e[1] \in D}
           r == Iteration(E)
           n == Cardinality(E)
           w == Traversal(min, max)
           M == Between(min, max)
<1>1. M = {m \in DOMAIN member_scores : member_scores[m] \in D}
  BY DEF Consistent, Between
<1>2. /\ IsFiniteSet(E) /\ E \subseteq Int \X Int
      /\ n = Cardinality(M)
      /\ \A e \in E : At(scores, e) \in M /\ member_scores[At(scores, e)] = e[1]
      /\ \A d, e \in E : At(scores, d) = At(scores, e) => d = e
      /\ \A m \in M : \E e \in E : At(scores, e) = m
  <2> HIDE DEF D
  <2> QED BY <1>1, AsManyEntries
<1>3. E = {e \in A : min <= e[1] /\ e[1] <= max}
  BY EntriesFacts DEF Consistent, Buckets
<1>4. w = [k \in DOMAIN r |-> <<At(scores, r[k]), r[k][1]>>]
  <2> DEFINE F == {e \in A : min <= e[1] /\ e[1] <= max}
  <2>1. w = [k \in DOMAIN Iteration(F) |-> <<At(scores, Iteration(F)[k]), Iteration(F)[k][1]>>]
    BY DEF Traversal
  <2> HIDE DEF E, F
  <2>2. E = F
    BY <1>3 DEF F
  <2> QED BY <2>1, <2>2
<1> HIDE DEF E, M, w
<1>5. /\ n \in Nat /\ r \in [1 .. n -> E]
      /\ \A i, j \in 1 .. n : i < j => Before(r[i], r[j])
      /\ \A e \in E : \E i \in 1 .. n : r[i] = e
  BY <1>2, IterationFacts
<1> HIDE DEF r, n
<1>6. /\ w = [k \in 1 .. n |-> <<At(scores, r[k]), r[k][1]>>]
      /\ \A k \in 1 .. n : /\ r[k] \in E /\ w[k][1] = At(scores, r[k]) /\ w[k][2] = r[k][1]
                          /\ w[k][1] \in M /\ w[k][2] = member_scores[w[k][1]]
  BY <1>2, <1>4, <1>5
<1>7. \A m \in M : m \in Members /\ member_scores[m] \in Scores
  BY DEF Consistent, Between, M
<1>8. w \in [1 .. n -> Members \X Scores]
  BY <1>2, <1>6, <1>7
<1>9. w \in Seq(Members \X Scores) /\ Len(w) = n
  BY <1>5, <1>8, SeqDef
<1>10. ASSUME NEW i \in 1 .. n, NEW j \in 1 .. n, i < j
       PROVE  w[i][1] # w[j][1] /\ w[i][2] <= w[j][2]
  <2>1. Before(r[i], r[j]) /\ r[i] \in E /\ r[j] \in E
    BY <1>5, <1>10
  <2>2. r[i] # r[j] /\ r[i][1] \in Int /\ r[j][1] \in Int
    BY <1>2, <2>1, EntryOrder
  <2>3. r[i][1] <= r[j][1]
    BY <2>1, <2>2 DEF Before
  <2> QED BY <1>2, <1>6, <2>1, <2>2, <2>3
<1>11. ASSUME NEW m \in M PROVE \E k \in 1 .. n : w[k][1] = m
  <2>1. PICK e \in E : At(scores, e) = m
    BY <1>2
  <2>2. PICK k \in 1 .. n : r[k] = e
    BY <1>5
  <2> QED BY <1>6, <2>1, <2>2
<1> QED BY <1>2, <1>5, <1>6, <1>9, <1>10, <1>11 DEF ListsInOrder, w, M

Most(l) == IF l = 0 THEN 1 ELSE l

(* A limit cuts a listing after that many entries, 0 after one. *)
LEMMA LimitedFacts ==
  ASSUME NEW T, NEW w \in Seq(T), NEW l \in Nat \cup {Nil}, NEW q, q = Limited(w, l)
  PROVE  /\ Len(w) \in Nat /\ Len(q) \in Nat /\ Len(q) <= Len(w)
         /\ Len(q) = IF l # Nil /\ Len(w) > Most(l) THEN Most(l) ELSE Len(w)
         /\ \A k \in 1 .. Len(q) : k \in 1 .. Len(w) /\ q[k] = w[k]
<1> DEFINE n == Most(l)
<1>1. Len(w) \in Nat /\ (l # Nil => n \in Nat \ {0})
  BY LenProperties DEF Most
<1>2. q = IF l = Nil \/ Len(w) <= n THEN w ELSE SubSeq(w, 1, n)
  BY DEF Limited, Most
<1> HIDE DEF n
<1>3. CASE l = Nil \/ Len(w) <= n
  <2>1. q = w
    BY <1>2, <1>3
  <2> QED BY <1>1, <1>3, <2>1 DEF n
<1>4. CASE ~(l = Nil \/ Len(w) <= n)
  <2>1. q = SubSeq(w, 1, n) /\ n \in 1 .. Len(w)
    BY <1>1, <1>2, <1>4
  <2>2. Len(q) = n /\ \A k \in 1 .. n : q[k] = w[k]
    BY <1>1, <2>1, SubSeqProperties
  <2> QED BY <1>1, <1>4, <2>1, <2>2 DEF n
<1> QED BY <1>3, <1>4

(* q is the start of a listing of the members M, as long as l lets it be. *)
ListsStart(q, M, l) ==
  /\ Cardinality(M) \in Nat /\ Len(q) \in Nat
  /\ Len(q) = IF l # Nil /\ Cardinality(M) > Most(l) THEN Most(l) ELSE Cardinality(M)
  /\ \A i \in 1 .. Len(q) : q[i][1] \in M /\ q[i][2] = member_scores[q[i][1]]
  /\ \A i, j \in 1 .. Len(q) : i < j => q[i][1] # q[j][1] /\ q[i][2] <= q[j][2]
  /\ \A m \in M : (\A i \in 1 .. Len(q) : q[i][1] # m)
       => /\ l # Nil /\ Len(q) = Most(l)
          /\ \A i \in 1 .. Len(q) : q[i][2] <= member_scores[m]

LEMMA AnswerFacts ==
  ASSUME Consistent(scores, member_scores),
         NEW min \in Scores, NEW max \in Scores, NEW l \in Limits
  PROVE  ListsStart(Limited(Traversal(min, max), l), Between(min, max), l)
<1> DEFINE w == Traversal(min, max)
           q == Limited(w, l)
           M == Between(min, max)
           T == Members \X Scores
<1>1. /\ w \in Seq(T) /\ Len(w) = Cardinality(M) /\ Len(w) \in Nat
      /\ \A k \in 1 .. Len(w) : w[k][1] \in M /\ w[k][2] = member_scores[w[k][1]]
      /\ \A i, j \in 1 .. Len(w) : i < j => w[i][1] # w[j][1] /\ w[i][2] <= w[j][2]
      /\ \A m \in M : \E k \in 1 .. Len(w) : w[k][1] = m
  BY TraversalFacts DEF ListsInOrder
<1> HIDE DEF w, M, T
<1>2. /\ Len(q) \in Nat /\ Len(q) <= Len(w)
      /\ Len(q) = IF l # Nil /\ Len(w) > Most(l) THEN Most(l) ELSE Len(w)
      /\ \A k \in 1 .. Len(q) : k \in 1 .. Len(w) /\ q[k] = w[k]
  <2>1. l \in Nat \cup {Nil}
    BY LimitsAssumption
  <2>2. q = Limited(w, l)
    OBVIOUS
  <2>3. w \in Seq(T)
    BY <1>1
  <2> HIDE DEF q
  <2> QED BY ONLY <2>1, <2>2, <2>3, LimitedFacts
<1> HIDE DEF q
<1>3. ASSUME NEW m \in M, \A i \in 1 .. Len(q) : q[i][1] # m
      PROVE  /\ l # Nil /\ Len(q) = Most(l)
             /\ \A i \in 1 .. Len(q) : q[i][2] <= member_scores[m]
  <2>1. PICK k \in 1 .. Len(w) : w[k][1] = m
    BY <1>1
  <2>2. k \notin 1 .. Len(q)
    BY <1>2, <1>3, <2>1
  <2>3. w[k][2] = member_scores[m] /\ \A i \in 1 .. Len(q) : i < k /\ i \in 1 .. Len(w) /\ q[i] = w[i]
    BY <1>1, <1>2, <2>1, <2>2
  <2>4. Len(q) # Len(w)
    BY <2>2
  <2> QED BY <1>1, <1>2, <2>3, <2>4
<1>4. /\ \A i \in 1 .. Len(q) : q[i][1] \in M /\ q[i][2] = member_scores[q[i][1]]
      /\ \A i, j \in 1 .. Len(q) : i < j => q[i][1] # q[j][1] /\ q[i][2] <= q[j][2]
  BY <1>1, <1>2
<1>5. ListsStart(q, M, l)
  BY <1>1, <1>2, <1>3, <1>4 DEF ListsStart
<1> QED BY <1>5 DEF q, w, M

(* What range_by_score lists, Go's RangeByScore may list. *)
LEMMA RangeIsListing ==
  ASSUME Consistent(scores, member_scores),
         NEW min \in Scores, NEW max \in Scores, NEW l \in Limits, ~Disputed(min, max, l)
  PROVE  Go!Listing(Limited(Traversal(min, max), l), min, max, l)
<1> DEFINE q == Limited(Traversal(min, max), l)
           M == Between(min, max)
           sel == Go!Selected(min, max)
<1>1. \A m \in DOMAIN member_scores :
        /\ member_scores[m] \in Scores
        /\ Within(member_scores[m], min, max)
             <=> min <= member_scores[m] /\ member_scores[m] <= max
  BY DEF Consistent, Disputed
<1>2. sel = M
  <2>1. sel = {m \in DOMAIN member_scores : Go!Within(member_scores[m], min, max)}
    BY DEF Go!Selected
  <2>2. \A m \in DOMAIN member_scores :
          Go!Within(member_scores[m], min, max)
            <=> min <= member_scores[m] /\ member_scores[m] <= max
    BY <1>1, SameInSortedSet
  <2> HIDE DEF sel
  <2> QED BY <2>1, <2>2 DEF Between
<1>3. \A m \in M : Value[member_scores[m]] # Nil /\ member_scores[m] \in Scores
  BY <1>1 DEF Within, Between
<1>4. /\ Len(q) = IF l # Nil /\ Cardinality(M) > l THEN l ELSE Cardinality(M)
      /\ \A i \in 1 .. Len(q) : q[i][1] \in M /\ q[i][2] = member_scores[q[i][1]]
      /\ \A i, j \in 1 .. Len(q) : i < j => q[i][1] # q[j][1] /\ q[i][2] <= q[j][2]
      /\ \A m \in M : (\A i \in 1 .. Len(q) : q[i][1] # m)
           => \A i \in 1 .. Len(q) : q[i][2] <= member_scores[m]
  <2>1. l # 0
    BY DEF Disputed
  <2>2. ListsStart(q, M, l)
    BY AnswerFacts
  <2>3. Most(l) = l
    BY <2>1 DEF Most
  <2> HIDE DEF q, M
  <2> QED BY <2>2, <2>3 DEF ListsStart
<1>5. Go!Cardinality(M) = Cardinality(M)
  BY SameInSortedSet
<1> HIDE DEF M, sel, q
<1>6. \A m, x \in M : member_scores[m] <= member_scores[x]
                       => Value[member_scores[m]] <= Value[member_scores[x]]
  BY <1>3, ValueAssumption
<1>7. \A i, j \in 1 .. Len(q) :
        i < j => q[i][1] # q[j][1] /\ Value[q[i][2]] <= Value[q[j][2]]
  BY <1>4, <1>6
<1>8. \A i \in 1 .. Len(q) : \A m \in M : (\A j \in 1 .. Len(q) : q[j][1] # m)
        => Value[q[i][2]] <= Value[member_scores[m]]
  BY <1>4, <1>6
<1>9. Len(q) = IF l # Nil /\ Go!Cardinality(M) > l THEN l ELSE Go!Cardinality(M)
  BY <1>4, <1>5
<1>10. Go!Listing(q, min, max, l)
  BY <1>2, <1>4, <1>7, <1>8, <1>9 DEF Go!Listing, sel
<1> QED BY <1>10 DEF q

LEMMA RangeImplementsGo ==
  ASSUME Consistent(scores, member_scores),
         NEW min \in Scores, NEW max \in Scores, NEW l \in Limits,
         ~Disputed(min, max, l), range_by_score(min, max, l)
  PROVE  Go!RangeByScore(min, max, l)
<1> DEFINE q == Limited(Traversal(min, max), l)
<1>1. min <= max
  BY ScoresAssumption DEF Disputed
<1>2. Listings(min, max, l) = {q}
  BY <1>1, ScoresAssumption DEF Listings
<1>3. Go!Listing(q, min, max, l)
  BY RangeIsListing
<1> HIDE DEF q
<1>4. /\ out' = <<<<"range_by_score", min, max, l>>, q>>
      /\ UNCHANGED member_scores
  BY <1>2 DEF range_by_score
<1>5. out'[1] = <<"range_by_score", min, max, l>> /\ out'[2] = q
  BY <1>4
<1> QED BY <1>3, <1>4, <1>5 DEF Go!RangeByScore

LEMMA RemoveRangeImplementsGo ==
  ASSUME Consistent(scores, member_scores),
         NEW min \in Scores, NEW max \in Scores, remove_range(min, max)
  PROVE  Go!RemoveRange(min, max)
<1> DEFINE D == {s \in Scores : Within(s, min, max)}
           A == Entries(scores)
           E == {e \in A : e[1] \in D}
           M == {m \in DOMAIN member_scores : member_scores[m] \in D}
           sel == Go!Selected(min, max)
           doomed == {e \in A : Within(e[1], min, max)}
           gone == {At(scores, e) : e \in doomed}
<1>1. /\ Cardinality(E) = Cardinality(M)
      /\ \A e \in E : At(scores, e) \in M
      /\ \A m \in M : \E e \in E : At(scores, e) = m
  <2> HIDE DEF D
  <2> QED BY AsManyEntries
<1>2. doomed = E
  BY EntriesFacts DEF Consistent, Buckets
<1>3. sel = M
  <2>1. sel = {m \in DOMAIN member_scores : Go!Within(member_scores[m], min, max)}
    BY DEF Go!Selected
  <2> HIDE DEF sel
  <2> QED BY <2>1, SameInSortedSet DEF Consistent
<1>4. gone = M
  <2> HIDE DEF E, M, doomed
  <2> QED BY <1>1, <1>2
<1>5. /\ member_scores' = Restrict(member_scores, DOMAIN member_scores \ gone)
      /\ out' = <<<<"remove_range", min, max>>, Cardinality(doomed)>>
  BY DEF remove_range
<1> HIDE DEF E, M, doomed, gone, sel
<1>6. /\ Cardinality(doomed) = Go!Cardinality(sel)
      /\ member_scores' = Go!Restrict(member_scores, DOMAIN member_scores \ sel)
  BY <1>1, <1>2, <1>3, <1>4, <1>5, SameInSortedSet
<1> QED BY <1>5, <1>6 DEF Go!RemoveRange, sel

(* What ImplementsGo lets a step do. *)
GoStep ==
  \/ \E r \in Ranges, l \in Limits :
       /\ out'[1] = <<"range_by_score", r[1], r[2], l>>
       /\ Disputed(r[1], r[2], l)
       /\ UNCHANGED member_scores
  \/ Go!Next

LEMMA StepImplementsGo ==
  ASSUME Consistent(scores, member_scores), [SetNext]_setVars
  PROVE  [GoStep]_<<member_scores, out>>
<1>1. ASSUME NEW m \in Members, NEW s \in Scores, add(m, s) PROVE Go!Next
  <2>1. Go!Add(m, s)
    BY <1>1 DEF add, Go!Add
  <2> QED BY <2>1 DEF Go!Next
<1>2. ASSUME NEW m \in Members, remove(m) PROVE Go!Next
  <2>1. Go!Remove(m)
    BY <1>2, SameInSortedSet DEF remove, Go!Remove
  <2> QED BY <2>1 DEF Go!Next
<1>3. ASSUME NEW m \in Members, score(m) PROVE Go!Next
  <2>1. Go!Score(m)
    BY <1>3 DEF score, Go!Score
  <2> QED BY <2>1 DEF Go!Next
<1>4. ASSUME NEW r \in Ranges, NEW l \in Limits, range_by_score(r[1], r[2], l) PROVE GoStep
  <2>1. r[1] \in Scores /\ r[2] \in Scores
    BY RangesAssumption
  <2>2. CASE Disputed(r[1], r[2], l)
    <3>1. /\ out'[1] = <<"range_by_score", r[1], r[2], l>>
          /\ UNCHANGED member_scores
      BY <1>4 DEF range_by_score
    <3> QED BY <2>2, <3>1 DEF GoStep
  <2>3. CASE ~Disputed(r[1], r[2], l)
    BY <1>4, <2>1, <2>3, RangeImplementsGo DEF Go!Next, GoStep
  <2> QED BY <2>2, <2>3
<1>5. ASSUME count PROVE Go!Next
  <2>1. Go!Count
    BY <1>5, SameInSortedSet DEF count, Go!Count
  <2> QED BY <2>1 DEF Go!Next
<1>6. ASSUME NEW min \in Scores, NEW max \in Scores, remove_range(min, max) PROVE Go!Next
  BY <1>6, RemoveRangeImplementsGo DEF Go!Next
<1>7. ASSUME UNCHANGED setVars PROVE UNCHANGED <<member_scores, out>>
  BY <1>7 DEF setVars
<1> QED BY <1>1, <1>2, <1>3, <1>4, <1>5, <1>6, <1>7 DEF SetNext, GoStep

(* MemorySortedSetStore of Rust, with its two indexes, answers every       *)
(* sequence of calls as memorySortedSet of Go, with its one map, may,      *)
(* except for the listings on which the code of the two disagrees: for any *)
(* members, scores, values, ranges and limits.                             *)
THEOREM SortedSetImplementsGo == SetSpec => ImplementsGo
<1>1. SetInit => Go!Init
  BY DEF SetInit, Go!Init
<1>2. Consistent(scores, member_scores) /\ [SetNext]_setVars => [GoStep]_<<member_scores, out>>
  BY StepImplementsGo
<1> QED BY <1>1, <1>2, AlwaysConsistent, PTL DEF SetSpec, ImplementsGo, GoStep

-----------------------------------------------------------------------------
(* Listings of all ranges. *)

LEMMA AnswerIsSound ==
  ASSUME Consistent(scores, member_scores),
         NEW min \in Scores, NEW max \in Scores, NEW l \in Limits,
         NEW q \in Listings(min, max, l), q # Panic
  PROVE  Sound(q, min, max, l)
<1> DEFINE M == Between(min, max)
<1>1. min \in Int /\ max \in Int
  BY ScoresAssumption
<1>2. ListsStart(q, M, l) /\ (l # Nil => Most(l) \in Nat)
  <2>1. l # Nil => Most(l) \in Nat
    BY LimitsAssumption DEF Most
  <2>2. CASE min <= max
    BY <2>1, <2>2, AnswerFacts DEF Listings
  <2>3. CASE min > max
    <3>1. q = <<>>
      BY <1>1, <2>3 DEF Listings
    <3>2. M = {}
      <4>1. ASSUME NEW m \in M PROVE FALSE
        <5>1. member_scores[m] \in Int /\ min <= member_scores[m] /\ member_scores[m] <= max
          BY ScoresAssumption DEF Between, Consistent
        <5> QED BY <1>1, <2>3, <5>1
      <4> QED BY <4>1
    <3>3. Cardinality(M) = 0
      BY <3>2, FS_EmptySet
    <3>4. Len(q) = 0
      BY <3>1
    <3> HIDE DEF M
    <3> QED BY <2>1, <3>2, <3>3, <3>4 DEF ListsStart
  <2> QED BY <1>1, <2>2, <2>3
<1>3. \A m : m \in M <=> /\ m \in DOMAIN member_scores
                         /\ min <= member_scores[m] /\ member_scores[m] <= max
  BY DEF Between
<1>4. \A m \in M : member_scores[m] \in Scores
  BY DEF Between, Consistent
<1> HIDE DEF M
<1>5. ASSUME NEW m \in M, Nil \notin {Value[min], Value[max]}
      PROVE  Within(member_scores[m], min, max)
  BY <1>3, <1>4, <1>5, ValueAssumption DEF Within
<1>6. \A i \in 1 .. Len(q) :
        /\ q[i][1] \in DOMAIN member_scores /\ q[i][2] = member_scores[q[i][1]]
        /\ q[i][2] \in Scores
        /\ Nil \notin {Value[min], Value[max]} => Within(q[i][2], min, max)
  BY <1>2, <1>3, <1>4, <1>5 DEF ListsStart
<1>7. l \notin {Nil, 0} => Len(q) <= l
  BY <1>2, LimitsAssumption DEF ListsStart, Most
<1>8. \A i, j \in 1 .. Len(q) : i < j => q[i][1] # q[j][1] /\ q[i][2] <= q[j][2]
  BY <1>2 DEF ListsStart
<1>9. ASSUME Nil \notin {Value[min], Value[max]}, NEW i \in 1 .. Len(q),
             NEW s \in Scores, Within(s, min, max), q[i][2] <= s
      PROVE  Value[q[i][2]] <= Value[s]
  BY <1>6, <1>9, ValueAssumption DEF Within
<1>10. ASSUME Nil \notin {Value[min], Value[max]}, NEW i \in 1 .. Len(q),
              NEW j \in 1 .. Len(q), i < j
       PROVE  Value[q[i][2]] <= Value[q[j][2]]
  BY <1>6, <1>8, <1>9, <1>10
<1>11. ASSUME Nil \notin {Value[min], Value[max]},
              NEW m \in DOMAIN member_scores \ {q[i][1] : i \in 1 .. Len(q)},
              Within(member_scores[m], min, max)
       PROVE  \/ /\ l # Nil /\ Len(q) >= l
                 /\ \A i \in 1 .. Len(q) : Value[q[i][2]] <= Value[member_scores[m]]
              \/ \E b \in {min, max} :
                   b # member_scores[m] /\ Value[b] = Value[member_scores[m]]
  <2> DEFINE s == member_scores[m]
  <2>1. s \in Scores
    BY DEF Consistent
  <2>2. CASE m \in M
    <3>1. \A i \in 1 .. Len(q) : q[i][1] # m
      BY <1>11
    <3>2. l # Nil /\ Len(q) = Most(l) /\ \A i \in 1 .. Len(q) : q[i][2] <= s
      BY <1>2, <2>2, <3>1 DEF ListsStart
    <3>3. Len(q) >= l
      BY <3>2, LimitsAssumption DEF Most
    <3> QED BY <1>9, <1>11, <2>1, <3>2, <3>3
  <2>3. CASE m \notin M
    <3>1. s \in Int /\ (s < min \/ max < s)
      BY <1>1, <1>3, <2>1, <2>3, ScoresAssumption
    <3>2. /\ Value[s] \in Int /\ Value[min] \in Int /\ Value[max] \in Int
          /\ Value[min] <= Value[s] /\ Value[s] <= Value[max]
      BY <1>11, <2>1, ValueAssumption DEF Within
    <3>3. CASE s < min
      <4>1. Value[s] <= Value[min]
        BY <1>1, <1>11, <2>1, <3>1, <3>2, <3>3, ValueAssumption DEF Within
      <4> QED BY <1>1, <3>1, <3>2, <3>3, <4>1
    <3>4. CASE max < s
      <4>1. Value[max] <= Value[s]
        BY <1>1, <1>11, <2>1, <3>1, <3>2, <3>4, ValueAssumption DEF Within
      <4> QED BY <1>1, <3>1, <3>2, <3>4, <4>1
    <3> QED BY <3>1, <3>3, <3>4
  <2> QED BY <2>2, <2>3
<1> QED BY <1>6, <1>7, <1>8, <1>10, <1>11 DEF Sound

(* For any range and limit, disputed ones included, range_by_score shows   *)
(* members once each with their scores, keeps to a limit above 0 and,      *)
(* between numbers, lists what is inside them and nothing else.            *)
THEOREM SortedSetRangeIsSound == SetSpec => []RangeIsSound
<1>1. SetInit => RangeIsSound
  BY DEF SetInit, RangeIsSound
<1>2. Consistent(scores, member_scores) /\ RangeIsSound /\ [SetNext]_setVars => RangeIsSound'
  <2> SUFFICES ASSUME Consistent(scores, member_scores), RangeIsSound, [SetNext]_setVars
               PROVE  RangeIsSound'
    OBVIOUS
  <2>1. ASSUME NEW r \in Ranges, NEW l \in Limits, range_by_score(r[1], r[2], l)
        PROVE  RangeIsSound'
    <3>1. PICK q \in Listings(r[1], r[2], l) :
            out' = <<<<"range_by_score", r[1], r[2], l>>, q>>
      BY <2>1 DEF range_by_score
    <3>2. /\ out'[2] = q /\ out'[1][2] = r[1] /\ out'[1][3] = r[2] /\ out'[1][4] = l
      BY <3>1
    <3>3. q # Panic => Sound(q, r[1], r[2], l)
      BY RangesAssumption, AnswerIsSound
    <3>4. member_scores' = member_scores
      BY <2>1 DEF range_by_score
    <3>5. Sound(q, r[1], r[2], l) => Sound(q, r[1], r[2], l)'
      BY <3>4 DEF Sound
    <3> QED BY <3>2, <3>3, <3>4 DEF RangeIsSound, Sound
  <2>2. ASSUME out'[1][1] # "range_by_score" PROVE RangeIsSound'
    BY <2>2 DEF RangeIsSound
  <2>3. ASSUME NEW m \in Members, NEW s \in Scores, add(m, s) PROVE RangeIsSound'
    BY <2>2, <2>3 DEF add
  <2>4. ASSUME NEW m \in Members, remove(m) \/ score(m) PROVE RangeIsSound'
    BY <2>2, <2>4 DEF remove, score
  <2>5. ASSUME count PROVE RangeIsSound'
    BY <2>2, <2>5 DEF count
  <2>6. ASSUME NEW min \in Scores, NEW max \in Scores, remove_range(min, max) PROVE RangeIsSound'
    BY <2>2, <2>6 DEF remove_range
  <2>7. ASSUME UNCHANGED setVars PROVE RangeIsSound'
    BY <2>7 DEF setVars, RangeIsSound, Sound
  <2> QED BY <2>1, <2>3, <2>4, <2>5, <2>6, <2>7 DEF SetNext
<1> QED BY <1>1, <1>2, AlwaysConsistent, PTL DEF SetSpec
=============================================================================
