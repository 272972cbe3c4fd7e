------------------------------ MODULE GoPubSub ------------------------------
(***************************************************************************)
(* RedisPubSubStore of go/redis.go and memoryPubSub of go/memory.go.  With *)
(* Redis every subscription has a connection of its own, over one or more  *)
(* channels, and a goroutine that moves messages from the client library's *)
(* channel to the subscriber's; in memory Publish puts messages into the   *)
(* subscribers' channels itself.  Contexts end, connections are lost and   *)
(* subscribers stop reading at any time.                                   *)
(***************************************************************************)
EXTENDS Naturals, Sequences, FiniteSets

CONSTANTS
  Channels,      \* channel names
  Subs,          \* the subscriptions ever made
  Wish,          \* the channels each subscription asks for
  OutSize,       \* capacity of a subscriber's channel (1000, in memory 100)
  InSize,        \* capacity of the client library's channel (100)
  MaxMessages    \* bound of the model: messages published

ASSUME WishAssumption == Wish \in [Subs -> SUBSET Channels]
ASSUME SizeAssumption ==
  OutSize \in Nat \ {0} /\ InSize \in Nat \ {0} /\ MaxMessages \in Nat

VARIABLES
  backend,      \* "redis" or "memory"
  table,        \* p.subs, m.subscribers: the subscriptions of each channel
  wanted,       \* the channels of a subscription
  conn,         \* redis.PubSub: "none", "open" or "closed"
  inbox,        \* what the server has sent and the goroutine has not taken
  fwd,          \* the goroutine: "none", "select", "sending" or "ended"
  hold,         \* the message it is sending
  out,          \* the subscriber's channel
  closed,       \* close(out)
  ctx,          \* the context of the subscription is over
  reader,       \* the subscriber: "none", "reading", "over" (it has seen the
                \* end of its channel) or "left"
  got,          \* what the subscriber has read
  publishing,   \* calls of the in-memory Publish under way, and whom each has
                \* still to offer its message
  sent,         \* messages published so far
  overlap,      \* history: the publishes under way when this one began
  lost          \* history: messages dropped for a subscription

link    == <<conn, inbox, fwd, hold>>
outlet  == <<out, closed, ctx, reader, got>>
history == <<overlap, lost>>
vars    == <<backend, table, wanted, conn, inbox, fwd, hold, out, closed, ctx,
             reader, got, publishing, sent, overlap, lost>>

Numbers  == 1 .. MaxMessages
Messages == [n : Numbers, channel : Channels]

Of(q) == {q[i].n : i \in 1 .. Len(q)}

Init ==
  /\ backend \in {"redis", "memory"}
  /\ table = [c \in Channels |-> {}]
  /\ wanted = [s \in Subs |-> {}]
  /\ conn = [s \in Subs |-> "none"]
  /\ inbox = [s \in Subs |-> <<>>]
  /\ fwd = [s \in Subs |-> "none"]
  /\ hold = [s \in Subs |-> <<>>]
  /\ out = [s \in Subs |-> <<>>]
  /\ closed = {}
  /\ ctx = [s \in Subs |-> "live"]
  /\ reader = [s \in Subs |-> "none"]
  /\ got = [s \in Subs |-> <<>>]
  /\ publishing = {}
  /\ sent = 0
  /\ overlap = [n \in Numbers |-> {}]
  /\ lost = [s \in Subs |-> {}]

\* RWMutex of the in-memory store: a Publish holds it for reading.
Unlocked == publishing = {}

Listed(s, cs) == [c \in Channels |-> IF c \in cs THEN table[c] \cup {s} ELSE table[c]]

-----------------------------------------------------------------------------
(* Slips that the properties below must catch; no specification uses them. *)

\* The goroutine drops a message that the subscriber's channel has no room for.
SendOrDrop(s) ==
  /\ fwd[s] = "sending"
  /\ out' = IF Len(out[s]) < OutSize THEN [out EXCEPT ![s] = @ \o hold[s]] ELSE out
  /\ hold' = [hold EXCEPT ![s] = <<>>]
  /\ fwd' = [fwd EXCEPT ![s] = "select"]
  /\ UNCHANGED <<backend, table, wanted, conn, inbox, closed, ctx, reader, got,
                 publishing, sent, history>>

\* The goroutine sends a message for as long as there is room.
SendAgain(s) ==
  /\ fwd[s] = "sending"
  /\ Len(out[s]) < OutSize
  /\ out' = [out EXCEPT ![s] = @ \o hold[s]]
  /\ UNCHANGED <<backend, table, wanted, link, closed, ctx, reader, got,
                 publishing, sent, history>>

\* The goroutine goes on when the library's channel is closed.
IgnoreEnd(s) ==
  /\ fwd[s] = "select"
  /\ conn[s] = "closed" /\ inbox[s] = <<>>
  /\ UNCHANGED vars

\* Unsubscribe forgets the subscriptions and leaves them open.
Forget(gone) == UNCHANGED <<conn, inbox, lost>>

\* Publish waits for no one and looks at no capacity.
OfferAlways(s, m) ==
  /\ out' = [out EXCEPT ![s] = Append(@, m)]
  /\ UNCHANGED lost

-----------------------------------------------------------------------------
(* Subscribe over Redis: the server confirms; then the subscription is     *)
(* entered in the table under the mutex and its goroutine is started.      *)
Subscribe(s) ==
  /\ backend = "redis"
  /\ reader[s] = "none" /\ conn[s] = "none"
  /\ Wish[s] # {}
  /\ wanted' = [wanted EXCEPT ![s] = Wish[s]]
  /\ conn' = [conn EXCEPT ![s] = "open"]
  /\ UNCHANGED <<backend, table, inbox, fwd, hold, outlet, publishing, sent, history>>

Register(s) ==
  /\ conn[s] = "open" /\ fwd[s] = "none"
  /\ table' = Listed(s, wanted[s])
  /\ fwd' = [fwd EXCEPT ![s] = "select"]
  /\ reader' = [reader EXCEPT ![s] = "reading"]
  /\ UNCHANGED <<backend, wanted, conn, inbox, hold, out, closed, ctx, got,
                 publishing, sent, history>>

(* Receive(ctx) fails; nothing of the subscription is left.                *)
SubscribeFails(s) ==
  /\ conn[s] = "open" /\ fwd[s] = "none"
  /\ conn' = [conn EXCEPT ![s] = "closed"]
  /\ inbox' = [inbox EXCEPT ![s] = <<>>]
  /\ UNCHANGED <<backend, table, wanted, fwd, hold, outlet, publishing, sent, history>>

(* In memory, all of it under the mutex; no channels at all are allowed.   *)
MemorySubscribe(s) ==
  /\ backend = "memory" /\ Unlocked
  /\ reader[s] = "none"
  /\ wanted' = [wanted EXCEPT ![s] = Wish[s]]
  /\ table' = Listed(s, Wish[s])
  /\ reader' = [reader EXCEPT ![s] = "reading"]
  /\ UNCHANGED <<backend, link, out, closed, ctx, got, publishing, sent, history>>

-----------------------------------------------------------------------------
(* Close of the connections in gone: the library passes on a part of what  *)
(* it has received.                                                        *)
CloseAll(gone) ==
  /\ conn' = [s \in Subs |-> IF s \in gone THEN "closed" ELSE conn[s]]
  /\ \E keep \in [gone -> 0 .. MaxMessages] :
       /\ \A s \in gone : keep[s] <= Len(inbox[s])
       /\ inbox' = [s \in Subs |-> IF s \in gone THEN SubSeq(inbox[s], 1, keep[s])
                                                 ELSE inbox[s]]
       /\ lost' = [s \in Subs |->
            IF s \in gone THEN lost[s] \cup (Of(inbox[s]) \ Of(SubSeq(inbox[s], 1, keep[s])))
                          ELSE lost[s]]

(* Unsubscribe closes every subscription of the channels, with all of its  *)
(* channels.  It does so one by one; no two of them share anything.        *)
Unsubscribe(cs) ==
  /\ backend = "redis"
  /\ CloseAll(UNION {table[c] : c \in cs})
  /\ table' = [c \in Channels |-> IF c \in cs THEN {} ELSE table[c]]
  /\ UNCHANGED <<backend, wanted, fwd, hold, outlet, publishing, sent, overlap>>

(* In memory the table is cleared, and no channel is closed.               *)
MemoryUnsubscribe(cs) ==
  /\ backend = "memory" /\ Unlocked
  /\ table' = [c \in Channels |-> IF c \in cs THEN {} ELSE table[c]]
  /\ UNCHANGED <<backend, wanted, link, outlet, publishing, sent, overlap, lost>>

-----------------------------------------------------------------------------
(* The goroutine's select, of whose ready cases either is taken.           *)
CtxDone(s) ==
  /\ fwd[s] = "select" /\ ctx[s] = "done"
  /\ conn' = [conn EXCEPT ![s] = "closed"]
  /\ lost' = [lost EXCEPT ![s] = @ \cup Of(inbox[s])]
  /\ inbox' = [inbox EXCEPT ![s] = <<>>]
  /\ fwd' = [fwd EXCEPT ![s] = "ended"]
  /\ closed' = closed \cup {s}
  /\ UNCHANGED <<backend, table, wanted, hold, out, ctx, reader, got,
                 publishing, sent, overlap>>

Take(s) ==
  /\ fwd[s] = "select" /\ inbox[s] # <<>>
  /\ hold' = [hold EXCEPT ![s] = <<Head(inbox[s])>>]
  /\ inbox' = [inbox EXCEPT ![s] = Tail(@)]
  /\ fwd' = [fwd EXCEPT ![s] = "sending"]
  /\ UNCHANGED <<backend, table, wanted, conn, outlet, publishing, sent, history>>

SeeEnd(s) ==
  /\ fwd[s] = "select"
  /\ conn[s] = "closed" /\ inbox[s] = <<>>
  /\ fwd' = [fwd EXCEPT ![s] = "ended"]
  /\ closed' = closed \cup {s}
  /\ UNCHANGED <<backend, table, wanted, conn, inbox, hold, out, ctx, reader,
                 got, publishing, sent, history>>

(* out <- Message: it waits for room, and for nothing else.                *)
Send(s) ==
  /\ fwd[s] = "sending"
  /\ Len(out[s]) < OutSize
  /\ out' = [out EXCEPT ![s] = @ \o hold[s]]
  /\ hold' = [hold EXCEPT ![s] = <<>>]
  /\ fwd' = [fwd EXCEPT ![s] = "select"]
  /\ UNCHANGED <<backend, table, wanted, conn, inbox, closed, ctx, reader, got,
                 publishing, sent, history>>

-----------------------------------------------------------------------------
(* The server passes a message on to the connections that listen; the one  *)
(* of a subscription may be lost just then, and the library makes it again. *)
Publish(c) ==
  /\ backend = "redis"
  /\ sent < MaxMessages
  /\ sent' = sent + 1
  /\ \E to \in SUBSET {s \in Subs : conn[s] = "open" /\ c \in wanted[s]} :
       inbox' = [s \in Subs |-> IF s \in to
                                  THEN Append(inbox[s], [n |-> sent + 1, channel |-> c])
                                  ELSE inbox[s]]
  /\ UNCHANGED <<backend, table, wanted, conn, fwd, hold, outlet, publishing, history>>

(* In memory the message is offered to one subscriber after the other; the *)
(* mutex is held for reading, so that several calls may do so at once.     *)
MemoryPublish(c) ==
  /\ backend = "memory"
  /\ sent < MaxMessages
  /\ sent' = sent + 1
  /\ publishing' = publishing \cup {[n |-> sent + 1, channel |-> c, left |-> table[c]]}
  /\ overlap' = [overlap EXCEPT ![sent + 1] = {p.n : p \in publishing}]
  /\ UNCHANGED <<backend, table, wanted, link, outlet, lost>>

Offer(s, m) ==
  \/ /\ Len(out[s]) < OutSize
     /\ out' = [out EXCEPT ![s] = Append(@, m)]
     /\ UNCHANGED lost
  \/ /\ Len(out[s]) >= OutSize
     /\ lost' = [lost EXCEPT ![s] = @ \cup {m.n}]
     /\ UNCHANGED out

MemoryOffer(p, s) ==
  /\ Offer(s, [n |-> p.n, channel |-> p.channel])
  /\ publishing' = (publishing \ {p}) \cup {[p EXCEPT !.left = @ \ {s}]}
  /\ UNCHANGED <<backend, table, wanted, link, closed, ctx, reader, got, sent,
                 overlap>>

MemoryPublished(p) ==
  /\ p.left = {}
  /\ publishing' = publishing \ {p}
  /\ UNCHANGED <<backend, table, wanted, link, outlet, sent, history>>

-----------------------------------------------------------------------------
(* The client library drops a message when its channel has been full for   *)
(* a minute.                                                               *)
Overflow(s) ==
  /\ Len(inbox[s]) > InSize
  /\ lost' = [lost EXCEPT ![s] = @ \cup {inbox[s][InSize + 1].n}]
  /\ inbox' = [inbox EXCEPT ![s] = SubSeq(@, 1, InSize) \o SubSeq(@, InSize + 2, Len(@))]
  /\ UNCHANGED <<backend, table, wanted, conn, fwd, hold, outlet, publishing,
                 sent, overlap>>

(* The subscriber reads its channel, ends its context (which the in-memory *)
(* store ignores), or goes away.                                           *)
Read(s) ==
  /\ reader[s] = "reading"
  /\ \/ /\ out[s] # <<>>
        /\ got' = [got EXCEPT ![s] = Append(@, Head(out[s]))]
        /\ out' = [out EXCEPT ![s] = Tail(@)]
        /\ UNCHANGED reader
     \/ /\ out[s] = <<>> /\ s \in closed
        /\ reader' = [reader EXCEPT ![s] = "over"]
        /\ UNCHANGED <<got, out>>
  /\ UNCHANGED <<backend, table, wanted, link, closed, ctx, publishing, sent, history>>

Cancel(s) ==
  /\ backend = "redis"
  /\ ctx[s] = "live" /\ wanted[s] # {}
  /\ ctx' = [ctx EXCEPT ![s] = "done"]
  /\ UNCHANGED <<backend, table, wanted, link, out, closed, reader, got,
                 publishing, sent, history>>

Leave(s) ==
  /\ reader[s] = "reading"
  /\ reader' = [reader EXCEPT ![s] = "left"]
  /\ UNCHANGED <<backend, table, wanted, link, out, closed, ctx, got, publishing,
                 sent, history>>

-----------------------------------------------------------------------------
Forward(s) == CtxDone(s) \/ Take(s) \/ SeeEnd(s) \/ Send(s)

Deliver(p) == (\E s \in p.left : MemoryOffer(p, s)) \/ MemoryPublished(p)

Next ==
  \/ \E s \in Subs : Subscribe(s) \/ MemorySubscribe(s)
  \/ \E cs \in SUBSET Channels : Unsubscribe(cs) \/ MemoryUnsubscribe(cs)
  \/ \E s \in Subs : Register(s) \/ SubscribeFails(s) \/ Forward(s) \/ Overflow(s)
  \/ \E s \in Subs : Read(s) \/ Cancel(s) \/ Leave(s)
  \/ \E c \in Channels : Publish(c) \/ MemoryPublish(c)
  \/ \E p \in publishing : Deliver(p)

Spec == Init /\ [][Next]_vars

(* A goroutine that can run runs, and a subscriber that has not left reads *)
(* its channel.  Nothing is asked of connections, contexts and publishers. *)
FairSpec ==
  /\ Spec
  /\ \A s \in Subs : WF_vars(Forward(s)) /\ WF_vars(Read(s))

-----------------------------------------------------------------------------
TypeOK ==
  /\ backend \in {"redis", "memory"}
  /\ table \in [Channels -> SUBSET Subs]
  /\ wanted \in [Subs -> SUBSET Channels]
  /\ conn \in [Subs -> {"none", "open", "closed"}]
  /\ inbox \in [Subs -> Seq(Messages)]
  /\ fwd \in [Subs -> {"none", "select", "sending", "ended"}]
  /\ hold \in [Subs -> Seq(Messages)]
  /\ out \in [Subs -> Seq(Messages)]
  /\ \A s \in Subs : Len(out[s]) <= OutSize
  /\ closed \subseteq Subs
  /\ ctx \in [Subs -> {"live", "done"}]
  /\ reader \in [Subs -> {"none", "reading", "over", "left"}]
  /\ got \in [Subs -> Seq(Messages)]
  /\ publishing \subseteq [n : Numbers, channel : Channels, left : SUBSET Subs]
  /\ sent \in 0 .. MaxMessages
  /\ overlap \in [Numbers -> SUBSET Numbers]
  /\ lost \in [Subs -> SUBSET Numbers]

(* Everything on its way to a subscriber, oldest first.                    *)
Stream(s) == got[s] \o out[s] \o hold[s] \o inbox[s]

\* Message m was published before k, or while k was being published.
MayPrecede(m, k) == m < k \/ (k # m /\ k \in overlap[m])

(* PRD.md:182 (PS-05): a subscriber is given messages of its channels      *)
(* only, none twice, and never one before another that had been published  *)
(* when it was; publishes that overlap may change places.                  *)
InOrderOnce ==
  \A s \in Subs :
    /\ \A i \in 1 .. Len(Stream(s)) : Stream(s)[i].channel \in wanted[s]
    /\ \A i, j \in 1 .. Len(Stream(s)) :
         i < j => MayPrecede(Stream(s)[i].n, Stream(s)[j].n)

(* Unsubscribe is final: a subscription that it has found in the table is  *)
(* given nothing more of the channel, whatever else is under way.          *)
Given(s, c) == {i \in 1 .. Len(Stream(s)) : Stream(s)[i].channel = c}

UnsubscribeHolds ==
  [][\A s \in Subs : \A c \in wanted[s] :
       reader[s] # "none" /\ s \notin table[c] =>
         Cardinality(Given(s, c)') <= Cardinality(Given(s, c))]_vars

(* What has been sent to a subscription reaches its subscriber, unless it  *)
(* leaves, or the message is dropped: by a full buffer, or with the        *)
(* connection that is closed.                                              *)
Delivered ==
  \A s \in Subs, k \in Numbers :
    reader[s] = "reading" /\ k \in Of(out[s] \o hold[s] \o inbox[s])
      ~> k \in Of(got[s]) \cup lost[s] \/ reader[s] = "left"

(* PRD.md:179 (PS-02): "Stream ends on unsubscribe or error": a subscriber *)
(* that goes on reading sees the end of its channel, once its context is   *)
(* over or its subscription closed.  (The in-memory store closes nothing.) *)
StreamEnds ==
  \A s \in Subs :
    backend = "redis" /\ reader[s] = "reading" /\ (ctx[s] = "done" \/ conn[s] = "closed")
      ~> reader[s] \in {"over", "left"}

-----------------------------------------------------------------------------
(* The inductive invariant.  What belongs to which back end, and what a    *)
(* subscription that is not in the table has come to.                      *)
LinkInv ==
  /\ \A s \in Subs :
       /\ wanted[s] \in {{}, Wish[s]}
       /\ Len(hold[s]) <= 1 /\ (fwd[s] # "sending" => hold[s] = <<>>)
       /\ backend = "memory" =>
            conn[s] = "none" /\ fwd[s] = "none" /\ inbox[s] = <<>>
       /\ backend = "redis" /\ reader[s] # "none" =>
            \A c \in wanted[s] : s \in table[c] \/ conn[s] = "closed"
  /\ \A c \in Channels : \A s \in table[c] : c \in wanted[s]

\* The in-memory Publish holds the lock: whom it has still to offer its message
\* is in the table.  Whatever is published later notes that it is under way.
PublishInv ==
  /\ backend = "redis" => publishing = {}
  /\ \A p \in publishing :
       /\ p.n <= sent /\ p.left \subseteq table[p.channel]
       /\ \A k \in Numbers : p.n < k /\ k <= sent => p.n \in overlap[k]
       /\ \A q \in publishing : p.n = q.n => p = q

\* Messages are numbered as they are published, and not given before.
NumberInv ==
  \A s \in Subs : \A i \in 1 .. Len(Stream(s)) :
    /\ Stream(s)[i].n <= sent
    /\ \A p \in publishing : s \in p.left => Stream(s)[i].n # p.n

IInv == TypeOK /\ LinkInv /\ PublishInv /\ NumberInv /\ InOrderOnce
=============================================================================
