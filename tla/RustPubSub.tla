----------------------------- MODULE RustPubSub -----------------------------
(***************************************************************************)
(* RedisPubSubStore and MemoryPubSubStore of rust/src/pubsub.rs.  The      *)
(* first subscriber of a channel creates a broadcast ring and enters its   *)
(* sender in the table `channels`; later subscribers join the ring they    *)
(* find there.  With Redis the first one also spawns a forwarder task that *)
(* listens on a connection of its own and sends what it hears into the     *)
(* ring; in memory publish sends into the ring itself.  Connections may    *)
(* fail or be lost, and streams are dropped, at any time.                  *)
(***************************************************************************)
EXTENDS Naturals, Sequences

CONSTANTS
  Channels,      \* channel names
  Streams,       \* subscribers; each holds at most one BroadcastStream
  Forwarders,    \* bound of the model: the tasks (and rings) ever created
  None,
  Capacity,      \* messages a ring retains (broadcast::channel(1000))
  MaxMessages    \* bound of the model: messages published

ASSUME NoneAssumption == None \notin Forwarders \cup Channels
ASSUME BoundAssumption == Capacity \in Nat \ {0} /\ MaxMessages \in Nat

VARIABLES
  backend,    \* the store: "redis" or "memory"
  table,      \* self.channels: the ring whose sender is entered for a channel
  task,       \* state of each forwarder task: it ends because its connection
              \* is "lost", or by itself ("ended") because nobody listens
  topic,      \* ch_str of the task: the channel it listens to
  sender,     \* tx_clone of the task: the ring it sends into
  feed,       \* messages the server has sent to the task and it has not read
  ring,       \* everything sent into a ring, oldest first
  rx,         \* the ring each stream receives from, None without a stream
  pos,        \* index of the next message the stream takes from its ring
  want,       \* the channel the stream was subscribed to
  got,        \* what the stream has yielded
  sent        \* the number of messages published so far

tasks   == <<task, topic, sender, feed>>
streams == <<rx, pos, want, got>>
vars    == <<backend, table, task, topic, sender, feed, ring, rx, pos, want, got,
             sent>>

Messages == [n : 1 .. MaxMessages, channel : Channels]

Init ==
  /\ backend \in {"redis", "memory"}
  /\ table = [c \in Channels |-> None]
  /\ task = [f \in Forwarders |-> "unborn"]
  /\ topic = [f \in Forwarders |-> None]
  /\ sender = [f \in Forwarders |-> None]
  /\ feed = [f \in Forwarders |-> <<>>]
  /\ ring = [f \in Forwarders |-> <<>>]
  /\ rx = [s \in Streams |-> None]
  /\ pos = [s \in Streams |-> 1]
  /\ want = [s \in Streams |-> None]
  /\ got = [s \in Streams |-> <<>>]
  /\ sent = 0

\* A slip for the properties to catch: a new receiver starts one too early.
AttachEarly(s, c, r) ==
  /\ rx' = [rx EXCEPT ![s] = r]
  /\ pos' = [pos EXCEPT ![s] = Len(ring[r])]
  /\ want' = [want EXCEPT ![s] = c]
  /\ got' = [got EXCEPT ![s] = <<>>]

\* tx.subscribe(): a receiver sees what is sent after it was created.
Attach(s, c, r) ==
  /\ rx' = [rx EXCEPT ![s] = r]
  /\ pos' = [pos EXCEPT ![s] = Len(ring[r]) + 1]
  /\ want' = [want EXCEPT ![s] = c]
  /\ got' = [got EXCEPT ![s] = <<>>]

\* broadcast::Sender::receiver_count() # 0
Heard(r) == \E s \in Streams : rx[s] = r

\* tokio::spawn of a task f that listens to c and sends into r.
Spawn(f, c, r) ==
  /\ task[f] = "unborn"
  /\ task' = [task EXCEPT ![f] = "connecting"]
  /\ topic' = [topic EXCEPT ![f] = c]
  /\ sender' = [sender EXCEPT ![f] = r]
  /\ UNCHANGED feed

-----------------------------------------------------------------------------
(* Slips that the properties below must catch; no specification uses them. *)

\* subscribe spawns a forwarder for the ring it finds in the table, too.
JoinSpawns(s, c) ==
  /\ rx[s] = None
  /\ table[c] # None
  /\ Attach(s, c, table[c])
  /\ \E f \in Forwarders : Spawn(f, c, table[c])
  /\ UNCHANGED <<backend, table, ring, sent>>

\* The forwarder stops when it has sent a message.
ForwardOnce(f) ==
  /\ task[f] = "listening"
  /\ feed[f] # <<>>
  /\ ring' = [ring EXCEPT ![sender[f]] = Append(@, Head(feed[f]))]
  /\ task' = [task EXCEPT ![f] = "ended"]
  /\ feed' = [feed EXCEPT ![f] = <<>>]
  /\ UNCHANGED <<backend, table, topic, sender, streams, sent>>

-----------------------------------------------------------------------------
(* subscribe, under the write lock of `channels`; only the first of the    *)
(* channels it is given is used.                                           *)
Join(s, c) ==
  /\ rx[s] = None
  /\ table[c] # None
  /\ Attach(s, c, table[c])
  /\ UNCHANGED <<backend, table, tasks, ring, sent>>

Create(s, c) ==
  /\ backend = "redis"
  /\ rx[s] = None
  /\ table[c] = None
  /\ \E f \in Forwarders :
       /\ Spawn(f, c, f)
       /\ table' = [table EXCEPT ![c] = f]
       /\ Attach(s, c, f)
  /\ UNCHANGED <<backend, ring, sent>>

(* or_insert_with(|| broadcast::channel(1000).0): nothing is spawned.      *)
MemoryCreate(s, c) ==
  /\ backend = "memory"
  /\ rx[s] = None
  /\ table[c] = None
  /\ \E r \in Forwarders :
       /\ \A d \in Channels : table[d] # r
       /\ table' = [table EXCEPT ![c] = r]
       /\ Attach(s, c, r)
  /\ UNCHANGED <<backend, tasks, ring, sent>>

(* unsubscribe removes table entries, and nothing else; in memory it does  *)
(* nothing at all.                                                         *)
Unsubscribe(cs) ==
  /\ backend = "redis"
  /\ table' = [c \in Channels |-> IF c \in cs THEN None ELSE table[c]]
  /\ UNCHANGED <<backend, tasks, ring, streams, sent>>

(* The subscriber drops its stream.                                        *)
DropStream(s) ==
  /\ rx[s] # None
  /\ rx' = [rx EXCEPT ![s] = None]
  /\ UNCHANGED <<backend, table, tasks, ring, pos, want, got, sent>>

-----------------------------------------------------------------------------
(* The forwarder: get_async_pubsub and SUBSCRIBE succeed, or the task ends. *)
Connect(f) ==
  /\ task[f] = "connecting"
  /\ task' = [task EXCEPT ![f] = "listening"]
  /\ UNCHANGED <<backend, table, topic, sender, feed, ring, streams, sent>>

(* The connection fails or is lost: on_message() ends, and so does the     *)
(* task, whose sender is dropped; its table entry stays.                   *)
Disconnect(f) ==
  /\ task[f] \in {"connecting", "listening"}
  /\ task' = [task EXCEPT ![f] = "lost"]
  /\ feed' = [feed EXCEPT ![f] = <<>>]
  /\ UNCHANGED <<backend, table, topic, sender, ring, streams, sent>>

(* A message is sent into the ring, or the task ends because nobody hears. *)
Forward(f) ==
  /\ task[f] = "listening"
  /\ feed[f] # <<>>
  /\ \/ /\ Heard(sender[f])
        /\ ring' = [ring EXCEPT ![sender[f]] = Append(@, Head(feed[f]))]
        /\ feed' = [feed EXCEPT ![f] = Tail(@)]
        /\ UNCHANGED task
     \/ /\ ~Heard(sender[f])
        /\ task' = [task EXCEPT ![f] = "ended"]
        /\ feed' = [feed EXCEPT ![f] = <<>>]
        /\ UNCHANGED ring
  /\ UNCHANGED <<backend, table, topic, sender, streams, sent>>

(* publish: the server passes the message to whoever listens.              *)
Publish(c) ==
  /\ backend = "redis"
  /\ sent < MaxMessages
  /\ sent' = sent + 1
  /\ feed' = [f \in Forwarders |->
                IF task[f] = "listening" /\ topic[f] = c
                  THEN Append(feed[f], [n |-> sent + 1, channel |-> c])
                  ELSE feed[f]]
  /\ UNCHANGED <<backend, table, task, topic, sender, ring, streams>>

(* In memory the message goes into the ring in the table; send fails, and  *)
(* the error is ignored, when nobody receives from it.                     *)
MemoryPublish(c) ==
  /\ backend = "memory"
  /\ sent < MaxMessages
  /\ sent' = sent + 1
  /\ ring' = IF table[c] # None /\ Heard(table[c])
               THEN [ring EXCEPT ![table[c]] =
                       Append(@, [n |-> sent + 1, channel |-> c])]
               ELSE ring
  /\ UNCHANGED <<backend, table, tasks, streams>>

-----------------------------------------------------------------------------
(* The stream yields the next message, or Lagged when the ring has already *)
(* overwritten it, and goes on with the oldest one that is left.           *)
Oldest(r) == IF Len(ring[r]) > Capacity THEN Len(ring[r]) - Capacity + 1 ELSE 1

Receive(s) ==
  /\ rx[s] # None
  /\ pos[s] <= Len(ring[rx[s]])
  /\ \/ /\ pos[s] >= Oldest(rx[s])
        /\ got' = [got EXCEPT ![s] = Append(@, ring[rx[s]][pos[s]])]
        /\ pos' = [pos EXCEPT ![s] = @ + 1]
     \/ /\ pos[s] < Oldest(rx[s])
        /\ pos' = [pos EXCEPT ![s] = Oldest(rx[s])]
        /\ UNCHANGED got
  /\ UNCHANGED <<backend, table, tasks, ring, rx, want, sent>>

\* The task is over, and the sender it held is dropped.
Over(f) == task[f] \in {"ended", "lost"}

\* No sender of the ring is left, so that its streams end: neither the table
\* nor a task that has not ended holds one.
Closed(r) ==
  /\ \A c \in Channels : table[c] # r
  /\ \A f \in Forwarders : sender[f] = r => Over(f)

\* The stream yields None.
StreamEnded(s) ==
  rx[s] # None /\ Closed(rx[s]) /\ pos[s] > Len(ring[rx[s]])

-----------------------------------------------------------------------------
Next ==
  \/ \E s \in Streams, c \in Channels :
       Join(s, c) \/ Create(s, c) \/ MemoryCreate(s, c)
  \/ \E s \in Streams : DropStream(s) \/ Receive(s)
  \/ \E cs \in SUBSET Channels : Unsubscribe(cs)
  \/ \E f \in Forwarders : Connect(f) \/ Disconnect(f) \/ Forward(f)
  \/ \E c \in Channels : Publish(c) \/ MemoryPublish(c)

Spec == Init /\ [][Next]_vars

(* The runtime runs a task that can go on, and a subscriber reads its      *)
(* stream.  Connections, publishers and (un)subscribers promise nothing.   *)
Fairness ==
  /\ \A f \in Forwarders : WF_vars(Forward(f))
  /\ \A s \in Streams : WF_vars(Receive(s))

FairSpec == Spec /\ Fairness

-----------------------------------------------------------------------------
TypeOK ==
  /\ backend \in {"redis", "memory"}
  /\ table \in [Channels -> Forwarders \cup {None}]
  /\ task \in [Forwarders ->
                 {"unborn", "connecting", "listening", "ended", "lost"}]
  /\ topic \in [Forwarders -> Channels \cup {None}]
  /\ sender \in [Forwarders -> Forwarders \cup {None}]
  /\ feed \in [Forwarders -> Seq(Messages)]
  /\ ring \in [Forwarders -> Seq(Messages)]
  /\ rx \in [Streams -> Forwarders \cup {None}]
  /\ pos \in [Streams -> Nat \ {0}]
  /\ want \in [Streams -> Channels \cup {None}]
  /\ got \in [Streams -> Seq(Messages)]
  /\ sent \in 0 .. MaxMessages

\* Message numbers increase along a sequence.
Increasing(q) == \A i, j \in 1 .. Len(q) : i < j => q[i].n < q[j].n

(* PRD.md:182 (PS-05): a stream yields the messages of its own channel, in *)
(* the order they were published and none of them twice, although a        *)
(* channel may have several forwarders after unsubscribe and subscribe.    *)
InOrderOnce ==
  \A s \in Streams :
    /\ Increasing(got[s])
    /\ \A i \in 1 .. Len(got[s]) : got[s][i].channel = want[s]

(* A message that has reached the forwarder of a stream, or its ring, is   *)
(* yielded by it, unless the stream is dropped or lags, or the connection  *)
(* is lost first.                                                          *)
Pending(s, k) ==
  \/ \E f \in Forwarders : \E i \in 1 .. Len(feed[f]) :
       sender[f] = rx[s] /\ feed[f][i].n = k
  \/ \E i \in pos[s] .. Len(ring[rx[s]]) : ring[rx[s]][i].n = k

Seen(s, k) == \E i \in 1 .. Len(got[s]) : got[s][i].n = k

Lost(s, k) ==
  \/ rx[s] = None
  \/ \E i \in 1 .. Oldest(rx[s]) - 1 : ring[rx[s]][i].n = k
  \/ \E f \in Forwarders : sender[f] = rx[s] /\ task[f] = "lost"

Delivered ==
  \A s \in Streams, k \in 1 .. MaxMessages :
    rx[s] # None /\ Pending(s, k) ~> Seen(s, k) \/ Lost(s, k)

(* PRD.md:179 (PS-02): "Stream ends on unsubscribe or error": when the     *)
(* forwarder has ended, the streams it fed end, if nobody drops them.      *)
StreamEnds ==
  \A s \in Streams, f \in Forwarders :
    rx[s] # None /\ sender[f] = rx[s] /\ Over(f)
      ~> StreamEnded(s) \/ rx[s] = None

-----------------------------------------------------------------------------
(* The inductive invariant.  Ring r carries the messages of channel c: the *)
(* one its task listens to or, in memory, the one it is entered for.       *)
Carries(r, c) == IF backend = "redis" THEN topic[r] = c ELSE table[c] = r

\* A task sends into the ring it was spawned with, what its channel is sent.
TaskInv ==
  \A f \in Forwarders :
    /\ task[f] = "unborn" => topic[f] = None /\ feed[f] = <<>>
    /\ task[f] # "unborn" => backend = "redis" /\ sender[f] = f
    /\ \A i \in 1 .. Len(feed[f]) : feed[f][i].channel = topic[f]

\* What is in the table, in a ring and in the hands of a stream is of one channel.
ChannelInv ==
  /\ \A c \in Channels : table[c] # None => Carries(table[c], c)
  /\ backend = "memory" =>
       \A c, d \in Channels : table[c] # None /\ table[c] = table[d] => c = d
  /\ \A r \in Forwarders : \A i \in 1 .. Len(ring[r]) : Carries(r, ring[r][i].channel)
  /\ \A s \in Streams : rx[s] # None => want[s] \in Channels /\ Carries(rx[s], want[s])

\* A ring and what its task has still to send into it, oldest first.
QueueInv ==
  \A f \in Forwarders :
    /\ Increasing(ring[f]) /\ Increasing(feed[f])
    /\ \A i \in 1 .. Len(ring[f]), j \in 1 .. Len(feed[f]) : ring[f][i].n < feed[f][j].n
    /\ \A i \in 1 .. Len(ring[f]) : ring[f][i].n <= sent
    /\ \A i \in 1 .. Len(feed[f]) : feed[f][i].n <= sent

\* What a stream has yielded is in its ring, behind it.
GotInv ==
  \A s \in Streams : rx[s] # None =>
    \A i \in 1 .. Len(got[s]) : \E j \in 1 .. Len(ring[rx[s]]) :
      j < pos[s] /\ ring[rx[s]][j] = got[s][i]

IInv == TypeOK /\ TaskInv /\ ChannelInv /\ QueueInv /\ GotInv /\ InOrderOnce
=============================================================================
