-------------------------- MODULE StoreCallsProofs --------------------------
(* Proofs about StoreCalls, for any set of calls and number of retries. *)
EXTENDS StoreCalls, FiniteSetTheorems, TLAPS

(* A step is an invocation, a step of a call, or one of the server: what   *)
(* Next amounts to once the tables of the contracts are looked up.         *)
LEMMA NextCases ==
  ASSUME [Next]_vars
  PROVE  \/ \E c \in Calls, o \in OpNames \cap Timed(contract), k \in Commands, t \in TTLs :
              Invoke(c, o, k, t)
         \/ \E c \in Calls : Step(c)
         \/ \E m \in wire : Execute(m)
         \/ Expire
         \/ UNCHANGED vars
<1>0. DEFINE Invoked(c) ==
        \E o \in OpNames \cap Timed(contract), k \in Commands, t \in TTLs : Invoke(c, o, k, t)
<1>1. ASSUME NEW c \in Calls, InvokeKV(c) PROVE Invoked(c)
  BY <1>1 DEF InvokeKV, KV, Commands, OpNames, Timed, TimedKV
<1>2. ASSUME NEW c \in Calls,
             \/ InvokeRelational(c) \/ InvokeSortedSet(c)
             \/ InvokeBlob(c) \/ InvokePubSub(c)
      PROVE  Invoked(c)
  <2>1. "none" \in TTLs
    BY DEF TTLs
  <2>2. CASE InvokeRelational(c)
    BY <2>1, <2>2 DEF InvokeRelational, Relational, MemoryRelational, Commands, OpNames,
                      Timed, TimedRelational
  <2>3. CASE InvokeSortedSet(c)
    BY <2>1, <2>3 DEF InvokeSortedSet, SortedSet, Commands, OpNames, Timed, TimedSortedSet
  <2>4. CASE InvokeBlob(c)
    BY <2>1, <2>4 DEF InvokeBlob, Blob, MemoryBlob, Commands, OpNames, Timed, TimedBlob
  <2>5. CASE InvokePubSub(c)
    BY <2>1, <2>5 DEF InvokePubSub, PubSub, Commands, OpNames, Timed, TimedPubSub
  <2> QED BY <1>2, <2>2, <2>3, <2>4, <2>5
<1> QED BY <1>1, <1>2 DEF Next, Finished

(* What a command does is well typed. *)
LEMMA ReplyType ==
  ASSUME TypeOK, NEW m \in wire
  PROVE  After(m) \in Values /\ Reply(m) \in [tag : Tags, val : Values]
BY DEF TypeOK, Sendings, After, Reply, Writes, Erases, YesIf, Plain, Values, Tags,
       Success, Commands

(* Every step of StoreCalls preserves the types of its variables. *)
LEMMA TypePreserved == TypeOK /\ [Next]_vars => TypeOK'
<1> SUFFICES ASSUME TypeOK, [Next]_vars PROVE TypeOK'
  OBVIOUS
<1> USE RetriesAssumption
<1>0. \A t \in Tags : Plain(t) \in [tag : Tags, val : Values]
  BY DEF Plain, Values
<1>1. ASSUME NEW c \in Calls, NEW o \in OpNames, NEW k \in Commands, NEW t \in TTLs,
             Invoke(c, o, k, t)
      PROVE  TypeOK'
  BY <1>1 DEF TypeOK, Invoke, Goto, server, metrics, config, request, loop, Values
<1>2. ASSUME NEW c \in Calls, Step(c) PROVE TypeOK'
  <2>1. CASE Reject(c)
    BY <1>0, <2>1 DEF TypeOK, Reject, Returns, Nothing, server, metrics, config,
       request, loop, Tags
  <2>2. CASE Admit(c)
    BY <2>2 DEF TypeOK, Admit, Goto, server, metrics, config, request, loop
  <2>3. CASE Send(c)
    BY <1>0, <2>3 DEF TypeOK, Send, Command, Sendings, Goto, Nothing, server, metrics, config,
       request, loop, Tags
  <2>4. CASE AttemptOk(c)
    BY <2>4 DEF TypeOK, AttemptOk, Goto, Observe, server, config, request, loop
  <2>5. CASE AttemptErr(c)
    BY <2>5 DEF TypeOK, AttemptErr, Goto, Observe, server, config, request, loop
  <2>6. CASE AttemptDropped(c)
    BY <2>6 DEF TypeOK, AttemptDropped, Goto, server, metrics, config, request, loop
  <2>7. CASE Retry(c)
    BY <2>7 DEF TypeOK, Retry, Goto, server, metrics, config, request, loop
  <2>8. CASE Fail(c)
    BY <1>0, <2>8 DEF TypeOK, Fail, Returns, Nothing, server, metrics, config, request, loop, Tags
  <2>9. CASE Drop(c)
    BY <1>0, <2>9 DEF TypeOK, Drop, Returns, Nothing, server, metrics, config, request, loop, Tags
  <2>10. CASE Report(c)
    BY <1>0, <2>10 DEF TypeOK, Report, Returns, Nothing, server, metrics, config,
       request, loop, Tags
  <2>11. CASE Resend(c)
    BY <1>0, <2>11 DEF TypeOK, Resend, Command, Sendings, Nothing, server, metrics, config,
       request, Tags
  <2> QED BY <1>2, <2>1, <2>2, <2>3, <2>4, <2>5, <2>6, <2>7, <2>8, <2>9, <2>10, <2>11
          DEF Step
<1>3. ASSUME NEW m \in wire, Execute(m) PROVE TypeOK'
  <2>1. m.call \in Calls /\ AttemptOf(m) \in Attempts
    BY DEF TypeOK, Attempts, Sendings, AttemptOf
  <2>2. expiring' \in BOOLEAN
    BY <1>3, Zenon DEF TypeOK, Execute, ExpiringAfter
  <2>3. held' \in [Calls -> SUBSET Values]
    BY <1>3, ReplyType DEF TypeOK, Execute, Seeing
  <2>4. answer' \in [Calls -> [tag : Tags, val : Values]]
    BY <1>3, ReplyType DEF TypeOK, Execute
  <2> QED BY <1>3, <2>1, <2>2, <2>3, <2>4, ReplyType DEF TypeOK, Execute, metrics,
             config, request, loop
<1>4. CASE Expire
  BY <1>4 DEF TypeOK, Expire, Seeing, metrics, config, request, loop, Values
<1>5. CASE UNCHANGED vars
  BY <1>5 DEF TypeOK, vars
<1> QED BY <1>1, <1>2, <1>3, <1>4, <1>5, NextCases

(* A call has sent nothing before it was admitted, and nothing if it was   *)
(* rejected.                                                               *)
LEMMA SentPreserved == TypeOK /\ SentInv /\ OnceInv /\ [Next]_vars => SentInv'
<1> SUFFICES ASSUME TypeOK, SentInv, OnceInv, [Next]_vars PROVE SentInv'
  OBVIOUS
<1>1. ASSUME NEW c \in Calls, NEW o \in OpNames, NEW k \in Commands, NEW t \in TTLs,
             Invoke(c, o, k, t)
      PROVE  SentInv'
  BY <1>1 DEF TypeOK, SentInv, Quiet, Invoke, Goto, server, config, request
<1>2. ASSUME NEW c \in Calls, Step(c) PROVE SentInv'
  <2>1. CASE Reject(c)
    BY <2>1 DEF TypeOK, SentInv, Quiet, Reject, Returns, Plain, server, config, request
  <2>2. CASE Admit(c)
    BY <2>2 DEF TypeOK, SentInv, Quiet, Admit, Goto, server, config, request
  <2>3. CASE Send(c)
    BY <2>3 DEF TypeOK, SentInv, Quiet, Send, Command, Goto, server, config, request
  <2>4. CASE AttemptOk(c)
    BY <2>4 DEF TypeOK, SentInv, Quiet, AttemptOk, Goto, server, config, request
  <2>5. CASE AttemptErr(c)
    BY <2>5 DEF TypeOK, SentInv, Quiet, AttemptErr, Goto, server, config, request
  <2>6. CASE AttemptDropped(c)
    BY <2>6 DEF TypeOK, SentInv, Quiet, AttemptDropped, Goto, server, config, request
  <2>7. CASE Retry(c)
    BY <2>7 DEF TypeOK, SentInv, Quiet, Retry, Goto, server, config, request
  <2>8. CASE Fail(c)
    BY <2>8 DEF TypeOK, SentInv, Quiet, Fail, Returns, Plain, server, config, request
  <2>9. CASE Drop(c)
    BY <2>9 DEF TypeOK, SentInv, Quiet, Drop, Returns, Plain, server, config, request
  <2>10. CASE Report(c)
    <3>1. answer[c].tag \in Success
      BY <2>10 DEF OnceInv, Report
    <3>2. answer[c].tag \notin {"rejected", "pending"}
      BY <3>1 DEF Success
    <3>3. pc' = [pc EXCEPT ![c] = "done"] /\ result' = [result EXCEPT ![c] = answer[c]]
      BY <2>10 DEF Report, Returns
    <3>4. UNCHANGED <<executed, wire>>
      BY <2>10 DEF Report, server
    <3> QED BY <3>2, <3>3, <3>4 DEF TypeOK, SentInv, Quiet
  <2>11. CASE Resend(c)
    BY <2>11 DEF TypeOK, SentInv, Quiet, Resend, Command, server, config, request
  <2> QED BY <1>2, <2>1, <2>2, <2>3, <2>4, <2>5, <2>6, <2>7, <2>8, <2>9, <2>10, <2>11
          DEF Step
<1>3. ASSUME NEW m \in wire, Execute(m) PROVE SentInv'
  BY <1>3 DEF TypeOK, Sendings, SentInv, Quiet, Execute, AttemptOf
<1>4. CASE Expire
  BY <1>4 DEF SentInv, Quiet, Expire
<1>5. CASE UNCHANGED vars
  BY <1>5 DEF SentInv, Quiet, vars
<1> QED BY <1>1, <1>2, <1>3, <1>4, <1>5, NextCases

(* Only the call that made the item is answered that it did. *)
LEMMA CreatePreserved ==
  TypeOK /\ SentInv /\ CreateInv /\ ReadInv /\ [Next]_vars => CreateInv'
<1> SUFFICES ASSUME TypeOK, SentInv, CreateInv, ReadInv, [Next]_vars
             PROVE  CreateInv'
  OBVIOUS
<1>1. ASSUME NEW c \in Calls, NEW o \in OpNames, NEW k \in Commands, NEW t \in TTLs,
             Invoke(c, o, k, t)
      PROVE  CreateInv'
  BY <1>1 DEF TypeOK, SentInv, CreateInv, ReadInv, Invoke, Goto, server, config, request
<1>2. ASSUME NEW c \in Calls, Step(c) PROVE CreateInv'
  <2>1. ASSUME NEW r, Returns(c, r), UNCHANGED <<cmd, creators>>,
               r.tag = "yes" => answer[c].tag = "yes"
        PROVE  CreateInv'
    BY <2>1 DEF TypeOK, CreateInv, Returns, Nothing, Plain
  <2>2. CASE Send(c) \/ Resend(c)
    BY <2>2 DEF TypeOK, CreateInv, Send, Resend, Nothing, Plain, server, request
  <2>3. CASE Admit(c) \/ AttemptOk(c) \/ AttemptErr(c) \/ AttemptDropped(c) \/ Retry(c)
    BY <2>3 DEF CreateInv, Admit, AttemptOk, AttemptErr, AttemptDropped, Retry, server,
       request
  <2>4. CASE Report(c)
    BY <2>1, <2>4 DEF Report, server, request
  <2>5. CASE Reject(c) \/ Fail(c) \/ Drop(c)
    BY <2>1, <2>5 DEF Reject, Fail, Drop, Plain, server, request
  <2> QED BY <1>2, <2>2, <2>3, <2>4, <2>5 DEF Step
<1>3. ASSUME NEW m \in wire, Execute(m) PROVE CreateInv'
  <2>1. m.call \in Calls
    BY DEF TypeOK, Sendings
  <2>2. cmd[m.call] = "create" /\ Reply(m).tag = "yes" => Makes(m)
    BY DEF Reply, Refused, Makes, YesIf, Plain
  <2> QED BY <1>3, <2>1, <2>2 DEF TypeOK, CreateInv, Execute, request
<1>4. CASE Expire
  BY <1>4 DEF CreateInv, Expire, request
<1>5. CASE UNCHANGED vars
  BY <1>5 DEF CreateInv, vars
<1> QED BY <1>1, <1>2, <1>3, <1>4, <1>5, NextCases

(* What a read is answered has been in the item since the read began. *)
LEMMA ReadPreserved == TypeOK /\ SentInv /\ ReadInv /\ [Next]_vars => ReadInv'
<1> SUFFICES ASSUME TypeOK, SentInv, ReadInv, [Next]_vars PROVE ReadInv'
  OBVIOUS
<1>1. ASSUME NEW c \in Calls, NEW o \in OpNames, NEW k \in Commands, NEW t \in TTLs,
             Invoke(c, o, k, t)
      PROVE  ReadInv'
  BY <1>1 DEF TypeOK, SentInv, ReadInv, Reading, Invoke, Goto, server, config, request
<1>2. ASSUME NEW c \in Calls, Step(c) PROVE ReadInv'
  <2>1. ASSUME NEW r, Returns(c, r), UNCHANGED <<cmd, cell, held>>,
               r.tag = "value" => r = answer[c]
        PROVE  ReadInv'
    BY <2>1 DEF TypeOK, ReadInv, Reading, Returns, Nothing, Plain
  <2>2. CASE Send(c) \/ Resend(c)
    BY <2>2 DEF TypeOK, ReadInv, Reading, Send, Resend, Goto, Nothing, Plain, server, request
  <2>3. CASE Admit(c) \/ AttemptOk(c) \/ AttemptErr(c) \/ AttemptDropped(c) \/ Retry(c)
    BY <2>3 DEF TypeOK, ReadInv, Reading, Goto,
                Admit, AttemptOk, AttemptErr, AttemptDropped, Retry, server, request
  <2>4. CASE Report(c)
    BY <2>1, <2>4 DEF Report, server, request
  <2>5. CASE Reject(c) \/ Fail(c) \/ Drop(c)
    BY <2>1, <2>5 DEF Reject, Fail, Drop, Plain, server, request
  <2> QED BY <1>2, <2>2, <2>3, <2>4, <2>5 DEF Step
<1>3. ASSUME NEW m \in wire, Execute(m) PROVE ReadInv'
  <2>1. m.call \in Calls
    BY DEF TypeOK, Sendings
  <2>2. Reply(m).tag = "value" => cmd[m.call] = "read" /\ Reply(m).val = cell
    BY DEF Reply, YesIf, Plain
  <2>3. \A c \in Calls : held[c] \subseteq held'[c]
    BY <1>3 DEF TypeOK, Execute, Seeing
  <2>4. \A c \in Calls : Reading(c)' => cell' \in held'[c]
    BY <1>3 DEF TypeOK, Execute, Seeing, Reading, request
  <2>5. \A c \in Calls : answer'[c].tag = "value" => answer'[c].val \in held'[c]
    BY <1>3, <2>1, <2>2, <2>3 DEF TypeOK, ReadInv, Reading, Execute, Awaited, request
  <2>6. \A c \in Calls : pc'[c] = "unborn" => answer'[c].tag = "nothing"
    BY <1>3, <2>1 DEF TypeOK, ReadInv, Execute, Awaited
  <2> QED BY <1>3, <2>3, <2>4, <2>5, <2>6 DEF ReadInv, Execute
<1>4. CASE Expire
  BY <1>4 DEF TypeOK, ReadInv, Reading, Expire, Seeing, request
<1>5. CASE UNCHANGED vars
  BY <1>5 DEF ReadInv, Reading, vars
<1> QED BY <1>1, <1>2, <1>3, <1>4, <1>5, NextCases

(* A call that is answered was executed, and in memory once: an attempt    *)
(* that has executed its command is past its last await.                   *)
LEMMA OncePreserved ==
  TypeOK /\ SentInv /\ OnceInv /\ [Next]_vars => OnceInv'
<1> SUFFICES ASSUME TypeOK, SentInv, OnceInv, [Next]_vars PROVE OnceInv'
  OBVIOUS
<1>0. /\ \A m \in executed : m.call \in Calls /\ m = [call |-> m.call, n |-> m.n]
      /\ \A w \in wire :
           w.call \in Calls /\ w = [call |-> w.call, n |-> w.n, copy |-> w.copy]
  BY DEF TypeOK, Attempts, Sendings
<1>1. ASSUME NEW c \in Calls, NEW o \in OpNames, NEW k \in Commands, NEW t \in TTLs,
             Invoke(c, o, k, t)
      PROVE  OnceInv'
  BY <1>1 DEF TypeOK, SentInv, OnceInv, Quiet, Invoke, Goto, server, config, loop
<1>2. ASSUME NEW c \in Calls, Step(c) PROVE OnceInv'
  <2>1. ASSUME NEW r, Returns(c, r), UNCHANGED <<wire, executed, backend>>,
               r.tag \in Success => pc[c] = "report" /\ r = answer[c]
        PROVE  OnceInv'
    BY <1>0, <2>1 DEF TypeOK, OnceInv, Returns, Nothing, Plain, Success
  <2>2. CASE Send(c)
    BY <1>0, <2>2 DEF TypeOK, OnceInv, Send, Command, AttemptOf, Goto, Nothing, Plain, Success, server, config, loop
  <2>3. CASE Admit(c)
    BY <1>0, <2>3 DEF TypeOK, OnceInv, Admit, Goto, server, config, loop
  <2>4. CASE AttemptOk(c)
    BY <1>0, <2>4 DEF TypeOK, OnceInv, AttemptOk, Goto, server, config, loop
  <2>5. CASE AttemptErr(c)
    BY <1>0, <2>5 DEF TypeOK, OnceInv, AttemptErr, Goto, server, config, loop
  <2>6. CASE AttemptDropped(c)
    BY <1>0, <2>6 DEF TypeOK, OnceInv, AttemptDropped, Suspended, Goto, server, config, loop
  <2>7. CASE Retry(c)
    BY <1>0, <2>7 DEF TypeOK, OnceInv, Retry, Goto, server, config, loop
  <2>8. CASE Report(c)
    BY <2>1, <2>8 DEF Report, server, config, loop
  <2>9. CASE Reject(c) \/ Fail(c) \/ Drop(c)
    BY <2>1, <2>9 DEF Reject, Fail, Drop, Plain, Success, server, config, loop
  <2>10. CASE Resend(c)
    BY <1>0, <2>10 DEF TypeOK, OnceInv, Resend, Resends, Nothing, Plain, Success, server,
       config
  <2> QED BY <1>2, <2>2, <2>3, <2>4, <2>5, <2>6, <2>7, <2>8, <2>9, <2>10 DEF Step
<1>3. ASSUME NEW m \in wire, Execute(m) PROVE OnceInv'
  <2>1. Reply(m).tag \in Success => ~Refused(m)
    BY DEF Reply, Refused, YesIf, Plain, Success
  <2>2. Reply(m) # Nothing
    BY DEF Reply, Refused, Nothing, YesIf, Plain
  <2>3. executed \subseteq executed' /\ executed' \subseteq executed \cup {AttemptOf(m)}
    BY <1>3 DEF Execute
  <2>7. Reply(m).tag \in Success => \E e \in executed' : e.call = m.call
    <3>1. ~Refused(m) => AttemptOf(m) \in executed'
      BY <1>3 DEF Execute
    <3>2. AttemptOf(m).call = m.call
      BY DEF AttemptOf
    <3> QED BY <2>1, <3>1, <3>2
  <2>4. \A c \in Calls :
          /\ answer'[c].tag \in Success => \E e \in executed' : e.call = c
          /\ pc'[c] = "report" => answer'[c].tag \in Success
          /\ result'[c].tag \in Success => \E e \in executed' : e.call = c
    BY <1>0, <1>3, <2>3, <2>7 DEF TypeOK, OnceInv, Execute, Awaited
  <2>5. ASSUME backend = "memory", NEW e \in executed'
        PROVE  /\ \A w \in wire' : AttemptOf(w) # e
               /\ pc'[e.call] \in {"await", "report", "done"}
               /\ pc'[e.call] = "await" =>
                    e.n = attempt'[e.call] /\ answer'[e.call] # Nothing
               /\ \A e2 \in executed' : e2.call = e.call => e2 = e
    <3>1. Awaited(m)
      BY <1>3, <2>5 DEF Execute, Executable
    <3>2. \A x \in executed : x.call # m.call
      BY <1>0, <2>5, <3>1 DEF OnceInv, Awaited, AttemptOf
    <3>3. \A w \in wire' : AttemptOf(w) # AttemptOf(m)
      BY <1>0, <1>3, <2>5 DEF OnceInv, Execute, AttemptOf
    <3>4. AttemptOf(m).call = m.call /\ AttemptOf(m).n = m.n
      BY DEF AttemptOf
    <3> QED BY <1>0, <1>3, <2>2, <2>3, <2>5, <3>1, <3>2, <3>3, <3>4 DEF TypeOK, OnceInv,
               Execute, Awaited, loop
  <2>6. backend = "memory" =>
          (\A c \in Calls : copy'[c] = 0) /\ (\A w \in wire' : w.copy = 0)
    BY <1>3 DEF OnceInv, Execute, loop
  <2> QED BY <1>3, <2>4, <2>5, <2>6 DEF OnceInv, Execute, config
<1>4. CASE Expire
  BY <1>4 DEF OnceInv, Expire, config, loop
<1>5. CASE UNCHANGED vars
  BY <1>5 DEF OnceInv, vars
<1> QED BY <1>1, <1>2, <1>3, <1>4, <1>5, NextCases

(* A step that moves no call into or out of the sets that are counted.     *)
LEMMA CountsStay ==
  ASSUME TypeOK, Accounted, MeasuredInv, UNCHANGED <<lang, observed, errors>>,
         Good' = Good, Gone' = Gone, Waiting' = Waiting,
         Sent' \subseteq Sent,
         lang = "go" => \A c \in Waiting : Current(c)' \in Sent',
         \A c \in Calls : pc'[c] # "unborn" => op'[c] \in Timed(contract')
  PROVE  Accounted' /\ MeasuredInv'
<1>1. /\ IsFiniteSet(Sent')
      /\ Cardinality(Sent') <= Cardinality(Sent)
  BY FS_Subset DEF MeasuredInv
<1>2. /\ Cardinality(Sent') \in Nat
      /\ Cardinality(Sent) \in Nat /\ Cardinality(Waiting) \in Nat
  BY <1>1, FS_CardinalityType DEF MeasuredInv
<1>3. Accounted'
  BY DEF Accounted
<1>4. lang' = "go" => Cardinality(Sent') <= observed' + Cardinality(Waiting')
  BY <1>1, <1>2 DEF TypeOK, MeasuredInv
<1> QED BY <1>1, <1>3, <1>4 DEF MeasuredInv

(* A step that leaves the attempts and the wire alone keeps the commands   *)
(* of the attempts that are under way.                                     *)
LEMMA SentStays ==
  ASSUME MeasuredInv, UNCHANGED <<executed, wire>>, NEW D \in SUBSET Waiting,
         \A c \in D : attempt'[c] = attempt[c]
  PROVE  /\ Sent' = Sent
         /\ lang = "go" => \A c \in D : Current(c)' \in Sent'
<1>1. Sent' = Sent
  BY DEF Sent
<1>2. \A c \in D : Current(c)' = Current(c)
  BY DEF Current
<1> QED BY <1>1, <1>2 DEF MeasuredInv

(* Every sample is of an attempt that has come back, every attempt that    *)
(* came back is a sample in Go, and the samples without an error are those *)
(* of the calls that have a reply.                                         *)
LEMMA MeasuredPreserved ==
  TypeOK /\ SentInv /\ OnceInv /\ Accounted /\ MeasuredInv /\ [Next]_vars
    => Accounted' /\ MeasuredInv'
<1> SUFFICES ASSUME TypeOK, SentInv, OnceInv, Accounted, MeasuredInv, [Next]_vars
             PROVE  Accounted' /\ MeasuredInv'
  OBVIOUS
<1>0. /\ Cardinality(Good) \in Nat /\ Cardinality(Gone) \in Nat
      /\ Cardinality(Good \cup Gone) \in Nat /\ Cardinality(Waiting) \in Nat
      /\ Cardinality(Sent) \in Nat /\ IsFiniteSet(Good \cup Gone)
  BY FS_Union, FS_CardinalityType DEF MeasuredInv
<1>1. ASSUME NEW c \in Calls, NEW o \in OpNames \cap Timed(contract), NEW k \in Commands,
             NEW t \in TTLs, Invoke(c, o, k, t)
      PROVE  Accounted' /\ MeasuredInv'
  <2>1. Good' = Good /\ Gone' = Gone /\ Waiting' = Waiting
    BY <1>1 DEF TypeOK, Invoke, Goto, Good, Gone, Waiting
  <2>2. \A d \in Calls : pc'[d] # "unborn" => op'[d] \in Timed(contract')
    BY <1>1 DEF TypeOK, MeasuredInv, Invoke, Goto, config
  <2>3. UNCHANGED <<lang, observed, errors, executed, wire, attempt>>
    BY <1>1 DEF Invoke, config, server, metrics, loop
  <2>4. Sent' = Sent /\ (lang = "go" => \A d \in Waiting : Current(d)' \in Sent')
    BY <2>3, SentStays
  <2> QED BY <2>1, <2>2, <2>3, <2>4, CountsStay
<1>2. ASSUME NEW c \in Calls, Step(c) PROVE Accounted' /\ MeasuredInv'
  <2>0. /\ \A d \in Calls : pc'[d] # "unborn" => op'[d] \in Timed(contract')
        /\ UNCHANGED <<lang, executed>>
    BY <1>2 DEF TypeOK, MeasuredInv, Step, Reject, Admit, Send, Resend, AttemptOk, Report,
       AttemptErr, AttemptDropped, Retry, Fail, Drop, Returns, Goto, config, request, server
  <2>1. CASE Reject(c) \/ Fail(c)
    <3>1. /\ pc[c] \in {"ask", "failed"} /\ result[c].tag = "pending"
          /\ pc' = [pc EXCEPT ![c] = "done"]
          /\ result' \in {[result EXCEPT ![c] = Plain(t)] : t \in {"rejected", "failed"}}
      BY <2>1 DEF SentInv, Reject, Fail, Returns
    <3>2. PICK t \in {"rejected", "failed"} : result' = [result EXCEPT ![c] = Plain(t)]
      BY <3>1
    <3>3. /\ result'[c].tag \notin Success \cup {"dropped"}
          /\ \A d \in Calls \ {c} : pc'[d] = pc[d] /\ result'[d] = result[d]
          /\ pc'[c] = "done"
      BY <3>1, <3>2 DEF TypeOK, Plain, Success
    <3>4. Good' = Good /\ Gone' = Gone /\ Waiting' = Waiting
      BY <3>1, <3>3 DEF Success, Good, Gone, Waiting
    <3>5. UNCHANGED wire /\ \A d \in Waiting : attempt'[d] = attempt[d]
      BY <2>1, <3>1 DEF TypeOK, Reject, Fail, Returns, Waiting
    <3> QED BY <2>0, <2>1, <3>4, <3>5, SentStays, CountsStay DEF Reject, Fail, metrics
  <2>2. CASE Admit(c) \/ Retry(c)
    <3>1. Good' = Good /\ Gone' = Gone /\ Waiting' = Waiting
      BY <2>2 DEF TypeOK, SentInv, Admit, Retry, Goto, Good, Gone, Waiting
    <3>2. UNCHANGED wire /\ \A d \in Waiting : attempt'[d] = attempt[d]
      BY <2>2 DEF TypeOK, Admit, Retry, Goto, Waiting, loop
    <3> QED BY <2>0, <2>2, <3>1, <3>2, SentStays, CountsStay DEF Admit, Retry, metrics
  <2>3. CASE Report(c)
    <3>1. /\ pc[c] = "report" /\ result[c].tag = "pending" /\ answer[c].tag \in Success
          /\ pc' = [pc EXCEPT ![c] = "done"]
          /\ result' = [result EXCEPT ![c] = answer[c]]
      BY <2>3 DEF SentInv, OnceInv, Report, Returns
    <3>2. Good' = Good /\ Gone' = Gone /\ Waiting' = Waiting
      BY <3>1 DEF TypeOK, Success, Good, Gone, Waiting
    <3>3. UNCHANGED wire /\ \A d \in Waiting : attempt'[d] = attempt[d]
      BY <2>3 DEF TypeOK, Report, Returns, Waiting
    <3> QED BY <2>0, <2>3, <3>2, <3>3, SentStays, CountsStay DEF Report, metrics
  <2>4. CASE Send(c)
    <3> DEFINE m == Current(c)
    <3>1. Good' = Good /\ Gone' = Gone
      BY <2>4 DEF TypeOK, SentInv, Send, Goto, Good, Gone
    <3>2. Waiting' = Waiting \cup {c} /\ c \notin Waiting
      BY <2>4 DEF TypeOK, Send, Goto, Waiting
    <3>3. Sent' = Sent \cup {m}
      <4>1. wire' = wire \cup {Command(c, copy[c])} /\ executed' = executed
        BY <2>0, <2>4 DEF Send
      <4>2. AttemptOf(Command(c, copy[c])) = m
        BY DEF AttemptOf, Command, Current
      <4> QED BY <4>1, <4>2 DEF Sent
    <3>4. IsFiniteSet(Waiting') /\ Cardinality(Waiting') = Cardinality(Waiting) + 1
      BY <3>2, FS_AddElement DEF MeasuredInv
    <3>5. /\ IsFiniteSet(Sent')
          /\ Cardinality(Sent') <= Cardinality(Sent) + 1
      <4>1. Cardinality(Sent \cup {m}) \in
              {Cardinality(Sent), Cardinality(Sent) + 1}
        BY FS_AddElement DEF MeasuredInv
      <4>2. IsFiniteSet(Sent \cup {m})
        BY FS_AddElement DEF MeasuredInv
      <4>3. Cardinality(Sent) \in Nat
        BY FS_CardinalityType DEF MeasuredInv
      <4>4. Cardinality(Sent \cup {m}) <= Cardinality(Sent) + 1
        BY <4>1, <4>3
      <4> QED BY <3>3, <4>2, <4>4, Zenon
    <3>6. Cardinality(Sent') \in Nat
      BY <3>5, FS_CardinalityType
    <3>7. UNCHANGED <<observed, errors>>
      BY <2>4 DEF Send, metrics
    <3>8. Accounted'
      BY <3>1, <3>7 DEF Accounted
    <3>9. lang' = "go" =>
            Cardinality(Sent') <= observed' + Cardinality(Waiting')
      BY <1>0, <2>0, <3>4, <3>5, <3>6, <3>7 DEF TypeOK, MeasuredInv
    <3>10. lang = "go" => \A d \in Waiting' : Current(d)' \in Sent'
      <4>1. \A d \in Calls : Current(d)' = Current(d)
        BY <2>4 DEF Send, loop, Current
      <4> QED BY <3>2, <3>3, <4>1 DEF MeasuredInv, Waiting
    <3> QED BY <2>0, <3>1, <3>4, <3>5, <3>8, <3>9, <3>10 DEF MeasuredInv
  <2>5. CASE AttemptOk(c) \/ AttemptErr(c)
    <3>1. Waiting' = Waiting \ {c} /\ c \in Waiting /\ Gone' = Gone
      BY <2>5 DEF TypeOK, AttemptOk, AttemptErr, Goto, Waiting, Gone
    <3>2. c \notin Good \cup Gone
      BY <2>5 DEF SentInv, AttemptOk, AttemptErr, Goto, Success, Good, Gone
    <3>3. op[c] \in Timed(contract)
      BY <2>5 DEF MeasuredInv, AttemptOk, AttemptErr, Goto
    <3>4. observed' = observed + 1 /\ UNCHANGED <<wire, attempt>>
      BY <2>5, <3>3 DEF AttemptOk, AttemptErr, Observe, loop
    <3>9. Sent' = Sent /\ (lang = "go" => \A d \in Waiting' : Current(d)' \in Sent')
      BY <2>0, <3>1, <3>4, SentStays
    <3>5. IsFiniteSet(Waiting') /\ Cardinality(Waiting') = Cardinality(Waiting) - 1
      BY <3>1, FS_RemoveElement DEF MeasuredInv
    <3>6. lang' = "go" =>
            Cardinality(Sent') <= observed' + Cardinality(Waiting')
      BY <1>0, <2>0, <3>4, <3>5, <3>9 DEF TypeOK, MeasuredInv
    <3>7. CASE AttemptOk(c)
      <4>1. Good' = Good \cup {c} /\ (Good \cup Gone)' = (Good \cup Gone) \cup {c}
        BY <3>1, <3>7 DEF TypeOK, AttemptOk, Goto, Good
      <4>2. /\ IsFiniteSet(Good') /\ Cardinality(Good') = Cardinality(Good) + 1
            /\ Cardinality((Good \cup Gone)') = Cardinality(Good \cup Gone) + 1
        BY <1>0, <3>2, <4>1, FS_AddElement DEF MeasuredInv
      <4>3. errors' = errors
        BY <3>7 DEF AttemptOk, Observe
      <4>4. Accounted'
        BY <1>0, <3>4, <4>2, <4>3 DEF TypeOK, Accounted
      <4> QED BY <2>0, <3>1, <3>4, <3>5, <3>6, <3>9, <4>2, <4>4 DEF MeasuredInv
    <3>8. CASE AttemptErr(c)
      <4>1. Good' = Good
        BY <3>8 DEF TypeOK, AttemptErr, Goto, Good
      <4>2. errors' = errors + 1
        BY <3>3, <3>8 DEF AttemptErr, Observe
      <4>3. Accounted'
        BY <1>0, <3>1, <3>4, <4>1, <4>2 DEF TypeOK, Accounted
      <4> QED BY <2>0, <3>1, <3>4, <3>5, <3>6, <3>9, <4>1, <4>3 DEF MeasuredInv
    <3> QED BY <2>5, <3>7, <3>8
  <2>6. CASE AttemptDropped(c)
    <3>1. Good' = Good /\ Gone' = Gone /\ Waiting' = Waiting \ {c}
      BY <2>6 DEF TypeOK, AttemptDropped, Goto, Good, Gone, Waiting
    <3>2. IsFiniteSet(Waiting')
      BY <3>1, FS_RemoveElement DEF MeasuredInv
    <3>3. lang' = "rust" /\ UNCHANGED <<observed, errors, wire>>
      BY <2>0, <2>6 DEF AttemptDropped, metrics
    <3>4. Sent' = Sent
      BY <2>0, <3>3 DEF Sent
    <3> QED BY <2>0, <3>1, <3>2, <3>3, <3>4 DEF MeasuredInv, Accounted
  <2>7. CASE Drop(c)
    <3>1. Good' = Good \ {c} /\ Gone' = Gone \cup {c} /\ Waiting' = Waiting \ {c}
      BY <2>7 DEF TypeOK, SentInv, Drop, Returns, Plain, Success, Good, Gone, Waiting
    <3>2. (Good \cup Gone)' = (Good \cup Gone) \cup {c}
      BY <3>1
    <3>3. /\ IsFiniteSet(Good') /\ IsFiniteSet(Gone') /\ IsFiniteSet(Waiting')
          /\ Cardinality(Good') \in {Cardinality(Good), Cardinality(Good) - 1}
      BY <3>1, FS_RemoveElement, FS_AddElement DEF MeasuredInv
    <3>4. Cardinality((Good \cup Gone)') \in
            {Cardinality(Good \cup Gone), Cardinality(Good \cup Gone) + 1}
      BY <1>0, <3>2, FS_AddElement
    <3>5. lang' = "rust" /\ UNCHANGED <<observed, errors, wire>>
      BY <2>0, <2>7 DEF Drop, metrics
    <3>6. Accounted'
      BY <1>0, <3>3, <3>4, <3>5 DEF TypeOK, Accounted
    <3>7. Sent' = Sent
      BY <2>0, <3>5 DEF Sent
    <3> QED BY <2>0, <3>3, <3>5, <3>6, <3>7 DEF MeasuredInv
  <2>8. CASE Resend(c)
    <3>1. Good' = Good /\ Gone' = Gone /\ Waiting' = Waiting
      BY <2>8 DEF Resend, Good, Gone, Waiting
    <3>2. c \in Waiting /\ UNCHANGED <<attempt, observed, errors>>
      BY <2>8 DEF Resend, Waiting, metrics
    <3>3. Sent' = Sent \cup {Current(c)}
      <4>1. wire' = wire \cup {Command(c, copy[c] + 1)} /\ executed' = executed
        BY <2>0, <2>8 DEF Resend
      <4>2. AttemptOf(Command(c, copy[c] + 1)) = Current(c)
        BY DEF AttemptOf, Command, Current
      <4> QED BY <4>1, <4>2 DEF Sent
    <3>4. lang = "go" => Sent' = Sent
      BY <3>2, <3>3 DEF MeasuredInv
    <3>5. IsFiniteSet(Sent')
      BY <3>3, FS_AddElement DEF MeasuredInv
    <3>6. \A d \in Waiting : Current(d)' = Current(d)
      BY <3>2 DEF Current
    <3>7. Accounted'
      BY <3>1, <3>2 DEF Accounted
    <3> QED BY <2>0, <3>1, <3>2, <3>4, <3>5, <3>6, <3>7 DEF MeasuredInv
  <2> QED BY <1>2, <2>1, <2>2, <2>3, <2>4, <2>5, <2>6, <2>7, <2>8 DEF Step
<1>3. ASSUME NEW m \in wire, Execute(m) PROVE Accounted' /\ MeasuredInv'
  <2>1. Good' = Good /\ Gone' = Gone /\ Waiting' = Waiting
    BY <1>3 DEF Execute, Good, Gone, Waiting
  <2>2. Sent' \subseteq Sent
    BY <1>3 DEF Execute, Sent
  <2>3. UNCHANGED <<lang, contract, observed, errors, pc, op, attempt>>
    BY <1>3 DEF Execute, config, request, metrics, loop
  <2>4. lang = "go" => Sent \subseteq Sent'
    <3>1. lang = "go" => ~Refused(m)
      BY DEF TypeOK, TTLs, Sendings, Refused, Expiry
    <3> QED BY <1>3, <3>1 DEF Execute, Sent
  <2>5. lang = "go" => \A c \in Waiting : Current(c)' \in Sent'
    BY <2>3, <2>4 DEF MeasuredInv, Current
  <2> QED BY <2>1, <2>2, <2>3, <2>5, CountsStay DEF MeasuredInv
<1>4. CASE Expire \/ UNCHANGED vars
  <2>1. /\ UNCHANGED <<lang, contract, observed, errors, pc, op, result>>
        /\ UNCHANGED <<executed, wire, attempt>>
    BY <1>4 DEF Expire, vars, config, request, metrics, loop
  <2>2. Good' = Good /\ Gone' = Gone /\ Waiting' = Waiting
    BY <2>1 DEF Good, Gone, Waiting
  <2> QED BY <2>1, <2>2, SentStays, CountsStay DEF MeasuredInv
<1> QED BY <1>1, <1>2, <1>3, <1>4, NextCases

(* The inductive invariant holds initially. *)
LEMMA InitInv == Init => IInv
<1> SUFFICES ASSUME Init PROVE IInv
  OBVIOUS
<1> USE RetriesAssumption DEF Init, Nothing, Plain
<1>1. TypeOK
  <2>1. expiring \in BOOLEAN
    BY Zenon
  <2>2. /\ lang \in {"go", "rust"} /\ cell \in Values
        /\ contract \in Contracts /\ backend \in {"memory", "server"}
    BY DEF Values
  <2>3. /\ wire \subseteq Sendings
        /\ pc \in [Calls -> {"unborn", "ask", "send", "await", "report", "failed", "done"}]
        /\ op \in [Calls -> OpNames]
        /\ cmd \in [Calls -> Commands]
        /\ ttl \in [Calls -> TTLs]
        /\ attempt \in [Calls -> 1 .. MaxRetries + 1]
        /\ copy \in [Calls -> 0 .. MaxResends]
    BY DEF Commands, TTLs, OpNames
  <2>4. /\ answer \in [Calls -> [tag : Tags, val : Values]]
        /\ result \in [Calls -> [tag : Tags, val : Values]]
    BY DEF Values, Tags
  <2>5. /\ observed \in Nat /\ errors \in Nat
        /\ creators \subseteq Calls /\ executed \subseteq Attempts
        /\ held \in [Calls -> SUBSET Values]
    OBVIOUS
  <2> QED BY <2>1, <2>2, <2>3, <2>4, <2>5 DEF TypeOK
<1>2. SentInv
  BY DEF SentInv, Quiet
<1>3. CreateInv /\ ReadInv
  BY DEF CreateInv, ReadInv, Reading
<1>4. OnceInv
  BY DEF OnceInv, Success
<1>5. Good = {} /\ Gone = {} /\ Waiting = {} /\ Sent = {}
  BY DEF Good, Gone, Waiting, Success, Sent
<1>6. Accounted /\ MeasuredInv
  BY <1>5, FS_EmptySet DEF Accounted, MeasuredInv
<1> QED BY <1>1, <1>2, <1>3, <1>4, <1>6 DEF IInv

(* IInv is an invariant of the calls, whatever is lost, late or retried. *)
THEOREM Inductive == Spec => []IInv
<1>1. IInv /\ [Next]_vars => IInv'
  BY TypePreserved, SentPreserved, CreatePreserved, ReadPreserved, OncePreserved,
     MeasuredPreserved DEF IInv
<1> QED BY <1>1, InitInv, PTL DEF Spec

(* Type correctness. *)
THEOREM TypeCorrect == Spec => []TypeOK
<1>1. IInv => TypeOK
  BY DEF IInv
<1> QED BY <1>1, Inductive, PTL

(* A call that ExecuteWithResilience rejected has no effect, ever. *)
THEOREM RejectionIsSafe == Spec => []RejectedHasNoEffect
<1>1. IInv => RejectedHasNoEffect
  BY DEF IInv, SentInv, Quiet, RejectedHasNoEffect
<1> QED BY <1>1, Inductive, PTL

(* A SetIfNotExists that returns true has made the item itself. *)
THEOREM WinnerCreated == Spec => []TrueMeansCreated
<1>1. IInv => TrueMeansCreated
  BY DEF IInv, CreateInv, TrueMeansCreated
<1> QED BY <1>1, Inductive, PTL

(* A read returns what was stored at some moment of the call. *)
THEOREM ReadsAreCurrent == Spec => []ReadIsCurrent
<1>1. IInv => ReadIsCurrent
  BY DEF IInv, ReadInv, ReadIsCurrent
<1> QED BY <1>1, Inductive, PTL

(* A call that succeeds has been executed, and in memory exactly once. *)
THEOREM SucceedsOnce == Spec => []SuccessHappened
<1>1. IInv => SuccessHappened
  BY DEF IInv, OnceInv, SuccessHappened
<1> QED BY <1>1, Inductive, PTL

(* The samples without an error are the calls that succeeded, and at most  *)
(* those besides that were dropped with the reply in hand.                 *)
THEOREM MetricsAddUp == Spec => []Accounted
<1>1. IInv => Accounted
  BY DEF IInv
<1> QED BY <1>1, Inductive, PTL

(* In Go no attempt that took effect escapes the histogram, though its     *)
(* command may be executed after it was given up, and more than once: what *)
(* is on the wire is counted when its attempt comes back, not when it is   *)
(* executed, and what was resent belongs to the same attempt.              *)
THEOREM NothingUnmeasured == Spec => []EffectsAreMeasured
<1>1. IInv => EffectsAreMeasured
  <2> SUFFICES ASSUME IInv, lang = "go"
               PROVE  Cardinality(executed) <= observed + Cardinality(Waiting)
    BY DEF EffectsAreMeasured
  <2> USE DEF IInv, MeasuredInv
  <2>0. executed \subseteq Sent
    BY DEF Sent
  <2>1. IsFiniteSet(executed) /\ Cardinality(executed) <= Cardinality(Sent)
    BY <2>0, FS_Subset
  <2>2. /\ Cardinality(executed) \in Nat /\ Cardinality(Sent) \in Nat
        /\ Cardinality(Waiting) \in Nat
    BY <2>1, FS_CardinalityType
  <2> QED BY <2>1, <2>2 DEF TypeOK
<1> QED BY <1>1, Inductive, PTL
=============================================================================
