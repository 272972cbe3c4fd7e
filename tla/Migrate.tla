------------------------------- MODULE Migrate -------------------------------
(***************************************************************************)
(* RelationalStore.Migrate on PostgreSQL (go/postgres.go; migrate of       *)
(* rust/src/relational.rs takes the same steps), called through the retry  *)
(* loop of the resilience wrapper by several instances of a service at     *)
(* once.  Any call to the server may fail or time out, and the server may  *)
(* carry out a COMMIT whose caller has already given up.                   *)
(***************************************************************************)
EXTENDS Naturals, Sequences

CONSTANTS
  Migrators,    \* callers of Migrate
  Versions,     \* Migration.Version
  List,         \* the migrations each caller passes, in order
  MaxRetries,   \* retries of the resilience wrapper
  None

ASSUME ListAssumption == List \in [Migrators -> Seq(Versions)]
ASSUME RetriesAssumption == MaxRetries \in Nat
ASSUME NoneAssumption == None \notin Migrators

VARIABLES
  recorded,   \* versions in schema_migrations, committed
  effects,    \* how many committed transactions ran a version's UpSQL
  lock,       \* who has inserted a version's primary key, uncommitted
  mode,       \* what became of that transaction's client, see Modes
  pc,         \* where each caller is
  idx,        \* the loop over the migrations
  attempt     \* the retry loop of ExecuteWithResilience

db   == <<recorded, effects, lock, mode>>
vars == <<recorded, effects, lock, mode, pc, idx, attempt>>

\* "open": the client goes on; "sent": it has sent COMMIT and waits;
\* "orphan", "late": it gave up before, or after, it sent COMMIT.
Modes == {"none", "open", "sent", "orphan", "late"}

PC == {"create", "check", "up", "insert", "commit", "await", "acked",
       "failed", "ok", "err"}

Init ==
  /\ recorded = {}
  /\ effects = [v \in Versions |-> 0]
  /\ lock = [v \in Versions |-> None]
  /\ mode = [v \in Versions |-> "none"]
  /\ pc = [m \in Migrators |-> "create"]
  /\ idx = [m \in Migrators |-> 1]
  /\ attempt = [m \in Migrators |-> 1]

Goto(m, from, to) == pc[m] = from /\ pc' = [pc EXCEPT ![m] = to]

InList(m)  == idx[m] <= Len(List[m])
Current(m) == List[m][idx[m]]

\* The transaction that holds v's key ends.
Release(v) ==
  /\ lock' = [lock EXCEPT ![v] = None]
  /\ mode' = [mode EXCEPT ![v] = "none"]

-----------------------------------------------------------------------------
(* Slips that the properties below must catch; no specification uses them. *)

\* INSERT ... ON CONFLICT DO NOTHING
InsertIgnoresConflict(m) ==
  LET v == Current(m) IN
  /\ pc[m] = "insert"
  /\ lock[v] = None
  /\ lock' = [lock EXCEPT ![v] = m]
  /\ mode' = [mode EXCEPT ![v] = "open"]
  /\ pc' = [pc EXCEPT ![m] = "commit"]
  /\ UNCHANGED <<recorded, effects, idx, attempt>>

\* The loop goes on to the next migration when one fails.
ContinueOnConflict(m) ==
  LET v == Current(m) IN
  /\ pc[m] = "insert"
  /\ \/ /\ v \notin recorded
        /\ lock[v] = None
        /\ lock' = [lock EXCEPT ![v] = m]
        /\ mode' = [mode EXCEPT ![v] = "open"]
        /\ pc' = [pc EXCEPT ![m] = "commit"]
        /\ UNCHANGED idx
     \/ /\ pc' = [pc EXCEPT ![m] = "check"]
        /\ idx' = [idx EXCEPT ![m] = @ + 1]
        /\ UNCHANGED <<lock, mode>>
  /\ UNCHANGED <<recorded, effects, attempt>>

\* The error of a transaction is ignored, and the loop goes on.
FailIgnored(m) ==
  /\ pc[m] \in {"up", "insert", "commit", "await"}
  /\ pc' = [pc EXCEPT ![m] = "check"]
  /\ idx' = [idx EXCEPT ![m] = @ + 1]
  /\ mode' = [v \in Versions |->
                CASE lock[v] = m /\ mode[v] = "open" -> "orphan"
                  [] lock[v] = m /\ mode[v] = "sent" -> "late"
                  [] OTHER -> mode[v]]
  /\ UNCHANGED <<recorded, effects, lock, attempt>>

\* The loop steps back after a commit.
CommittedStepsBack(m) ==
  /\ Goto(m, "acked", "check")
  /\ idx' = [idx EXCEPT ![m] = @ - 1]
  /\ UNCHANGED <<db, attempt>>

\* A call that fails is retried without limit.
RetryForever(m) ==
  /\ Goto(m, "failed", "create")
  /\ idx' = [idx EXCEPT ![m] = 1]
  /\ UNCHANGED <<db, attempt>>

-----------------------------------------------------------------------------
CreateTable(m) ==
  /\ Goto(m, "create", "check")
  /\ UNCHANGED <<db, idx, attempt>>

(* The SELECT sees what is committed.                                      *)
CheckApplied(m) ==
  /\ InList(m)
  /\ Current(m) \in recorded
  /\ pc[m] = "check"
  /\ idx' = [idx EXCEPT ![m] = @ + 1]
  /\ UNCHANGED <<db, pc, attempt>>

CheckMissing(m) ==
  /\ InList(m)
  /\ Current(m) \notin recorded
  /\ Goto(m, "check", "up")
  /\ UNCHANGED <<db, idx, attempt>>

Succeed(m) ==
  /\ ~InList(m)
  /\ Goto(m, "check", "ok")
  /\ UNCHANGED <<db, idx, attempt>>

(* Begin and UpSQL: their effects stay inside the transaction.             *)
ExecuteUp(m) ==
  /\ Goto(m, "up", "insert")
  /\ UNCHANGED <<db, idx, attempt>>

(* The INSERT waits while another transaction holds the key, and then      *)
(* fails on the primary key if that one has committed; Rollback follows.   *)
Insert(m) ==
  LET v == Current(m) IN
  /\ pc[m] = "insert"
  /\ lock[v] = None
  /\ \/ /\ v \notin recorded
        /\ lock' = [lock EXCEPT ![v] = m]
        /\ mode' = [mode EXCEPT ![v] = "open"]
        /\ pc' = [pc EXCEPT ![m] = "commit"]
     \/ /\ v \in recorded
        /\ pc' = [pc EXCEPT ![m] = "failed"]
        /\ UNCHANGED <<lock, mode>>
  /\ UNCHANGED <<recorded, effects, idx, attempt>>

SendCommit(m) ==
  /\ Goto(m, "commit", "await")
  /\ mode' = [mode EXCEPT ![Current(m)] = "sent"]
  /\ UNCHANGED <<recorded, effects, lock, idx, attempt>>

Committed(m) ==
  /\ Goto(m, "acked", "check")
  /\ idx' = [idx EXCEPT ![m] = @ + 1]
  /\ UNCHANGED <<db, attempt>>

(* A call of Migrate's fails or runs out of the operation's timeout:       *)
(* Migrate returns the error, and a transaction it had open is left to the *)
(* server (the deferred Rollback needs the connection that is failing).    *)
Fail(m) ==
  /\ pc[m] \in {"create", "check", "up", "insert", "commit", "await", "acked"}
  /\ pc' = [pc EXCEPT ![m] = "failed"]
  /\ mode' = [v \in Versions |->
                CASE lock[v] = m /\ mode[v] = "open" -> "orphan"
                  [] lock[v] = m /\ mode[v] = "sent" -> "late"
                  [] OTHER -> mode[v]]
  /\ UNCHANGED <<recorded, effects, lock, idx, attempt>>

(* ExecuteWithResilience calls Migrate again, from its beginning.          *)
Retry(m) ==
  /\ attempt[m] <= MaxRetries
  /\ Goto(m, "failed", "create")
  /\ idx' = [idx EXCEPT ![m] = 1]
  /\ attempt' = [attempt EXCEPT ![m] = @ + 1]
  /\ UNCHANGED db

(* The retries are used up, or the caller's context ends in the backoff    *)
(* (or the caller's process, with its connections, has died).              *)
GiveUp(m) ==
  /\ Goto(m, "failed", "err")
  /\ UNCHANGED <<db, idx, attempt>>

-----------------------------------------------------------------------------
(* The server commits a transaction: UpSQL and the record become visible   *)
(* together.                                                               *)
ServerCommit(v) ==
  /\ mode[v] \in {"sent", "late"}
  /\ recorded' = recorded \cup {v}
  /\ effects' = [effects EXCEPT ![v] = @ + 1]
  /\ Release(v)
  /\ pc' = IF mode[v] = "sent" THEN [pc EXCEPT ![lock[v]] = "acked"] ELSE pc
  /\ UNCHANGED <<idx, attempt>>

(* The server aborts one: on request, or because the connection is lost.   *)
ServerAbort(v) ==
  /\ lock[v] # None
  /\ Release(v)
  /\ pc' = IF mode[v] \in {"open", "sent"}
             THEN [pc EXCEPT ![lock[v]] = "failed"] ELSE pc
  /\ UNCHANGED <<recorded, effects, idx, attempt>>

-----------------------------------------------------------------------------
Step(m) ==
  \/ CreateTable(m)
  \/ CheckApplied(m) \/ CheckMissing(m) \/ Succeed(m)
  \/ ExecuteUp(m) \/ Insert(m) \/ SendCommit(m) \/ Committed(m)
  \/ Retry(m) \/ GiveUp(m)

(* Every Migrate has returned and the server has no transaction left.      *)
Finished ==
  /\ \A m \in Migrators : pc[m] \in {"ok", "err"}
  /\ \A v \in Versions : lock[v] = None
  /\ UNCHANGED vars

Next ==
  \/ Finished
  \/ \E m \in Migrators : Step(m) \/ Fail(m)
  \/ \E v \in Versions : ServerCommit(v) \/ ServerAbort(v)

Spec == Init /\ [][Next]_vars

(* A caller that can go on does, the server ends a transaction it was      *)
(* asked to commit or whose client is gone, and a waiter for a key gets it *)
(* in turn (or its timeout, which only helps).  Failures are not promised. *)
Fairness ==
  /\ \A m \in Migrators : WF_vars(Step(m)) /\ SF_vars(Insert(m))
  /\ \A v \in Versions : WF_vars(ServerCommit(v) \/
                                 (mode[v] = "orphan" /\ ServerAbort(v)))

FairSpec == Spec /\ Fairness

-----------------------------------------------------------------------------
TypeOK ==
  /\ recorded \subseteq Versions
  /\ effects \in [Versions -> Nat]
  /\ lock \in [Versions -> Migrators \cup {None}]
  /\ mode \in [Versions -> Modes]
  /\ pc \in [Migrators -> PC]
  /\ idx \in [Migrators -> Nat \ {0}]
  /\ attempt \in [Migrators -> Nat]

(* The UpSQL of a version takes effect at most once, and exactly if the    *)
(* version is recorded, however Migrate is retried and raced: PRD.md:155   *)
(* (REL-04), "Migrations are idempotent".                                  *)
AppliedOnce ==
  \A v \in Versions : effects[v] = (IF v \in recorded THEN 1 ELSE 0)

(* Migrations take effect in order: a version is recorded only by a caller *)
(* whose list has every earlier version recorded, because the loop of      *)
(* Migrate stops at the first error.                                       *)
AppliedInOrder ==
  \A v \in recorded : \E m \in Migrators : \E i \in 1 .. Len(List[m]) :
    /\ List[m][i] = v
    /\ \A j \in 1 .. i - 1 : List[m][j] \in recorded

(* A Migrate that returns nil has all of its migrations recorded.          *)
SuccessMeansApplied ==
  \A m \in Migrators :
    pc[m] = "ok" => \A i \in 1 .. Len(List[m]) : List[m][i] \in recorded

(* The inductive invariant behind the theorems of MigrateProofs.           *)

\* A key that is held is not recorded yet.
KeyInv ==
  \A v \in Versions :
    /\ lock[v] = None <=> mode[v] = "none"
    /\ lock[v] # None => v \notin recorded

\* A caller between INSERT and the answer to COMMIT owns its key, and a key
\* whose client goes on has such a caller.
ClientInv ==
  /\ \A m \in Migrators :
       /\ pc[m] \in {"up", "insert", "commit", "await", "acked"} => InList(m)
       /\ pc[m] = "commit" => lock[Current(m)] = m /\ mode[Current(m)] = "open"
       /\ pc[m] = "await" => lock[Current(m)] = m /\ mode[Current(m)] = "sent"
  /\ \A v \in Versions :
       /\ mode[v] = "open" => pc[lock[v]] = "commit" /\ Current(lock[v]) = v
       /\ mode[v] = "sent" => pc[lock[v]] = "await" /\ Current(lock[v]) = v

\* What the loop of Migrate has passed is recorded.
PassedInv ==
  \A m \in Migrators :
    /\ \A i \in 1 .. Len(List[m]) : i < idx[m] => List[m][i] \in recorded
    /\ pc[m] = "acked" => Current(m) \in recorded
    /\ pc[m] = "ok" => ~InList(m)

\* v is in m's list behind versions that are all recorded.
Ready(m, v) ==
  \E i \in 1 .. Len(List[m]) :
    List[m][i] = v /\ \A j \in 1 .. i - 1 : List[m][j] \in recorded

OrderInv ==
  /\ \A v \in recorded : \E m \in Migrators : Ready(m, v)
  /\ \A v \in Versions : lock[v] # None => Ready(lock[v], v)

IInv == TypeOK /\ AppliedOnce /\ KeyInv /\ ClientInv /\ PassedInv /\ OrderInv

(* The callers are releases of one service: each has a beginning of the    *)
(* same list of distinct migrations.                                       *)
Releases(list) ==
  /\ list \in Seq(Versions)
  /\ \A i, j \in 1 .. Len(list) : list[i] = list[j] => i = j
  /\ \A m \in Migrators :
       /\ Len(List[m]) <= Len(list)
       /\ \A i \in 1 .. Len(List[m]) : List[m][i] = list[i]

\* What is recorded is a beginning of the list, without a gap.
NoGap(list) ==
  /\ \A v \in recorded : \E i \in 1 .. Len(list) : list[i] = v
  /\ \A i \in 1 .. Len(list) :
       list[i] \in recorded => \A j \in 1 .. i - 1 : list[j] \in recorded

(* Every Migrate returns: nobody waits forever for a key that a lost       *)
(* transaction holds, and the retries end.                                 *)
EveryMigrateReturns == \A m \in Migrators : <>(pc[m] \in {"ok", "err"})
=============================================================================
