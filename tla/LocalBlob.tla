----------------------------- MODULE LocalBlob ------------------------------
(***************************************************************************)
(* LocalBlobStore of rust/src/blob.rs and go/blob_local.go, for one key:   *)
(* the object is a file, its metadata another file beside it, and nothing  *)
(* locks them.  A file is written by truncating it and then writing, so    *)
(* others see it empty in between.  Calls overlap, an I/O operation fails, *)
(* the process is killed, and in Rust a call is dropped (by the timeout of *)
(* the executor) while the file operation it waits for goes on without it. *)
(* Keys have files of their own and do not influence each other.           *)
(***************************************************************************)
EXTENDS FiniteSets

CONSTANTS
  Calls,              \* the calls ever made, by whatever processes
  Absent,             \* no such file; also: nothing, and Metadata::default()
  Empty,              \* a file that was truncated and not written yet
  Mixed               \* a file two writers have written over each other

ASSUME ContentAssumption ==
  /\ Absent \notin Calls /\ Empty \notin Calls /\ Mixed \notin Calls
  /\ Absent # Empty /\ Absent # Mixed /\ Empty # Mixed

VARIABLES
  lang,       \* "go" or "rust"
  file,       \* contents of the object, of its metadata, and of the probe
              \* of is_healthy: the call that wrote them, if one did
  pc, op,     \* of each call
  tagged,     \* the put has metadata
  alive,      \* someone waits for the call: it was not dropped
  fd,         \* the file the call writes is still the one its name leads to
  got, meta,  \* what a get has read
  todo, seen, \* names a list has yet to visit, and has found
  result,     \* how each call ended
  settled,    \* history: the put or delete that was the last to run, if it
              \* ran undisturbed and nothing has begun since
  spoilt,     \* history: puts and deletes that overlapped or met an error
  blind,      \* history: calls that took an error for the absence of a file
  fixed,      \* history: the call that was settled when a get or list began
  rivals,     \* history: puts and deletes begun since, while it is under way
  litter      \* history: a health check left without removing its probe

files   == <<file, fd>>
locals  == <<op, tagged, alive, got, meta, todo, seen>>
history == <<settled, spoilt, blind, fixed, rivals, litter>>
vars    == <<lang, file, pc, op, tagged, alive, fd, got, meta, todo, seen,
             result, settled, spoilt, blind, fixed, rivals, litter>>

Names    == {"object", "metadata", "probe"}
Contents == Calls \cup {Absent, Empty, Mixed}
Mutators == {"put", "delete"}
Readers  == {"get", "list"}
Ops      == Mutators \cup Readers \cup {"is_healthy", "presign_url"}

Active(c)   == pc[c] \notin {"unborn", "done"}
Mutating(c) == Active(c) /\ op[c] \in Mutators
Reading(c)  == Active(c) /\ op[c] \in Readers

(* Where each operation begins.  Only Rust's get and delete ask for        *)
(* existence first.                                                        *)
Start(o) ==
  CASE o = "put"         -> "mkdir"
    [] o = "get"         -> IF lang = "rust" THEN "exists" ELSE "read"
    [] o = "delete"      -> IF lang = "rust" THEN "exists" ELSE "remove"
    [] o = "list"        -> "walk"
    [] o = "is_healthy"  -> "mkdir"
    [] o = "presign_url" -> "presign"

Init ==
  /\ lang \in {"go", "rust"}
  /\ file = [n \in Names |-> Absent]
  /\ pc = [c \in Calls |-> "unborn"]
  /\ op = [c \in Calls |-> "presign_url"]
  /\ tagged = [c \in Calls |-> FALSE]
  /\ alive = [c \in Calls |-> TRUE]
  /\ fd = [c \in Calls |-> FALSE]
  /\ got = [c \in Calls |-> Absent]
  /\ meta = [c \in Calls |-> Absent]
  /\ todo = [c \in Calls |-> {}]
  /\ seen = [c \in Calls |-> {}]
  /\ result = [c \in Calls |-> "pending"]
  /\ settled = Absent
  /\ spoilt = {}
  /\ blind = {}
  /\ fixed = [c \in Calls |-> Absent]
  /\ rivals = [c \in Calls |-> {}]
  /\ litter = FALSE

-----------------------------------------------------------------------------
(* The file system. *)

\* The name of the file that a call is working on.
Target(c) ==
  CASE op[c] = "is_healthy"                                         -> "probe"
    [] pc[c] \in {"mopen", "mwrite", "mexists", "mread", "mremove"} -> "metadata"
    [] OTHER                                                        -> "object"

Present(c) == file[Target(c)] # Absent

\* The first half of a write: open with O_CREAT and O_TRUNC.
Truncate(c) ==
  /\ file' = [file EXCEPT ![Target(c)] = Empty]
  /\ fd' = [fd EXCEPT ![c] = TRUE]

\* The second half.  What another writer has written since is overwritten,
\* perhaps not to its end; a file that was removed since is written in vain.
Fill(c) ==
  /\ fd' = [fd EXCEPT ![c] = FALSE]
  /\ \/ /\ fd[c]
        /\ \E v \in {c, Mixed} :
             /\ v = Mixed => file[Target(c)] # Empty
             /\ file' = [file EXCEPT ![Target(c)] = v]
     \/ ~fd[c] /\ UNCHANGED file

\* unlink: whoever has the file open goes on writing to no name.
Unlink(c) ==
  /\ file' = [file EXCEPT ![Target(c)] = Absent]
  /\ fd' = [d \in Calls |-> fd[d] /\ Target(d) # Target(c)]

-----------------------------------------------------------------------------
(* Control. *)

\* A call that someone waits for goes on; of a dropped one only the file
\* operation under way is finished.
Goto(c, to) ==
  /\ pc' = [pc EXCEPT ![c] = IF alive[c] THEN to ELSE "done"]
  /\ litter' = (litter \/ (~alive[c] /\ op[c] = "is_healthy"))
  /\ UNCHANGED <<lang, locals, result, settled, spoilt, fixed, rivals>>

\* The call takes the file for absent.  Path::exists() is false on any error
\* of stat, and Go takes any error of the read of the metadata that way.
NoSuch(c) ==
  /\ \/ pc[c] \in {"exists", "mexists"}
     \/ lang = "go" /\ pc[c] = "mread"
     \/ lang = "go" /\ pc[c] = "read" /\ ~Present(c)
  /\ blind' = IF Present(c) THEN blind \cup {c} ELSE blind

Settles(c) == alive[c] /\ op[c] \in Mutators /\ c \notin spoilt \cup blind'

\* The call returns r.
Finish(c, r) ==
  /\ pc' = [pc EXCEPT ![c] = "done"]
  /\ result' = [result EXCEPT ![c] = IF alive[c] THEN r ELSE @]
  /\ UNCHANGED <<lang, op, tagged, alive, todo>>

Ok(c) ==
  /\ Finish(c, "ok")
  /\ settled' = IF Settles(c) THEN c ELSE settled
  /\ UNCHANGED <<got, meta, seen, spoilt, fixed, rivals>>

\* A get or list returns r, having read o and m, or found ns.
Answer(c, r, o, m, ns) ==
  /\ Finish(c, r)
  /\ got' = [got EXCEPT ![c] = o]
  /\ meta' = [meta EXCEPT ![c] = m]
  /\ seen' = [seen EXCEPT ![c] = ns]
  /\ UNCHANGED <<files, settled, spoilt, fixed, rivals, litter>>

-----------------------------------------------------------------------------
(* A call begins; a put or a delete disturbs whatever is under way.        *)
Invoke(c, o, t) ==
  LET others == {d \in Calls : Mutating(d)} IN
  /\ pc[c] = "unborn"
  /\ t => o = "put"
  /\ pc' = [pc EXCEPT ![c] = Start(o)]
  /\ op' = [op EXCEPT ![c] = o]
  /\ tagged' = [tagged EXCEPT ![c] = t]
  /\ todo' = [todo EXCEPT ![c] = IF o = "list" THEN {"object", "probe"} ELSE {}]
  /\ IF o \in Mutators
       THEN /\ settled' = Absent
            /\ spoilt' = IF others = {} THEN spoilt ELSE spoilt \cup others \cup {c}
            /\ rivals' = [g \in Calls |-> IF Reading(g) /\ fixed[g] # Absent
                                            THEN rivals[g] \cup {c} ELSE rivals[g]]
            /\ UNCHANGED fixed
       ELSE /\ fixed' = [fixed EXCEPT ![c] = settled]
            /\ UNCHANGED <<settled, spoilt, rivals>>
  /\ UNCHANGED <<lang, files, alive, got, meta, seen, result, blind, litter>>

(* put, and the probe of is_healthy: create_dir_all and write; then the    *)
(* metadata, if there are any, and the removal of the probe.               *)
MkDir(c) ==
  /\ pc[c] = "mkdir"
  /\ Goto(c, "open")
  /\ UNCHANGED <<files, blind>>

OpenFile(c) ==
  /\ pc[c] = "open"
  /\ Truncate(c)
  /\ pc' = [pc EXCEPT ![c] = "write"]
  /\ UNCHANGED <<lang, locals, result, history>>

WriteObject(c) ==
  /\ pc[c] = "write" /\ op[c] = "put"
  /\ Fill(c)
  /\ UNCHANGED blind
  /\ \/ tagged[c] /\ Goto(c, "mopen")
     \/ ~tagged[c] /\ Ok(c) /\ UNCHANGED litter

OpenMeta(c) ==
  /\ pc[c] = "mopen"
  /\ Truncate(c)
  /\ pc' = [pc EXCEPT ![c] = "mwrite"]
  /\ UNCHANGED <<lang, locals, result, history>>

WriteMeta(c) ==
  /\ pc[c] = "mwrite"
  /\ Fill(c)
  /\ UNCHANGED <<blind, litter>>
  /\ Ok(c)

\* A slip for the properties to catch: is_healthy leaves its probe.
LeaveProbe(c) ==
  /\ pc[c] = "write" /\ op[c] = "is_healthy"
  /\ Fill(c)
  /\ UNCHANGED <<blind, litter>>
  /\ Ok(c)

WriteProbe(c) ==
  /\ pc[c] = "write" /\ op[c] = "is_healthy"
  /\ Fill(c)
  /\ Goto(c, "remove")
  /\ UNCHANGED blind

RemoveProbe(c) ==
  /\ pc[c] = "remove" /\ op[c] = "is_healthy"
  /\ Unlink(c)
  /\ UNCHANGED blind
  /\ Ok(c)
  /\ litter' = FALSE

(* get.  Rust asks whether a file exists and then reads it: if it is gone  *)
(* by then, the call fails.  Metadata that do not parse are the default.   *)
GetMissing(c) ==
  /\ op[c] = "get" /\ pc[c] \in {"exists", "read"}
  /\ NoSuch(c)
  /\ Answer(c, "none", Absent, Absent, {})

GetExists(c) ==
  /\ pc[c] = "exists" /\ op[c] = "get" /\ Present(c)
  /\ Goto(c, "read")
  /\ UNCHANGED <<files, blind>>

ReadObject(c) ==
  /\ pc[c] = "read" /\ Present(c)
  /\ pc' = [pc EXCEPT ![c] = IF lang = "rust" THEN "mexists" ELSE "mread"]
  /\ got' = [got EXCEPT ![c] = file["object"]]
  /\ UNCHANGED <<lang, files, op, tagged, alive, meta, todo, seen, result, history>>

MetaMissing(c) ==
  /\ op[c] = "get" /\ pc[c] \in {"mexists", "mread"}
  /\ NoSuch(c)
  /\ Answer(c, "value", got[c], Absent, {})

MetaExists(c) ==
  /\ pc[c] = "mexists" /\ op[c] = "get" /\ Present(c)
  /\ Goto(c, "mread")
  /\ UNCHANGED <<files, blind>>

\* Slips: metadata are returned as they are in the file, and the metadata that
\* were read are lost.
Unparsed(v) == v

ForgetMeta(c) ==
  /\ pc[c] = "mread" /\ Present(c)
  /\ Answer(c, "value", got[c], Absent, {})
  /\ UNCHANGED blind

Parse(v) == IF v \in Calls THEN v ELSE Absent

ReadMeta(c) ==
  /\ pc[c] = "mread" /\ Present(c)
  /\ Answer(c, "value", got[c], Parse(file["metadata"]), {})
  /\ UNCHANGED blind

\* A slip: a delete that finds no object returns at once.
DeleteOnlyIfThere(c) ==
  /\ pc[c] = "exists" /\ op[c] = "delete"
  /\ \/ Present(c) /\ Goto(c, "remove") /\ UNCHANGED blind
     \/ NoSuch(c) /\ Ok(c) /\ UNCHANGED litter
  /\ UNCHANGED files

(* delete.  A file that is gone already, or that Rust cannot look at, is   *)
(* no error; in Rust no removal that fails is one, in Go only that of the  *)
(* metadata is not.                                                        *)
DeleteExists(c) ==
  /\ pc[c] = "exists" /\ op[c] = "delete"
  /\ \/ Present(c) /\ Goto(c, "remove") /\ UNCHANGED blind
     \/ NoSuch(c) /\ Goto(c, "mexists")
  /\ UNCHANGED files

RemoveObject(c) ==
  /\ pc[c] = "remove" /\ op[c] = "delete"
  /\ Unlink(c)
  /\ Goto(c, IF lang = "rust" THEN "mexists" ELSE "mremove")
  /\ UNCHANGED blind

DeleteMetaExists(c) ==
  /\ pc[c] = "mexists" /\ op[c] = "delete"
  /\ \/ Present(c) /\ Goto(c, "mremove") /\ UNCHANGED blind
     \/ NoSuch(c) /\ Ok(c) /\ UNCHANGED litter
  /\ UNCHANGED files

RemoveMeta(c) ==
  /\ pc[c] = "mremove"
  /\ Unlink(c)
  /\ UNCHANGED <<blind, litter>>
  /\ Ok(c)

\* A removal that fails and is not reported.
RemoveFails(c) ==
  /\ \/ pc[c] = "mremove"
     \/ pc[c] = "remove" /\ (op[c] = "is_healthy" \/ lang = "rust")
  /\ IF pc[c] = "remove" /\ op[c] = "delete"
       THEN /\ pc' = [pc EXCEPT ![c] = IF alive[c] THEN "mexists" ELSE "done"]
            /\ UNCHANGED <<locals, lang, result>>
       ELSE Finish(c, "ok") /\ UNCHANGED <<got, meta, seen>>
  /\ spoilt' = IF op[c] = "delete" THEN spoilt \cup {c} ELSE spoilt
  /\ litter' = (litter \/ op[c] = "is_healthy")
  /\ UNCHANGED <<files, settled, blind, fixed, rivals>>

(* list walks the directories and skips metadata.                          *)
Visit(c, n) ==
  /\ pc[c] = "walk"
  /\ n \in todo[c]
  /\ todo' = [todo EXCEPT ![c] = @ \ {n}]
  /\ seen' = [seen EXCEPT ![c] = IF file[n] = Absent THEN @ ELSE @ \cup {n}]
  /\ UNCHANGED <<lang, files, pc, op, tagged, alive, got, meta, result, history>>

\* Rust finds nothing in a base directory that it cannot look at, and takes a
\* subdirectory that it cannot look at for a file, with the object in it.
Overlook(c) ==
  /\ pc[c] = "walk" /\ lang = "rust"
  /\ \E ns \in {{"object", "probe"}, {"object"}} :
       /\ ns \subseteq todo[c]
       /\ todo' = [todo EXCEPT ![c] = @ \ ns]
  /\ blind' = IF file["object"] = Absent THEN blind ELSE blind \cup {c}
  /\ UNCHANGED <<lang, files, pc, op, tagged, alive, got, meta, seen, result,
                 settled, spoilt, fixed, rivals, litter>>

Listed(c) ==
  /\ pc[c] = "walk" /\ todo[c] = {}
  /\ Answer(c, "value", Absent, Absent, seen[c])
  /\ UNCHANGED blind

PresignUrl(c) ==
  /\ pc[c] = "presign"
  /\ UNCHANGED <<files, blind, litter>>
  /\ Ok(c)

-----------------------------------------------------------------------------
(* Faults. *)

\* An I/O error that the call returns (is_healthy: as "unhealthy").
Fail(c) ==
  /\ \/ pc[c] \in {"mkdir", "open", "write", "mopen", "mwrite", "read", "walk"}
     \/ pc[c] = "mread" /\ lang = "rust"
     \/ pc[c] = "remove" /\ op[c] = "delete" /\ lang = "go"
  /\ Finish(c, IF op[c] = "is_healthy" THEN "unhealthy" ELSE "error")
  /\ fd' = [fd EXCEPT ![c] = FALSE]
  /\ litter' = (litter \/ op[c] = "is_healthy")
  /\ UNCHANGED <<file, got, meta, seen, settled, spoilt, blind, fixed, rivals>>

\* The future of a Rust call is dropped while it awaits a file operation:
\* that operation runs on another thread and is not cancelled.
Drop(c) ==
  /\ lang = "rust" /\ alive[c]
  /\ pc[c] \in {"mkdir", "open", "write", "mopen", "mwrite", "read", "mread",
                "remove", "mremove", "walk"}
  /\ alive' = [alive EXCEPT ![c] = FALSE]
  /\ result' = [result EXCEPT ![c] = "dropped"]
  /\ pc' = [pc EXCEPT ![c] = IF op[c] \in Readers THEN "done" ELSE @]
  /\ UNCHANGED <<lang, files, op, tagged, got, meta, todo, seen, history>>

\* The process is killed, with every call in it.
Crash ==
  /\ \E c \in Calls : Active(c)
  /\ pc' = [c \in Calls |-> IF Active(c) THEN "done" ELSE pc[c]]
  /\ result' = [c \in Calls |-> IF Active(c) /\ alive[c] THEN "crashed" ELSE result[c]]
  /\ fd' = [c \in Calls |-> FALSE]
  /\ litter' = (litter \/ \E c \in Calls : Active(c) /\ op[c] = "is_healthy")
  /\ UNCHANGED <<lang, file, locals, settled, spoilt, blind, fixed, rivals>>

-----------------------------------------------------------------------------
Step(c) ==
  \/ MkDir(c) \/ OpenFile(c) \/ WriteObject(c) \/ OpenMeta(c) \/ WriteMeta(c)
  \/ WriteProbe(c) \/ RemoveProbe(c)
  \/ GetMissing(c) \/ GetExists(c) \/ ReadObject(c)
  \/ MetaMissing(c) \/ MetaExists(c) \/ ReadMeta(c)
  \/ DeleteExists(c) \/ RemoveObject(c) \/ DeleteMetaExists(c) \/ RemoveMeta(c)
  \/ RemoveFails(c)
  \/ (\E n \in Names : Visit(c, n)) \/ Overlook(c) \/ Listed(c) \/ PresignUrl(c)
  \/ Fail(c) \/ Drop(c)

\* Every call has ended.
Finished == (\A c \in Calls : pc[c] = "done") /\ UNCHANGED vars

Next ==
  \/ \E c \in Calls : \/ \E o \in Ops, t \in BOOLEAN : Invoke(c, o, t)
                       \/ Step(c)
  \/ Crash
  \/ Finished

Spec == Init /\ [][Next]_vars

-----------------------------------------------------------------------------
TypeOK ==
  /\ lang \in {"go", "rust"}
  /\ file \in [Names -> Contents]
  /\ pc \in [Calls -> {"unborn", "mkdir", "open", "write", "mopen", "mwrite",
                      "exists", "read", "mexists", "mread", "remove", "mremove",
                      "walk", "presign", "done"}]
  /\ op \in [Calls -> Ops]
  /\ tagged \in [Calls -> BOOLEAN]
  /\ alive \in [Calls -> BOOLEAN]
  /\ fd \in [Calls -> BOOLEAN]
  /\ got \in [Calls -> Contents]
  /\ meta \in [Calls -> Calls \cup {Absent}]
  /\ todo \in [Calls -> SUBSET Names]
  /\ seen \in [Calls -> SUBSET Names]
  /\ result \in [Calls -> {"pending", "ok", "none", "value", "unhealthy",
                          "error", "dropped", "crashed"}]
  /\ settled \in Calls \cup {Absent}
  /\ spoilt \subseteq Calls
  /\ blind \subseteq Calls
  /\ rivals \in [Calls -> SUBSET Calls]
  /\ fixed \in [Calls -> Calls \cup {Absent}]
  /\ litter \in BOOLEAN

(* A put or delete that ran undisturbed repairs whatever crashes, drops,   *)
(* errors and races have left in the two files: after the put the object   *)
(* is its own and so are the metadata it was given, after the delete there *)
(* is neither, until the next put or delete begins.                        *)
SettledIsStored ==
  settled # Absent =>
    IF op[settled] = "put"
      THEN /\ file["object"] = settled
           /\ tagged[settled] => file["metadata"] = settled
      ELSE file["object"] = Absent /\ file["metadata"] = Absent

\* Of the puts and deletes that a reader overlapped.
Puts(g)    == {r \in rivals[g] : op[r] = "put"}
Deletes(g) == {r \in rivals[g] : op[r] = "delete"}

\* What reader g, at whose start p was settled, may find of the object: that it
\* is there, that it is not, and that it is v.
MayBeThere(g, p) == op[p] = "put" \/ Puts(g) # {}
MayBeGone(g, p)  == op[p] = "delete" \/ Deletes(g) # {}
MayHold(g, p, v) ==
  \/ v = p /\ op[p] = "put"
  \/ v \in Puts(g)
  \/ v \in {Empty, Mixed} /\ Puts(g) # {}

\* That its metadata are v, if p has written or removed them.
MayDescribe(g, p, v) ==
  op[p] = "delete" \/ tagged[p] =>
    IF v \in Calls THEN v = p \/ v \in Puts(g) ELSE op[p] = "delete" \/ rivals[g] # {}

(* A get or list never answers with anything older than the last put or    *)
(* delete that was over when it began: what it finds is of that call, or   *)
(* of one that it overlaps (then also truncated or half written).  What is *)
(* stored is reported as absent only next to a delete, or if the reader    *)
(* took an error for absence.                                              *)
ReadersSeeSettled ==
  \A g \in Calls : fixed[g] # Absent =>
    LET p == fixed[g] IN
    /\ op[g] = "get" /\ result[g] = "none"  => MayBeGone(g, p) \/ g \in blind
    /\ op[g] = "get" /\ result[g] = "value" =>
         MayHold(g, p, got[g]) /\ (MayDescribe(g, p, meta[g]) \/ g \in blind)
    /\ op[g] = "list" /\ result[g] = "value" =>
         IF "object" \in seen[g] THEN MayBeThere(g, p) ELSE MayBeGone(g, p) \/ g \in blind

(* Overlapping health checks share one probe file; when the last of them   *)
(* is over it is gone, unless one was cut short, so that list does not     *)
(* show it as an object.                                                   *)
ProbeCleared ==
  file["probe"] = Absent \/ litter
    \/ \E c \in Calls : Active(c) /\ op[c] = "is_healthy"

(* PRD.md:189 (BLB-01): "Stores object with metadata. Overwrites if key    *)
(* exists.": the metadata that a get returns are of the put whose object   *)
(* it returns, or the default ones.                                        *)
MetadataIsOwn ==
  \A g \in Calls :
    fixed[g] # Absent /\ rivals[g] = {} /\ op[g] = "get" /\ result[g] = "value" =>
      meta[g] \in {Absent, got[g]}

(* PRD.md:190 (BLB-02): "Returns object bytes and metadata. Error if key   *)
(* doesn't exist.": a get that answers that there is no such object, or no *)
(* metadata, while nothing is written has not overlooked them.             *)
NoneMeansDeleted ==
  \A g \in Calls :
    fixed[g] # Absent /\ rivals[g] = {} /\ op[g] = "get" =>
      /\ result[g] = "none" => op[fixed[g]] = "delete"
      /\ result[g] = "value" /\ tagged[fixed[g]] => meta[g] # Absent

-----------------------------------------------------------------------------
(* The inductive invariant.  Which steps belong to which operation: *)
PcInv ==
  \A c \in Calls :
    /\ pc[c] = "unborn" => result[c] = "pending" /\ seen[c] = {}
    /\ Active(c) => result[c] \in {"pending", "dropped"}
    /\ pc[c] \in {"mkdir", "open", "write"} => op[c] \in {"put", "is_healthy"}
    /\ pc[c] \in {"mopen", "mwrite"}        => op[c] = "put"
    /\ pc[c] \in {"exists", "mexists"}      => op[c] \in {"get", "delete"}
    /\ pc[c] \in {"read", "mread"}          => op[c] = "get"
    /\ pc[c] = "remove"                     => op[c] \in {"delete", "is_healthy"}
    /\ pc[c] = "mremove"                    => op[c] = "delete"
    /\ pc[c] = "walk"                       => op[c] = "list"
    /\ pc[c] = "presign"                    => op[c] = "presign_url"

\* Puts and deletes that overlap are all spoilt, and settled is the last one.
OverlapInv ==
  /\ \A c, d \in Calls : Mutating(c) /\ Mutating(d) /\ c # d => c \in spoilt
  /\ settled # Absent =>
       /\ pc[settled] = "done" /\ op[settled] \in Mutators
       /\ \A c \in Calls : ~Mutating(c)

\* What a put or delete that runs alone has achieved so far.
StageInv ==
  \A c \in Calls \ (spoilt \cup blind) :
    /\ op[c] = "put" /\ pc[c] = "write"    => fd[c] /\ file["object"] = Empty
    /\ op[c] = "put" /\ pc[c] = "mopen"    => file["object"] = c /\ tagged[c]
    /\ op[c] = "put" /\ pc[c] = "mwrite"   => /\ fd[c] /\ tagged[c]
                                             /\ file["object"] = c
                                             /\ file["metadata"] = Empty
    /\ op[c] = "delete" /\ pc[c] \in {"mexists", "mremove"} =>
         file["object"] = Absent

\* What a reader finds in the files, and what it has seen of them.
ReaderInv ==
  /\ \A g \in Calls : \A r \in rivals[g] : pc[r] # "unborn"
  /\ \A g \in Calls : fixed[g] # Absent =>
       LET p == fixed[g] IN
       /\ pc[p] = "done" /\ op[p] \in Mutators
       /\ Reading(g) =>
            /\ \A c \in Calls : Mutating(c) => c \in rivals[g]
            /\ IF file["object"] = Absent THEN MayBeGone(g, p)
                                          ELSE MayHold(g, p, file["object"])
            /\ MayDescribe(g, p, file["metadata"])
       /\ op[g] = "get" /\ pc[g] \in {"mexists", "mread"} => MayHold(g, p, got[g])
       /\ pc[g] = "walk" =>
            IF "object" \in seen[g] THEN MayBeThere(g, p)
                                    ELSE \/ "object" \in todo[g]
                                         \/ MayBeGone(g, p) \/ g \in blind

IInv ==
  /\ TypeOK /\ PcInv /\ OverlapInv /\ StageInv
  /\ SettledIsStored /\ ReaderInv /\ ReadersSeeSettled /\ ProbeCleared
=============================================================================
