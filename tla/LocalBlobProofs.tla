-------------------------- MODULE LocalBlobProofs --------------------------
(* Proofs about LocalBlob, for any set of calls. *)
EXTENDS LocalBlob, TLAPS

(* The file a call works on. *)
LEMMA TargetType == \A c \in Calls : Target(c) \in Names
BY DEF Target, Names

(* Once the step is known to belong to the operation, the file follows.    *)
LEMMA TargetIs ==
  ASSUME TypeOK, PcInv
  PROVE  \A c \in Calls :
           Target(c) = IF op[c] = "is_healthy" THEN "probe"
                       ELSE IF pc[c] \in {"mopen", "mwrite", "mexists", "mread", "mremove"}
                              THEN "metadata" ELSE "object"
BY DEF Target, PcInv

(* Every step preserves the types of the variables. *)
LEMMA TypePreserved == TypeOK /\ [Next]_vars => TypeOK'
<1> SUFFICES ASSUME TypeOK, [Next]_vars PROVE TypeOK'
  OBVIOUS
<1> USE DEF TypeOK, Names, Contents, Mutators, Readers, Ops
<1>1. ASSUME NEW c \in Calls, NEW o \in Ops, NEW t \in BOOLEAN, Invoke(c, o, t)
      PROVE  TypeOK'
  BY <1>1 DEF Invoke, Start, files
<1>2. ASSUME NEW c \in Calls, Step(c) PROVE TypeOK'
  <2>1. CASE MkDir(c)
    BY <2>1 DEF MkDir, Goto, files, locals
  <2>2. CASE OpenFile(c)
    BY <2>2, TargetType DEF OpenFile, Truncate, locals, history
  <2>3. CASE WriteObject(c)
    BY <2>3, TargetType DEF WriteObject, Fill, Goto, Ok, Finish, Settles, locals
  <2>4. CASE OpenMeta(c)
    BY <2>4, TargetType DEF OpenMeta, Truncate, locals, history
  <2>5. CASE WriteMeta(c)
    BY <2>5, TargetType DEF WriteMeta, Fill, Ok, Finish, Settles
  <2>6. CASE WriteProbe(c)
    BY <2>6, TargetType DEF WriteProbe, Fill, Goto, locals
  <2>7. CASE RemoveProbe(c)
    BY <2>7, TargetType DEF RemoveProbe, Unlink, Ok, Finish, Settles
  <2>8. CASE GetMissing(c)
    BY <2>8, TargetType DEF GetMissing, NoSuch, Present, Answer, Finish, files, history
  <2>9. CASE GetExists(c)
    BY <2>9, TargetType DEF GetExists, Present, Goto, files, locals
  <2>10. CASE ReadObject(c)
    BY <2>10, TargetType DEF ReadObject, Present, files, history
  <2>11. CASE MetaMissing(c)
    BY <2>11, TargetType DEF MetaMissing, NoSuch, Present, Answer, Finish, files, history
  <2>12. CASE MetaExists(c)
    BY <2>12, TargetType DEF MetaExists, Present, Goto, files, locals
  <2>13. CASE ReadMeta(c)
    BY <2>13, TargetType DEF ReadMeta, Present, Answer, Finish, Parse, files, history
  <2>14. CASE Overlook(c)
    BY <2>14 DEF Overlook, files
  <2>15. CASE DeleteExists(c)
    BY <2>15, TargetType DEF DeleteExists, NoSuch, Present, Goto, files, locals
  <2>16. CASE RemoveObject(c)
    BY <2>16, TargetType DEF RemoveObject, Unlink, Goto, locals
  <2>17. CASE DeleteMetaExists(c)
    BY <2>17, TargetType DEF DeleteMetaExists, NoSuch, Present, Goto, Ok, Finish, Settles,
       files, locals
  <2>18. CASE RemoveMeta(c)
    BY <2>18, TargetType DEF RemoveMeta, Unlink, Ok, Finish, Settles
  <2>19. CASE RemoveFails(c)
    BY <2>19 DEF RemoveFails, Finish, files, locals
  <2>20. ASSUME NEW n \in Names, Visit(c, n) PROVE TypeOK'
    BY <2>20 DEF Visit, files, history
  <2>21. CASE Listed(c)
    BY <2>21 DEF Listed, Answer, Finish, files, history
  <2>22. CASE PresignUrl(c)
    BY <2>22 DEF PresignUrl, Ok, Finish, Settles, files
  <2>23. CASE Fail(c)
    BY <2>23 DEF Fail, Finish
  <2>24. CASE Drop(c)
    BY <2>24 DEF Drop, files, history
  <2> QED
    BY <1>2, <2>1, <2>2, <2>3, <2>4, <2>5, <2>6, <2>7, <2>8, <2>9, <2>10, <2>11, <2>12,
       <2>13, <2>14, <2>15, <2>16, <2>17, <2>18, <2>19, <2>20, <2>21, <2>22, <2>23, <2>24
    DEF Step
<1>3. CASE Crash
  BY <1>3 DEF Crash, locals
<1>4. CASE UNCHANGED vars
  BY <1>4 DEF vars
<1> QED BY <1>1, <1>2, <1>3, <1>4 DEF Next, Finished

(* Every step leads to a step of the same operation. *)
LEMMA PcPreserved == TypeOK /\ PcInv /\ [Next]_vars => PcInv'
<1> SUFFICES ASSUME TypeOK, PcInv, [Next]_vars PROVE PcInv'
  OBVIOUS
<1> USE DEF TypeOK, Names, Contents, Mutators, Readers, Ops, PcInv, Active
<1>1. ASSUME NEW c \in Calls, NEW o \in Ops, NEW t \in BOOLEAN, Invoke(c, o, t)
      PROVE  PcInv'
  BY <1>1 DEF Invoke, Start, files
<1>2. ASSUME NEW c \in Calls, Step(c) PROVE PcInv'
  <2>1. CASE MkDir(c)
    BY <2>1 DEF MkDir, Goto, files, locals
  <2>2. CASE OpenFile(c)
    BY <2>2, TargetIs DEF OpenFile, Truncate, locals, history
  <2>3. CASE WriteObject(c)
    BY <2>3, TargetIs DEF WriteObject, Fill, Goto, Ok, Finish, Settles, locals
  <2>4. CASE OpenMeta(c)
    BY <2>4, TargetIs DEF OpenMeta, Truncate, locals, history
  <2>5. CASE WriteMeta(c)
    BY <2>5, TargetIs DEF WriteMeta, Fill, Ok, Finish, Settles
  <2>6. CASE WriteProbe(c)
    BY <2>6, TargetIs DEF WriteProbe, Fill, Goto, locals
  <2>7. CASE RemoveProbe(c)
    BY <2>7, TargetIs DEF RemoveProbe, Unlink, Ok, Finish, Settles
  <2>8. CASE GetMissing(c)
    BY <2>8, TargetIs DEF GetMissing, NoSuch, Present, Answer, Finish, files, history
  <2>9. CASE GetExists(c)
    BY <2>9, TargetIs DEF GetExists, Present, Goto, files, locals
  <2>10. CASE ReadObject(c)
    BY <2>10, TargetIs DEF ReadObject, Present, files, history
  <2>11. CASE MetaMissing(c)
    BY <2>11, TargetIs DEF MetaMissing, NoSuch, Present, Answer, Finish, files, history
  <2>12. CASE MetaExists(c)
    BY <2>12, TargetIs DEF MetaExists, Present, Goto, files, locals
  <2>13. CASE ReadMeta(c)
    BY <2>13, TargetIs DEF ReadMeta, Present, Answer, Finish, Parse, files, history
  <2>14. CASE Overlook(c)
    BY <2>14 DEF Overlook, files
  <2>15. CASE DeleteExists(c)
    BY <2>15, TargetIs DEF DeleteExists, NoSuch, Present, Goto, files, locals
  <2>16. CASE RemoveObject(c)
    BY <2>16, TargetIs DEF RemoveObject, Unlink, Goto, locals
  <2>17. CASE DeleteMetaExists(c)
    BY <2>17, TargetIs DEF DeleteMetaExists, NoSuch, Present, Goto, Ok, Finish, Settles, files,
       locals
  <2>18. CASE RemoveMeta(c)
    BY <2>18, TargetIs DEF RemoveMeta, Unlink, Ok, Finish, Settles
  <2>19. CASE RemoveFails(c)
    BY <2>19 DEF RemoveFails, Finish, files, locals
  <2>20. ASSUME NEW n \in Names, Visit(c, n) PROVE PcInv'
    BY <2>20 DEF Visit, files, history
  <2>21. CASE Listed(c)
    BY <2>21 DEF Listed, Answer, Finish, files, history
  <2>22. CASE PresignUrl(c)
    BY <2>22 DEF PresignUrl, Ok, Finish, Settles, files
  <2>23. CASE Fail(c)
    BY <2>23 DEF Fail, Finish
  <2>24. CASE Drop(c)
    BY <2>24 DEF Drop, files, history
  <2> QED
    BY <1>2, <2>1, <2>2, <2>3, <2>4, <2>5, <2>6, <2>7, <2>8, <2>9, <2>10, <2>11, <2>12,
       <2>13, <2>14, <2>15, <2>16, <2>17, <2>18, <2>19, <2>20, <2>21, <2>22, <2>23, <2>24
    DEF Step
<1>3. CASE Crash
  BY <1>3 DEF Crash, locals
<1>4. CASE UNCHANGED vars
  BY <1>4 DEF vars
<1> QED BY <1>1, <1>2, <1>3, <1>4 DEF Next, Finished

(* Two puts or deletes that are under way at once are both spoilt. *)
LEMMA OverlapPreserved == TypeOK /\ PcInv /\ OverlapInv /\ [Next]_vars => OverlapInv'
<1> SUFFICES ASSUME TypeOK, PcInv, OverlapInv, [Next]_vars PROVE OverlapInv'
  OBVIOUS
<1> USE DEF TypeOK, Names, Contents, Mutators, Readers, Ops, PcInv, Active, Mutating,
            OverlapInv
<1>1. ASSUME NEW c \in Calls, NEW o \in Ops, NEW t \in BOOLEAN, Invoke(c, o, t)
      PROVE  OverlapInv'
  BY <1>1, ContentAssumption DEF Invoke, Start, files
<1>2. ASSUME NEW c \in Calls, Step(c) PROVE OverlapInv'
  <2>1. CASE MkDir(c)
    BY <2>1, ContentAssumption DEF MkDir, Goto, files, locals
  <2>2. CASE OpenFile(c)
    BY <2>2, TargetIs, ContentAssumption DEF OpenFile, Truncate, locals, history
  <2>3. CASE WriteObject(c)
    BY <2>3, TargetIs, ContentAssumption DEF WriteObject, Fill, Goto, Ok, Finish,
       Settles, locals
  <2>4. CASE OpenMeta(c)
    BY <2>4, TargetIs, ContentAssumption DEF OpenMeta, Truncate, locals, history
  <2>5. CASE WriteMeta(c)
    BY <2>5, TargetIs, ContentAssumption DEF WriteMeta, Fill, Ok, Finish, Settles
  <2>6. CASE WriteProbe(c)
    BY <2>6, TargetIs, ContentAssumption DEF WriteProbe, Fill, Goto, locals
  <2>7. CASE RemoveProbe(c)
    BY <2>7, TargetIs, ContentAssumption DEF RemoveProbe, Unlink, Ok, Finish, Settles
  <2>8. CASE GetMissing(c)
    BY <2>8, TargetIs, ContentAssumption DEF GetMissing, NoSuch, Present, Answer, Finish, files,
       history
  <2>9. CASE GetExists(c)
    BY <2>9, TargetIs, ContentAssumption DEF GetExists, Present, Goto, files, locals
  <2>10. CASE ReadObject(c)
    BY <2>10, TargetIs, ContentAssumption DEF ReadObject, Present, files, history
  <2>11. CASE MetaMissing(c)
    BY <2>11, TargetIs, ContentAssumption DEF MetaMissing, NoSuch, Present, Answer, Finish, files, history
  <2>12. CASE MetaExists(c)
    BY <2>12, TargetIs, ContentAssumption DEF MetaExists, Present, Goto, files, locals
  <2>13. CASE ReadMeta(c)
    BY <2>13, TargetIs, ContentAssumption DEF ReadMeta, Present, Answer, Finish, Parse, files, history
  <2>14. CASE Overlook(c)
    BY <2>14, ContentAssumption DEF Overlook, files
  <2>15. CASE DeleteExists(c)
    BY <2>15, TargetIs, ContentAssumption DEF DeleteExists, NoSuch, Present, Goto, files, locals
  <2>16. CASE RemoveObject(c)
    BY <2>16, TargetIs, ContentAssumption DEF RemoveObject, Unlink, Goto, locals
  <2>17. CASE DeleteMetaExists(c)
    BY <2>17, TargetIs, ContentAssumption DEF DeleteMetaExists, NoSuch, Present, Goto, Ok,
       Finish, Settles, files, locals
  <2>18. CASE RemoveMeta(c)
    BY <2>18, TargetIs, ContentAssumption DEF RemoveMeta, Unlink, Ok, Finish, Settles
  <2>19. CASE RemoveFails(c)
    BY <2>19, ContentAssumption DEF RemoveFails, Finish, files, locals
  <2>20. ASSUME NEW n \in Names, Visit(c, n) PROVE OverlapInv'
    BY <2>20, ContentAssumption DEF Visit, files, history
  <2>21. CASE Listed(c)
    BY <2>21, ContentAssumption DEF Listed, Answer, Finish, files, history
  <2>22. CASE PresignUrl(c)
    BY <2>22, ContentAssumption DEF PresignUrl, Ok, Finish, Settles, files
  <2>23. CASE Fail(c)
    BY <2>23, ContentAssumption DEF Fail, Finish
  <2>24. CASE Drop(c)
    BY <2>24, ContentAssumption DEF Drop, files, history
  <2> QED
    BY <1>2, <2>1, <2>2, <2>3, <2>4, <2>5, <2>6, <2>7, <2>8, <2>9, <2>10, <2>11, <2>12,
       <2>13, <2>14, <2>15, <2>16, <2>17, <2>18, <2>19, <2>20, <2>21, <2>22, <2>23, <2>24
    DEF Step
<1>3. CASE Crash
  BY <1>3, ContentAssumption DEF Crash, locals
<1>4. CASE UNCHANGED vars
  BY <1>4 DEF vars
<1> QED BY <1>1, <1>2, <1>3, <1>4 DEF Next, Finished

(* A put or delete that runs alone finds the files as it left them. *)
LEMMA StagePreserved ==
  TypeOK /\ PcInv /\ OverlapInv /\ StageInv /\ [Next]_vars => StageInv'
<1> SUFFICES ASSUME TypeOK, PcInv, OverlapInv, StageInv, [Next]_vars PROVE StageInv'
  OBVIOUS
<1> USE DEF TypeOK, Names, Contents, Mutators, Readers, Ops, PcInv, Active, Mutating,
            OverlapInv, StageInv
<1>1. ASSUME NEW c \in Calls, NEW o \in Ops, NEW t \in BOOLEAN, Invoke(c, o, t)
      PROVE  StageInv'
  BY <1>1, ContentAssumption DEF Invoke, Start, files
<1>2. ASSUME NEW c \in Calls, Step(c) PROVE StageInv'
  <2>1. CASE MkDir(c)
    BY <2>1, ContentAssumption DEF MkDir, Goto, files, locals
  <2>2. CASE OpenFile(c)
    BY <2>2, TargetIs, ContentAssumption DEF OpenFile, Truncate, locals, history
  <2>3. CASE WriteObject(c)
    BY <2>3, TargetIs, ContentAssumption DEF WriteObject, Fill, Goto, Ok, Finish,
       Settles, locals
  <2>4. CASE OpenMeta(c)
    BY <2>4, TargetIs, ContentAssumption DEF OpenMeta, Truncate, locals, history
  <2>5. CASE WriteMeta(c)
    BY <2>5, TargetIs, ContentAssumption DEF WriteMeta, Fill, Ok, Finish, Settles
  <2>6. CASE WriteProbe(c)
    BY <2>6, TargetIs, ContentAssumption DEF WriteProbe, Fill, Goto, locals
  <2>7. CASE RemoveProbe(c)
    BY <2>7, TargetIs, ContentAssumption DEF RemoveProbe, Unlink, Ok, Finish, Settles
  <2>8. CASE GetMissing(c)
    BY <2>8, TargetIs, ContentAssumption DEF GetMissing, NoSuch, Present, Answer, Finish, files,
       history
  <2>9. CASE GetExists(c)
    BY <2>9, TargetIs, ContentAssumption DEF GetExists, Present, Goto, files, locals
  <2>10. CASE ReadObject(c)
    BY <2>10, TargetIs, ContentAssumption DEF ReadObject, Present, files, history
  <2>11. CASE MetaMissing(c)
    BY <2>11, TargetIs, ContentAssumption DEF MetaMissing, NoSuch, Present, Answer, Finish, files, history
  <2>12. CASE MetaExists(c)
    BY <2>12, TargetIs, ContentAssumption DEF MetaExists, Present, Goto, files, locals
  <2>13. CASE ReadMeta(c)
    BY <2>13, TargetIs, ContentAssumption DEF ReadMeta, Present, Answer, Finish, Parse, files, history
  <2>14. CASE Overlook(c)
    BY <2>14, ContentAssumption DEF Overlook, files
  <2>15. CASE DeleteExists(c)
    BY <2>15, TargetIs, ContentAssumption DEF DeleteExists, NoSuch, Present, Goto, files, locals
  <2>16. CASE RemoveObject(c)
    BY <2>16, TargetIs, ContentAssumption DEF RemoveObject, Unlink, Goto, locals
  <2>17. CASE DeleteMetaExists(c)
    BY <2>17, TargetIs, ContentAssumption DEF DeleteMetaExists, NoSuch, Present, Goto, Ok,
       Finish, Settles, files, locals
  <2>18. CASE RemoveMeta(c)
    BY <2>18, TargetIs, ContentAssumption DEF RemoveMeta, Unlink, Ok, Finish, Settles
  <2>19. CASE RemoveFails(c)
    BY <2>19, ContentAssumption DEF RemoveFails, Finish, files, locals
  <2>20. ASSUME NEW n \in Names, Visit(c, n) PROVE StageInv'
    BY <2>20, ContentAssumption DEF Visit, files, history
  <2>21. CASE Listed(c)
    BY <2>21, ContentAssumption DEF Listed, Answer, Finish, files, history
  <2>22. CASE PresignUrl(c)
    BY <2>22, ContentAssumption DEF PresignUrl, Ok, Finish, Settles, files
  <2>23. CASE Fail(c)
    BY <2>23, ContentAssumption DEF Fail, Finish
  <2>24. CASE Drop(c)
    BY <2>24, ContentAssumption DEF Drop, files, history
  <2> QED
    BY <1>2, <2>1, <2>2, <2>3, <2>4, <2>5, <2>6, <2>7, <2>8, <2>9, <2>10, <2>11, <2>12,
       <2>13, <2>14, <2>15, <2>16, <2>17, <2>18, <2>19, <2>20, <2>21, <2>22, <2>23, <2>24
    DEF Step
<1>3. CASE Crash
  BY <1>3, ContentAssumption DEF Crash, locals
<1>4. CASE UNCHANGED vars
  BY <1>4 DEF vars
<1> QED BY <1>1, <1>2, <1>3, <1>4 DEF Next, Finished

(* What the settled call has stored stays until the next put or delete. *)
LEMMA SettledPreserved ==
  TypeOK /\ PcInv /\ OverlapInv /\ StageInv /\ SettledIsStored
    /\ [Next]_vars => SettledIsStored'
<1> SUFFICES ASSUME TypeOK, PcInv, OverlapInv, StageInv, SettledIsStored, [Next]_vars
             PROVE  SettledIsStored'
  OBVIOUS
<1> USE DEF TypeOK, Names, Contents, Mutators, Readers, Ops, PcInv, Active, Mutating,
            OverlapInv, StageInv, SettledIsStored
<1>1. ASSUME NEW c \in Calls, NEW o \in Ops, NEW t \in BOOLEAN, Invoke(c, o, t)
      PROVE  SettledIsStored'
  BY <1>1, ContentAssumption DEF Invoke, Start, files
<1>2. ASSUME NEW c \in Calls, Step(c) PROVE SettledIsStored'
  <2>1. CASE MkDir(c)
    BY <2>1, ContentAssumption DEF MkDir, Goto, files, locals
  <2>2. CASE OpenFile(c)
    BY <2>2, TargetIs, ContentAssumption DEF OpenFile, Truncate, locals, history
  <2>3. CASE WriteObject(c)
    BY <2>3, TargetIs, ContentAssumption DEF WriteObject, Fill, Goto, Ok, Finish,
       Settles, locals
  <2>4. CASE OpenMeta(c)
    BY <2>4, TargetIs, ContentAssumption DEF OpenMeta, Truncate, locals, history
  <2>5. CASE WriteMeta(c)
    BY <2>5, TargetIs, ContentAssumption DEF WriteMeta, Fill, Ok, Finish, Settles
  <2>6. CASE WriteProbe(c)
    BY <2>6, TargetIs, ContentAssumption DEF WriteProbe, Fill, Goto, locals
  <2>7. CASE RemoveProbe(c)
    BY <2>7, TargetIs, ContentAssumption DEF RemoveProbe, Unlink, Ok, Finish, Settles
  <2>8. CASE GetMissing(c)
    BY <2>8, TargetIs, ContentAssumption DEF GetMissing, NoSuch, Present, Answer, Finish, files,
       history
  <2>9. CASE GetExists(c)
    BY <2>9, TargetIs, ContentAssumption DEF GetExists, Present, Goto, files, locals
  <2>10. CASE ReadObject(c)
    BY <2>10, TargetIs, ContentAssumption DEF ReadObject, Present, files, history
  <2>11. CASE MetaMissing(c)
    BY <2>11, TargetIs, ContentAssumption DEF MetaMissing, NoSuch, Present, Answer, Finish, files, history
  <2>12. CASE MetaExists(c)
    BY <2>12, TargetIs, ContentAssumption DEF MetaExists, Present, Goto, files, locals
  <2>13. CASE ReadMeta(c)
    BY <2>13, TargetIs, ContentAssumption DEF ReadMeta, Present, Answer, Finish, Parse, files, history
  <2>14. CASE Overlook(c)
    BY <2>14, ContentAssumption DEF Overlook, files
  <2>15. CASE DeleteExists(c)
    BY <2>15, TargetIs, ContentAssumption DEF DeleteExists, NoSuch, Present, Goto, files, locals
  <2>16. CASE RemoveObject(c)
    BY <2>16, TargetIs, ContentAssumption DEF RemoveObject, Unlink, Goto, locals
  <2>17. CASE DeleteMetaExists(c)
    BY <2>17, TargetIs, ContentAssumption DEF DeleteMetaExists, NoSuch, Present, Goto, Ok,
       Finish, Settles, files, locals
  <2>18. CASE RemoveMeta(c)
    BY <2>18, TargetIs, ContentAssumption DEF RemoveMeta, Unlink, Ok, Finish, Settles
  <2>19. CASE RemoveFails(c)
    BY <2>19, ContentAssumption DEF RemoveFails, Finish, files, locals
  <2>20. ASSUME NEW n \in Names, Visit(c, n) PROVE SettledIsStored'
    BY <2>20, ContentAssumption DEF Visit, files, history
  <2>21. CASE Listed(c)
    BY <2>21, ContentAssumption DEF Listed, Answer, Finish, files, history
  <2>22. CASE PresignUrl(c)
    BY <2>22, ContentAssumption DEF PresignUrl, Ok, Finish, Settles, files
  <2>23. CASE Fail(c)
    BY <2>23, ContentAssumption DEF Fail, Finish
  <2>24. CASE Drop(c)
    BY <2>24, ContentAssumption DEF Drop, files, history
  <2> QED
    BY <1>2, <2>1, <2>2, <2>3, <2>4, <2>5, <2>6, <2>7, <2>8, <2>9, <2>10, <2>11, <2>12,
       <2>13, <2>14, <2>15, <2>16, <2>17, <2>18, <2>19, <2>20, <2>21, <2>22, <2>23, <2>24
    DEF Step
<1>3. CASE Crash
  BY <1>3, ContentAssumption DEF Crash, locals
<1>4. CASE UNCHANGED vars
  BY <1>4 DEF vars
<1> QED BY <1>1, <1>2, <1>3, <1>4 DEF Next, Finished

\* What a reader may find in files with contents f.
FindsOnly(g, f) ==
  /\ IF f["object"] = Absent THEN MayBeGone(g, fixed[g])
                             ELSE MayHold(g, fixed[g], f["object"])
  /\ MayDescribe(g, fixed[g], f["metadata"])

(* The steps of another call disturb a reader only through the files. *)
LEMMA OthersStep ==
  ASSUME TypeOK, ReaderInv, NEW c \in Calls, Active(c), op[c] \notin Readers,
         pc'[c] \notin {"unborn", "walk"}, \A d \in Calls \ {c} : pc'[d] = pc[d],
         UNCHANGED <<op, tagged, got, todo, seen, fixed, rivals>>, blind \subseteq blind',
         \A g \in Calls : fixed[g] # Absent /\ Reading(g) => FindsOnly(g, file')
  PROVE  ReaderInv'
<1> USE DEF TypeOK, Active, Mutating, Reading, Mutators, Readers, ReaderInv
<1>1. \A g \in Calls : Puts(g)' = Puts(g) /\ Deletes(g)' = Deletes(g)
  BY DEF Puts, Deletes
<1>3. \A g \in Calls : \A r \in rivals'[g] : pc'[r] # "unborn"
  OBVIOUS
<1>4. ASSUME NEW g \in Calls, fixed'[g] # Absent
      PROVE  /\ fixed'[g] = fixed[g] /\ fixed[g] \in Calls /\ fixed[g] # c
             /\ pc'[fixed[g]] = "done" /\ op'[fixed[g]] \in Mutators
             /\ Reading(g)' => /\ Reading(g) /\ g # c
                               /\ \A d \in Calls : Mutating(d)' => d \in rivals'[g]
  BY <1>4
<1>5. ASSUME NEW g \in Calls, fixed'[g] # Absent, Reading(g)'
      PROVE  /\ (IF file["object"] = Absent THEN MayBeGone(g, fixed[g])
                                            ELSE MayHold(g, fixed[g], file["object"]))'
             /\ MayDescribe(g, fixed[g], file["metadata"])'
  BY <1>1, <1>4, <1>5 DEF FindsOnly, MayBeGone, MayHold, MayDescribe
<1>6. ASSUME NEW g \in Calls, fixed'[g] # Absent
      PROVE  /\ op'[g] = "get" /\ pc'[g] \in {"mexists", "mread"} =>
                  MayHold(g, fixed[g], got[g])'
             /\ pc'[g] = "walk" => (IF "object" \in seen[g] THEN MayBeThere(g, fixed[g])
                                     ELSE \/ "object" \in todo[g]
                                          \/ MayBeGone(g, fixed[g]) \/ g \in blind)'
  <2>1. g = c => ~(op'[g] = "get") /\ ~Reading(g)'
    OBVIOUS
  <2>2. g = c => pc'[g] # "walk"
    OBVIOUS
  <2> QED BY <1>1, <1>4, <1>6, <2>1, <2>2 DEF MayBeThere, MayBeGone, MayHold
<1> QED BY <1>3, <1>4, <1>5, <1>6

(* A reader goes on seeing the settled call. *)
LEMMA ReaderPreserved ==
  TypeOK /\ PcInv /\ OverlapInv /\ SettledIsStored /\ ReaderInv
    /\ [Next]_vars => ReaderInv'
<1> SUFFICES ASSUME TypeOK, PcInv, OverlapInv, SettledIsStored, ReaderInv, [Next]_vars
             PROVE  ReaderInv'
  OBVIOUS
<1> USE DEF TypeOK, Names, Contents, Mutators, Readers, Ops, PcInv, Active, Mutating,
            Reading, OverlapInv, SettledIsStored, ReaderInv, Puts, Deletes, MayBeThere,
            MayBeGone, MayHold, MayDescribe
<1>1. ASSUME NEW c \in Calls, NEW o \in Ops, NEW t \in BOOLEAN, Invoke(c, o, t)
      PROVE  ReaderInv'
  <2> USE <1>1 DEF Invoke
  <2>1. \A d \in Calls : pc[d] # "unborn" => /\ pc'[d] = pc[d] /\ op'[d] = op[d]
                                             /\ tagged'[d] = tagged[d]
    OBVIOUS
  <2>2. pc'[c] # "unborn" /\ (\A d \in Calls \ {c} : pc'[d] = pc[d])
    BY DEF Start
  <2>3. UNCHANGED <<file, got, seen, blind>>
    BY DEF files
  <2>4. CASE o \in Mutators
    <3>1. \A g \in Calls : Puts(g) \subseteq Puts(g)' /\ Deletes(g) \subseteq Deletes(g)'
      BY <2>1, <2>4
    <3>2. \A g \in Calls : \A r \in rivals'[g] : pc'[r] # "unborn"
      BY <2>1, <2>2, <2>4
    <3>3. ASSUME NEW g \in Calls, fixed'[g] # Absent, Reading(g)'
          PROVE  g # c /\ Reading(g) /\ \A d \in Calls : Mutating(d)' => d \in rivals'[g]
      BY <2>1, <2>2, <2>4, <3>3
    <3>4. \A g \in Calls : fixed'[g] # Absent => fixed'[g] = fixed[g]
      BY <2>4
    <3> QED BY <2>1, <2>2, <2>3, <2>4, <3>1, <3>2, <3>3, <3>4, ContentAssumption DEF Start
  <2>5. CASE o \notin Mutators
    <3>1. \A g \in Calls : Puts(g)' = Puts(g) /\ Deletes(g)' = Deletes(g)
      BY <2>1, <2>5
    <3>2. \A d \in Calls : Mutating(d)' => Mutating(d)
      BY <2>5
    <3> QED BY <2>1, <2>2, <2>3, <2>5, <3>1, <3>2, ContentAssumption DEF Start
  <2> QED BY <2>4, <2>5
<1>2. ASSUME NEW c \in Calls, Step(c) PROVE ReaderInv'
  <2>1. CASE MkDir(c)
    BY <2>1, ContentAssumption DEF MkDir, Goto, files, locals
  <2>2. CASE OpenFile(c)
    BY <2>2, TargetIs, ContentAssumption DEF OpenFile, Truncate, locals, history
  <2>3. CASE WriteObject(c)
    <3>1. op[c] = "put" /\ Target(c) = "object" /\ Mutating(c)
      BY <2>3, TargetIs DEF WriteObject
    <3>2. /\ file' = [file EXCEPT !["object"] = c] \/ file' = [file EXCEPT !["object"] = Mixed]
                \/ file' = file
          /\ UNCHANGED <<op, tagged, got, todo, seen, fixed, rivals, blind>>
          /\ pc'[c] \notin {"unborn", "walk"} /\ \A d \in Calls \ {c} : pc'[d] = pc[d]
      BY <2>3, <3>1 DEF WriteObject, Fill, Goto, Ok, Finish, locals
    <3>3. \A g \in Calls : fixed[g] # Absent /\ Reading(g) => FindsOnly(g, file')
      BY <3>1, <3>2, ContentAssumption DEF FindsOnly
    <3> QED BY <3>1, <3>2, <3>3, OthersStep
  <2>4. CASE OpenMeta(c)
    BY <2>4, TargetIs, ContentAssumption DEF OpenMeta, Truncate, locals, history
  <2>5. CASE WriteMeta(c)
    BY <2>5, TargetIs, ContentAssumption DEF WriteMeta, Fill, Ok, Finish, Settles
  <2>6. CASE WriteProbe(c)
    <3>1. op[c] = "is_healthy" /\ Target(c) = "probe"
      BY <2>6, TargetIs DEF WriteProbe
    <3>2. file'["object"] = file["object"] /\ file'["metadata"] = file["metadata"]
      BY <2>6, <3>1 DEF WriteProbe, Fill
    <3>3. UNCHANGED <<op, tagged, got, todo, seen, blind, fixed, rivals>>
      BY <2>6 DEF WriteProbe, Goto, locals
    <3>4. pc'[c] \notin {"unborn", "walk"} /\ \A d \in Calls \ {c} : pc'[d] = pc[d]
      BY <2>6 DEF WriteProbe, Goto
    <3>5. \A g \in Calls : fixed[g] # Absent /\ Reading(g) => FindsOnly(g, file')
      BY <3>2 DEF FindsOnly
    <3>6. Active(c) /\ op[c] \notin Readers
      BY <2>6 DEF WriteProbe
    <3> QED BY <3>3, <3>4, <3>5, <3>6, OthersStep
  <2>7. CASE RemoveProbe(c)
    BY <2>7, TargetIs, ContentAssumption DEF RemoveProbe, Unlink, Ok, Finish, Settles
  <2>8. CASE GetMissing(c)
    BY <2>8, TargetIs, ContentAssumption DEF GetMissing, NoSuch, Present, Answer, Finish, files,
       history
  <2>9. CASE GetExists(c)
    BY <2>9, TargetIs, ContentAssumption DEF GetExists, Present, Goto, files, locals
  <2>10. CASE ReadObject(c)
    BY <2>10, TargetIs, ContentAssumption DEF ReadObject, Present, files, history
  <2>11. CASE MetaMissing(c)
    BY <2>11, TargetIs, ContentAssumption DEF MetaMissing, NoSuch, Present, Answer, Finish, files, history
  <2>12. CASE MetaExists(c)
    BY <2>12, TargetIs, ContentAssumption DEF MetaExists, Present, Goto, files, locals
  <2>13. CASE ReadMeta(c)
    BY <2>13, TargetIs, ContentAssumption DEF ReadMeta, Present, Answer, Finish, Parse, files, history
  <2>14. CASE Overlook(c)
    BY <2>14, ContentAssumption DEF Overlook, files
  <2>15. CASE DeleteExists(c)
    <3>1. /\ Active(c) /\ op[c] \notin Readers
          /\ UNCHANGED <<file, op, tagged, got, todo, seen, fixed, rivals>>
          /\ blind \subseteq blind'
          /\ pc'[c] \notin {"unborn", "walk"} /\ \A d \in Calls \ {c} : pc'[d] = pc[d]
      BY <2>15 DEF DeleteExists, NoSuch, Goto, files, locals
    <3>2. \A g \in Calls : fixed[g] # Absent /\ Reading(g) => FindsOnly(g, file')
      BY <3>1 DEF FindsOnly
    <3> QED BY <3>1, <3>2, OthersStep
  <2>16. CASE RemoveObject(c)
    BY <2>16, TargetIs, ContentAssumption DEF RemoveObject, Unlink, Goto, locals
  <2>17. CASE DeleteMetaExists(c)
    BY <2>17, TargetIs, ContentAssumption DEF DeleteMetaExists, NoSuch, Present, Goto, Ok,
       Finish, Settles, files, locals
  <2>18. CASE RemoveMeta(c)
    BY <2>18, TargetIs, ContentAssumption DEF RemoveMeta, Unlink, Ok, Finish, Settles
  <2>19. CASE RemoveFails(c)
    BY <2>19, ContentAssumption DEF RemoveFails, Finish, files, locals
  <2>20. ASSUME NEW n \in Names, Visit(c, n) PROVE ReaderInv'
    BY <2>20, ContentAssumption DEF Visit, files, history
  <2>21. CASE Listed(c)
    BY <2>21, ContentAssumption DEF Listed, Answer, Finish, files, history
  <2>22. CASE PresignUrl(c)
    BY <2>22, ContentAssumption DEF PresignUrl, Ok, Finish, Settles, files
  <2>23. CASE Fail(c)
    BY <2>23, ContentAssumption DEF Fail, Finish
  <2>24. CASE Drop(c)
    BY <2>24, ContentAssumption DEF Drop, files, history
  <2> QED
    BY <1>2, <2>1, <2>2, <2>3, <2>4, <2>5, <2>6, <2>7, <2>8, <2>9, <2>10, <2>11, <2>12,
       <2>13, <2>14, <2>15, <2>16, <2>17, <2>18, <2>19, <2>20, <2>21, <2>22, <2>23, <2>24
    DEF Step
<1>3. CASE Crash
  BY <1>3, ContentAssumption DEF Crash, locals
<1>4. CASE UNCHANGED vars
  BY <1>4 DEF vars
<1> QED BY <1>1, <1>2, <1>3, <1>4 DEF Next, Finished

(* A reader answers what it has seen. *)
LEMMA AnswersPreserved ==
  TypeOK /\ PcInv /\ OverlapInv /\ SettledIsStored /\ ReaderInv /\ ReadersSeeSettled
    /\ [Next]_vars => ReadersSeeSettled'
<1> SUFFICES ASSUME TypeOK, PcInv, OverlapInv, SettledIsStored, ReaderInv,
                    ReadersSeeSettled, [Next]_vars
             PROVE  ReadersSeeSettled'
  OBVIOUS
<1> USE DEF TypeOK, Names, Contents, Mutators, Readers, Ops, PcInv, Active, Mutating,
            Reading, OverlapInv, SettledIsStored, ReaderInv, ReadersSeeSettled, Puts,
            Deletes, MayBeThere, MayBeGone, MayHold, MayDescribe
<1>1. ASSUME NEW c \in Calls, NEW o \in Ops, NEW t \in BOOLEAN, Invoke(c, o, t)
      PROVE  ReadersSeeSettled'
  BY <1>1, ContentAssumption DEF Invoke, Start, files
<1>2. ASSUME NEW c \in Calls, Step(c) PROVE ReadersSeeSettled'
  <2>1. CASE MkDir(c)
    BY <2>1, ContentAssumption DEF MkDir, Goto, files, locals
  <2>2. CASE OpenFile(c)
    BY <2>2, TargetIs, ContentAssumption DEF OpenFile, Truncate, locals, history
  <2>3. CASE WriteObject(c)
    BY <2>3, TargetIs, ContentAssumption DEF WriteObject, Fill, Goto, Ok, Finish,
       Settles, locals
  <2>4. CASE OpenMeta(c)
    BY <2>4, TargetIs, ContentAssumption DEF OpenMeta, Truncate, locals, history
  <2>5. CASE WriteMeta(c)
    BY <2>5, TargetIs, ContentAssumption DEF WriteMeta, Fill, Ok, Finish, Settles
  <2>6. CASE WriteProbe(c)
    BY <2>6, TargetIs, ContentAssumption DEF WriteProbe, Fill, Goto, locals
  <2>7. CASE RemoveProbe(c)
    BY <2>7, TargetIs, ContentAssumption DEF RemoveProbe, Unlink, Ok, Finish, Settles
  <2>8. CASE GetMissing(c)
    BY <2>8, TargetIs, ContentAssumption DEF GetMissing, NoSuch, Present, Answer, Finish, files,
       history
  <2>9. CASE GetExists(c)
    BY <2>9, TargetIs, ContentAssumption DEF GetExists, Present, Goto, files, locals
  <2>10. CASE ReadObject(c)
    BY <2>10, TargetIs, ContentAssumption DEF ReadObject, Present, files, history
  <2>11. CASE MetaMissing(c)
    BY <2>11, TargetIs, ContentAssumption DEF MetaMissing, NoSuch, Present, Answer, Finish, files, history
  <2>12. CASE MetaExists(c)
    BY <2>12, TargetIs, ContentAssumption DEF MetaExists, Present, Goto, files, locals
  <2>13. CASE ReadMeta(c)
    BY <2>13, TargetIs, ContentAssumption DEF ReadMeta, Present, Answer, Finish, Parse, files, history
  <2>14. CASE Overlook(c)
    BY <2>14, ContentAssumption DEF Overlook, files
  <2>15. CASE DeleteExists(c)
    BY <2>15, TargetIs, ContentAssumption DEF DeleteExists, NoSuch, Present, Goto, files, locals
  <2>16. CASE RemoveObject(c)
    BY <2>16, TargetIs, ContentAssumption DEF RemoveObject, Unlink, Goto, locals
  <2>17. CASE DeleteMetaExists(c)
    BY <2>17, TargetIs, ContentAssumption DEF DeleteMetaExists, NoSuch, Present, Goto, Ok,
       Finish, Settles, files, locals
  <2>18. CASE RemoveMeta(c)
    BY <2>18, TargetIs, ContentAssumption DEF RemoveMeta, Unlink, Ok, Finish, Settles
  <2>19. CASE RemoveFails(c)
    BY <2>19, ContentAssumption DEF RemoveFails, Finish, files, locals
  <2>20. ASSUME NEW n \in Names, Visit(c, n) PROVE ReadersSeeSettled'
    BY <2>20, ContentAssumption DEF Visit, files, history
  <2>21. CASE Listed(c)
    BY <2>21, ContentAssumption DEF Listed, Answer, Finish, files, history
  <2>22. CASE PresignUrl(c)
    BY <2>22, ContentAssumption DEF PresignUrl, Ok, Finish, Settles, files
  <2>23. CASE Fail(c)
    BY <2>23, ContentAssumption DEF Fail, Finish
  <2>24. CASE Drop(c)
    BY <2>24, ContentAssumption DEF Drop, files, history
  <2> QED
    BY <1>2, <2>1, <2>2, <2>3, <2>4, <2>5, <2>6, <2>7, <2>8, <2>9, <2>10, <2>11, <2>12,
       <2>13, <2>14, <2>15, <2>16, <2>17, <2>18, <2>19, <2>20, <2>21, <2>22, <2>23, <2>24
    DEF Step
<1>3. CASE Crash
  BY <1>3, ContentAssumption DEF Crash, locals
<1>4. CASE UNCHANGED vars
  BY <1>4 DEF vars
<1> QED BY <1>1, <1>2, <1>3, <1>4 DEF Next, Finished

(* The probe is removed by the last health check. *)
LEMMA ProbePreserved == TypeOK /\ PcInv /\ ProbeCleared /\ [Next]_vars => ProbeCleared'
<1> SUFFICES ASSUME TypeOK, PcInv, ProbeCleared, [Next]_vars PROVE ProbeCleared'
  OBVIOUS
<1> USE DEF TypeOK, Names, Contents, Mutators, Readers, Ops, PcInv, Active, ProbeCleared
<1>1. ASSUME NEW c \in Calls, NEW o \in Ops, NEW t \in BOOLEAN, Invoke(c, o, t)
      PROVE  ProbeCleared'
  BY <1>1 DEF Invoke, Start, files
<1>2. ASSUME NEW c \in Calls, Step(c) PROVE ProbeCleared'
  <2>1. CASE MkDir(c)
    BY <2>1 DEF MkDir, Goto, files, locals
  <2>2. CASE OpenFile(c)
    BY <2>2, TargetIs DEF OpenFile, Truncate, locals, history
  <2>3. CASE WriteObject(c)
    BY <2>3, TargetIs DEF WriteObject, Fill, Goto, Ok, Finish, Settles, locals
  <2>4. CASE OpenMeta(c)
    BY <2>4, TargetIs DEF OpenMeta, Truncate, locals, history
  <2>5. CASE WriteMeta(c)
    BY <2>5, TargetIs DEF WriteMeta, Fill, Ok, Finish, Settles
  <2>6. CASE WriteProbe(c)
    BY <2>6, TargetIs DEF WriteProbe, Fill, Goto, locals
  <2>7. CASE RemoveProbe(c)
    BY <2>7, TargetIs DEF RemoveProbe, Unlink, Ok, Finish, Settles
  <2>8. CASE GetMissing(c)
    BY <2>8, TargetIs DEF GetMissing, NoSuch, Present, Answer, Finish, files, history
  <2>9. CASE GetExists(c)
    BY <2>9, TargetIs DEF GetExists, Present, Goto, files, locals
  <2>10. CASE ReadObject(c)
    BY <2>10, TargetIs DEF ReadObject, Present, files, history
  <2>11. CASE MetaMissing(c)
    BY <2>11, TargetIs DEF MetaMissing, NoSuch, Present, Answer, Finish, files, history
  <2>12. CASE MetaExists(c)
    BY <2>12, TargetIs DEF MetaExists, Present, Goto, files, locals
  <2>13. CASE ReadMeta(c)
    BY <2>13, TargetIs DEF ReadMeta, Present, Answer, Finish, Parse, files, history
  <2>14. CASE Overlook(c)
    BY <2>14 DEF Overlook, files
  <2>15. CASE DeleteExists(c)
    BY <2>15, TargetIs DEF DeleteExists, NoSuch, Present, Goto, files, locals
  <2>16. CASE RemoveObject(c)
    BY <2>16, TargetIs DEF RemoveObject, Unlink, Goto, locals
  <2>17. CASE DeleteMetaExists(c)
    BY <2>17, TargetIs DEF DeleteMetaExists, NoSuch, Present, Goto, Ok, Finish, Settles, files,
       locals
  <2>18. CASE RemoveMeta(c)
    BY <2>18, TargetIs DEF RemoveMeta, Unlink, Ok, Finish, Settles
  <2>19. CASE RemoveFails(c)
    BY <2>19 DEF RemoveFails, Finish, files, locals
  <2>20. ASSUME NEW n \in Names, Visit(c, n) PROVE ProbeCleared'
    BY <2>20 DEF Visit, files, history
  <2>21. CASE Listed(c)
    BY <2>21 DEF Listed, Answer, Finish, files, history
  <2>22. CASE PresignUrl(c)
    BY <2>22 DEF PresignUrl, Ok, Finish, Settles, files
  <2>23. CASE Fail(c)
    BY <2>23 DEF Fail, Finish
  <2>24. CASE Drop(c)
    BY <2>24 DEF Drop, files, history
  <2> QED
    BY <1>2, <2>1, <2>2, <2>3, <2>4, <2>5, <2>6, <2>7, <2>8, <2>9, <2>10, <2>11, <2>12,
       <2>13, <2>14, <2>15, <2>16, <2>17, <2>18, <2>19, <2>20, <2>21, <2>22, <2>23, <2>24
    DEF Step
<1>3. CASE Crash
  BY <1>3 DEF Crash, locals
<1>4. CASE UNCHANGED vars
  BY <1>4 DEF vars
<1> QED BY <1>1, <1>2, <1>3, <1>4 DEF Next, Finished

-----------------------------------------------------------------------------
(* The invariant is inductive: the steps of any number of overlapping      *)
(* calls, I/O errors, drops and crashes preserve it.                       *)
THEOREM Inductive == Spec => []IInv
<1>1. Init => IInv
  <2> SUFFICES ASSUME Init PROVE IInv
    OBVIOUS
  <2>1. TypeOK
    BY DEF Init, TypeOK, Names, Contents, Ops
  <2>2. PcInv /\ OverlapInv /\ StageInv
    BY DEF Init, PcInv, Active, OverlapInv, Mutating, StageInv
  <2>3. SettledIsStored /\ ReaderInv /\ ReadersSeeSettled /\ ProbeCleared
    BY DEF Init, Names, SettledIsStored, ReaderInv, ReadersSeeSettled, ProbeCleared
  <2> QED BY <2>1, <2>2, <2>3 DEF IInv
<1>2. IInv /\ [Next]_vars => IInv'
  BY TypePreserved, PcPreserved, OverlapPreserved, StagePreserved, SettledPreserved,
     ReaderPreserved, AnswersPreserved, ProbePreserved DEF IInv
<1> QED BY <1>1, <1>2, PTL DEF Spec

(* The variables keep their types. *)
THEOREM TypeCorrect == Spec => []TypeOK
<1>1. IInv => TypeOK
  BY DEF IInv
<1> QED BY <1>1, Inductive, PTL

(* A put or delete that no other put or delete overlapped and that met no  *)
(* error leaves both files as it should, whatever state errors, drops and  *)
(* crashes of earlier calls have left them in, and health checks, reads    *)
(* and lists that run meanwhile do not disturb it.                         *)
THEOREM Stored == Spec => []SettledIsStored
<1>1. IInv => SettledIsStored
  BY DEF IInv
<1> QED BY <1>1, Inductive, PTL

(* A get or list answers with what the last undisturbed put or delete      *)
(* stored or with that of one it overlaps, never with anything older,      *)
(* though it looks at the files in several steps; it misses what is stored *)
(* only next to a delete or when it takes an error for absence.            *)
THEOREM ReadersCorrect == Spec => []ReadersSeeSettled
<1>1. IInv => ReadersSeeSettled
  BY DEF IInv
<1> QED BY <1>1, Inductive, PTL

(* Health checks share one probe file and remove it under each other's     *)
(* hands; when none is under way and none was cut short it is gone.        *)
THEOREM ProbeRemoved == Spec => []ProbeCleared
<1>1. IInv => ProbeCleared
  BY DEF IInv
<1> QED BY <1>1, Inductive, PTL
=============================================================================
