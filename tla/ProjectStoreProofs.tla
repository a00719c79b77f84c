------------------------- MODULE ProjectStoreProofs -------------------------
(***************************************************************************)
(* The project store is correct for any number of editors, drafts and      *)
(* origins and any history limit. Everything follows from one inductive    *)
(* invariant, StoreInv: what the process that holds the project lock may   *)
(* rely on between its check of the head and its publication.              *)
(***************************************************************************)
EXTENDS ProjectStore, FiniteSetTheorems, TLAPS

(* Steps between the checks made under the lock and the new head.          *)
Publishing == {"imported", "publish", "link", "unlink", "head"}

Founding(e) == cmd[e].op \in {"create", "import"}

Editing(e) == cmd[e].op \in {"save", "restore"}

(* The lock is held by the process whose steps need it.                    *)
LockInv(e) == pc[e] \in Locked <=> lockHolder = e

(* A step is only reached by the commands that have it.                    *)
CommandInv(e) ==
  /\ Founding(e) \/ Editing(e) => cmd[e].target \in Revision
  /\ cmd[e].op = "create" => cmd[e].target = Starter
  /\ cmd[e].op = "import" => OriginOf[cmd[e].target] # None
  /\ pc[e] \in Publishing => Founding(e) \/ Editing(e)
  /\ pc[e] = "reply" => cmd[e].op = "restore"

(* What the checks established still holds when the head is replaced.      *)
BaseInv(e) == pc[e] \in Publishing =>
  /\ Founding(e) => head = None
  /\ Editing(e) => /\ head # None
                   /\ head = opened[e]
                   /\ OriginOf[cmd[e].target] = OriginOf[head]
  /\ OriginVerifies(cmd[e].target)

(* A revision is on disk before the head names it.                         *)
TargetInv(e) ==
  /\ pc[e] \in {"unlink", "head"} => cmd[e].target \in revisions
  /\ pc[e] = "reply" => head = cmd[e].target

(* The publisher's temporary file is there, and its entry was within the   *)
(* limit when it was created.                                              *)
TempInv(e) ==
  /\ pc[e] \in {"link", "unlink"} => tempFiles >= 1
  /\ pc[e] = "link" => Entries <= HistoryLimit

EditorInv(e) == LockInv(e) /\ CommandInv(e) /\ BaseInv(e) /\ TargetInv(e) /\ TempInv(e)

StoreInv ==
  /\ TypeOK
  /\ \A e \in Editor : EditorInv(e)
  /\ HeadReadable
  /\ HistoryBounded

EditorStep(e) == Begin(e) \/ Work(e) \/ Kill(e)

-----------------------------------------------------------------------------
(* The directory's entries can be counted.                                 *)
LEMMA EntriesType ==
  ASSUME revisions \subseteq Revision, tempFiles \in Nat
  PROVE  /\ IsFiniteSet(revisions)
         /\ Cardinality(revisions) \in Nat
         /\ Entries = Cardinality(revisions) + tempFiles
<1>1. IsFiniteSet(revisions)
  BY StoreAssumption, FS_Subset
<1>2. Cardinality(revisions) \in Nat
  BY <1>1, FS_CardinalityType
<1> QED
  BY <1>1, <1>2 DEF Entries

(* Adding a file to a directory adds at most one entry to it.              *)
LEMMA OneMoreEntry ==
  ASSUME NEW S, IsFiniteSet(S), NEW x
  PROVE  Cardinality(S \cup {x}) <= Cardinality(S) + 1
<1>1. Cardinality(S) \in Nat
  BY FS_CardinalityType
<1>2. Cardinality(S \cup {x}) = IF x \in S THEN Cardinality(S) ELSE Cardinality(S) + 1
  BY FS_AddElement
<1> QED
  BY <1>1, <1>2

(* An editor's step leaves every other editor alone, takes the lock only   *)
(* when it is free, gives up no lock but its own, and changes the files    *)
(* only while it holds the lock.                                           *)
LEMMA StepFrame ==
  ASSUME StoreInv, NEW e \in Editor, EditorStep(e)
  PROVE  /\ \A f \in Editor \ {e} :
              /\ pc'[f] = pc[f]
              /\ cmd'[f] = cmd[f]
              /\ opened'[f] = opened[f]
              /\ lockHolder' = f <=> lockHolder = f
         /\ pc[e] \notin Locked => UNCHANGED storeVars
<1> USE StoreAssumption DEF StoreInv, TypeOK, EditorInv, LockInv, Locked
<1>1. CASE Begin(e)
  BY <1>1 DEF Begin, StartCreate, StartList, StartInspect, StartImport, StartSave,
              StartRestore, Start
<1>2. CASE TakeLock(e) \/ LockBusy(e) \/ InspectHead(e) \/ InspectRefused(e)
  BY <1>2 DEF TakeLock, LockBusy, InspectHead, InspectRefused, Goto, Finish
<1>3. CASE Check(e)
  <2>1. pc[e] = "check" /\ lockHolder = e
    BY <1>3 DEF Check
  <2>2. UNCHANGED lockHolder \/ lockHolder' = None
    BY <1>3 DEF Check, CheckCreate, ImportStudy, ImportFails, CheckSave, CheckRestore,
                CheckRefused, ListHistory, LeaveLocked
  <2>3. Goto(e, "publish") \/ Goto(e, "imported") \/ Goto(e, "head") \/ Finish(e)
    BY <1>3 DEF Check, CheckCreate, ImportStudy, ImportFails, CheckSave, CheckRestore,
                CheckRefused, ListHistory, LeaveLocked
  <2>4. UNCHANGED opened
    BY <1>3 DEF Check
  <2> QED
    BY <2>1, <2>2, <2>3, <2>4 DEF Goto, Finish
<1>4. CASE ImportConfirmed(e) \/ ImportCancelled(e) \/ AlreadyRetained(e) \/ HistoryFull(e)
           \/ WriteTemp(e) \/ WriteFails(e) \/ LinkRevision(e) \/ UnlinkTemp(e)
  BY <1>4 DEF ImportConfirmed, ImportCancelled, AlreadyRetained, HistoryFull, WriteTemp,
              WriteFails, LinkRevision, UnlinkTemp, Goto, Finish, LeaveLocked
<1>5. CASE ReplaceHead(e) \/ HeadWriteFails(e) \/ ReplyRestored(e) \/ Unlock(e)
  BY <1>5 DEF ReplaceHead, HeadWriteFails, ReplyRestored, Unlock, Goto, Finish, LeaveLocked
<1>6. CASE Kill(e)
  BY <1>6 DEF Kill, ReleaseAtExit, Finish
<1> QED
  BY <1>1, <1>2, <1>3, <1>4, <1>5, <1>6 DEF EditorStep, Work

(* Hence the editors that do not take the step keep what they rely on:     *)
(* nobody changes a file under the lock's holder.                          *)
LEMMA OthersKept ==
  ASSUME StoreInv, NEW e \in Editor, EditorStep(e), NEW f \in Editor \ {e}
  PROVE  EditorInv(f)'
<1>1. EditorInv(f) /\ LockInv(e)
  BY DEF StoreInv, EditorInv
<1>2. /\ pc'[f] = pc[f] /\ cmd'[f] = cmd[f] /\ opened'[f] = opened[f]
      /\ lockHolder' = f <=> lockHolder = f
  BY StepFrame
<1>3. pc[f] \in Locked => UNCHANGED storeVars
  BY <1>1, StepFrame DEF EditorInv, LockInv
<1>4. LockInv(f)' /\ CommandInv(f)'
  BY <1>1, <1>2 DEF EditorInv, LockInv, CommandInv, Founding, Editing
<1>5. BaseInv(f)'
  BY <1>1, <1>2, <1>3
  DEF EditorInv, BaseInv, OriginVerifies, Founding, Editing, Publishing, Locked, storeVars
<1>6. TargetInv(f)'
  BY <1>1, <1>2, <1>3 DEF EditorInv, TargetInv, Locked, storeVars
<1>7. TempInv(f)'
  BY <1>1, <1>2, <1>3 DEF EditorInv, TempInv, Locked, storeVars, Entries
<1> QED
  BY <1>4, <1>5, <1>6, <1>7 DEF EditorInv

-----------------------------------------------------------------------------
(* The editor that takes the step.                                         *)

(* Starting a command, being done and being killed: the editor is outside  *)
(* the lock, and no part of its invariant speaks of such steps.            *)
LEMMA OutsideKept ==
  ASSUME StoreInv, NEW e \in Editor,
         Begin(e) \/ LockBusy(e) \/ ImportCancelled(e) \/ HistoryFull(e) \/ WriteFails(e)
           \/ HeadWriteFails(e) \/ ReplyRestored(e) \/ Unlock(e) \/ InspectHead(e)
           \/ InspectRefused(e) \/ Kill(e)
  PROVE  EditorInv(e)'
<1>1. EditorInv(e) /\ TypeOK
  BY DEF StoreInv
<1>2. /\ pc'[e] \in {"idle", "lock", "inspect"}
      /\ lockHolder' # e
  <2> USE StoreAssumption, <1>1 DEF EditorInv, LockInv, Locked, TypeOK
  <2>1. CASE Begin(e)
    BY <2>1 DEF Begin, StartCreate, StartList, StartInspect, StartImport, StartSave,
                StartRestore, Start
  <2>2. CASE LockBusy(e) \/ InspectHead(e) \/ InspectRefused(e)
    BY <2>2 DEF LockBusy, InspectHead, InspectRefused, Finish
  <2>3. CASE ImportCancelled(e) \/ HistoryFull(e) \/ WriteFails(e) \/ HeadWriteFails(e)
             \/ ReplyRestored(e) \/ Unlock(e)
    BY <2>3 DEF ImportCancelled, HistoryFull, WriteFails, HeadWriteFails, ReplyRestored,
                Unlock, Goto, LeaveLocked, Finish
  <2>4. CASE Kill(e)
    BY <2>4 DEF Kill, ReleaseAtExit, Finish
  <2> QED
    BY <2>1, <2>2, <2>3, <2>4
<1>3. CommandInv(e)'
  <2> USE StoreAssumption, <1>1, <1>2 DEF EditorInv, CommandInv, Founding, Editing, Publishing, TypeOK
  <2>1. CASE Begin(e)
    BY <2>1 DEF Begin, StartCreate, StartList, StartInspect, StartImport, StartSave,
                StartRestore, Start
  <2>2. CASE Unlock(e)
    BY <2>2 DEF Unlock, Goto
  <2>3. CASE Finish(e)
    BY <2>3 DEF Finish, NoCommand
  <2> QED
    BY <2>1, <2>2, <2>3
    DEF LockBusy, InspectHead, InspectRefused, ImportCancelled, HistoryFull, WriteFails,
        HeadWriteFails, ReplyRestored, LeaveLocked, Kill
<1>4. LockInv(e)' /\ BaseInv(e)' /\ TargetInv(e)' /\ TempInv(e)'
  BY <1>2 DEF LockInv, Locked, BaseInv, Publishing, TargetInv, TempInv
<1> QED
  BY <1>3, <1>4 DEF EditorInv

(* The checks under the lock establish what the publication relies on: the *)
(* base is the head, the target keeps its origin, an imported attachment   *)
(* is on disk.                                                             *)
LEMMA CheckKept ==
  ASSUME StoreInv, NEW e \in Editor, Check(e)
  PROVE  EditorInv(e)'
<1>1. /\ EditorInv(e) /\ TypeOK /\ HeadReadable
      /\ pc[e] = "check" /\ lockHolder = e
  BY DEF StoreInv, EditorInv, LockInv, Locked, Check
<1> USE StoreAssumption, <1>1
    DEF EditorInv, LockInv, CommandInv, BaseInv, TargetInv, TempInv, OriginVerifies, Publishing, Locked,
        Founding, Editing, TypeOK
<1>2. CASE CheckCreate(e)
  BY <1>2 DEF Check, CheckCreate, CanCreate, Goto
<1>3. CASE ImportStudy(e)
  BY <1>3 DEF Check, ImportStudy, CanCreate, Goto
<1>4. CASE CheckSave(e)
  BY <1>4 DEF Check, CheckSave, CanSave, PreservesOrigin, Readable, OriginVerifies, Goto
<1>5. CASE CheckRestore(e)
  BY <1>5 DEF Check, CheckRestore, CanRestore, PreservesOrigin, Readable, OriginVerifies, Goto
<1>6. CASE ImportFails(e) \/ CheckRefused(e) \/ ListHistory(e)
  BY <1>6 DEF Check, ImportFails, CheckRefused, ListHistory, LeaveLocked, Finish, NoCommand
<1> QED
  BY <1>2, <1>3, <1>4, <1>5, <1>6 DEF Check

(* The steps of the publication hand on what the checks established, the   *)
(* temporary file and the linked revision added.                           *)
LEMMA PublisherKept ==
  ASSUME StoreInv, NEW e \in Editor,
         TakeLock(e) \/ ImportConfirmed(e) \/ AlreadyRetained(e) \/ WriteTemp(e)
           \/ LinkRevision(e) \/ UnlinkTemp(e) \/ ReplaceHead(e)
  PROVE  EditorInv(e)'
<1>1. EditorInv(e) /\ TypeOK
  BY DEF StoreInv
<1> USE StoreAssumption, <1>1
    DEF EditorInv, LockInv, CommandInv, BaseInv, TargetInv, TempInv, OriginVerifies, Publishing, Locked,
        Founding, Editing, TypeOK, storeVars
<1>2. CASE TakeLock(e)
  BY <1>2 DEF TakeLock, Goto
<1>3. CASE ImportConfirmed(e)
  BY <1>3 DEF ImportConfirmed, Goto
<1>4. CASE AlreadyRetained(e)
  BY <1>4 DEF AlreadyRetained, Goto
<1>5. CASE WriteTemp(e)
  <2>1. tempFiles' >= 1 /\ Entries' <= HistoryLimit
    BY <1>5, EntriesType DEF WriteTemp, RoomForRevision, Entries
  <2> QED
    BY <1>5, <2>1 DEF WriteTemp, Goto
<1>6. CASE LinkRevision(e)
  BY <1>6 DEF LinkRevision, Goto
<1>7. CASE UnlinkTemp(e)
  BY <1>7 DEF UnlinkTemp, Goto
<1>8. CASE ReplaceHead(e)
  BY <1>8 DEF ReplaceHead, Goto
<1> QED
  BY <1>2, <1>3, <1>4, <1>5, <1>6, <1>7, <1>8

-----------------------------------------------------------------------------
(* The files.                                                              *)

(* No step of an editor spoils the shape of a variable.                    *)
LEMMA TypeKept ==
  ASSUME StoreInv, NEW e \in Editor, EditorStep(e)
  PROVE  TypeOK'
<1>1. EditorInv(e) /\ TypeOK
  BY DEF StoreInv
<1> USE StoreAssumption, <1>1 DEF TypeOK, Step, Locked, Command, Op, storeVars, NoCommand
<1>2. CASE Begin(e)
  BY <1>2 DEF Begin, StartCreate, StartList, StartInspect, StartImport, StartSave,
              StartRestore, Start
<1>3. CASE TakeLock(e) \/ LockBusy(e) \/ InspectHead(e) \/ InspectRefused(e)
  <2>1. CASE TakeLock(e)
    BY <2>1 DEF TakeLock, Goto
  <2>2. CASE LockBusy(e)
    BY <2>2 DEF LockBusy, Finish
  <2>3. CASE InspectRefused(e)
    BY <2>3 DEF InspectRefused, Finish
  <2>4. CASE InspectHead(e)
    BY <2>4 DEF InspectHead, Finish
  <2> QED
    BY <1>3, <2>1, <2>2, <2>3, <2>4
<1>4. CASE Check(e)
  <2>1. origins' \subseteq Origin
    BY <1>4 DEF Check, CheckCreate, ImportStudy, ImportFails, CheckSave, CheckRestore,
                CheckRefused, ListHistory, EditorInv, CommandInv, Founding, Origin
  <2>2. lockHolder' \in Editor \cup {None}
    BY <1>4 DEF Check, CheckCreate, ImportStudy, ImportFails, CheckSave, CheckRestore,
                CheckRefused, ListHistory, LeaveLocked
  <2>3. Goto(e, "publish") \/ Goto(e, "imported") \/ Goto(e, "head") \/ Finish(e)
    BY <1>4 DEF Check, CheckCreate, ImportStudy, ImportFails, CheckSave, CheckRestore,
                CheckRefused, ListHistory, LeaveLocked
  <2> QED
    BY <1>4, <2>1, <2>2, <2>3, SMTT(30) DEF Check, Goto, Finish
<1>5. CASE ImportConfirmed(e) \/ ImportCancelled(e) \/ AlreadyRetained(e) \/ HistoryFull(e)
  <2>1. CASE ImportConfirmed(e)
    BY <2>1 DEF ImportConfirmed, Goto
  <2>2. CASE ImportCancelled(e)
    BY <2>2 DEF ImportCancelled, Finish, LeaveLocked
  <2>3. CASE AlreadyRetained(e)
    BY <2>3 DEF AlreadyRetained, Goto, Finish, LeaveLocked
  <2>4. CASE HistoryFull(e)
    BY <2>4 DEF HistoryFull, Finish, LeaveLocked
  <2> QED
    BY <1>5, <2>1, <2>2, <2>3, <2>4
<1>6. CASE WriteTemp(e) \/ WriteFails(e) \/ LinkRevision(e) \/ UnlinkTemp(e)
  <2>1. CASE WriteTemp(e)
    BY <2>1 DEF WriteTemp, Goto, EditorInv, TempInv, CommandInv, Publishing
  <2>2. CASE WriteFails(e)
    BY <2>2 DEF WriteFails, Finish, LeaveLocked, EditorInv, TempInv
  <2>3. CASE LinkRevision(e)
    BY <2>3 DEF LinkRevision, Goto, EditorInv, TempInv, CommandInv, Publishing
  <2>4. CASE UnlinkTemp(e)
    BY <2>4 DEF UnlinkTemp, Goto, EditorInv, TempInv
  <2> QED
    BY <1>6, <2>1, <2>2, <2>3, <2>4
<1>7. CASE ReplaceHead(e) \/ HeadWriteFails(e) \/ ReplyRestored(e) \/ Unlock(e)
  <2>1. CASE ReplaceHead(e)
    BY <2>1 DEF ReplaceHead, Goto
  <2>2. CASE HeadWriteFails(e)
    BY <2>2 DEF HeadWriteFails, Finish, LeaveLocked
  <2>3. CASE ReplyRestored(e)
    BY <2>3 DEF ReplyRestored, Finish, LeaveLocked
  <2>4. CASE Unlock(e)
    BY <2>4 DEF Unlock, Goto
  <2> QED
    BY <1>7, <2>1, <2>2, <2>3, <2>4
<1>8. CASE Kill(e)
  BY <1>8 DEF Kill, ReleaseAtExit, Finish
<1> QED
  BY <1>2, <1>3, <1>4, <1>5, <1>6, <1>7, <1>8 DEF EditorStep, Work

(* A head that can be read back stays so: files are only added, and the    *)
(* head moves to a revision published before it.                           *)
LEMMA HeadKept ==
  ASSUME StoreInv, NEW e \in Editor, EditorStep(e)
  PROVE  HeadReadable'
<1>1. EditorInv(e) /\ TypeOK /\ HeadReadable
  BY DEF StoreInv
<1> USE StoreAssumption, <1>1 DEF HeadReadable, OriginVerifies, Readable
<1>2. revisions \subseteq revisions' /\ origins \subseteq origins'
  BY DEF EditorStep, Begin, StartCreate, StartList, StartInspect, StartImport, StartSave,
         StartRestore, Start, Work, TakeLock, LockBusy, Check, CheckCreate, ImportStudy,
         ImportFails, CheckSave, CheckRestore, CheckRefused, ListHistory, ImportConfirmed,
         ImportCancelled, AlreadyRetained, HistoryFull, WriteTemp, WriteFails, LinkRevision,
         UnlinkTemp, ReplaceHead, HeadWriteFails, ReplyRestored, Unlock, InspectHead,
         InspectRefused, Kill, storeVars
<1>3. CASE ReplaceHead(e)
  BY <1>3 DEF ReplaceHead, EditorInv, BaseInv, TargetInv, CommandInv, Publishing
<1>4. CASE ~ReplaceHead(e)
  <2>1. head' = head
    BY <1>4
    DEF EditorStep, Begin, StartCreate, StartList, StartInspect, StartImport, StartSave,
        StartRestore, Start, Work, TakeLock, LockBusy, Check, ImportConfirmed,
        ImportCancelled, AlreadyRetained, HistoryFull, WriteTemp, WriteFails, LinkRevision,
        UnlinkTemp, HeadWriteFails, ReplyRestored, Unlock, InspectHead, InspectRefused,
        Kill, storeVars
  <2> QED
    BY <1>2, <2>1
<1> QED
  BY <1>3, <1>4

(* A temporary entry is made below the limit; the link that follows is the *)
(* only step that goes one above it, and the directory is full then.       *)
LEMMA BoundKept ==
  ASSUME StoreInv, NEW e \in Editor, EditorStep(e)
  PROVE  HistoryBounded'
<1>1. EditorInv(e) /\ TypeOK /\ HistoryBounded
  BY DEF StoreInv
<1>2. /\ IsFiniteSet(revisions)
      /\ Cardinality(revisions) \in Nat
      /\ Entries = Cardinality(revisions) + tempFiles
      /\ Entries' = Cardinality(revisions') + tempFiles'
  BY <1>1, EntriesType DEF TypeOK, Entries
<1> USE StoreAssumption, <1>1, <1>2 DEF TypeOK, HistoryBounded
<1>3. CASE WriteTemp(e)
  BY <1>3 DEF WriteTemp, RoomForRevision
<1>4. CASE WriteFails(e) \/ UnlinkTemp(e)
  BY <1>4 DEF WriteFails, UnlinkTemp, EditorInv, TempInv
<1>5. CASE LinkRevision(e)
  <2>0. revisions' = revisions \cup {cmd[e].target}
    BY <1>5 DEF LinkRevision
  <2>1. Cardinality(revisions') <= Cardinality(revisions) + 1
    BY <2>0, OneMoreEntry
  <2>2. tempFiles >= 1 /\ Entries <= HistoryLimit /\ tempFiles' = tempFiles
    BY <1>5 DEF LinkRevision, EditorInv, TempInv
  <2>3. Cardinality(revisions') \in Nat
    BY <2>0, FS_AddElement, FS_CardinalityType
  <2> QED
    BY <2>1, <2>2, <2>3
<1>6. CASE ~(WriteTemp(e) \/ WriteFails(e) \/ UnlinkTemp(e) \/ LinkRevision(e))
  <2>1. UNCHANGED <<revisions, tempFiles>>
    BY <1>6
    DEF EditorStep, Begin, StartCreate, StartList, StartInspect, StartImport, StartSave,
        StartRestore, Start, Work, TakeLock, LockBusy, Check, ImportConfirmed,
        ImportCancelled, AlreadyRetained, HistoryFull, ReplaceHead, HeadWriteFails,
        ReplyRestored, Unlock, InspectHead, InspectRefused, Kill, storeVars
  <2> QED
    BY <2>1
<1> QED
  BY <1>3, <1>4, <1>5, <1>6

-----------------------------------------------------------------------------
(* The invariant.                                                          *)

(* An untouched directory satisfies the invariant.                         *)
LEMMA InitEstablishes == Init => StoreInv
<1> SUFFICES ASSUME Init PROVE StoreInv
  OBVIOUS
<1> USE StoreAssumption DEF Init
<1>1. TypeOK
  BY DEF TypeOK, Step, Locked, Command, Op, NoCommand
<1>2. HistoryBounded
  BY FS_EmptySet DEF HistoryBounded, Entries
<1>3. ASSUME NEW e \in Editor PROVE EditorInv(e)
  BY DEF EditorInv, LockInv, CommandInv, BaseInv, TargetInv, TempInv, OriginVerifies, Publishing, Locked,
         Founding, Editing, NoCommand
<1> QED
  BY <1>1, <1>2, <1>3 DEF StoreInv, HeadReadable

(* Any step of any editor keeps the invariant.                             *)
LEMMA StepKeeps ==
  ASSUME StoreInv, NEW e \in Editor, EditorStep(e)
  PROVE  StoreInv'
<1>1. EditorInv(e)'
  BY OutsideKept, CheckKept, PublisherKept DEF EditorStep, Work
<1>2. \A f \in Editor \ {e} : EditorInv(f)'
  BY OthersKept
<1> QED
  BY <1>1, <1>2, TypeKept, HeadKept, BoundKept DEF StoreInv

(* So does a step in which the project does not change.                    *)
LEMMA StutterKeeps == StoreInv /\ UNCHANGED vars => StoreInv'
<1> SUFFICES ASSUME StoreInv, UNCHANGED vars PROVE StoreInv'
  OBVIOUS
<1>1. TypeOK' /\ HeadReadable' /\ HistoryBounded'
  BY DEF StoreInv, vars, TypeOK, HeadReadable, OriginVerifies, Readable, OriginVerifies, HistoryBounded, Entries
<1>2. ASSUME NEW e \in Editor PROVE EditorInv(e)'
  BY DEF StoreInv, vars, EditorInv, LockInv, CommandInv, BaseInv, TargetInv, TempInv,
         OriginVerifies, Founding, Editing, Entries
<1> QED
  BY <1>1, <1>2 DEF StoreInv

(* Between any two file operations of any number of concurrent commands,   *)
(* what the lock's holder established still holds.                         *)
THEOREM StoreInvariant == Spec => []StoreInv
<1>1. StoreInv /\ [Next]_vars => StoreInv'
  BY StepKeeps, StutterKeeps DEF Next, EditorStep
<1> QED
  BY <1>1, InitEstablishes, PTL DEF Spec

(* Every variable of the project store keeps its type.                     *)
THEOREM TypeCorrect == Spec => []TypeOK
<1>1. StoreInv => TypeOK
  BY DEF StoreInv
<1> QED
  BY <1>1, StoreInvariant, PTL

(* The head named by project.json can be read back at every moment, however *)
(* many processes are killed: publish_revision() and import_linear() write *)
(* what the head will need first.                                          *)
THEOREM HeadIsReadable == Spec => []HeadReadable
<1>1. StoreInv => HeadReadable
  BY DEF StoreInv
<1> QED
  BY <1>1, StoreInvariant, PTL

(* The revision history keeps its limit, leftovers of killed processes     *)
(* included but for one entry.                                             *)
THEOREM HistoryIsBounded == Spec => []HistoryBounded
<1>1. StoreInv => HistoryBounded
  BY DEF StoreInv
<1> QED
  BY <1>1, StoreInvariant, PTL

-----------------------------------------------------------------------------
(* What a step may do to the head, and the abstract history.               *)

(* Only ReplaceHead, LinkRevision and the two answers touch what the       *)
(* abstract history sees.                                                  *)
LEMMA HiddenSteps ==
  ASSUME NEW e \in Editor, EditorStep(e),
         ~LinkRevision(e), ~ReplaceHead(e), ~ReplyRestored(e), ~InspectHead(e)
  PROVE  UNCHANGED <<head, revisions, opened>>
BY DEF EditorStep, Begin, StartCreate, StartList, StartInspect, StartImport, StartSave,
       StartRestore, Start, Work, TakeLock, LockBusy, Check, ImportConfirmed,
       ImportCancelled, AlreadyRetained, HistoryFull, WriteTemp, WriteFails, UnlinkTemp,
       HeadWriteFails, Unlock, InspectRefused, Kill, storeVars

(* A new head is a retained revision; it founds the project or replaces    *)
(* the revision its editor opened by one of the same origin.               *)
LEMMA HeadStep ==
  ASSUME StoreInv, NEW e \in Editor, ReplaceHead(e)
  PROVE  /\ lockHolder = e
         /\ cmd[e].target \in revisions
         /\ cmd[e].target \in Revision
         /\ head # None => /\ opened[e] = head
                           /\ OriginOf[cmd[e].target] = OriginOf[head]
BY DEF StoreInv, EditorInv, LockInv, CommandInv, BaseInv, TargetInv, Publishing, Locked,
       ReplaceHead

(* Every step that moves the head is one of those.                         *)
LEMMA HeadMoves ==
  ASSUME StoreInv, [Next]_vars, head' # head
  PROVE  \E e \in Editor : ReplaceHead(e)
<1>1. PICK e \in Editor : EditorStep(e)
  BY DEF Next, EditorStep, vars
<1>2. ~(LinkRevision(e) \/ ReplyRestored(e) \/ InspectHead(e))
  BY DEF LinkRevision, ReplyRestored, InspectHead, storeVars
<1> QED
  BY <1>1, <1>2, HiddenSteps

(* save, restore, create and import-linear never replace an edit their     *)
(* editor has not seen, for any number of editors in any interleaving.     *)
THEOREM NoEditIsLost == Spec => NoLostEdit
<1>1. ASSUME StoreInv, [Next]_vars
      PROVE  [head # None /\ head' # head =>
                \E e \in Editor : lockHolder = e /\ opened[e] = head]_vars
  BY <1>1, HeadMoves, HeadStep
<1> QED
  BY <1>1, StoreInvariant, PTL DEF Spec, NoLostEdit

(* preserve_origin(), checked before the publication, still holds at the   *)
(* publication: a project never gains, loses or swaps its attachment.      *)
THEOREM AttachmentIsKept == Spec => AttachmentKept
<1>1. ASSUME StoreInv, [Next]_vars
      PROVE  [head # None => head' # None /\ OriginOf[head'] = OriginOf[head]]_vars
  <2>1. CASE head' = head
    BY <2>1
  <2>2. CASE head' # head
    <3>1. PICK e \in Editor : ReplaceHead(e)
      BY <1>1, <2>2, HeadMoves
    <3>2. head' = cmd[e].target
      BY <3>1 DEF ReplaceHead
    <3> QED
      BY <1>1, <3>1, <3>2, HeadStep, StoreAssumption
  <2> QED
    BY <2>1, <2>2
<1> QED
  BY <1>1, StoreInvariant, PTL DEF Spec, AttachmentKept

(* Every step of the store is a step of the compare-and-set history or     *)
(* leaves it alone.                                                        *)
LEMMA HistoryStep ==
  ASSUME StoreInv, NEW e \in Editor, EditorStep(e)
  PROVE  History!Next \/ UNCHANGED History!vars
<1> USE DEF History!Next, History!vars
<1>1. CASE LinkRevision(e)
  <2>1. cmd[e].target \in Revision
    BY <1>1 DEF StoreInv, EditorInv, CommandInv, Publishing, LinkRevision
  <2>2. History!Retain(cmd[e].target)
    BY <1>1 DEF LinkRevision, History!Retain
  <2> QED
    BY <2>1, <2>2
<1>2. CASE ReplaceHead(e)
  <2>1. /\ head' = cmd[e].target
        /\ UNCHANGED <<revisions, opened>>
    BY <1>2 DEF ReplaceHead
  <2>2. CASE head = None
    BY <1>2, <2>1, <2>2, HeadStep DEF History!Found
  <2>3. CASE head # None
    BY <1>2, <2>1, <2>3, HeadStep DEF History!CompareAndSet
  <2> QED
    BY <2>2, <2>3
<1>3. CASE ReplyRestored(e)
  <2>1. head = cmd[e].target /\ head # None
    BY <1>3, StoreAssumption
    DEF StoreInv, EditorInv, TargetInv, CommandInv, Editing, ReplyRestored
  <2> QED
    BY <1>3, <2>1 DEF ReplyRestored, storeVars, History!Open
<1>4. CASE InspectHead(e)
  BY <1>4 DEF InspectHead, storeVars, History!Open
<1>5. CASE ~(LinkRevision(e) \/ ReplaceHead(e) \/ ReplyRestored(e) \/ InspectHead(e))
  BY <1>5, HiddenSteps
<1> QED
  BY <1>1, <1>2, <1>3, <1>4, <1>5

(* Files, temporary entries, lock and killed processes implement a history *)
(* that is changed by compare-and-set alone.                               *)
THEOREM StoreImplementsHistory == Spec => EditsAreCompareAndSet
<1>1. Init => History!Init
  BY DEF Init, History!Init
<1>2. StoreInv /\ [Next]_vars => [History!Next]_(History!vars)
  <2>1. ASSUME StoreInv, Next PROVE [History!Next]_(History!vars)
    BY <2>1, HistoryStep DEF Next, EditorStep
  <2>2. ASSUME UNCHANGED vars PROVE UNCHANGED History!vars
    BY <2>2 DEF vars, History!vars
  <2> QED
    BY <2>1, <2>2
<1> QED
  BY <1>1, <1>2, StoreInvariant, PTL DEF Spec, EditsAreCompareAndSet, History!Spec
=============================================================================
