---------------------------- MODULE ProjectStore ----------------------------
(***************************************************************************)
(* The edit side of a galata project directory: the commands create,       *)
(* import-linear, save, restore, revisions and inspect, each a process of  *)
(* its own, over project.json (head), revisions/, origins/ and             *)
(* project.lock. A step is one file-system operation another process can   *)
(* observe; a process may be killed between any two of them.               *)
(***************************************************************************)
EXTENDS Integers, FiniteSets

CONSTANTS
  Editor,         \* callers (desktop windows, shells) that run one command at a time
  Revision,       \* draft contents, named by their digest
  Starter,        \* the content of default_draft()
  OriginOf,       \* origin_sha256 of each draft, None for a v1 draft
  HistoryLimit,   \* kHistoryEntries, 1024 in the code
  None

Origin == {OriginOf[r] : r \in Revision} \ {None}

ASSUME StoreAssumption ==
  /\ None \notin Revision
  /\ None \notin Editor
  /\ IsFiniteSet(Revision)
  /\ Starter \in Revision
  /\ OriginOf = [r \in Revision |-> OriginOf[r]]
  /\ OriginOf[Starter] = None
  /\ HistoryLimit \in Nat \ {0}

VARIABLES
  head,           \* the revision project.json names, None without project.json
  revisions,      \* revisions/<digest>.json files; immutable, so named by content
  tempFiles,      \* number of .galata-write-* entries in revisions/
  origins,        \* origins/<digest>.json files
  rootEmpty,      \* nothing at all in the project directory
  lockHolder,     \* the process that holds flock on project.lock
  pc,             \* next step of each editor's running command, or "idle"
  cmd,            \* operation and argument of that command
  opened          \* revision of the view each editor last adopted

vars == <<head, revisions, tempFiles, origins, rootEmpty, lockHolder, pc, cmd, opened>>

storeVars == <<head, revisions, tempFiles, origins>>

Op == {"create", "import", "save", "restore", "list", "inspect"}

(* Steps taken while the project lock is held.                             *)
Locked == {"check", "imported", "publish", "link", "unlink", "head", "reply", "unlock"}

Step == Locked \cup {"idle", "lock", "inspect"}

Command == [op : Op, target : Revision \cup {None}]

-----------------------------------------------------------------------------
(* Helpers                                                                 *)

NoCommand == [op |-> "inspect", target |-> None]

Goto(e, step) ==
  /\ pc' = [pc EXCEPT ![e] = step]
  /\ UNCHANGED cmd

Finish(e) ==
  /\ pc' = [pc EXCEPT ![e] = "idle"]
  /\ cmd' = [cmd EXCEPT ![e] = NoCommand]

(* The process is done, or leaves with an error: its lock goes with it.    *)
LeaveLocked(e) ==
  /\ lockHolder' = None
  /\ Finish(e)

(* entries("revisions"): everything in the directory counts, a leftover    *)
(* temporary file included.                                                *)
Entries == Cardinality(revisions) + tempFiles

(* origin_at(): the attachment a draft binds is on disk and verifies.       *)
OriginVerifies(r) == OriginOf[r] \in origins \cup {None}

(* revision_at(): the file is there and so is the origin it binds.         *)
Readable(r) == r \in revisions /\ OriginVerifies(r)

PreservesSchemaOnly(current, selected) == (OriginOf[selected] = None) = (OriginOf[current] = None)

(* preserve_origin(): schema v2 is exactly "has an origin", so equal       *)
(* schemas and equal origins come down to equal attachments.               *)
PreservesOrigin(current, selected) == OriginOf[selected] = OriginOf[current]

-----------------------------------------------------------------------------
(* Starting a command                                                      *)

Start(e, step, op, target) ==
  /\ pc[e] = "idle"
  /\ pc' = [pc EXCEPT ![e] = step]
  /\ cmd' = [cmd EXCEPT ![e] = [op |-> op, target |-> target]]
  /\ UNCHANGED <<storeVars, rootEmpty, lockHolder, opened>>

(* create and import-linear look for a new or empty directory before they  *)
(* take the lock.                                                          *)
StartCreate(e) ==
  /\ rootEmpty
  /\ Start(e, "lock", "create", Starter)

StartImport(e, d) ==
  /\ rootEmpty
  /\ OriginOf[d] # None
  /\ Start(e, "lock", "import", d)

(* save passes the revision the editor opened as --expected-revision.      *)
StartSave(e, d) ==
  /\ opened[e] # None
  /\ Start(e, "lock", "save", d)

StartRestore(e, r) ==
  /\ opened[e] # None
  /\ Start(e, "lock", "restore", r)

StartList(e) == Start(e, "lock", "list", None)

(* inspect takes no lock.                                                  *)
StartInspect(e) == Start(e, "inspect", "inspect", None)

-----------------------------------------------------------------------------
(* The project lock: flock(LOCK_EX | LOCK_NB), tried once.                 *)

TakeLock(e) ==
  /\ pc[e] = "lock"
  /\ lockHolder = None
  /\ lockHolder' = e
  /\ rootEmpty' = FALSE
  /\ Goto(e, "check")
  /\ UNCHANGED <<storeVars, opened>>

(* flock without LOCK_NB would leave the caller waiting.                   *)
LockAwaited(e) == FALSE

LockBusy(e) ==
  /\ pc[e] = "lock"
  /\ lockHolder # None
  /\ rootEmpty' = FALSE
  /\ Finish(e)
  /\ UNCHANGED <<storeVars, lockHolder, opened>>

-----------------------------------------------------------------------------
(* Checks made under the lock before anything is written                   *)

CanCreate(e) == head = None

CanSaveStale(e) ==
  /\ Readable(opened[e])
  /\ PreservesOrigin(opened[e], cmd[e].target)

CanSave(e) ==
  /\ head = opened[e]
  /\ Readable(opened[e])
  /\ PreservesOrigin(opened[e], cmd[e].target)

CanRestoreAny(e) ==
  /\ head = opened[e]
  /\ PreservesOrigin(opened[e], cmd[e].target)

CanRestore(e) ==
  /\ head = opened[e]
  /\ Readable(opened[e])
  /\ Readable(cmd[e].target)
  /\ PreservesOrigin(opened[e], cmd[e].target)

CheckCreate(e) ==
  /\ cmd[e].op = "create"
  /\ CanCreate(e)
  /\ Goto(e, "publish")
  /\ UNCHANGED <<origins, lockHolder>>

(* The pipeline has run and the origin attachment is published.            *)
ImportStudy(e) ==
  /\ cmd[e].op = "import"
  /\ CanCreate(e)
  /\ origins' = origins \cup {OriginOf[cmd[e].target]}
  /\ Goto(e, "imported")
  /\ UNCHANGED lockHolder

(* The study is refused, its pipeline fails or is cancelled.               *)
ImportFails(e) ==
  /\ cmd[e].op = "import"
  /\ LeaveLocked(e)
  /\ UNCHANGED origins

CheckSave(e) ==
  /\ cmd[e].op = "save"
  /\ CanSave(e)
  /\ Goto(e, "publish")
  /\ UNCHANGED <<origins, lockHolder>>

(* restore renders its response here, before it moves the head.            *)
CheckRestore(e) ==
  /\ cmd[e].op = "restore"
  /\ CanRestore(e)
  /\ Goto(e, "head")
  /\ UNCHANGED <<origins, lockHolder>>

(* The project exists already, the editor is stale, a draft is unreadable  *)
(* or belongs to another origin.                                           *)
CheckRefused(e) ==
  /\ \/ cmd[e].op \in {"create", "import"} /\ ~CanCreate(e)
     \/ cmd[e].op = "save" /\ ~CanSave(e)
     \/ cmd[e].op = "restore"      \* or its response cannot be rendered
  /\ LeaveLocked(e)
  /\ UNCHANGED origins

(* revisions: the listing, or its refusal when there is no head or the     *)
(* directory is over the limit; nothing is written either way.             *)
ListHistory(e) ==
  /\ cmd[e].op = "list"
  /\ LeaveLocked(e)
  /\ UNCHANGED origins

Check(e) ==
  /\ pc[e] = "check"
  /\ \/ CheckCreate(e) \/ ImportStudy(e) \/ ImportFails(e) \/ CheckSave(e)
     \/ CheckRestore(e) \/ CheckRefused(e) \/ ListHistory(e)
  /\ UNCHANGED <<head, revisions, tempFiles, rootEmpty, opened>>

(* import-linear asks once more whether it was cancelled.                  *)
ImportConfirmed(e) ==
  /\ pc[e] = "imported"
  /\ Goto(e, "publish")
  /\ UNCHANGED <<storeVars, rootEmpty, lockHolder, opened>>

ImportCancelled(e) ==
  /\ pc[e] = "imported"
  /\ LeaveLocked(e)
  /\ UNCHANGED <<storeVars, rootEmpty, opened>>

-----------------------------------------------------------------------------
(* publish_revision: an immutable file by temporary, link and unlink       *)

RoomByOne == Entries <= HistoryLimit

RoomForRevision == Entries < HistoryLimit

AlreadyRetained(e) ==
  /\ pc[e] = "publish"
  /\ cmd[e].target \in revisions
  /\ Goto(e, "head")
  /\ UNCHANGED <<storeVars, rootEmpty, lockHolder, opened>>

HistoryFull(e) ==
  /\ pc[e] = "publish"
  /\ cmd[e].target \notin revisions
  /\ ~RoomForRevision
  /\ LeaveLocked(e)
  /\ UNCHANGED <<storeVars, rootEmpty, opened>>

WriteTempThenHead(e) ==
  /\ pc[e] = "publish"
  /\ cmd[e].target \notin revisions
  /\ RoomForRevision
  /\ tempFiles' = tempFiles + 1
  /\ Goto(e, "head")
  /\ UNCHANGED <<head, revisions, origins, rootEmpty, lockHolder, opened>>

WriteTempUncounted(e) ==
  /\ pc[e] = "publish"
  /\ cmd[e].target \notin revisions
  /\ RoomForRevision
  /\ Goto(e, "link")
  /\ UNCHANGED <<storeVars, rootEmpty, lockHolder, opened>>

WriteTemp(e) ==
  /\ pc[e] = "publish"
  /\ cmd[e].target \notin revisions
  /\ RoomForRevision
  /\ tempFiles' = tempFiles + 1
  /\ Goto(e, "link")
  /\ UNCHANGED <<head, revisions, origins, rootEmpty, lockHolder, opened>>

(* write, fsync or linkat fails: the temporary is removed, the command     *)
(* ends.                                                                   *)
WriteFails(e) ==
  /\ pc[e] = "link"
  /\ tempFiles' = tempFiles - 1
  /\ LeaveLocked(e)
  /\ UNCHANGED <<head, revisions, origins, rootEmpty, opened>>

LinkRevision(e) ==
  /\ pc[e] = "link"
  /\ revisions' = revisions \cup {cmd[e].target}
  /\ Goto(e, "unlink")
  /\ UNCHANGED <<head, tempFiles, origins, rootEmpty, lockHolder, opened>>

UnlinkTemp(e) ==
  /\ pc[e] = "unlink"
  /\ tempFiles' = tempFiles - 1
  /\ Goto(e, "head")
  /\ UNCHANGED <<head, revisions, origins, rootEmpty, lockHolder, opened>>

(* publish_head: project.json is replaced by one rename.                   *)
ReplaceHead(e) ==
  /\ pc[e] = "head"
  /\ head' = cmd[e].target
  /\ Goto(e, IF cmd[e].op = "restore" THEN "reply" ELSE "unlock")
  /\ UNCHANGED <<revisions, tempFiles, origins, rootEmpty, lockHolder, opened>>

HeadWriteFails(e) ==
  /\ pc[e] = "head"
  /\ LeaveLocked(e)
  /\ UNCHANGED <<storeVars, rootEmpty, opened>>

-----------------------------------------------------------------------------
(* The answer the caller gets                                              *)

(* restore answers, still under the lock, with the view of the revision it *)
(* selected.                                                               *)
ReplyRestored(e) ==
  /\ pc[e] = "reply"
  /\ opened' = [opened EXCEPT ![e] = cmd[e].target]
  /\ LeaveLocked(e)
  /\ UNCHANGED <<storeVars, rootEmpty>>

(* create, import-linear and save leave the scope of their lock first.     *)
Unlock(e) ==
  /\ pc[e] = "unlock"
  /\ lockHolder' = None
  /\ Goto(e, "inspect")
  /\ UNCHANGED <<storeVars, rootEmpty, opened>>

(* inspect shows whatever head is current by now; the editor adopts it.    *)
InspectHead(e) ==
  /\ pc[e] = "inspect"
  /\ head # None
  /\ Readable(head)
  /\ opened' = [opened EXCEPT ![e] = head]
  /\ Finish(e)
  /\ UNCHANGED <<storeVars, rootEmpty, lockHolder>>

InspectRefused(e) ==
  /\ pc[e] = "inspect"
  /\ head = None \/ ~Readable(head)
  /\ Finish(e)
  /\ UNCHANGED <<storeVars, rootEmpty, lockHolder, opened>>

-----------------------------------------------------------------------------
KeepAtExit(e) == lockHolder' = lockHolder

(* The process is killed: the system closes its lock, files stay as they   *)
(* are. What the editor has opened lives in the caller and survives.       *)
ReleaseAtExit(e) == lockHolder' = IF lockHolder = e THEN None ELSE lockHolder

Kill(e) ==
  /\ pc[e] # "idle"
  /\ ReleaseAtExit(e)
  /\ Finish(e)
  /\ UNCHANGED <<storeVars, rootEmpty, opened>>

-----------------------------------------------------------------------------
Init ==
  /\ head = None
  /\ revisions = {}
  /\ tempFiles = 0
  /\ origins = {}
  /\ rootEmpty = TRUE
  /\ lockHolder = None
  /\ pc = [e \in Editor |-> "idle"]
  /\ cmd = [e \in Editor |-> NoCommand]
  /\ opened = [e \in Editor |-> None]

Begin(e) ==
  \/ StartCreate(e) \/ StartList(e) \/ StartInspect(e)
  \/ \E d \in Revision : StartImport(e, d) \/ StartSave(e, d) \/ StartRestore(e, d)

(* One step of the command e is running.                                   *)
Work(e) ==
  \/ TakeLock(e) \/ LockBusy(e) \/ Check(e)
  \/ ImportConfirmed(e) \/ ImportCancelled(e)
  \/ AlreadyRetained(e) \/ HistoryFull(e)
  \/ WriteTemp(e) \/ WriteFails(e) \/ LinkRevision(e) \/ UnlinkTemp(e)
  \/ ReplaceHead(e) \/ HeadWriteFails(e)
  \/ ReplyRestored(e) \/ Unlock(e) \/ InspectHead(e) \/ InspectRefused(e)

Next == \E e \in Editor : Begin(e) \/ Work(e) \/ Kill(e)

(* Every running process is scheduled; nobody has to start a command, and  *)
(* nobody has to be killed.                                                *)
Fairness == \A e \in Editor : WF_vars(Work(e))

Spec == Init /\ [][Next]_vars

FairSpec == Spec /\ Fairness
-----------------------------------------------------------------------------
(* Properties                                                              *)

(* Every variable keeps its shape.                                         *)
TypeOK ==
  /\ head \in Revision \cup {None}
  /\ revisions \subseteq Revision
  /\ tempFiles \in Nat
  /\ origins \subseteq Origin
  /\ rootEmpty \in BOOLEAN
  /\ lockHolder \in Editor \cup {None}
  /\ pc \in [Editor -> Step]
  /\ cmd \in [Editor -> Command]
  /\ opened \in [Editor -> Revision \cup {None}]

(* Whatever is killed and wherever, project.json names a revision that is  *)
(* completely on disk together with the source attachment it binds: the    *)
(* order revision, then head, and origin, then revision, in                *)
(* publish_revision() and import_linear().                                 *)
HeadReadable == head # None => Readable(head)

(* publish_revision() keeps at most HistoryLimit revisions, and leftovers  *)
(* of killed processes never take the directory more than one entry over.  *)
HistoryBounded ==
  /\ Cardinality(revisions) <= HistoryLimit
  /\ Entries <= HistoryLimit + 1

(* The recovery protocol's claim that leftovers of a killed process do not *)
(* suppress the listing of valid revisions: with nobody at work in the     *)
(* project, entries("revisions") is not over the limit that makes it       *)
(* refuse.                                                                 *)
HistoryListable ==
  (head # None /\ \A e \in Editor : pc[e] = "idle") => Entries <= HistoryLimit

(* The head only ever moves away from the revision that the process moving *)
(* it has opened: no editor overwrites an edit it has not seen, although   *)
(* save prints the head it finds after its lock is gone.                   *)
NoLostEdit ==
  [][head # None /\ head' # head => \E e \in Editor : lockHolder = e /\ opened[e] = head]_vars

(* An imported project keeps its source attachment through every save and  *)
(* restore, and a synthetic one never acquires one.                        *)
AttachmentKept ==
  [][head # None => /\ head' # None
                    /\ OriginOf[head'] = OriginOf[head]]_vars

(* All of it at once: the files, the lock and the processes implement a    *)
(* compare-and-set history.                                                *)
History == INSTANCE EditHistory WITH retained <- revisions

EditsAreCompareAndSet == History!Spec

(* A command always returns: the lock is tried, never waited for.          *)
CommandsReturn == \A e \in Editor : pc[e] # "idle" ~> pc[e] = "idle"

(* The project lock always comes free again, the holder being killed       *)
(* included: no manual repair.                                             *)
LockComesFree == lockHolder # None ~> lockHolder = None
=============================================================================
