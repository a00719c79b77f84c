--------------------------- MODULE DesktopSession ---------------------------
(***************************************************************************)
(* Editor windows of the desktop application, each a process, over shared  *)
(* projects: unsaved drafts and pending editor text, one engine command at *)
(* a time whose reply replaces what is on the screen, a debounced recovery *)
(* file per project, crashes, and somebody else who saves through the      *)
(* command line. The engine is abstracted to its compare-and-set of the    *)
(* head. A revision is named by its content, and a draft by the revision   *)
(* it would be saved as; editor text by the draft it would be applied as.  *)
(* Drafts fit into the 8 MiB the recovery file may take.                   *)
(***************************************************************************)
EXTENDS Naturals

CONSTANTS
  Window,        \* processes of the application
  Project,       \* project directories
  Revision,      \* contents a project may have
  Template,      \* what a new project starts with
  None,
  MaxCommands,   \* bounds: commands to the engine; edits, crashes and saves
  MaxEvents      \* by somebody else, together

(* What a recovery file says: the revision on display, what the edits were *)
(* made on, the draft and the pending text.                                *)
Snapshot ==
  [base : Revision, basis : Revision, draft : Revision, text : Revision \cup {None}]

(* An engine process, and how far it has got.                              *)
Command ==
  [kind : {"load", "create", "save", "run", "reload", "revisions", "restore"},
   project : Project, base : Revision \cup {None}, draft : Revision \cup {None},
   basis : Revision \cup {None}, phase : {"sent", "done", "answered"},
   view : Revision \cup {None}]

ASSUME SessionAssumption ==
  /\ Template \in Revision
  /\ None \notin Revision \cup Project
  /\ None \notin Snapshot \cup Command
  /\ {MaxCommands, MaxEvents} \subseteq Nat

VARIABLES
  win,           \* each window: what it shows, and what of it is unsaved
  job,           \* the engine process a window has started
  head,          \* current revision of each project, None before it exists
  retained,      \* revisions a project has kept
  snapshot,      \* recovery file of each project
  contended,     \* projects that have been open in two windows at once
  spent          \* how much of each bound is used

vars == <<win, job, head, retained, snapshot, contended, spent>>
files == <<head, retained, snapshot>>

(*   revision   what the next save expects to replace                      *)
(*   basis      what the edits were made on, wherever they have been since *)
(*   text       contents of the JSON editors where they are not applied    *)
(*   timer      a recovery snapshot is due in 0.35 s                       *)
(*   review     the revision list on display, reviewed the one read in it  *)
(*   offer      the recovery file the modal question is about              *)
(*   consent    the user has chosen to discard unsaved changes             *)
Closed ==
  [on |-> FALSE, project |-> None, revision |-> None, basis |-> None, draft |-> None,
   dirty |-> FALSE, text |-> None, timer |-> FALSE, review |-> None, reviewed |-> None,
   offer |-> None, consent |-> FALSE]

Work(w) == win[w].dirty \/ win[w].text # None

(* The user can act: nothing modal, and no command, which disables every   *)
(* editor, drag and menu action until its reply is in.                     *)
Free(w) == win[w].on /\ win[w].offer = None /\ job[w] = None

Shows(w) == Free(w) /\ win[w].project # None

Set(w, state) == win' = [win EXCEPT ![w] = state]

Spend(what) ==
  /\ spent[what] < IF what = "commands" THEN MaxCommands ELSE MaxEvents
  /\ spent' = [spent EXCEPT ![what] = @ + 1]

Init ==
  /\ win = [w \in Window |-> Closed]
  /\ job = [w \in Window |-> None]
  /\ head \in [Project -> {None, Template}]
  /\ retained = [p \in Project |-> {head[p]} \ {None}]
  /\ snapshot = [p \in Project |-> None]
  /\ contended = {}
  /\ spent = [what \in {"commands", "events"} |-> 0]

-----------------------------------------------------------------------------
(* Editing                                                                 *)

(* Applying text is an edit of its own unless it changes nothing.          *)
Applied(s) ==
  IF s.text \in {None, s.draft} THEN [s EXCEPT !.text = None]
  ELSE [s EXCEPT !.text = None, !.draft = s.text, !.dirty = TRUE, !.timer = TRUE]

(* Adding, moving, wiring or deleting applies a pending property text      *)
(* first and leaves a pending simulation text alone.                       *)
EditDiagram(w, d) ==
  /\ Shows(w)
  /\ d # win[w].draft
  /\ Spend("events")
  /\ \E s \in {win[w], Applied(win[w])} :
       Set(w, [s EXCEPT !.draft = d, !.dirty = TRUE, !.timer = TRUE])
  /\ UNCHANGED <<job, files, contended>>

(* Text that reads like the draft again is no longer pending, and for that *)
(* no snapshot is scheduled.                                               *)
TypeText(w, t) ==
  /\ Shows(w)
  /\ t # win[w].text
  /\ Spend("events")
  /\ Set(w, IF t = win[w].draft THEN [win[w] EXCEPT !.text = None]
            ELSE [win[w] EXCEPT !.text = t, !.timer = TRUE])
  /\ UNCHANGED <<job, files, contended>>

ApplyText(w) ==
  /\ Shows(w)
  /\ win[w].text # None
  /\ Set(w, Applied(win[w]))
  /\ UNCHANGED <<job, files, contended, spent>>

(* Undo back to where nothing is unsaved; anything less than that looks    *)
(* like an edit.                                                           *)
UndoAll(w) ==
  /\ Shows(w)
  /\ Spend("events")
  /\ Set(w, [win[w] EXCEPT !.draft = win[w].revision, !.dirty = FALSE, !.text = None,
                           !.timer = TRUE])
  /\ UNCHANGED <<job, files, contended>>

-----------------------------------------------------------------------------
(* The recovery file                                                       *)

PersistedDraft(w) ==
  IF win[w].project = None THEN snapshot
  ELSE [snapshot EXCEPT ![win[w].project] =
          IF Work(w) THEN [base |-> win[w].revision, basis |-> win[w].basis,
                           draft |-> win[w].draft, text |-> None]
          ELSE None]

Persisted(w) ==
  IF win[w].project = None THEN snapshot
  ELSE [snapshot EXCEPT ![win[w].project] =
          IF Work(w) THEN [base |-> win[w].revision, basis |-> win[w].basis,
                           draft |-> win[w].draft, text |-> win[w].text]
          ELSE None]

(* The timer goes off while a command runs, but not during a question.     *)
Persist(w) ==
  /\ win[w].on /\ win[w].offer = None
  /\ win[w].timer
  /\ Set(w, [win[w] EXCEPT !.timer = FALSE])
  /\ snapshot' = Persisted(w)
  /\ UNCHANGED <<job, head, retained, contended, spent>>

Recover(w) ==
  /\ win[w].offer # None
  /\ LET o == win[w].offer IN
       Set(w, [win[w] EXCEPT !.draft = o.draft, !.basis = o.basis, !.dirty = TRUE,
                             !.text = o.text, !.offer = None])
  /\ UNCHANGED <<job, files, contended, spent>>

Decline(w) ==
  /\ win[w].offer # None
  /\ Set(w, [win[w] EXCEPT !.offer = None])
  /\ snapshot' = [snapshot EXCEPT ![win[w].project] = None]
  /\ UNCHANGED <<job, head, retained, contended, spent>>

-----------------------------------------------------------------------------
(* Commands. The window sends one, the engine process does it, reads the   *)
(* head it then prints, and the window takes over what was printed.        *)

Send(w, kind, p, base, d) ==
  /\ Spend("commands")
  /\ job' = [job EXCEPT ![w] = [kind |-> kind, project |-> p, base |-> base, draft |-> d,
                                basis |-> win[w].basis, phase |-> "sent", view |-> None]]

(* canReplaceProject: with unsaved work the user must agree to lose it.    *)
MayReplace(w) == Free(w) /\ Set(w, [win[w] EXCEPT !.consent = Work(w)])

(* A package opened from outside is only brought to the front if it is the *)
(* one on display; the open panel loads it again.                          *)
Load(w, p) ==
  /\ MayReplace(w)
  /\ Send(w, "load", p, None, None)
  /\ UNCHANGED <<files, contended>>

(* A new project, or a study imported into one.                            *)
Create(w, p) ==
  /\ MayReplace(w)
  /\ Send(w, "create", p, None, Template)
  /\ UNCHANGED <<files, contended>>

(* Pending text is applied; the base is the revision on display.           *)
Save(w) ==
  /\ Shows(w)
  /\ Set(w, Applied(win[w]))
  /\ Send(w, "save", win[w].project, win[w].revision, Applied(win[w]).draft)
  /\ UNCHANGED <<files, contended>>

RunnableAsShown(w) == TRUE
Runnable(w) == ~ Work(w)

(* Only what is saved is run, or exported.                                 *)
RunSaved(w) ==
  /\ Shows(w)
  /\ Runnable(w)
  /\ Send(w, "run", win[w].project, None, None)
  /\ UNCHANGED <<win, files, contended>>

ShowRevisions(w) ==
  /\ Shows(w)
  /\ Send(w, "revisions", win[w].project, None, None)
  /\ UNCHANGED <<win, files, contended>>

(* A revision is read and verified before it can be restored.              *)
SelectRevision(w, r) ==
  /\ Shows(w)
  /\ win[w].review # None
  /\ r \in retained[win[w].review.project]
  /\ win[w].reviewed # r
  /\ Set(w, [win[w] EXCEPT !.reviewed = r])
  /\ UNCHANGED <<job, files, contended, spent>>

(* The button: nothing unsaved, the list is of this project and its head   *)
(* is what the window shows.                                               *)
Restore(w) ==
  /\ Shows(w)
  /\ win[w].reviewed # None
  /\ ~ Work(w)
  /\ win[w].review.project = win[w].project
  /\ win[w].review.head = win[w].revision
  /\ win[w].reviewed # win[w].review.head
  /\ Send(w, "restore", win[w].project, win[w].review.head, win[w].reviewed)
  /\ UNCHANGED <<win, files, contended>>

Replaces(kind) == kind \in {"save", "restore"}

Reads(kind) == ~ Replaces(kind) /\ kind # "create"

Perform(w) ==
  /\ job[w] # None
  /\ job[w].phase = "sent"
  /\ LET p == job[w].project IN
       /\ \/ Replaces(job[w].kind) /\ head[p] = job[w].base
          \/ job[w].kind = "create" /\ head[p] = None
       /\ head' = [head EXCEPT ![p] = job[w].draft]
       /\ retained' = [retained EXCEPT ![p] = @ \cup {job[w].draft}]
  /\ job' = [job EXCEPT ![w].phase = "done"]
  /\ UNCHANGED <<win, snapshot, contended, spent>>

Answer(w) ==
  /\ job[w] # None
  /\ job[w].kind # "run"
  /\ job[w].phase = IF Reads(job[w].kind) THEN "sent" ELSE "done"
  /\ head[job[w].project] # None
  /\ job' = [job EXCEPT ![w].phase = "answered", ![w].view = head[job[w].project]]
  /\ UNCHANGED <<win, files, contended, spent>>

-----------------------------------------------------------------------------
(* Replies                                                                 *)

AdoptedStillDirty(s, p, view) ==
  [s EXCEPT !.project = p, !.revision = view, !.basis = view, !.draft = view,
            !.text = None, !.review = None, !.reviewed = None, !.consent = FALSE]

Adopted(s, p, view) ==
  [s EXCEPT !.project = p, !.revision = view, !.basis = view, !.draft = view, !.dirty = FALSE,
            !.text = None, !.review = None, !.reviewed = None, !.consent = FALSE]

MeetsAnother(w, p) == \E other \in Window \ {w} : win[other].on /\ win[other].project = p

Contend(w, p) == contended' = IF MeetsAnother(w, p) THEN contended \cup {p} ELSE contended

HasReply(w, kinds) ==
  /\ win[w].on
  /\ job[w] # None
  /\ job[w].kind \in kinds
  /\ job[w].phase = "answered"

Finish(w) == job' = [job EXCEPT ![w] = None]

ValidForAnyBase(p, view) == snapshot[p] # None
ValidSnapshot(p, view) == snapshot[p] # None /\ snapshot[p].base = view

(* A recovery file for the revision just opened is offered, any other and  *)
(* one that says nothing new is removed.                                   *)
Loaded(w) ==
  /\ HasReply(w, {"load"})
  /\ LET p == job[w].project
         view == job[w].view
         offered == /\ ValidSnapshot(p, view)
                    /\ ~ (snapshot[p].draft = view /\ snapshot[p].text = None)
     IN
       /\ Set(w, [Adopted(win[w], p, view) EXCEPT !.offer = IF offered THEN snapshot[p] ELSE None])
       /\ snapshot' = IF offered THEN snapshot ELSE [snapshot EXCEPT ![p] = None]
       /\ Contend(w, p)
  /\ Finish(w)
  /\ UNCHANGED <<head, retained, spent>>

(* What was saved or created needs no recovery.                            *)
SavedOrCreated(w) ==
  /\ HasReply(w, {"save", "create"})
  /\ Set(w, Adopted(win[w], job[w].project, job[w].view))
  /\ snapshot' = [snapshot EXCEPT ![job[w].project] = None]
  /\ Contend(w, job[w].project)
  /\ Finish(w)
  /\ UNCHANGED <<head, retained, spent>>

RestoredOrReloaded(w) ==
  /\ HasReply(w, {"restore", "reload"})
  /\ Set(w, Adopted(win[w], job[w].project, job[w].view))
  /\ Finish(w)
  /\ UNCHANGED <<files, contended, spent>>

Listed(w) ==
  /\ HasReply(w, {"revisions"})
  /\ Set(w, [win[w] EXCEPT !.review = [project |-> job[w].project, head |-> job[w].view],
                           !.reviewed = None])
  /\ Finish(w)
  /\ UNCHANGED <<files, contended, spent>>

(* However a run has ended, the project is read again at once.             *)
Ran(w) ==
  /\ win[w].on
  /\ job[w] # None
  /\ job[w].kind = "run"
  /\ job' = [job EXCEPT ![w] = [@ EXCEPT !.kind = "reload", !.phase = "sent"]]
  /\ UNCHANGED <<win, files, contended, spent>>

(* The engine refuses, fails or is cancelled, before or after the deed:    *)
(* a message, and everything on the screen stays as it is.                 *)
Refused(w) ==
  /\ win[w].on
  /\ job[w] # None
  /\ job[w].kind # "run"
  /\ job[w].phase # "answered"
  /\ Set(w, [win[w] EXCEPT !.consent = FALSE,
                           !.reviewed = IF job[w].kind = "restore" THEN None ELSE @])
  /\ Finish(w)
  /\ UNCHANGED <<files, contended, spent>>

-----------------------------------------------------------------------------
(* Processes                                                               *)

Launch(w) ==
  /\ ~ win[w].on
  /\ job[w] = None
  /\ Set(w, [Closed EXCEPT !.on = TRUE])
  /\ UNCHANGED <<job, files, contended, spent>>

(* Quitting writes a snapshot before it asks, and removes it if the user   *)
(* agrees to leave.                                                        *)
Quit(w) ==
  /\ Free(w)
  /\ \/ /\ Set(w, Closed)
        /\ snapshot' = IF win[w].project = None THEN snapshot
                       ELSE [snapshot EXCEPT ![win[w].project] = None]
     \/ /\ Work(w)
        /\ Set(w, [win[w] EXCEPT !.timer = FALSE])
        /\ snapshot' = Persisted(w)
  /\ UNCHANGED <<job, head, retained, contended, spent>>

(* The window is gone with what it held; an engine at work goes on.        *)
Crash(w) ==
  /\ win[w].on
  /\ Spend("events")
  /\ Set(w, Closed)
  /\ UNCHANGED <<job, files, contended>>

Unheard(w) ==
  /\ ~ win[w].on
  /\ job[w] # None
  /\ Finish(w)
  /\ UNCHANGED <<win, files, contended, spent>>

(* A save through the command line.                                        *)
OtherSave(p, d) ==
  /\ head[p] \notin {None, d}
  /\ Spend("events")
  /\ head' = [head EXCEPT ![p] = d]
  /\ retained' = [retained EXCEPT ![p] = @ \cup {d}]
  /\ UNCHANGED <<win, job, snapshot, contended>>

WindowStep(w) ==
  \/ \E d \in Revision : EditDiagram(w, d) \/ TypeText(w, d) \/ SelectRevision(w, d)
  \/ UndoAll(w) \/ ApplyText(w) \/ Persist(w) \/ Recover(w) \/ Decline(w)
  \/ \E p \in Project : Load(w, p) \/ Create(w, p)
  \/ Save(w) \/ RunSaved(w) \/ ShowRevisions(w) \/ Restore(w)
  \/ Loaded(w) \/ SavedOrCreated(w) \/ RestoredOrReloaded(w) \/ Listed(w) \/ Ran(w) \/ Refused(w)
  \/ Launch(w) \/ Quit(w) \/ Crash(w)

EngineStep(w) == Perform(w) \/ Answer(w) \/ Unheard(w)

Next ==
  \/ \E w \in Window : WindowStep(w) \/ EngineStep(w)
  \/ \E p \in Project, d \in Revision : OtherSave(p, d)

Spec == Init /\ [][Next]_vars

-----------------------------------------------------------------------------
TypeOK ==
  /\ \A w \in Window :
       /\ win[w].project \in Project \cup {None}
       /\ {win[w].revision, win[w].draft, win[w].text, win[w].reviewed}
            \subseteq Revision \cup {None}
       /\ (win[w].project = None) = (win[w].draft = None)
       /\ win[w].consent => job[w] # None \/ ~ Work(w)
       /\ win[w].offer # None => ~ Work(w) /\ job[w] = None
  /\ \A p \in Project : head[p] = None \/ head[p] \in retained[p]
  /\ contended \subseteq Project

(* Unsaved work in a window whose snapshot timer has run out is in the     *)
(* recovery file, under the revision the window shows: after a crash it is *)
(* offered as long as the project has not moved on. Two windows with one   *)
(* project open share the file, and nothing is promised then.              *)
RecoveryHasTheWork ==
  \A w \in Window :
    win[w].on /\ Work(w) /\ ~ win[w].timer /\ win[w].project \notin contended =>
      LET kept == snapshot[win[w].project] IN
        /\ kept # None
        /\ kept.base = win[w].revision
        /\ kept.draft = win[w].draft
        /\ win[w].text # None => kept.text = win[w].text

(* A save replaces exactly the revision its edits were made on, also when  *)
(* they have been through a crash and a recovery since: it never undoes    *)
(* what somebody else has saved meanwhile.                                 *)
SavesReplaceTheirBasis ==
  [][\A w \in Window :
       Perform(w) /\ job[w].kind = "save" => head[job[w].project] = job[w].basis]_vars

(* The end of a command takes unsaved work from the screen only if the     *)
(* project has retained it or the user has agreed to lose it.              *)
CommandsKeepTheWork ==
  [][\A w \in Window :
       /\ job[w] # None
       /\ win[w].on /\ win'[w].on
       /\ Work(w) /\ ~ Work(w)'
       => \/ win[w].consent
          \/ win[w].draft \in retained[win[w].project]]_vars
=============================================================================
