------------------------ MODULE DesktopSessionProofs ------------------------
(***************************************************************************)
(* For any number of windows and projects: a settled recovery file has the *)
(* unsaved work, a save replaces what its edits were based on, and no      *)
(* reply takes unsaved work away unasked. The argument is about one window *)
(* at a time: what it holds agrees with the command it has sent and with   *)
(* the recovery file it was offered, and only a window that shows the same *)
(* project, which makes it contended, can write its recovery file.         *)
(***************************************************************************)
EXTENDS DesktopSession, TLAPS

-----------------------------------------------------------------------------
(* The inductive invariant                                                 *)

Content == Revision \cup {None}

Screen ==
  [on : BOOLEAN, project : Project \cup {None}, revision : Content, basis : Content,
   draft : Content, dirty : BOOLEAN, text : Content, timer : BOOLEAN,
   review : {None} \cup [project : Project, head : Revision], reviewed : Content,
   offer : Snapshot \cup {None}, consent : BOOLEAN]

ShapeInv ==
  /\ win \in [Window -> Screen]
  /\ job \in [Window -> Command \cup {None}]
  /\ head \in [Project -> Content]
  /\ retained \in [Project -> SUBSET Revision]
  /\ snapshot \in [Project -> Snapshot \cup {None}]
  /\ contended \subseteq Project

(* A project has its head among what it retains; edits recovered from a    *)
(* file were made on the revision the file is for.                         *)
ProjectInv(p) ==
  /\ head[p] # None => head[p] \in retained[p]
  /\ snapshot[p] # None => snapshot[p].basis = snapshot[p].base

(* What is on the screen. A closed window keeps nothing, and the edits in  *)
(* an open one are made on the revision it shows.                          *)
ScreenInv(w) ==
  /\ ~ win[w].on => win[w] = Closed
  /\ (win[w].project = None) = (win[w].draft = None)
  /\ (win[w].project = None) = (win[w].revision = None)
  /\ win[w].project = None => ~ Work(w)
  /\ win[w].basis = win[w].revision

(* A recovery file is offered to a window that has just loaded its project *)
(* and while the question is open nobody else writes the file.             *)
OfferInv(w) == win[w].offer # None =>
  /\ job[w] = None
  /\ ~ Work(w)
  /\ win[w].project # None
  /\ win[w].offer.base = win[w].revision
  /\ win[w].offer.basis = win[w].revision
  /\ win[w].project \notin contended => snapshot[win[w].project] = win[w].offer

(* The engine process by itself, whatever has become of its window.        *)
EngineInv(w) == job[w] # None =>
  /\ job[w].kind \in {"create", "save", "restore"} => job[w].draft # None
  /\ job[w].kind = "save" => job[w].basis = job[w].base
  /\ job[w].kind = "save" /\ job[w].phase # "sent" =>
       job[w].draft \in retained[job[w].project]
  /\ job[w].phase = "answered" => job[w].view # None

(* The window that waits for it: nothing of what the command was given has *)
(* changed on the screen, and what may be replaced is saved or given up.   *)
WaitingInv(w) == win[w].on /\ job[w] # None =>
  /\ job[w].kind \notin {"load", "create"} => job[w].project = win[w].project
  /\ job[w].kind = "save" => win[w].draft = job[w].draft
  /\ job[w].kind \in {"run", "reload", "restore"} => ~ Work(w)
  /\ job[w].kind \in {"load", "create"} /\ Work(w) => win[w].consent

ConsentInv(w) == win[w].consent => job[w] # None /\ job[w].kind \in {"load", "create"}

RecoveryInv(w) ==
  win[w].on /\ Work(w) /\ ~ win[w].timer /\ win[w].project \notin contended =>
    LET kept == snapshot[win[w].project] IN
      /\ kept # None
      /\ kept.base = win[w].revision
      /\ kept.draft = win[w].draft
      /\ win[w].text # None => kept.text = win[w].text

WindowInv(w) ==
  ScreenInv(w) /\ OfferInv(w) /\ EngineInv(w) /\ WaitingInv(w) /\ ConsentInv(w) /\ RecoveryInv(w)

(* Two windows with one project open have made it contended.               *)
Alone(v, w) ==
  win[v].on /\ win[w].on /\ win[v].project = win[w].project =>
    win[v].project \in contended \cup {None}

SessionInv ==
  /\ ShapeInv
  /\ \A p \in Project : ProjectInv(p)
  /\ \A w \in Window : WindowInv(w)
  /\ \A v, w \in Window : v # w => Alone(v, w)

-----------------------------------------------------------------------------
(* Screens                                                                 *)

(* A screen is its fields.                                                 *)
LEMMA ScreenFields ==
  ASSUME NEW s \in Screen
  PROVE  /\ s.on \in BOOLEAN /\ s.dirty \in BOOLEAN /\ s.timer \in BOOLEAN /\ s.consent \in BOOLEAN
         /\ s.project \in Project \cup {None}
         /\ s.revision \in Content /\ s.basis \in Content /\ s.draft \in Content
         /\ s.text \in Content /\ s.reviewed \in Content
         /\ s.review \in {None} \cup [project : Project, head : Revision]
         /\ s.offer \in Snapshot \cup {None}
BY DEF Screen

(* What editing, questions and replies make of a screen is one again.      *)
LEMMA EditedScreens ==
  ASSUME NEW s \in Screen, NEW d \in Content
  PROVE  /\ [s EXCEPT !.draft = d, !.dirty = TRUE, !.timer = TRUE] \in Screen
         /\ [s EXCEPT !.text = None] \in Screen
         /\ [s EXCEPT !.text = None, !.draft = d, !.dirty = TRUE, !.timer = TRUE] \in Screen
         /\ [s EXCEPT !.text = d, !.timer = TRUE] \in Screen
         /\ [s EXCEPT !.draft = d, !.dirty = FALSE, !.text = None, !.timer = TRUE] \in Screen
         /\ [s EXCEPT !.reviewed = d] \in Screen
<1> USE DEF Screen, Content
<1>1. [s EXCEPT !.draft = d, !.dirty = TRUE, !.timer = TRUE] \in Screen
  OBVIOUS
<1>2. [s EXCEPT !.text = None] \in Screen
  OBVIOUS
<1>3. [s EXCEPT !.text = None, !.draft = d, !.dirty = TRUE, !.timer = TRUE] \in Screen
  OBVIOUS
<1>4. [s EXCEPT !.text = d, !.timer = TRUE] \in Screen
  OBVIOUS
<1>5. [s EXCEPT !.draft = d, !.dirty = FALSE, !.text = None, !.timer = TRUE] \in Screen
  OBVIOUS
<1>6. [s EXCEPT !.reviewed = d] \in Screen
  OBVIOUS
<1> QED
  BY <1>1, <1>2, <1>3, <1>4, <1>5, <1>6

(* What answering a question or losing a timer leaves of a screen is one.  *)
LEMMA AskedScreens ==
  ASSUME NEW s \in Screen
  PROVE  /\ [s EXCEPT !.timer = FALSE] \in Screen
         /\ [s EXCEPT !.offer = None] \in Screen
         /\ \A o \in Snapshot :
              [s EXCEPT !.draft = o.draft, !.basis = o.basis, !.dirty = TRUE,
                        !.text = o.text, !.offer = None] \in Screen
         /\ \A c \in BOOLEAN : [s EXCEPT !.consent = c] \in Screen
         /\ \A d \in Content : [s EXCEPT !.consent = FALSE, !.reviewed = d] \in Screen
<1> USE DEF Screen
<1>1. [s EXCEPT !.timer = FALSE] \in Screen
  OBVIOUS
<1>2. [s EXCEPT !.offer = None] \in Screen
  OBVIOUS
<1>3. ASSUME NEW o \in Snapshot
      PROVE  [s EXCEPT !.draft = o.draft, !.basis = o.basis, !.dirty = TRUE,
                       !.text = o.text, !.offer = None] \in Screen
  BY DEF Content, Snapshot
<1>4. ASSUME NEW c \in BOOLEAN
      PROVE  [s EXCEPT !.consent = c] \in Screen
  OBVIOUS
<1>5. ASSUME NEW d \in Content
      PROVE  [s EXCEPT !.consent = FALSE, !.reviewed = d] \in Screen
  OBVIOUS
<1> HIDE DEF Screen
<1> QED
  BY <1>1, <1>2, <1>3, <1>4, <1>5

(* So is what a reply leaves of it.                                        *)
LEMMA AdoptedScreens ==
  ASSUME NEW s \in Screen, NEW p \in Project, NEW r \in Revision
  PROVE  /\ Adopted(s, p, r) \in Screen
         /\ \A o \in Snapshot \cup {None} : [Adopted(s, p, r) EXCEPT !.offer = o] \in Screen
         /\ [s EXCEPT !.review = [project |-> p, head |-> r], !.reviewed = None] \in Screen
<1> USE DEF Screen, Content, Adopted
<1>1. Adopted(s, p, r) \in Screen
  OBVIOUS
<1>2. ASSUME NEW o \in Snapshot \cup {None}
      PROVE  [Adopted(s, p, r) EXCEPT !.offer = o] \in Screen
  OBVIOUS
<1>3. [s EXCEPT !.review = [project |-> p, head |-> r], !.reviewed = None] \in Screen
  OBVIOUS
<1> QED
  BY <1>1, <1>2, <1>3

(* And a window that is closed or blank.                                   *)
LEMMA ClosedScreens ==
  Closed \in Screen /\ [Closed EXCEPT !.on = TRUE] \in Screen
BY DEF Closed, Screen, Content

(* Applying the pending text makes it the draft, and touches nothing else. *)
LEMMA AppliedScreen ==
  ASSUME NEW s \in Screen
  PROVE  Applied(s) \in Screen
BY EditedScreens, ScreenFields DEF Applied

-----------------------------------------------------------------------------
(* Shapes                                                                  *)

(* A step of w leaves the screens and the commands of other windows alone, *)
(* and takes nothing back from a project's history.                        *)
Moved(w) ==
  /\ ShapeInv'
  /\ \A v \in Window \ {w} : win'[v] = win[v] /\ job'[v] = job[v]
  /\ \A p \in Project : retained[p] \subseteq retained'[p]
  /\ contended \subseteq contended'

(* A window shows what it is set to, the others what they did.             *)
LEMMA Displayed ==
  ASSUME ShapeInv, NEW w \in Window, NEW s \in Screen, Set(w, s)
  PROVE  /\ win' \in [Window -> Screen]
         /\ win'[w] = s
         /\ \A v \in Window \ {w} : win'[v] = win[v]
BY DEF ShapeInv, Set

(* A command that is sent carries what it was sent with.                   *)
LEMMA Sent ==
  ASSUME ShapeInv, NEW w \in Window, NEW kind, NEW p \in Project, NEW base \in Content,
         NEW d \in Content, Send(w, kind, p, base, d),
         kind \in {"load", "create", "save", "run", "reload", "revisions", "restore"}
  PROVE  /\ job' \in [Window -> Command \cup {None}]
         /\ job'[w] \in Command
         /\ job'[w].kind = kind /\ job'[w].project = p /\ job'[w].base = base
         /\ job'[w].draft = d /\ job'[w].basis = win[w].basis /\ job'[w].phase = "sent"
         /\ \A v \in Window \ {w} : job'[v] = job[v]
<1>1. win[w].basis \in Content
  BY ScreenFields DEF ShapeInv
<1>2. [kind |-> kind, project |-> p, base |-> base, draft |-> d,
       basis |-> win[w].basis, phase |-> "sent", view |-> None] \in Command
  BY <1>1 DEF Command, Content
<1> QED
  BY <1>2 DEF Send, ShapeInv

(* One that ends leaves its window without a command.                      *)
LEMMA Finished ==
  ASSUME ShapeInv, NEW w \in Window, Finish(w)
  PROVE  /\ job' \in [Window -> Command \cup {None}]
         /\ job'[w] = None
         /\ \A v \in Window \ {w} : job'[v] = job[v]
BY DEF ShapeInv, Finish

(* A command is its fields.                                                *)
LEMMA CommandFields ==
  ASSUME NEW c \in Command
  PROVE  /\ c.kind \in {"load", "create", "save", "run", "reload", "revisions", "restore"}
         /\ c.project \in Project
         /\ c.base \in Content /\ c.draft \in Content /\ c.basis \in Content
         /\ c.phase \in {"sent", "done", "answered"}
         /\ c.view \in Content
BY DEF Command, Content

(* A recovery file is its fields, and what is written is one.              *)
LEMMA SnapshotFields ==
  ASSUME NEW o \in Snapshot
  PROVE  o.base \in Revision /\ o.basis \in Revision /\ o.draft \in Revision /\ o.text \in Content
BY DEF Snapshot, Content

(* The recovery file of a window's project is rewritten or removed, the    *)
(* others are left alone.                                                  *)
LEMMA PersistedFile ==
  ASSUME SessionInv, NEW w \in Window
  PROVE  /\ Persisted(w) \in [Project -> Snapshot \cup {None}]
         /\ \A p \in Project : p # win[w].project => Persisted(w)[p] = snapshot[p]
         /\ win[w].project \in Project =>
              Persisted(w)[win[w].project] =
                IF Work(w) THEN [base |-> win[w].revision, basis |-> win[w].basis,
                                 draft |-> win[w].draft, text |-> win[w].text]
                ELSE None
<1>1. /\ snapshot \in [Project -> Snapshot \cup {None}] /\ win[w] \in Screen /\ ScreenInv(w)
      /\ None \notin Project /\ None \notin Revision
  BY SessionAssumption DEF SessionInv, ShapeInv, WindowInv
<1>2. CASE win[w].project = None
  BY <1>1, <1>2 DEF Persisted
<1>3. CASE win[w].project # None
  <2>1. /\ win[w].project \in Project
        /\ win[w].draft \in Revision /\ win[w].revision \in Revision /\ win[w].basis \in Revision
        /\ win[w].text \in Revision \cup {None}
    BY <1>1, <1>3, ScreenFields DEF ScreenInv, Content
  <2>2. [base |-> win[w].revision, basis |-> win[w].basis,
         draft |-> win[w].draft, text |-> win[w].text] \in Snapshot
    BY <2>1 DEF Snapshot
  <2> QED
    BY <1>1, <1>3, <2>1, <2>2 DEF Persisted
<1> QED
  BY <1>2, <1>3

(* When there is work, the file holds it under the revision on the screen. *)
LEMMA WrittenFile ==
  ASSUME SessionInv, NEW w \in Window, Work(w)
  PROVE  LET kept == Persisted(w)[win[w].project]
         IN /\ kept # None /\ kept.base = win[w].revision /\ kept.draft = win[w].draft
            /\ kept.text = win[w].text
<1>0. /\ win[w] \in Screen /\ ScreenInv(w) /\ None \notin Snapshot /\ None \notin Project
  BY SessionAssumption DEF SessionInv, ShapeInv, WindowInv
<1>1. win[w].project \in Project /\ win[w].draft # None /\ win[w].revision # None
  BY <1>0, ScreenFields DEF ScreenInv
<1>2. /\ win[w].draft \in Revision /\ win[w].revision \in Revision
      /\ win[w].basis \in Revision /\ win[w].text \in Revision \cup {None}
  BY <1>0, <1>1, ScreenFields DEF ScreenInv, Content
<1>3. Persisted(w)[win[w].project] = [base |-> win[w].revision, basis |-> win[w].basis,
                                      draft |-> win[w].draft, text |-> win[w].text]
  BY <1>1, PersistedFile
<1>4. Persisted(w)[win[w].project] \in Snapshot
  BY <1>2, <1>3 DEF Snapshot
<1> QED
  BY <1>0, <1>3, <1>4

(* A save takes along what it replaces and what it was based on.           *)
LEMMA SavesSend ==
  ASSUME SessionInv, NEW w \in Window, Save(w)
  PROVE  /\ job'[w] \in Command /\ job'[w].kind = "save" /\ job'[w].phase = "sent"
         /\ job'[w].draft = Applied(win[w]).draft /\ job'[w].project = win[w].project
         /\ job'[w].base = win[w].revision /\ job'[w].basis = win[w].basis
<1>1. /\ ShapeInv /\ win[w] \in Screen /\ Applied(win[w]) \in Screen
  BY AppliedScreen DEF SessionInv, ShapeInv
<1>2. /\ win[w].project \in Project /\ win[w].revision \in Content
      /\ Applied(win[w]).draft \in Content
  BY <1>1, ScreenFields DEF Save, Shows
<1> QED
  BY <1>1, <1>2, Sent DEF Save

(* Editing and reviewing change the screen of one window.                  *)
LEMMA EditsMove ==
  ASSUME SessionInv, NEW w \in Window,
         \/ \E d \in Revision : EditDiagram(w, d) \/ TypeText(w, d) \/ SelectRevision(w, d)
         \/ UndoAll(w) \/ ApplyText(w)
  PROVE  Moved(w)
<1>0. ShapeInv /\ win[w] \in Screen /\ Applied(win[w]) \in Screen /\ win[w].revision \in Content
  BY AppliedScreen, ScreenFields DEF SessionInv, ShapeInv
<1>1. \E s \in Screen : Set(w, s)
  <2>1. ASSUME NEW d \in Revision, EditDiagram(w, d)
        PROVE  \E s \in Screen : Set(w, s)
    BY <1>0, <2>1, EditedScreens DEF EditDiagram, Content
  <2>2. ASSUME NEW d \in Revision, TypeText(w, d)
        PROVE  \E s \in Screen : Set(w, s)
    BY <1>0, <2>2, EditedScreens DEF TypeText, Content
  <2>3. ASSUME NEW d \in Revision, SelectRevision(w, d)
        PROVE  \E s \in Screen : Set(w, s)
    BY <1>0, <2>3, EditedScreens DEF SelectRevision, Content
  <2>4. CASE UndoAll(w)
    BY <1>0, <2>4, EditedScreens DEF UndoAll
  <2>5. CASE ApplyText(w)
    BY <1>0, <2>5 DEF ApplyText
  <2> QED
    BY <2>1, <2>2, <2>3, <2>4, <2>5
<1>2. UNCHANGED <<job, files, contended>>
  BY DEF EditDiagram, TypeText, SelectRevision, UndoAll, ApplyText
<1> QED
  BY <1>0, <1>1, <1>2, Displayed DEF Moved, ShapeInv, files

(* The recovery file and the question about it.                            *)
LEMMA RecoveryMoves ==
  ASSUME SessionInv, NEW w \in Window,
         Persist(w) \/ Recover(w) \/ Decline(w) \/ Launch(w) \/ Quit(w) \/ Crash(w)
  PROVE  Moved(w)
<1>0. /\ ShapeInv /\ win[w] \in Screen /\ win[w].offer \in Snapshot \cup {None}
      /\ Closed \in Screen /\ [Closed EXCEPT !.on = TRUE] \in Screen
  BY ScreenFields, ClosedScreens DEF SessionInv, ShapeInv
<1>1. \E s \in Screen : Set(w, s)
  BY <1>0, AskedScreens DEF Persist, Recover, Decline, Launch, Quit, Crash
<1>2. snapshot' \in [Project -> Snapshot \cup {None}]
  BY <1>0, PersistedFile DEF Persist, Recover, Decline, Launch, Quit, Crash, ShapeInv, files
<1>3. UNCHANGED <<job, head, retained, contended>>
  BY DEF Persist, Recover, Decline, Launch, Quit, Crash, files
<1> QED
  BY <1>0, <1>1, <1>2, <1>3, Displayed DEF Moved, ShapeInv

(* Commands on their way.                                                  *)
LEMMA SendingMoves ==
  ASSUME SessionInv, NEW w \in Window,
         \/ \E p \in Project : Load(w, p) \/ Create(w, p)
         \/ Save(w) \/ RunSaved(w) \/ ShowRevisions(w) \/ Restore(w)
  PROVE  Moved(w)
<1>0. /\ ShapeInv /\ win[w] \in Screen /\ Applied(win[w]) \in Screen /\ Work(w) \in BOOLEAN
      /\ Template \in Content /\ None \in Content
  BY AppliedScreen, ScreenFields, SessionAssumption DEF SessionInv, ShapeInv, Work, Content
<1>1. win' \in [Window -> Screen] /\ \A v \in Window \ {w} : win'[v] = win[v]
  <2>1. \/ UNCHANGED win
        \/ \E s \in Screen : Set(w, s)
    BY <1>0, AskedScreens DEF Load, Create, Save, RunSaved, ShowRevisions, Restore, MayReplace
  <2> QED
    BY <1>0, <2>1, Displayed DEF ShapeInv
<1>2. job' \in [Window -> Command \cup {None}] /\ \A v \in Window \ {w} : job'[v] = job[v]
  <2>1. ASSUME NEW p \in Project, Load(w, p)
        PROVE  Send(w, "load", p, None, None)
    BY <2>1 DEF Load
  <2>2. ASSUME NEW p \in Project, Create(w, p)
        PROVE  Send(w, "create", p, None, Template)
    BY <2>2 DEF Create
  <2>3. Shows(w) => win[w].project \in Project
    BY <1>0, ScreenFields DEF Shows
  <2>4. /\ win[w].revision \in Content /\ Applied(win[w]).draft \in Content
        /\ win[w].reviewed \in Content
    BY <1>0, ScreenFields
  <2>5. CASE Save(w)
    BY <1>0, <2>3, <2>4, <2>5, Sent DEF Save
  <2>6. CASE RunSaved(w)
    BY <1>0, <2>3, <2>6, Sent DEF RunSaved
  <2>7. CASE ShowRevisions(w)
    BY <1>0, <2>3, <2>7, Sent DEF ShowRevisions
  <2>8. CASE Restore(w)
    <3>1. /\ win[w].project \in Project /\ win[w].review.head \in Content
          /\ Send(w, "restore", win[w].project, win[w].review.head, win[w].reviewed)
      BY <1>0, <2>3, <2>4, <2>8 DEF Restore
    <3> QED
      BY <1>0, <2>4, <3>1, Sent
  <2>9. CASE \E p \in Project : Load(w, p) \/ Create(w, p)
    BY <1>0, <2>1, <2>2, <2>9, Sent
  <2> QED
    BY <2>5, <2>6, <2>7, <2>8, <2>9
<1>3. UNCHANGED <<files, contended>>
  BY DEF Load, Create, Save, RunSaved, ShowRevisions, Restore
<1> QED
  BY <1>0, <1>1, <1>2, <1>3 DEF Moved, ShapeInv, files

(* The engine process.                                                     *)
LEMMA EngineMoves ==
  ASSUME SessionInv, NEW w \in Window, EngineStep(w)
  PROVE  Moved(w)
<1>0. /\ ShapeInv /\ EngineInv(w) /\ None \notin Command
      /\ job[w] # None => job[w] \in Command /\ job[w].project \in Project
                          /\ job[w].draft \in Content
  BY CommandFields, SessionAssumption DEF SessionInv, ShapeInv, WindowInv
<1>1. CASE Perform(w)
  <2>1. [job[w] EXCEPT !.phase = "done"] \in Command
    BY <1>0, <1>1 DEF Perform, Command
  <2>2. job[w].draft \in Revision
    BY <1>0, <1>1 DEF Perform, Replaces, EngineInv, Content
  <2>3. job' \in [Window -> Command \cup {None}] /\ \A v \in Window \ {w} : job'[v] = job[v]
    BY <1>0, <1>1, <2>1 DEF Perform, ShapeInv
  <2>4. /\ head' \in [Project -> Content] /\ retained' \in [Project -> SUBSET Revision]
        /\ \A p \in Project : retained[p] \subseteq retained'[p]
    BY <1>0, <1>1, <2>2 DEF Perform, ShapeInv, Content
  <2> QED
    BY <1>0, <1>1, <2>3, <2>4 DEF Perform, Moved, ShapeInv
<1>2. CASE Answer(w)
  <2>1. head[job[w].project] \in Content
    BY <1>0, <1>2 DEF Answer, ShapeInv
  <2>2. [job[w] EXCEPT !.phase = "answered", !.view = head[job[w].project]] \in Command
    BY <1>0, <1>2, <2>1 DEF Answer, Command, Content
  <2>3. job' \in [Window -> Command \cup {None}] /\ \A v \in Window \ {w} : job'[v] = job[v]
    BY <1>0, <1>2, <2>2 DEF Answer, ShapeInv
  <2> QED
    BY <1>0, <1>2, <2>3 DEF Answer, Moved, ShapeInv, files
<1>3. CASE Unheard(w)
  BY <1>0, <1>3, Finished DEF Unheard, Moved, ShapeInv, files
<1> QED
  BY <1>1, <1>2, <1>3 DEF EngineStep

(* Replies.                                                                *)
LEMMA RepliesMove ==
  ASSUME SessionInv, NEW w \in Window,
         \/ Loaded(w) \/ SavedOrCreated(w) \/ RestoredOrReloaded(w)
         \/ Listed(w) \/ Ran(w) \/ Refused(w)
  PROVE  Moved(w)
<1>0. /\ ShapeInv /\ win[w] \in Screen /\ win[w].reviewed \in Content
      /\ job[w] \in Command /\ job[w].project \in Project
      /\ job[w].phase = "answered" => job[w].view \in Revision
      /\ None \notin Command /\ None \in Content
  <2>1. ShapeInv /\ EngineInv(w) /\ job[w] # None
    BY DEF SessionInv, WindowInv, Loaded, SavedOrCreated, RestoredOrReloaded, Listed, Ran, Refused,
           HasReply
  <2>2. win[w] \in Screen /\ job[w] \in Command
    BY <2>1 DEF ShapeInv
  <2> QED
    BY <2>1, <2>2, CommandFields, ScreenFields, SessionAssumption DEF EngineInv, Content
<1>1. CASE Ran(w)
  <2>1. [job[w] EXCEPT !.kind = "reload", !.phase = "sent"] \in Command
    BY <1>0 DEF Command
  <2> QED
    BY <1>0, <1>1, <2>1 DEF Ran, Moved, ShapeInv, files
<1>2. CASE ~ Ran(w)
  <2>1. \E s \in Screen : Set(w, s)
    <3>1. CASE Loaded(w)
      <4>1. job[w].view \in Revision /\ snapshot[job[w].project] \in Snapshot \cup {None}
        BY <1>0, <3>1 DEF Loaded, HasReply, ShapeInv
      <4> QED
        BY <1>0, <3>1, <4>1, AdoptedScreens DEF Loaded
    <3>2. CASE SavedOrCreated(w) \/ RestoredOrReloaded(w)
      BY <1>0, <3>2, AdoptedScreens DEF SavedOrCreated, RestoredOrReloaded, HasReply
    <3>3. CASE Listed(w)
      BY <1>0, <3>3, AdoptedScreens DEF Listed, HasReply
    <3>4. CASE Refused(w)
      BY <1>0, <3>4, AskedScreens DEF Refused
    <3> QED
      BY <1>2, <3>1, <3>2, <3>3, <3>4
  <2>2. Finish(w)
    BY <1>2 DEF Loaded, SavedOrCreated, RestoredOrReloaded, Listed, Refused
  <2>3. UNCHANGED <<head, retained>>
    BY <1>2 DEF Loaded, SavedOrCreated, RestoredOrReloaded, Listed, Refused, files
  <2>4. contended' \subseteq Project /\ contended \subseteq contended'
    BY <1>0, <1>2 DEF Loaded, SavedOrCreated, RestoredOrReloaded, Listed, Refused, Contend, ShapeInv
  <2>5. snapshot' \in [Project -> Snapshot \cup {None}]
    BY <1>0, <1>2 DEF Loaded, SavedOrCreated, RestoredOrReloaded, Listed, Refused, ShapeInv, files
  <2> QED
    BY <1>0, <2>1, <2>2, <2>3, <2>4, <2>5, Displayed, Finished DEF Moved, ShapeInv
<1> QED
  BY <1>1, <1>2

(* A step of a window or its engine process moves nothing of another       *)
(* window.                                                                 *)
LEMMA StepMoves ==
  ASSUME SessionInv, NEW w \in Window, WindowStep(w) \/ EngineStep(w)
  PROVE  Moved(w)
BY EditsMove, RecoveryMoves, SendingMoves, EngineMoves, RepliesMove DEF WindowStep

-----------------------------------------------------------------------------
(* What a step leaves on the screen                                        *)

(* After an edit a snapshot is due, or the draft is as it was.             *)
LEMMA EditShows ==
  ASSUME SessionInv, NEW w \in Window,
         \/ \E d \in Revision : EditDiagram(w, d) \/ TypeText(w, d) \/ SelectRevision(w, d)
         \/ UndoAll(w) \/ ApplyText(w)
  PROVE  LET s == win[w]
             t == win'[w]
         IN /\ Shows(w) /\ UNCHANGED <<job, files, contended>>
            /\ t.on = s.on /\ t.project = s.project /\ t.revision = s.revision
            /\ t.basis = s.basis /\ t.offer = s.offer /\ t.consent = s.consent
            /\ t.draft # None
            /\ \/ t.timer
               \/ /\ t.timer = s.timer /\ t.draft = s.draft /\ t.dirty = s.dirty
                  /\ t.text \in {s.text, None}
<1> DEFINE s == win[w]
           t == win'[w]
           Goal == /\ t.on = s.on /\ t.project = s.project /\ t.revision = s.revision
                   /\ t.basis = s.basis /\ t.offer = s.offer /\ t.consent = s.consent
                   /\ t.draft # None
                   /\ \/ t.timer
                      \/ /\ t.timer = s.timer /\ t.draft = s.draft /\ t.dirty = s.dirty
                         /\ t.text \in {s.text, None}
<1>0. /\ ShapeInv /\ win[w] \in Screen /\ Applied(win[w]) \in Screen /\ ScreenInv(w)
      /\ None \notin Revision
  BY AppliedScreen, SessionAssumption DEF SessionInv, ShapeInv, WindowInv
<1>1. Shows(w) /\ UNCHANGED <<job, files, contended>>
  BY DEF EditDiagram, TypeText, SelectRevision, UndoAll, ApplyText
<1>2. s.draft # None /\ s.revision # None
  BY <1>0, <1>1 DEF Shows, ScreenInv
<1>3. /\ Applied(s).on = s.on /\ Applied(s).project = s.project
      /\ Applied(s).revision = s.revision /\ Applied(s).basis = s.basis
      /\ Applied(s).offer = s.offer /\ Applied(s).consent = s.consent
      /\ Applied(s).draft # None
      /\ \/ Applied(s).timer
         \/ /\ Applied(s).timer = s.timer /\ Applied(s).draft = s.draft
            /\ Applied(s).dirty = s.dirty /\ Applied(s).text \in {s.text, None}
  <2>1. CASE s.text \in {None, s.draft}
    BY <1>0, <1>2, <2>1 DEF Applied, Screen
  <2>2. CASE s.text \notin {None, s.draft}
    BY <1>0, <1>2, <2>2 DEF Applied, Screen
  <2> QED
    BY <2>1, <2>2
<1>4. ASSUME NEW d \in Revision, EditDiagram(w, d)
      PROVE  Goal
  <2>1. PICK u \in {s, Applied(s)} :
               Set(w, [u EXCEPT !.draft = d, !.dirty = TRUE, !.timer = TRUE])
    BY <1>4 DEF EditDiagram
  <2>2. u \in Screen /\ [u EXCEPT !.draft = d, !.dirty = TRUE, !.timer = TRUE] \in Screen
    BY <1>0, <2>1, EditedScreens DEF Content
  <2>3. t = [u EXCEPT !.draft = d, !.dirty = TRUE, !.timer = TRUE]
    BY <1>0, <2>1, <2>2, Displayed
  <2>4. /\ t.on = u.on /\ t.project = u.project /\ t.revision = u.revision /\ t.basis = u.basis
        /\ t.offer = u.offer /\ t.consent = u.consent /\ t.draft = d /\ t.timer = TRUE
    BY <2>2, <2>3 DEF Screen
  <2> QED
    BY <1>0, <1>3, <2>1, <2>4
<1>5. ASSUME NEW d \in Revision, TypeText(w, d)
      PROVE  Goal
  <2>1. CASE d = s.draft
    <3>1. t = [s EXCEPT !.text = None]
      BY <1>0, <1>5, <2>1 DEF TypeText, Set, ShapeInv
    <3> QED
      BY <1>0, <1>2, <3>1 DEF Screen
  <2>2. CASE d # s.draft
    <3>1. t = [s EXCEPT !.text = d, !.timer = TRUE]
      BY <1>0, <1>5, <2>2 DEF TypeText, Set, ShapeInv
    <3> QED
      BY <1>0, <1>2, <3>1 DEF Screen
  <2> QED
    BY <2>1, <2>2
<1>6. ASSUME NEW d \in Revision, SelectRevision(w, d)
      PROVE  Goal
  <2>1. t = [s EXCEPT !.reviewed = d]
    BY <1>0, <1>6 DEF SelectRevision, Set, ShapeInv
  <2> QED
    BY <1>0, <1>2, <2>1 DEF Screen
<1>7. ASSUME UndoAll(w)
      PROVE  Goal
  <2>1. t = [s EXCEPT !.draft = s.revision, !.dirty = FALSE, !.text = None, !.timer = TRUE]
    BY <1>0, <1>7 DEF UndoAll, Set, ShapeInv
  <2> QED
    BY <1>0, <1>2, <2>1 DEF Screen
<1>8. ASSUME ApplyText(w)
      PROVE  Goal
  <2>1. t = Applied(s)
    BY <1>0, <1>8 DEF ApplyText, Set, ShapeInv
  <2> QED
    BY <1>3, <2>1
<1> QED
  BY <1>1, <1>4, <1>5, <1>6, <1>7, <1>8

(* Asking for a command changes the screen only to apply pending text and  *)
(* to note the user's consent.                                             *)
LEMMA SendingShows ==
  ASSUME SessionInv, NEW w \in Window,
         (\E p \in Project : Load(w, p) \/ Create(w, p)) \/ Save(w)
  PROVE  LET s == win[w]
             t == win'[w]
         IN /\ t.on = s.on /\ t.project = s.project /\ t.revision = s.revision
            /\ t.basis = s.basis /\ t.offer = s.offer
            /\ ~ Save(w) => /\ t.draft = s.draft /\ t.dirty = s.dirty /\ t.text = s.text
                            /\ t.timer = s.timer /\ t.consent = Work(w)
            /\ Save(w) => /\ t = Applied(s) /\ t.draft # None /\ t.consent = s.consent
                          /\ \/ t.timer
                             \/ /\ t.timer = s.timer /\ t.draft = s.draft
                                /\ t.dirty = s.dirty /\ t.text = None
<1> DEFINE s == win[w]
           t == win'[w]
<1>0. /\ ShapeInv /\ win[w] \in Screen /\ ScreenInv(w) /\ Work(w) \in BOOLEAN
  BY ScreenFields DEF SessionInv, ShapeInv, WindowInv, Work
<1>1. CASE ~ Save(w)
  <2>1. t = [s EXCEPT !.consent = Work(w)]
    BY <1>0, <1>1 DEF Load, Create, MayReplace, Set, ShapeInv
  <2> QED
    BY <1>0, <1>1, <2>1 DEF Screen
<1>2. CASE Save(w)
  <2>1. t = Applied(s) /\ s.draft # None
    BY <1>0, <1>2 DEF Save, Set, ShapeInv, Shows, ScreenInv
  <2>2. CASE s.text \in {None, s.draft}
    BY <1>0, <1>2, <2>1, <2>2 DEF Applied, Screen
  <2>3. CASE s.text \notin {None, s.draft}
    BY <1>0, <1>2, <2>1, <2>3 DEF Applied, Screen
  <2> QED
    BY <2>2, <2>3
<1> QED
  BY <1>1, <1>2

(* A reply that shows a project shows what the engine has read of it, with *)
(* nothing unsaved.                                                        *)
LEMMA ReplyShows ==
  ASSUME SessionInv, NEW w \in Window,
         Loaded(w) \/ SavedOrCreated(w) \/ RestoredOrReloaded(w)
  PROVE  LET t == win'[w]
         IN /\ win[w].on /\ job[w] \in Command /\ job[w].view \in Revision
            /\ t.on = win[w].on /\ t.project = job[w].project
            /\ t.revision = job[w].view /\ t.basis = job[w].view /\ t.draft = job[w].view
            /\ t.dirty = FALSE /\ t.text = None /\ t.consent = FALSE
            /\ Loaded(w) => /\ t.offer \in {None, snapshot[job[w].project]}
                            /\ t.offer # None => /\ t.offer.base = job[w].view
                                                 /\ UNCHANGED snapshot
            /\ ~ Loaded(w) => t.offer = win[w].offer
<1> DEFINE s == win[w]
           t == win'[w]
           p == job[w].project
           r == job[w].view
<1>0. /\ ShapeInv /\ s \in Screen /\ job[w] \in Command /\ p \in Project /\ r \in Revision
      /\ s.on
  <2>1. /\ ShapeInv /\ EngineInv(w) /\ job[w] # None /\ job[w].phase = "answered" /\ s.on
    BY DEF SessionInv, WindowInv, Loaded, SavedOrCreated, RestoredOrReloaded, HasReply
  <2>2. s \in Screen /\ job[w] \in Command
    BY <2>1 DEF ShapeInv
  <2> QED
    BY <2>1, <2>2, CommandFields DEF EngineInv, Content
<1>1. /\ Adopted(s, p, r).on = s.on /\ Adopted(s, p, r).project = p
      /\ Adopted(s, p, r).revision = r /\ Adopted(s, p, r).basis = r /\ Adopted(s, p, r).draft = r
      /\ Adopted(s, p, r).dirty = FALSE /\ Adopted(s, p, r).text = None
      /\ Adopted(s, p, r).consent = FALSE /\ Adopted(s, p, r).offer = s.offer
      /\ Adopted(s, p, r) \in Screen
  <2>1. Adopted(s, p, r) \in Screen
    BY <1>0, AdoptedScreens
  <2> QED
    BY <1>0, <2>1 DEF Adopted, Screen
<1>2. CASE Loaded(w)
  <2>1. PICK o \in {None, snapshot[p]} :
          /\ Set(w, [Adopted(s, p, r) EXCEPT !.offer = o])
          /\ o # None => o.base = r /\ UNCHANGED snapshot
    BY <1>2, Zenon DEF Loaded, ValidSnapshot
  <2>2. o \in Snapshot \cup {None} /\ [Adopted(s, p, r) EXCEPT !.offer = o] \in Screen
    BY <1>0, <2>1, AdoptedScreens DEF ShapeInv
  <2>3. t = [Adopted(s, p, r) EXCEPT !.offer = o]
    BY <1>0, <2>1, <2>2, Displayed
  <2>4. \A u \in Screen :
          LET v == [u EXCEPT !.offer = o]
          IN /\ v.on = u.on /\ v.project = u.project /\ v.revision = u.revision
             /\ v.basis = u.basis /\ v.draft = u.draft /\ v.dirty = u.dirty /\ v.text = u.text
             /\ v.consent = u.consent /\ v.offer = o
    BY DEF Screen
  <2> QED
    <3>1. /\ t.on = Adopted(s, p, r).on /\ t.project = Adopted(s, p, r).project
          /\ t.revision = Adopted(s, p, r).revision /\ t.basis = Adopted(s, p, r).basis
          /\ t.draft = Adopted(s, p, r).draft /\ t.dirty = Adopted(s, p, r).dirty
          /\ t.text = Adopted(s, p, r).text /\ t.consent = Adopted(s, p, r).consent
          /\ t.offer = o
      BY <1>1, <2>3, <2>4
    <3> QED
      BY <1>0, <1>1, <1>2, <2>1, <3>1
<1>3. CASE ~ Loaded(w)
  <2>1. t = Adopted(s, p, r)
    BY <1>0, <1>1, <1>3, Displayed DEF SavedOrCreated, RestoredOrReloaded
  <2> QED
    BY <1>0, <1>1, <1>3, <2>1
<1> QED
  BY <1>2, <1>3

(* Everything else that happens to an open window.                         *)
LEMMA RestShows ==
  ASSUME SessionInv, NEW w \in Window, Persist(w) \/ Decline(w) \/ Listed(w) \/ Refused(w)
  PROVE  LET s == win[w]
             t == win'[w]
         IN /\ t.on = s.on /\ t.project = s.project /\ t.revision = s.revision
            /\ t.basis = s.basis /\ t.draft = s.draft /\ t.dirty = s.dirty /\ t.text = s.text
            /\ t.offer = s.offer \/ (Decline(w) /\ t.offer = None)
            /\ t.timer = s.timer \/ Persist(w)
            /\ t.consent = s.consent \/ (Refused(w) /\ t.consent = FALSE)
<1> DEFINE s == win[w]
           t == win'[w]
<1>0. ShapeInv /\ s \in Screen
  BY DEF SessionInv, ShapeInv
<1>1. CASE Persist(w)
  <2>1. t = [s EXCEPT !.timer = FALSE]
    BY <1>0, <1>1 DEF Persist, Set, ShapeInv
  <2> QED
    BY <1>0, <1>1, <2>1 DEF Screen
<1>2. CASE Decline(w)
  <2>1. t = [s EXCEPT !.offer = None]
    BY <1>0, <1>2 DEF Decline, Set, ShapeInv
  <2> QED
    BY <1>0, <1>2, <2>1 DEF Screen
<1>3. CASE Listed(w)
  <2>1. t = [s EXCEPT !.review = [project |-> job[w].project, head |-> job[w].view],
                      !.reviewed = None]
    BY <1>0, <1>3 DEF Listed, Set, ShapeInv
  <2> QED
    BY <1>0, <2>1 DEF Screen
<1>4. CASE Refused(w)
  <2>1. PICK r : t = [s EXCEPT !.consent = FALSE, !.reviewed = r]
    BY <1>0, <1>4 DEF Refused, Set, ShapeInv
  <2> QED
    BY <1>0, <1>4, <2>1 DEF Screen
<1> QED
  BY <1>1, <1>2, <1>3, <1>4

-----------------------------------------------------------------------------
(* Projects and other windows                                              *)

(* What a project has retained stays retained, its head among it.          *)
LEMMA ProjectsKept ==
  ASSUME SessionInv, NEW w \in Window, WindowStep(w) \/ EngineStep(w), NEW p \in Project
  PROVE  ProjectInv(p)'
<1>0. /\ ProjectInv(p) /\ ShapeInv /\ ShapeInv' /\ ScreenInv(w)
      /\ None \notin Snapshot
  BY StepMoves, SessionAssumption DEF SessionInv, WindowInv, Moved
<1>1. head'[p] # None => head'[p] \in retained'[p]
  <2>1. CASE Perform(w)
    <3>1. job[w] \in Command /\ job[w].project \in Project
      BY <1>0, <2>1, CommandFields DEF Perform, ShapeInv
    <3> QED
      BY <1>0, <2>1, <3>1 DEF Perform, ShapeInv, ProjectInv
  <2>2. CASE UNCHANGED <<head, retained>>
    BY <1>0, <2>2 DEF ProjectInv
  <2>3. Perform(w) \/ UNCHANGED <<head, retained>>
    BY DEF WindowStep, EngineStep, EditDiagram, TypeText, SelectRevision, UndoAll, ApplyText,
           Persist, Recover, Decline, Load, Create, Save, RunSaved, ShowRevisions, Restore,
           Loaded, SavedOrCreated, RestoredOrReloaded, Listed, Ran, Refused, Launch, Quit, Crash,
           Answer, Unheard, files
  <2> QED
    BY <2>1, <2>2, <2>3
<1>2. snapshot'[p] # None => snapshot'[p].basis = snapshot'[p].base
  <2>1. snapshot'[p] \in {snapshot[p], None, Persisted(w)[p]}
    <3>1. CASE UNCHANGED snapshot \/ snapshot' = Persisted(w)
      BY <3>1
    <3>2. CASE \E q : snapshot' = [snapshot EXCEPT ![q] = None]
      BY <1>0, <3>2 DEF ShapeInv
    <3>3. \/ UNCHANGED snapshot \/ snapshot' = Persisted(w)
          \/ \E q : snapshot' = [snapshot EXCEPT ![q] = None]
      BY DEF WindowStep, EngineStep, EditDiagram, TypeText, SelectRevision, UndoAll, ApplyText,
             Persist, Recover, Decline, Load, Create, Save, RunSaved, ShowRevisions, Restore,
             Loaded, SavedOrCreated, RestoredOrReloaded, Listed, Ran, Refused, Launch, Quit, Crash,
             Perform, Answer, Unheard, files
    <3> QED
      BY <3>1, <3>2, <3>3
  <2>2. Persisted(w)[p] # None => Persisted(w)[p].basis = Persisted(w)[p].base
    <3>1. CASE p # win[w].project
      BY <1>0, <3>1, PersistedFile DEF ProjectInv
    <3>2. CASE p = win[w].project /\ Work(w)
      <4>1. Persisted(w)[p] = [base |-> win[w].revision, basis |-> win[w].basis,
                               draft |-> win[w].draft, text |-> win[w].text]
        BY <3>2, PersistedFile
      <4> QED
        BY <1>0, <4>1 DEF ScreenInv
    <3>3. CASE p = win[w].project /\ ~ Work(w)
      BY <1>0, <3>3, PersistedFile
    <3> QED
      BY <3>1, <3>2, <3>3
  <2> QED
    BY <1>0, <2>1, <2>2 DEF ProjectInv
<1> QED
  BY <1>1, <1>2 DEF ProjectInv

(* Only a window that shows a project, or is about to, writes its recovery *)
(* file.                                                                   *)
LEMMA OwnFile ==
  ASSUME SessionInv, NEW w \in Window, WindowStep(w) \/ EngineStep(w),
         NEW v \in Window \ {w}, win[v].on, win[v].project \in Project \ contended'
  PROVE  snapshot'[win[v].project] = snapshot[win[v].project]
<1> DEFINE p == win[v].project
<1>0. /\ ShapeInv /\ ScreenInv(w) /\ Alone(v, w) /\ contended \subseteq contended'
      /\ OfferInv(w) /\ p # None /\ p \in Project
  BY StepMoves, SessionAssumption DEF SessionInv, WindowInv, Moved
<1>1. win[w].on => win[w].project # p
  BY <1>0 DEF Alone
<1>2. CASE Persist(w)
  BY <1>0, <1>1, <1>2, PersistedFile DEF Persist
<1>3. CASE Decline(w)
  BY <1>0, <1>1, <1>3 DEF Decline, ScreenInv, Closed, ShapeInv
<1>4. CASE Quit(w)
  <2>1. /\ win[w].on
        /\ \/ snapshot' = Persisted(w)
           \/ snapshot' = IF win[w].project = None THEN snapshot
                          ELSE [snapshot EXCEPT ![win[w].project] = None]
    BY <1>4 DEF Quit, Free
  <2>2. CASE snapshot' = Persisted(w)
    BY <1>0, <1>1, <2>1, <2>2, PersistedFile
  <2>3. CASE snapshot' # Persisted(w)
    BY <1>0, <1>1, <2>1, <2>3 DEF ShapeInv
  <2> QED
    BY <2>2, <2>3
<1>5. CASE Loaded(w) \/ SavedOrCreated(w)
  <2>1. job[w].project # p
    BY <1>0, <1>5 DEF Loaded, SavedOrCreated, Contend, MeetsAnother
  <2> QED
    BY <1>0, <1>5, <2>1 DEF Loaded, SavedOrCreated, ShapeInv
<1>6. CASE UNCHANGED snapshot
  BY <1>6
<1>7. UNCHANGED snapshot \/ Persist(w) \/ Decline(w) \/ Quit(w) \/ Loaded(w) \/ SavedOrCreated(w)
  BY DEF WindowStep, EngineStep, EditDiagram, TypeText, SelectRevision, UndoAll, ApplyText,
         Recover, Load, Create, Save, RunSaved, ShowRevisions, Restore,
         RestoredOrReloaded, Listed, Ran, Refused, Launch, Crash, Perform, Answer, Unheard, files
<1> QED
  BY <1>2, <1>3, <1>4, <1>5, <1>6, <1>7

(* So nothing becomes wrong for a window that stands still.                *)
LEMMA StandingStill ==
  ASSUME SessionInv, NEW v \in Window, win'[v] = win[v], job'[v] = job[v],
         \A p \in Project : retained[p] \subseteq retained'[p], contended \subseteq contended',
         win[v].on /\ win[v].project \in Project \ contended' =>
           snapshot'[win[v].project] = snapshot[win[v].project]
  PROVE  WindowInv(v)'
<1>0. /\ WindowInv(v) /\ win[v].project \in Project \cup {None}
      /\ job[v] # None => job[v].project \in Project
  BY ScreenFields, CommandFields DEF SessionInv, ShapeInv
<1>1. (Work(v) <=> Work(v)') /\ ScreenInv(v)'
  BY <1>0 DEF WindowInv, ScreenInv, Work, Closed
<1>2. OfferInv(v)'
  BY <1>0, <1>1 DEF WindowInv, OfferInv, ScreenInv, Closed
<1>3. EngineInv(v)' /\ WaitingInv(v)' /\ ConsentInv(v)'
  BY <1>0, <1>1 DEF WindowInv, EngineInv, WaitingInv, ConsentInv
<1>4. RecoveryInv(v)'
  BY <1>0, <1>1 DEF WindowInv, RecoveryInv, ScreenInv
<1> QED
  BY <1>1, <1>2, <1>3, <1>4 DEF WindowInv

(* A window changes its project only with a reply, which then says whether *)
(* another shows it too.                                                   *)
LEMMA StillAlone ==
  ASSUME SessionInv, NEW w \in Window, WindowStep(w) \/ EngineStep(w),
         NEW v \in Window \ {w}
  PROVE  Alone(v, w)' /\ Alone(w, v)'
<1>0. /\ ShapeInv /\ WaitingInv(w) /\ Alone(v, w) /\ Moved(w)
      /\ win[w] \in Screen /\ Applied(win[w]) \in Screen
      /\ job[w] # None => job[w].project \in Project /\ job[w].view \in Content
  BY StepMoves, AppliedScreen, CommandFields DEF SessionInv, WindowInv, ShapeInv
<1>1. CASE win'[w].on /\ win'[w].project # None =>
             win[w].on /\ win'[w].project = win[w].project
  BY <1>0, <1>1 DEF Moved, Alone
<1>2. CASE Loaded(w) \/ SavedOrCreated(w)
  <2>1. win'[w].project = job[w].project
    BY <1>2, ReplyShows
  <2>2. MeetsAnother(w, job[w].project) => job[w].project \in contended'
    BY <1>2 DEF Loaded, SavedOrCreated, Contend
  <2> QED
    BY <1>0, <2>1, <2>2 DEF Moved, Alone, MeetsAnother
<1>3. CASE RestoredOrReloaded(w)
  <2>1. win'[w].project = job[w].project
    BY <1>3, ReplyShows
  <2>2. win[w].on /\ win[w].project = job[w].project
    BY <1>0, <1>3 DEF RestoredOrReloaded, HasReply, WaitingInv
  <2> QED
    BY <1>1, <2>1, <2>2
<1>4. CASE Launch(w) \/ Quit(w) \/ Crash(w)
  <2>1. win'[w].on => win'[w].project \in {None, win[w].project} /\ (win'[w].project # None => win[w].on)
    BY <1>0, <1>4, ClosedScreens DEF Launch, Quit, Crash, Set, ShapeInv, Closed, Screen, Free
  <2> QED
    BY <1>1, <2>1
<1>5. CASE \/ \E d \in Revision : EditDiagram(w, d) \/ TypeText(w, d) \/ SelectRevision(w, d)
           \/ UndoAll(w) \/ ApplyText(w) \/ Persist(w) \/ Decline(w)
           \/ Listed(w) \/ Refused(w)
           \/ (\E p \in Project : Load(w, p) \/ Create(w, p)) \/ Save(w)
  <2>1. win'[w].on = win[w].on /\ win'[w].project = win[w].project
    BY <1>5, EditShows, SendingShows, RestShows
  <2> QED
    BY <1>1, <2>1
<1>6. CASE Recover(w)
  <2>1. win'[w].on = win[w].on /\ win'[w].project = win[w].project
    BY <1>0, <1>6 DEF Recover, Set, ShapeInv, Screen
  <2> QED
    BY <1>1, <2>1
<1>7. CASE UNCHANGED win
  BY <1>1, <1>7
<1> QED
  BY <1>2, <1>3, <1>4, <1>5, <1>6, <1>7
  DEF WindowStep, EngineStep, RunSaved, ShowRevisions, Restore, Ran, Perform, Answer, Unheard

-----------------------------------------------------------------------------
(* The window that takes the step                                          *)

(* It is about to lose nothing it is not entitled to: an edit has made a   *)
(* snapshot due.                                                           *)
LEMMA EditsKeep ==
  ASSUME SessionInv, NEW w \in Window,
         \/ \E d \in Revision : EditDiagram(w, d) \/ TypeText(w, d) \/ SelectRevision(w, d)
         \/ UndoAll(w) \/ ApplyText(w)
  PROVE  WindowInv(w)'
<1>0. WindowInv(w)
  BY DEF SessionInv
<1>1. /\ Shows(w) /\ UNCHANGED <<job, files, contended>>
      /\ win'[w].on = win[w].on /\ win'[w].project = win[w].project
      /\ win'[w].revision = win[w].revision /\ win'[w].basis = win[w].basis
      /\ win'[w].offer = win[w].offer /\ win'[w].consent = win[w].consent
      /\ win'[w].draft # None
      /\ \/ win'[w].timer
         \/ /\ win'[w].timer = win[w].timer /\ win'[w].draft = win[w].draft
            /\ win'[w].dirty = win[w].dirty /\ win'[w].text \in {win[w].text, None}
  BY EditShows
<1>2. win[w].on /\ win[w].offer = None /\ job'[w] = None /\ win[w].project # None
  BY <1>1 DEF Shows, Free
<1>3. ScreenInv(w)' /\ OfferInv(w)' /\ EngineInv(w)' /\ WaitingInv(w)' /\ ConsentInv(w)'
  BY <1>0, <1>1, <1>2 DEF WindowInv, ScreenInv, OfferInv, EngineInv, WaitingInv, ConsentInv, Shows, Free
<1>4. RecoveryInv(w)'
  BY <1>0, <1>1 DEF WindowInv, RecoveryInv, Work, files
<1> QED
  BY <1>3, <1>4 DEF WindowInv

(* What has been written is what is on the screen.                         *)
LEMMA PersistKeeps ==
  ASSUME SessionInv, NEW w \in Window, Persist(w)
  PROVE  WindowInv(w)'
<1>0. /\ WindowInv(w) /\ ShapeInv /\ win[w].project \in Project \cup {None}
      /\ win[w].offer = None /\ win[w].on
      /\ UNCHANGED <<job, head, retained, contended>> /\ snapshot' = Persisted(w)
      /\ None \notin Snapshot
  BY ScreenFields, SessionAssumption DEF SessionInv, ShapeInv, Persist
<1>1. /\ win'[w].on = win[w].on /\ win'[w].project = win[w].project
      /\ win'[w].revision = win[w].revision /\ win'[w].basis = win[w].basis
      /\ win'[w].draft = win[w].draft /\ win'[w].dirty = win[w].dirty
      /\ win'[w].text = win[w].text /\ win'[w].offer = None
      /\ win'[w].consent = win[w].consent \/ win'[w].consent = FALSE
  BY <1>0, RestShows
<1>2. ScreenInv(w)' /\ OfferInv(w)'
  BY <1>0, <1>1 DEF WindowInv, ScreenInv, OfferInv, Work
<1>3. win'[w].consent = win[w].consent
  <2>1. win'[w] = [win[w] EXCEPT !.timer = FALSE] /\ win[w] \in Screen
    BY <1>0 DEF Persist, Set, ShapeInv
  <2> QED
    BY <2>1 DEF Screen
<1>4. EngineInv(w)' /\ WaitingInv(w)' /\ ConsentInv(w)'
  BY <1>0, <1>1, <1>3 DEF WindowInv, EngineInv, WaitingInv, ConsentInv, Work
<1>5. RecoveryInv(w)'
  <2> SUFFICES ASSUME Work(w)
               PROVE  RecoveryInv(w)'
    BY <1>1 DEF RecoveryInv, Work
  <2> QED
    BY <1>0, <1>1, WrittenFile DEF RecoveryInv
<1> QED
  BY <1>2, <1>4, <1>5 DEF WindowInv

(* A recovered draft is still in its file; one that is declined was never  *)
(* on the screen.                                                          *)
LEMMA OffersKeep ==
  ASSUME SessionInv, NEW w \in Window, Recover(w) \/ Decline(w)
  PROVE  WindowInv(w)'
<1>0. /\ WindowInv(w) /\ ShapeInv /\ win[w] \in Screen /\ win[w].offer \in Snapshot
      /\ None \notin Snapshot /\ None \notin Revision
      /\ job[w] = None /\ ~ Work(w) /\ win[w].project # None /\ win[w].on
      /\ win[w].offer.base = win[w].revision /\ win[w].offer.basis = win[w].revision
      /\ win[w].project \notin contended => snapshot[win[w].project] = win[w].offer
  <2>1. WindowInv(w) /\ ShapeInv /\ win[w].offer # None
    BY DEF SessionInv, Recover, Decline
  <2>2. win[w] \in Screen
    BY <2>1 DEF ShapeInv
  <2>3. win[w].on
    BY <2>1 DEF WindowInv, ScreenInv, Closed
  <2>4. win[w].offer \in Snapshot
    BY <2>1, <2>2, ScreenFields
  <2> QED
    BY <2>1, <2>2, <2>3, <2>4, SessionAssumption DEF WindowInv, OfferInv
<1>1. CASE Recover(w)
  <2>1. /\ win[w].offer.draft # None
        /\ UNCHANGED <<job, files, contended>>
    BY <1>0, <1>1, SnapshotFields DEF Recover
  <2>2. win'[w] = [win[w] EXCEPT !.draft = win[w].offer.draft, !.basis = win[w].offer.basis,
                                 !.dirty = TRUE, !.text = win[w].offer.text, !.offer = None]
    BY <1>0, <1>1 DEF Recover, Set, ShapeInv
  <2>3. /\ win'[w].on = win[w].on /\ win'[w].project = win[w].project
        /\ win'[w].revision = win[w].revision /\ win'[w].basis = win[w].offer.basis
        /\ win'[w].draft = win[w].offer.draft /\ win'[w].dirty = TRUE
        /\ win'[w].text = win[w].offer.text /\ win'[w].offer = None
        /\ win'[w].consent = win[w].consent
    <3>1. PICK s \in Screen, o \in Snapshot : s = win[w] /\ o = win[w].offer
      BY <1>0
    <3>2. win'[w] = [s EXCEPT !.draft = o.draft, !.basis = o.basis,
                              !.dirty = TRUE, !.text = o.text, !.offer = None]
      BY <2>2, <3>1
    <3>3. /\ win'[w].on = s.on /\ win'[w].project = s.project
          /\ win'[w].revision = s.revision /\ win'[w].consent = s.consent
          /\ win'[w].basis = o.basis /\ win'[w].draft = o.draft
          /\ win'[w].dirty = TRUE /\ win'[w].text = o.text /\ win'[w].offer = None
      <4>1. PICK n : n = win'[w]
        OBVIOUS
      <4>2. n = [s EXCEPT !.draft = o.draft, !.basis = o.basis,
                          !.dirty = TRUE, !.text = o.text, !.offer = None]
        BY <3>2, <4>1
      <4>3. n.on = s.on /\ n.project = s.project
        BY <4>2 DEF Screen
      <4>4. n.revision = s.revision /\ n.consent = s.consent
        BY <4>2 DEF Screen
      <4>5. n.basis = o.basis /\ n.draft = o.draft
        BY <4>2 DEF Screen
      <4>6. n.dirty = TRUE /\ n.text = o.text /\ n.offer = None
        BY <4>2 DEF Screen
      <4> QED
        BY <4>1, <4>3, <4>4, <4>5, <4>6
    <3> QED
      BY <3>1, <3>3
  <2>4. ScreenInv(w)' /\ OfferInv(w)' /\ EngineInv(w)' /\ WaitingInv(w)' /\ ConsentInv(w)'
    BY <1>0, <2>1, <2>3 DEF WindowInv, ScreenInv, OfferInv, EngineInv, WaitingInv, ConsentInv
  <2>5. RecoveryInv(w)'
    BY <1>0, <2>1, <2>3 DEF RecoveryInv, files
  <2> QED
    BY <2>4, <2>5 DEF WindowInv
<1>2. CASE Decline(w)
  <2>1. UNCHANGED <<job, head, retained, contended>>
    BY <1>2 DEF Decline
  <2>2. /\ win'[w].on = win[w].on /\ win'[w].project = win[w].project
        /\ win'[w].revision = win[w].revision /\ win'[w].basis = win[w].basis
        /\ win'[w].draft = win[w].draft /\ win'[w].dirty = win[w].dirty
        /\ win'[w].text = win[w].text
    BY <1>2, RestShows
  <2>3. win'[w].offer = None /\ win'[w].consent = win[w].consent
    <3>1. win'[w] = [win[w] EXCEPT !.offer = None]
      BY <1>0, <1>2 DEF Decline, Set, ShapeInv
    <3> QED
      BY <1>0, <3>1 DEF Screen
  <2>4. ~ Work(w)'
    BY <1>0, <2>2 DEF Work
  <2>5. ScreenInv(w)' /\ OfferInv(w)' /\ EngineInv(w)' /\ WaitingInv(w)' /\ ConsentInv(w)'
    BY <1>0, <2>1, <2>2, <2>3, <2>4
    DEF WindowInv, ScreenInv, OfferInv, EngineInv, WaitingInv, ConsentInv
  <2> QED
    BY <2>4, <2>5 DEF WindowInv, RecoveryInv
<1> QED
  BY <1>1, <1>2

(* A window that is not there holds nothing; a quit that is called off has *)
(* written the snapshot.                                                   *)
LEMMA BlankKeeps ==
  ASSUME SessionInv, NEW w \in Window, UNCHANGED job,
         win'[w] = Closed \/ (win'[w] = [Closed EXCEPT !.on = TRUE] /\ job[w] = None),
         \A p \in Project : retained[p] \subseteq retained'[p]
  PROVE  WindowInv(w)'
<1>0. /\ WindowInv(w)
      /\ job[w] # None => job[w].project \in Project
  BY CommandFields DEF SessionInv, ShapeInv
<1>1. /\ win'[w].project = None /\ win'[w].revision = None /\ win'[w].basis = None
      /\ win'[w].draft = None /\ win'[w].dirty = FALSE /\ win'[w].text = None
      /\ win'[w].offer = None /\ win'[w].consent = FALSE
      /\ win'[w].on => job[w] = None
      /\ ~ win'[w].on => win'[w] = Closed
  BY DEF Closed
<1>2. ~ Work(w)'
  BY <1>1 DEF Work
<1> QED
  BY <1>0, <1>1, <1>2
  DEF WindowInv, ScreenInv, OfferInv, EngineInv, WaitingInv, ConsentInv, RecoveryInv

(* Starting, quitting and crashing leave a window as it should be.         *)
LEMMA ProcessesKeep ==
  ASSUME SessionInv, NEW w \in Window, Launch(w) \/ Quit(w) \/ Crash(w)
  PROVE  WindowInv(w)'
<1>0. ShapeInv /\ win[w] \in Screen
  BY DEF SessionInv, ShapeInv
<1>1. CASE Launch(w)
  BY <1>0, <1>1, BlankKeeps DEF Launch, Set, ShapeInv, files
<1>2. CASE Crash(w)
  BY <1>0, <1>2, BlankKeeps DEF Crash, Set, ShapeInv, files
<1>3. CASE Quit(w) /\ Set(w, Closed)
  BY <1>0, <1>3, BlankKeeps DEF Quit, Set, ShapeInv
<1>4. CASE Quit(w) /\ ~ Set(w, Closed)
  <2>1. /\ Set(w, [win[w] EXCEPT !.timer = FALSE]) /\ snapshot' = Persisted(w)
        /\ Work(w) /\ win[w].on /\ win[w].offer = None /\ job[w] = None
        /\ UNCHANGED <<job, head, retained, contended>>
    BY <1>4 DEF Quit, Free
  <2>2. /\ win'[w].on = win[w].on /\ win'[w].project = win[w].project
        /\ win'[w].revision = win[w].revision /\ win'[w].basis = win[w].basis
        /\ win'[w].draft = win[w].draft /\ win'[w].dirty = win[w].dirty
        /\ win'[w].text = win[w].text /\ win'[w].offer = None
        /\ win'[w].consent = win[w].consent
    <3>1. win'[w] = [win[w] EXCEPT !.timer = FALSE]
      BY <1>0, <2>1 DEF Set, ShapeInv
    <3>2. /\ win'[w].on = win[w].on /\ win'[w].project = win[w].project
          /\ win'[w].revision = win[w].revision /\ win'[w].basis = win[w].basis
          /\ win'[w].draft = win[w].draft
      BY <1>0, <3>1 DEF Screen
    <3>3. /\ win'[w].dirty = win[w].dirty /\ win'[w].text = win[w].text
          /\ win'[w].offer = win[w].offer /\ win'[w].consent = win[w].consent
      BY <1>0, <3>1 DEF Screen
    <3> QED
      BY <2>1, <3>2, <3>3
  <2>3. WindowInv(w) /\ None \notin Snapshot
    BY SessionAssumption DEF SessionInv
  <2>4. ScreenInv(w)' /\ OfferInv(w)' /\ EngineInv(w)' /\ WaitingInv(w)' /\ ConsentInv(w)'
    BY <2>1, <2>2, <2>3
    DEF WindowInv, ScreenInv, OfferInv, EngineInv, WaitingInv, ConsentInv, Work
  <2>5. RecoveryInv(w)'
    BY <2>1, <2>2, WrittenFile DEF RecoveryInv
  <2> QED
    BY <2>4, <2>5 DEF WindowInv
<1> QED
  BY <1>1, <1>2, <1>3, <1>4

(* What a command is given stays on the screen until its reply is in.      *)
LEMMA SendingKeeps ==
  ASSUME SessionInv, NEW w \in Window,
         \/ \E p \in Project : Load(w, p) \/ Create(w, p)
         \/ Save(w) \/ RunSaved(w) \/ ShowRevisions(w) \/ Restore(w)
  PROVE  WindowInv(w)'
<1>0. /\ WindowInv(w) /\ ShapeInv /\ win[w] \in Screen /\ win[w].project \in Project \cup {None}
      /\ Free(w) /\ win[w].revision \in Content /\ win[w].reviewed \in Content
      /\ UNCHANGED <<files, contended>>
      /\ None \notin Command /\ Template # None /\ None \in Content /\ Template \in Content
  <2>1. Free(w) /\ UNCHANGED <<files, contended>>
    BY DEF Load, Create, Save, RunSaved, ShowRevisions, Restore, MayReplace, Shows
  <2>2. WindowInv(w) /\ ShapeInv /\ win[w] \in Screen
    BY DEF SessionInv, ShapeInv
  <2> QED
    BY <2>1, <2>2, ScreenFields, SessionAssumption DEF Content
<1>1. win[w].on /\ win[w].offer = None /\ job[w] = None /\ ~ win[w].consent
  BY <1>0 DEF Free, WindowInv, ConsentInv
<1>2. ASSUME NEW p \in Project, Load(w, p) \/ Create(w, p)
      PROVE  WindowInv(w)'
  <2>1. /\ job'[w] \in Command /\ job'[w].kind \in {"load", "create"}
        /\ job'[w].phase = "sent"
        /\ job'[w].kind = "create" => job'[w].draft = Template
    <3>1. CASE Load(w, p)
      BY <1>0, <3>1, Sent DEF Load
    <3>2. CASE Create(w, p)
      BY <1>0, <3>2, Sent DEF Create
    <3> QED
      BY <1>2, <3>1, <3>2
  <2>2. ~ Save(w)
    BY <1>2, <2>1, <1>0, SavesSend DEF Load, Create
  <2>3. /\ win'[w].on = win[w].on /\ win'[w].project = win[w].project
        /\ win'[w].revision = win[w].revision /\ win'[w].basis = win[w].basis
        /\ win'[w].offer = win[w].offer /\ win'[w].draft = win[w].draft
        /\ win'[w].dirty = win[w].dirty /\ win'[w].text = win[w].text
        /\ win'[w].timer = win[w].timer /\ win'[w].consent = Work(w)
    BY <1>2, <2>2, SendingShows
  <2>4. Work(w)' <=> Work(w)
    BY <2>3 DEF Work
  <2>5. ScreenInv(w)' /\ OfferInv(w)' /\ EngineInv(w)' /\ WaitingInv(w)' /\ ConsentInv(w)'
    BY <1>0, <1>1, <2>1, <2>3, <2>4
    DEF WindowInv, ScreenInv, OfferInv, EngineInv, WaitingInv, ConsentInv
  <2>6. RecoveryInv(w)'
    BY <1>0, <2>3, <2>4 DEF WindowInv, RecoveryInv, files
  <2> QED
    BY <2>5, <2>6 DEF WindowInv
<1>3. CASE Save(w)
  <2>1. /\ win'[w].on = win[w].on /\ win'[w].project = win[w].project
        /\ win'[w].revision = win[w].revision /\ win'[w].basis = win[w].basis
        /\ win'[w].offer = win[w].offer /\ win'[w].consent = win[w].consent
        /\ win'[w] = Applied(win[w]) /\ win'[w].draft # None
        /\ \/ win'[w].timer
           \/ /\ win'[w].timer = win[w].timer /\ win'[w].draft = win[w].draft
              /\ win'[w].dirty = win[w].dirty /\ win'[w].text = None
    BY <1>3, SendingShows
  <2>2. /\ job'[w] \in Command /\ job'[w].kind = "save" /\ job'[w].phase = "sent"
        /\ job'[w].draft = win'[w].draft /\ job'[w].project = win[w].project
        /\ job'[w].base = win[w].revision /\ job'[w].basis = win[w].basis
    BY <1>3, <2>1, SavesSend
  <2>3. win[w].project # None
    BY <1>3 DEF Save, Shows
  <2>4. ScreenInv(w)' /\ OfferInv(w)' /\ EngineInv(w)' /\ WaitingInv(w)' /\ ConsentInv(w)'
    BY <1>0, <1>1, <2>1, <2>2, <2>3
    DEF WindowInv, ScreenInv, OfferInv, EngineInv, WaitingInv, ConsentInv
  <2>5. RecoveryInv(w)'
    BY <1>0, <2>1 DEF WindowInv, RecoveryInv, Work, files
  <2> QED
    BY <2>4, <2>5 DEF WindowInv
<1>4. CASE RunSaved(w) \/ ShowRevisions(w) \/ Restore(w)
  <2>1. /\ UNCHANGED win /\ win[w].project \in Project
        /\ RunSaved(w) \/ Restore(w) => ~ Work(w)
        /\ Restore(w) => win[w].reviewed # None
    BY <1>0, <1>4 DEF RunSaved, ShowRevisions, Restore, Shows, Runnable
  <2>0. PICK p \in Project : p = win[w].project
    BY <2>1
  <2>2. /\ job'[w] \in Command /\ job'[w].phase = "sent" /\ job'[w].project = win[w].project
        /\ job'[w].kind \in {"run", "revisions", "restore"}
        /\ job'[w].kind \in {"run", "restore"} => ~ Work(w)
        /\ job'[w].kind = "restore" => job'[w].draft # None
    <3>1. CASE RunSaved(w)
      <4>1. Send(w, "run", p, None, None)
        BY <1>0, <2>0, <3>1 DEF RunSaved
      <4>2. /\ job'[w] \in Command /\ job'[w].phase = "sent" /\ job'[w].project = win[w].project
            /\ job'[w].kind = "run" /\ job'[w].draft = None
        <5>1. ShapeInv /\ None \in Content /\ win[w].reviewed \in Content
          BY <1>0
        <5>2. /\ job'[w] \in Command /\ job'[w].phase = "sent" /\ job'[w].project = p
              /\ job'[w].kind = "run" /\ job'[w].draft = None
          BY <4>1, <5>1, Sent
        <5> QED
          BY <2>0, <5>2
      <4> QED
        BY <2>1, <3>1, <4>2
    <3>2. CASE ShowRevisions(w)
      <4>1. Send(w, "revisions", p, None, None)
        BY <1>0, <2>0, <3>2 DEF ShowRevisions
      <4>2. /\ job'[w] \in Command /\ job'[w].phase = "sent" /\ job'[w].project = win[w].project
            /\ job'[w].kind = "revisions" /\ job'[w].draft = None
        <5>1. ShapeInv /\ None \in Content /\ win[w].reviewed \in Content
          BY <1>0
        <5>2. /\ job'[w] \in Command /\ job'[w].phase = "sent" /\ job'[w].project = p
              /\ job'[w].kind = "revisions" /\ job'[w].draft = None
          BY <4>1, <5>1, Sent
        <5> QED
          BY <2>0, <5>2
      <4> QED
        BY <2>1, <3>2, <4>2
    <3>3. CASE Restore(w)
      <4>1. PICK base \in Content, d \in Content :
              d = win[w].reviewed /\ Send(w, "restore", p, base, d)
        BY <1>0, <2>0, <3>3 DEF Restore
      <4>2. /\ job'[w] \in Command /\ job'[w].phase = "sent" /\ job'[w].project = win[w].project
            /\ job'[w].kind = "restore" /\ job'[w].draft = win[w].reviewed
        <5>1. ShapeInv /\ Send(w, "restore", p, base, d)
          BY <1>0, <4>1
        <5>2. /\ job'[w] \in Command /\ job'[w].phase = "sent" /\ job'[w].project = p
              /\ job'[w].kind = "restore" /\ job'[w].draft = d
          BY <5>1, Sent
        <5> QED
          BY <2>0, <4>1, <5>2
      <4> QED
        BY <2>1, <3>3, <4>2
    <3> QED
      BY <1>4, <3>1, <3>2, <3>3
  <2>3. ScreenInv(w)' /\ OfferInv(w)' /\ EngineInv(w)' /\ WaitingInv(w)' /\ ConsentInv(w)'
    BY <1>0, <1>1, <2>1, <2>2
    DEF WindowInv, ScreenInv, OfferInv, EngineInv, WaitingInv, ConsentInv, Work
  <2>4. RecoveryInv(w)'
    BY <1>0, <2>1 DEF WindowInv, RecoveryInv, Work, files
  <2> QED
    BY <2>3, <2>4 DEF WindowInv
<1> QED
  BY <1>2, <1>3, <1>4

(* The engine knows nothing of the window; its deed is kept in the         *)
(* project before it answers.                                              *)
LEMMA EngineKeeps ==
  ASSUME SessionInv, NEW w \in Window, EngineStep(w)
  PROVE  WindowInv(w)'
<1>0. /\ WindowInv(w) /\ ShapeInv /\ UNCHANGED <<win, snapshot, contended>>
      /\ job[w] # None => job[w] \in Command /\ job[w].project \in Project
      /\ None \notin Command /\ None \notin Revision
  <2>1. WindowInv(w) /\ ShapeInv /\ UNCHANGED <<win, snapshot, contended>>
    BY DEF SessionInv, EngineStep, Perform, Answer, Unheard, files
  <2> QED
    BY <2>1, CommandFields, SessionAssumption DEF ShapeInv
<1>1. ScreenInv(w)' /\ RecoveryInv(w)' /\ (Work(w)' <=> Work(w))
  BY <1>0 DEF WindowInv, ScreenInv, RecoveryInv, Work
<1>2. CASE Unheard(w)
  <2>1. ~ win[w].on /\ job'[w] = None /\ ~ win[w].consent
    BY <1>0, <1>2, Finished DEF Unheard, WindowInv, ScreenInv, Closed
  <2> QED
    BY <1>0, <1>1, <2>1 DEF WindowInv, OfferInv, EngineInv, WaitingInv, ConsentInv
<1>3. CASE Perform(w)
  <2>1. /\ job'[w] \in Command
        /\ job'[w].kind = job[w].kind /\ job'[w].project = job[w].project
        /\ job'[w].base = job[w].base /\ job'[w].draft = job[w].draft
        /\ job'[w].basis = job[w].basis /\ job'[w].phase = "done"
    <3>1. job'[w] = [job[w] EXCEPT !.phase = "done"] /\ job[w] \in Command
      BY <1>0, <1>3 DEF Perform, ShapeInv
    <3> QED
      BY <3>1 DEF Command
  <2>2. /\ job[w] # None /\ job'[w] # None
        /\ job[w].draft \in retained'[job[w].project]
    BY <1>0, <1>3, <2>1 DEF Perform, ShapeInv
  <2> QED
    BY <1>0, <1>1, <2>1, <2>2 DEF WindowInv, OfferInv, EngineInv, WaitingInv, ConsentInv
<1>4. CASE Answer(w)
  <2>1. /\ job'[w] \in Command
        /\ job'[w].kind = job[w].kind /\ job'[w].project = job[w].project
        /\ job'[w].base = job[w].base /\ job'[w].draft = job[w].draft
        /\ job'[w].basis = job[w].basis /\ job'[w].phase = "answered"
        /\ job'[w].view # None
    <3>1. /\ job'[w] = [job[w] EXCEPT !.phase = "answered", !.view = head[job[w].project]]
          /\ job[w] \in Command /\ head[job[w].project] # None
          /\ head[job[w].project] \in Content
      BY <1>0, <1>4 DEF Answer, ShapeInv
    <3> QED
      BY <3>1 DEF Command, Content
  <2>2. /\ job[w] # None /\ job'[w] # None /\ UNCHANGED files
        /\ job[w].kind = "save" => job[w].phase # "sent"
    BY <1>0, <1>4, <2>1 DEF Answer, Reads, Replaces
  <2> QED
    BY <1>0, <1>1, <2>1, <2>2 DEF WindowInv, OfferInv, EngineInv, WaitingInv, ConsentInv, files
<1> QED
  BY <1>2, <1>3, <1>4 DEF EngineStep

(* A reply that shows a project leaves nothing unsaved; any other leaves   *)
(* the work alone.                                                         *)
LEMMA RepliesKeep ==
  ASSUME SessionInv, NEW w \in Window,
         \/ Loaded(w) \/ SavedOrCreated(w) \/ RestoredOrReloaded(w)
         \/ Listed(w) \/ Ran(w) \/ Refused(w)
  PROVE  WindowInv(w)'
<1>0. /\ WindowInv(w) /\ ShapeInv /\ win[w].on /\ job[w] # None /\ job[w] \in Command
      /\ job[w].project \in Project /\ None \notin Command /\ None \notin Project
      /\ None \notin Revision /\ win[w].offer = None
  <2>1. WindowInv(w) /\ ShapeInv /\ win[w].on /\ job[w] # None
    BY DEF SessionInv, Loaded, SavedOrCreated, RestoredOrReloaded, Listed, Ran, Refused, HasReply
  <2>2. job[w] \in Command /\ win[w].offer = None
    BY <2>1 DEF ShapeInv, WindowInv, OfferInv
  <2> QED
    BY <2>1, <2>2, CommandFields, SessionAssumption
<1>1. CASE Loaded(w) \/ SavedOrCreated(w) \/ RestoredOrReloaded(w)
  <2>1. /\ job[w].view \in Revision /\ win'[w].on
        /\ win'[w].project = job[w].project /\ win'[w].revision = job[w].view
        /\ win'[w].basis = job[w].view /\ win'[w].draft = job[w].view
        /\ win'[w].dirty = FALSE /\ win'[w].text = None /\ win'[w].consent = FALSE
        /\ win'[w].offer # None =>
             /\ win'[w].offer = snapshot[job[w].project] /\ win'[w].offer.base = job[w].view
             /\ UNCHANGED snapshot
    BY <1>0, <1>1, ReplyShows
  <2>2. job'[w] = None /\ ~ Work(w)'
    BY <1>0, <1>1, <2>1, Finished DEF Loaded, SavedOrCreated, RestoredOrReloaded, Work
  <2>3. win'[w].offer # None => win'[w].offer.basis = job[w].view
    BY <1>0, <2>1 DEF SessionInv, ProjectInv
  <2> QED
    BY <1>0, <2>1, <2>2, <2>3
    DEF WindowInv, ScreenInv, OfferInv, EngineInv, WaitingInv, ConsentInv, RecoveryInv
<1>2. CASE Ran(w)
  <2>1. /\ job'[w] \in Command /\ job'[w].kind = "reload" /\ job'[w].phase = "sent"
        /\ job'[w].project = job[w].project /\ job[w].kind = "run"
        /\ UNCHANGED <<win, files, contended>>
    <3>1. /\ job'[w] = [job[w] EXCEPT !.kind = "reload", !.phase = "sent"]
          /\ job[w].kind = "run" /\ UNCHANGED <<win, files, contended>>
      BY <1>0, <1>2 DEF Ran, ShapeInv
    <3> QED
      BY <1>0, <3>1 DEF Command
  <2>2. ScreenInv(w)' /\ RecoveryInv(w)' /\ (Work(w)' <=> Work(w))
    BY <1>0, <2>1 DEF WindowInv, ScreenInv, RecoveryInv, Work, files
  <2> QED
    BY <1>0, <2>1, <2>2 DEF WindowInv, OfferInv, EngineInv, WaitingInv, ConsentInv
<1>3. CASE Listed(w) \/ Refused(w)
  <2>1. /\ win'[w].on = win[w].on /\ win'[w].project = win[w].project
        /\ win'[w].revision = win[w].revision /\ win'[w].basis = win[w].basis
        /\ win'[w].draft = win[w].draft /\ win'[w].dirty = win[w].dirty
        /\ win'[w].text = win[w].text /\ win'[w].offer = None
        /\ win'[w].consent = win[w].consent \/ win'[w].consent = FALSE
        /\ win'[w].timer = win[w].timer \/ Persist(w)
    BY <1>0, <1>3, RestShows
  <2>2. job'[w] = None /\ UNCHANGED <<files, contended>>
    BY <1>0, <1>3, Finished DEF Listed, Refused
  <2>3. win'[w].timer = win[w].timer /\ ~ win'[w].consent
    <3>1. ~ Persist(w)
      BY <1>0, <2>2 DEF Persist
    <3>2. CASE Listed(w)
      BY <1>0, <2>1, <3>1, <3>2 DEF Listed, HasReply, WindowInv, ConsentInv
    <3>3. CASE Refused(w)
      <4>1. \E r : win'[w] = [win[w] EXCEPT !.consent = FALSE, !.reviewed = r]
        BY <1>0, <3>3 DEF Refused, Set, ShapeInv
      <4>2. win[w] \in Screen
        BY <1>0 DEF ShapeInv
      <4> QED
        BY <2>1, <3>1, <4>1, <4>2 DEF Screen
    <3> QED
      BY <1>3, <2>1, <3>1, <3>2, <3>3
  <2>4. ScreenInv(w)' /\ RecoveryInv(w)' /\ (Work(w)' <=> Work(w))
    BY <1>0, <2>1, <2>2, <2>3 DEF WindowInv, ScreenInv, RecoveryInv, Work, files
  <2> QED
    BY <1>0, <2>1, <2>2, <2>3, <2>4 DEF WindowInv, OfferInv, EngineInv, WaitingInv, ConsentInv
<1> QED
  BY <1>1, <1>2, <1>3

-----------------------------------------------------------------------------
(* The invariant                                                           *)

(* No window is open at first.                                             *)
LEMMA InitSession == Init => SessionInv
<1> SUFFICES ASSUME Init
             PROVE  SessionInv
  OBVIOUS
<1> USE SessionAssumption
<1>1. ShapeInv
  BY ClosedScreens DEF Init, ShapeInv, Content
<1>2. ASSUME NEW p \in Project
      PROVE  ProjectInv(p)
  BY DEF Init, ProjectInv
<1>3. ASSUME NEW w \in Window
      PROVE  WindowInv(w)
  BY DEF Init, WindowInv, ScreenInv, OfferInv, EngineInv, WaitingInv, ConsentInv, RecoveryInv,
         Work, Closed
<1>4. ASSUME NEW v \in Window, NEW w \in Window
      PROVE  Alone(v, w)
  BY DEF Init, Alone, Closed
<1> QED
  BY <1>1, <1>2, <1>3, <1>4 DEF SessionInv

(* A step of one window keeps the whole invariant.                         *)
LEMMA WindowKeeps ==
  ASSUME SessionInv, NEW w \in Window, WindowStep(w) \/ EngineStep(w)
  PROVE  SessionInv'
<1>0. Moved(w)
  BY StepMoves
<1>1. ASSUME NEW p \in Project
      PROVE  ProjectInv(p)'
  BY ProjectsKept
<1>2. WindowInv(w)'
  BY EditsKeep, PersistKeeps, OffersKeep, ProcessesKeep, SendingKeeps, RepliesKeep, EngineKeeps
  DEF WindowStep
<1>3. ASSUME NEW v \in Window, v # w
      PROVE  WindowInv(v)'
  BY <1>0, <1>3, OwnFile, StandingStill DEF Moved
<1>4. ASSUME NEW v \in Window, NEW u \in Window, v # u
      PROVE  Alone(v, u)'
  <2>1. CASE v = w \/ u = w
    BY <1>4, <2>1, StillAlone
  <2>2. CASE v # w /\ u # w
    BY <1>0, <1>4, <2>2 DEF SessionInv, Moved, Alone
  <2> QED
    BY <2>1, <2>2
<1> QED
  BY <1>0, <1>1, <1>2, <1>3, <1>4 DEF SessionInv, Moved

(* So does a save by somebody who uses no window.                          *)
LEMMA OthersSave ==
  ASSUME SessionInv, NEW p \in Project, NEW d \in Revision, OtherSave(p, d)
  PROVE  SessionInv'
<1>0. /\ ShapeInv /\ UNCHANGED <<win, job, snapshot, contended>>
      /\ head' = [head EXCEPT ![p] = d]
      /\ retained' = [retained EXCEPT ![p] = @ \cup {d}]
  BY DEF SessionInv, OtherSave
<1>1. ShapeInv' /\ \A q \in Project : retained[q] \subseteq retained'[q]
  BY <1>0 DEF ShapeInv, Content
<1>2. ASSUME NEW q \in Project
      PROVE  ProjectInv(q)'
  BY <1>0 DEF SessionInv, ProjectInv, ShapeInv
<1>3. ASSUME NEW v \in Window
      PROVE  WindowInv(v)'
  BY <1>0, <1>1, StandingStill
<1>4. ASSUME NEW v \in Window, NEW w \in Window, v # w
      PROVE  Alone(v, w)'
  BY <1>0, <1>4 DEF SessionInv, Alone
<1> QED
  BY <1>1, <1>2, <1>3, <1>4 DEF SessionInv

(* The invariant is inductive.                                             *)
LEMMA StepSession == SessionInv /\ [Next]_vars => SessionInv'
<1> SUFFICES ASSUME SessionInv, [Next]_vars
             PROVE  SessionInv'
  OBVIOUS
<1>1. CASE UNCHANGED vars
  BY <1>1 DEF vars, SessionInv, ShapeInv, ProjectInv, WindowInv, ScreenInv, OfferInv, EngineInv,
              WaitingInv, ConsentInv, RecoveryInv, Work, Alone
<1>2. CASE Next
  BY <1>2, WindowKeeps, OthersSave DEF Next
<1> QED
  BY <1>1, <1>2

(* What the windows hold, the engine processes and the recovery files      *)
(* agree in every reachable state.                                         *)
THEOREM SessionInvariant == Spec => []SessionInv
BY InitSession, StepSession, PTL DEF Spec

(* Types: a window has a draft exactly when it shows a project, consent    *)
(* to lose work outlives no command, and a question is open only over      *)
(* nothing unsaved.                                                        *)
THEOREM TypeCorrect == Spec => []TypeOK
<1>1. SessionInv => TypeOK
  <2> SUFFICES ASSUME SessionInv
               PROVE  TypeOK
    OBVIOUS
  <2>1. ASSUME NEW w \in Window
        PROVE  /\ win[w].project \in Project \cup {None}
               /\ {win[w].revision, win[w].draft, win[w].text, win[w].reviewed}
                    \subseteq Revision \cup {None}
               /\ (win[w].project = None) = (win[w].draft = None)
               /\ win[w].consent => job[w] # None \/ ~ Work(w)
               /\ win[w].offer # None => ~ Work(w) /\ job[w] = None
    <3>1. win[w] \in Screen /\ WindowInv(w)
      BY DEF SessionInv, ShapeInv
    <3> QED
      BY <3>1, ScreenFields DEF WindowInv, ScreenInv, ConsentInv, OfferInv, Content
  <2> QED
    BY <2>1 DEF TypeOK, SessionInv, ProjectInv, ShapeInv
<1> QED
  BY <1>1, SessionInvariant, PTL

(* Unsaved work whose snapshot timer has run out is in the recovery file   *)
(* of its project, under the revision the window shows, unless the project *)
(* was open in two windows at once.                                        *)
THEOREM RecoveryIsComplete == Spec => []RecoveryHasTheWork
<1>1. SessionInv => RecoveryHasTheWork
  BY DEF SessionInv, WindowInv, RecoveryInv, RecoveryHasTheWork
<1> QED
  BY <1>1, SessionInvariant, PTL

(* A save replaces exactly the revision its edits were made on, however    *)
(* often they have been recovered since.                                   *)
THEOREM SavesAreFair == Spec => SavesReplaceTheirBasis
<1>1. SessionInv /\ [Next]_vars =>
        [\A w \in Window :
           Perform(w) /\ job[w].kind = "save" => head[job[w].project] = job[w].basis]_vars
  BY DEF SessionInv, WindowInv, EngineInv, Perform, Replaces
<1> QED
  BY <1>1, SessionInvariant, PTL DEF Spec, SavesReplaceTheirBasis

(* Of all that can happen to a window while its command is under way, only *)
(* a reply that shows a project ends unsaved work.                         *)
LEMMA OnlyReplies ==
  ASSUME SessionInv, NEW w \in Window, WindowStep(w) \/ EngineStep(w),
         job[w] # None, win[w].on, win'[w].on, Work(w), ~ Work(w)'
  PROVE  Loaded(w) \/ SavedOrCreated(w) \/ RestoredOrReloaded(w)
<1>0. win[w] \in Screen /\ ShapeInv /\ OfferInv(w)
  BY DEF SessionInv, ShapeInv, WindowInv
<1>1. ~ Free(w) /\ ~ Shows(w) /\ win[w].offer = None
  BY <1>0 DEF Free, Shows, OfferInv
<1>2. /\ \A d \in Revision : ~ EditDiagram(w, d) /\ ~ TypeText(w, d) /\ ~ SelectRevision(w, d)
      /\ ~ UndoAll(w) /\ ~ ApplyText(w) /\ ~ Recover(w) /\ ~ Decline(w)
      /\ \A p \in Project : ~ Load(w, p) /\ ~ Create(w, p)
      /\ ~ Save(w) /\ ~ RunSaved(w) /\ ~ ShowRevisions(w) /\ ~ Restore(w)
      /\ ~ Launch(w) /\ ~ Quit(w)
  BY <1>1 DEF EditDiagram, TypeText, SelectRevision, UndoAll, ApplyText, Recover, Decline,
     Load, Create, MayReplace, Save, RunSaved, ShowRevisions, Restore, Launch, Quit
<1>3. ~ Crash(w)
  BY <1>0 DEF Crash, Set, ShapeInv, Closed
<1>4. ~ Persist(w) /\ ~ Listed(w) /\ ~ Refused(w)
  BY RestShows DEF Work
<1>5. ~ Ran(w) /\ ~ EngineStep(w)
  BY DEF Ran, EngineStep, Perform, Answer, Unheard, Work
<1> QED
  BY <1>2, <1>3, <1>4, <1>5 DEF WindowStep

(* The end of a command takes unsaved work from the screen only if the     *)
(* project has retained it or the user has agreed to lose it.              *)
THEOREM WorkIsKept == Spec => CommandsKeepTheWork
<1>1. ASSUME SessionInv, [Next]_vars, NEW w \in Window,
             job[w] # None, win[w].on, win'[w].on, Work(w), ~ Work(w)'
      PROVE  win[w].consent \/ win[w].draft \in retained[win[w].project]
  <2>1. WindowInv(w)
    BY <1>1 DEF SessionInv
  <2>2. win'[w] # win[w]
    BY <1>1 DEF Work
  <2>3. WindowStep(w) \/ EngineStep(w)
    <3>1. Next
      BY <1>1, <2>2 DEF vars
    <3>2. ASSUME NEW u \in Window \ {w}, WindowStep(u) \/ EngineStep(u)
          PROVE  win'[w] = win[w]
      BY <1>1, <3>2, StepMoves DEF Moved
    <3> QED
      BY <2>2, <3>1, <3>2 DEF Next, OtherSave
  <2>4. Loaded(w) \/ SavedOrCreated(w) \/ RestoredOrReloaded(w)
    BY <1>1, <2>3, OnlyReplies
  <2>5. CASE Loaded(w)
    BY <1>1, <2>1, <2>5 DEF Loaded, HasReply, WindowInv, WaitingInv
  <2>6. CASE SavedOrCreated(w)
    BY <1>1, <2>1, <2>6 DEF SavedOrCreated, HasReply, WindowInv, WaitingInv, EngineInv
  <2>7. CASE RestoredOrReloaded(w)
    BY <1>1, <2>1, <2>7 DEF RestoredOrReloaded, HasReply, WindowInv, WaitingInv
  <2> QED
    BY <2>4, <2>5, <2>6, <2>7
<1>2. SessionInv /\ [Next]_vars =>
        [\A w \in Window :
           /\ job[w] # None
           /\ win[w].on /\ win'[w].on
           /\ Work(w) /\ ~ Work(w)'
           => \/ win[w].consent
              \/ win[w].draft \in retained[win[w].project]]_vars
  BY <1>1
<1> QED
  BY <1>2, SessionInvariant, PTL DEF Spec, CommandsKeepTheWork

=============================================================================
