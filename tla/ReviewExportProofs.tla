------------------------- MODULE ReviewExportProofs -------------------------
(***************************************************************************)
(* An exported package verifies and is final, for any number of workers,   *)
(* inspectors and runs. The exporter keeps submissions out with the        *)
(* project lock but not the workers that are under way: the argument is    *)
(* that a run it did not find running is Decided, and that nothing but     *)
(* temporary leftovers changes in a decided run ever again.                *)
(***************************************************************************)
EXTENDS ReviewExport, ProjectRunsProofs

(* A run with a result, or whose worker is gone.                           *)
Decided(r) == result[r] # None \/ (runDir[r] # "absent" /\ Abandoned(r))

(* The files of a run with or without the temporary of its result.         *)
Snapshot(r, leftover) ==
  [name |-> runDir[r], request |-> request[r], source |-> source[r],
   evidence |-> evidence[r], result |-> result[r], scrap |-> leftover]

(* The verdict those files call for when no process holds a lock.          *)
SettledVerdict(r) == PackagedVerdict(Snapshot(r, FALSE))

(* The exporter's status of r is the one a package will confirm, or it     *)
(* will refuse to export.                                                  *)
Judged(r) ==
  \/ status[Exporter][r] = "running"
  \/ Decided(r) /\ status[Exporter][r] = SettledVerdict(r)

(* The exporter holds the project lock, so the head it read is the head.   *)
LockedInv == epc # "idle" => editLock = Exporter /\ captured = head

(* Rendering the project is done when the exporter goes on.                *)
RenderInv ==
  /\ epc # "viewing" => ipc[Exporter] = "idle"
  /\ ipc[Exporter] = "idle" => pending[Exporter] = {}

(* Every directory is still to be rendered, being rendered or judged.      *)
ViewInv == epc \in {"viewing", "list", "copy", "verify"} =>
  \A r \in Run : runDir[r] # "absent" =>
    \/ r \in pending[Exporter]
    \/ ipc[Exporter] \in {"probed", "judge"} /\ at[Exporter] = r
    \/ Judged(r)

(* What is listed and copied was not running when it was rendered.         *)
QuietInv == epc \in {"list", "copy", "verify"} =>
  \A r \in Run : runDir[r] # "absent" => status[Exporter][r] # "running"

(* A copied directory is the directory as it is.                           *)
CopyInv == \A r \in Run : copied[r] # None =>
  /\ epc \in {"copy", "verify"}
  /\ runDir[r] # "absent"
  /\ \E leftover \in BOOLEAN : copied[r] = Snapshot(r, leftover)

CopiedShape == copied = [r \in Run |-> copied[r]]

(* So is a packaged one, and it has the verdict its files call for.        *)
PackageInv == package # NoPackage =>
  \A r \in Run : package.files[r] # None =>
    /\ Decided(r)
    /\ \E leftover \in BOOLEAN : package.files[r] = Snapshot(r, leftover)
    /\ package.verdicts[r] = SettledVerdict(r)

ExportInv ==
  /\ RunsInv /\ ExportTypeOK
  /\ LockedInv /\ RenderInv /\ ViewInv /\ QuietInv /\ CopiedShape /\ CopyInv /\ PackageInv

(* The files an inspection reads, leftovers aside.                         *)
FilesStand(r) ==
  /\ Decided(r) => Decided(r)'
  /\ Decided(r) => \A leftover : Snapshot(r, leftover)' = Snapshot(r, leftover)

-----------------------------------------------------------------------------
(* A verdict does not depend on leftovers.                                 *)
LEMMA SameVerdict ==
  ASSUME NEW r, NEW leftover
  PROVE  PackagedVerdict(Snapshot(r, leftover)) = SettledVerdict(r)
BY DEF PackagedVerdict, SettledVerdict, Snapshot

(* So a decided run whose files stand keeps its verdict,                   *)
LEMMA SettledStands ==
  ASSUME NEW r, Decided(r), FilesStand(r)
  PROVE  /\ Decided(r)' /\ SettledVerdict(r)' = SettledVerdict(r)
         /\ \A leftover : Snapshot(r, leftover)' = Snapshot(r, leftover)
<1>1. Decided(r)' /\ \A leftover : Snapshot(r, leftover)' = Snapshot(r, leftover)
  BY DEF FilesStand
<1>2. PICK files : files = Snapshot(r, FALSE) /\ files = Snapshot(r, FALSE)'
  BY <1>1
<1>3. SettledVerdict(r) = PackagedVerdict(files) /\ SettledVerdict(r)' = PackagedVerdict(files)
  BY <1>2 DEF SettledVerdict
<1> QED
  BY <1>1, <1>3

(* and a package of such runs its truth.                                   *)
LEMMA PackageStands ==
  ASSUME PackageInv, \A r \in Run : FilesStand(r), UNCHANGED package
  PROVE  PackageInv'
BY SettledStands DEF PackageInv

(* The project lock keeps submissions out.                                 *)
LEMMA NoSubmission ==
  ASSUME RunsInv, editLock = Exporter
  PROVE  /\ \A w \in Worker : wpc[w] \notin Submitting
         /\ \A w \in Worker : job[w] # None => /\ runDir[job[w]] = "named"
                                             /\ request[job[w]] # None
<1> SUFFICES ASSUME NEW w \in Worker
             PROVE  /\ wpc[w] \notin Submitting
                    /\ job[w] # None => runDir[job[w]] = "named" /\ request[job[w]] # None
  OBVIOUS
<1>1. WorkerInv(w) /\ w # Exporter /\ None \notin Revision
  BY RunsAssumption, ExporterAssumption DEF RunsInv
<1>2. wpc[w] \notin Submitting
  BY <1>1 DEF WorkerInv, HoldsInv
<1> QED
  BY <1>1, <1>2 DEF WorkerInv, FilesInv, Submitting, Unrequested

(* Once a run is decided a worker's step changes only leftovers in it.     *)
LEMMA WorkerDecided ==
  ASSUME RunsInv, NEW w \in Worker, WorkerTakes(w), NEW r \in Run
  PROVE  FilesStand(r)
<1> SUFFICES ASSUME Decided(r)
             PROVE  Decided(r)' /\ \A leftover : Snapshot(r, leftover)' = Snapshot(r, leftover)
  BY DEF FilesStand
<1>1. WorkerInv(w) /\ FreshInv(r) /\ r # None
  BY RunsAssumption DEF RunsInv
<1>2. runDir[r] # "absent"
  BY <1>1 DEF Decided, FreshInv
<1>3. CASE r = job[w]
  <2>1. result[r] # None
    BY <1>3 DEF Decided, Abandoned
  <2>2. wpc[w] \in Recorded
    BY <1>1, <1>3, <2>1 DEF WorkerInv, HoldsInv, FilesInv, Recorded
  <2>3. runDir[r] = "named" /\ request[r] # None
    BY <1>1, <1>3, <2>2, RunsAssumption DEF WorkerInv, HoldsInv, FilesInv, Recorded, Unrequested
  <2>4. /\ runDir'[r] = runDir[r] /\ request'[r] = request[r]
        /\ source'[r] = source[r] /\ evidence'[r] = evidence[r] /\ result'[r] = result[r]
    BY <2>1, <2>3, WorkerFiles
  <2> QED
    BY <2>1, <2>4 DEF Decided, Snapshot
<1>4. CASE r # job[w]
  <2>1. /\ runDir'[r] = runDir[r] /\ request'[r] = request[r]
        /\ source'[r] = source[r] /\ evidence'[r] = evidence[r] /\ result'[r] = result[r]
    BY <1>2, <1>4, WorkerFiles
  <2>2. job'[w] # r
    BY <1>1, <1>2, <1>4, WorkerFrame
  <2>3. Abandoned(r) => Abandoned(r)'
    BY <2>2, WorkerFrame DEF Abandoned
  <2> QED
    BY <1>2, <2>1, <2>3 DEF Decided, Snapshot
<1> QED
  BY <1>3, <1>4

(* Steps that write no file of any run change nothing of it at all.        *)
LEMMA UntouchedDecided ==
  ASSUME UNCHANGED <<runDir, request, source, evidence, result, workVars>>, NEW r \in Run
  PROVE  FilesStand(r)
BY DEF FilesStand, Decided, Snapshot, Abandoned, workVars

(* What the exporter has seen and packaged survives any step of anybody    *)
(* else that leaves decided runs alone and, while the exporter holds the   *)
(* project lock, the head and the directories' names.                      *)
LEMMA BystanderKept ==
  ASSUME ExportInv, RunsInv', UNCHANGED exportVars,
         ipc'[Exporter] = ipc[Exporter], pending'[Exporter] = pending[Exporter],
         at'[Exporter] = at[Exporter], status'[Exporter] = status[Exporter],
         epc # "idle" => /\ editLock' = Exporter /\ head' = head
                         /\ \A r \in Run : runDir'[r] = runDir[r],
         \A r \in Run : FilesStand(r)
  PROVE  ExportInv'
<1> USE DEF exportVars
<1>1. \A r \in Run : Decided(r) => Decided(r)' /\ SettledVerdict(r)' = SettledVerdict(r)
                        /\ \A leftover : Snapshot(r, leftover)' = Snapshot(r, leftover)
  BY DEF FilesStand, SettledVerdict, PackagedVerdict
<1>2. ExportTypeOK' /\ LockedInv' /\ RenderInv'
  BY DEF ExportInv, RunsInv, ExportTypeOK, LockedInv, RenderInv
<1>3. ViewInv'
  <2>1. \A r \in Run : Judged(r) => Judged(r)'
    BY <1>1 DEF Judged
  <2> QED
    BY <2>1 DEF ExportInv, ViewInv
<1>4. QuietInv'
  BY DEF ExportInv, QuietInv
<1>5. CopyInv'
  <2> SUFFICES ASSUME NEW r \in Run, copied[r] # None
               PROVE  /\ epc \in {"copy", "verify"} /\ runDir'[r] # "absent"
                      /\ \E leftover \in BOOLEAN : copied[r] = Snapshot(r, leftover)'
    BY DEF CopyInv
  <2>1. /\ epc \in {"copy", "verify"} /\ runDir[r] # "absent"
        /\ \E leftover \in BOOLEAN : copied[r] = Snapshot(r, leftover)
    BY DEF ExportInv, CopyInv
  <2>2. Decided(r)
    BY <2>1 DEF ExportInv, RenderInv, ViewInv, QuietInv, Judged
  <2> QED
    BY <1>1, <2>1, <2>2
<1>6. PackageInv' /\ CopiedShape'
  BY <1>1 DEF ExportInv, PackageInv, CopiedShape
<1> QED
  BY <1>2, <1>3, <1>4, <1>5, <1>6 DEF ExportInv

-----------------------------------------------------------------------------
(* The rest of the project.                                                *)
LEMMA WorkerExportKept ==
  ASSUME ExportInv, NEW w \in Worker, WorkerTakes(w), UNCHANGED exportVars
  PROVE  ExportInv'
<1>1. RunsInv /\ Exporter \in Inspector /\ Exporter # w /\ Exporter # None
  BY ExporterAssumption, RunsAssumption DEF ExportInv
<1>2. RunsInv'
  BY <1>1, WorkerKept
<1>3. UNCHANGED viewVars /\ head' = head /\ (editLock = Exporter => editLock' = Exporter)
  BY <1>1, WorkerFrame
<1>4. ASSUME epc # "idle"
      PROVE  editLock' = Exporter /\ head' = head /\ \A r \in Run : runDir'[r] = runDir[r]
  <2>1. editLock = Exporter
    BY <1>4 DEF ExportInv, LockedInv
  <2>2. wpc[w] \notin Submitting
    BY <1>1, <2>1, NoSubmission
  <2> QED
    BY <1>1, <1>3, <2>1, <2>2, WorkerFiles DEF Submitting
<1>5. \A r \in Run : FilesStand(r)
  BY <1>1, WorkerDecided
<1> QED
  BY <1>2, <1>3, <1>4, <1>5, BystanderKept DEF viewVars

(* Another inspector's step keeps the invariant of the export.             *)
LEMMA InspectorExportKept ==
  ASSUME ExportInv, NEW i \in Inspector \ {Exporter}, InspectorTakes(i) \/ KillInspector(i),
         UNCHANGED exportVars
  PROVE  ExportInv'
<1>1. RunsInv /\ TypeOK /\ Exporter \in Inspector /\ Exporter # i /\ i \in Inspector
  BY ExporterAssumption DEF ExportInv, RunsInv
<1>2. CASE InspectorTakes(i)
  <2>1. RunsInv'
    BY <1>1, <1>2, InspectorKept
  <2>2. /\ UNCHANGED <<head, editLock, runDir, request, source, evidence, result, workVars>>
        /\ ipc'[Exporter] = ipc[Exporter] /\ pending'[Exporter] = pending[Exporter]
        /\ at'[Exporter] = at[Exporter] /\ status'[Exporter] = status[Exporter]
    BY <1>1, <1>2, InspectorLooks DEF LooksOnly
  <2>3. \A r \in Run : FilesStand(r)
    BY <2>2, UntouchedDecided
  <2> QED
    BY <2>1, <2>2, <2>3, BystanderKept DEF ExportInv, LockedInv
<1>3. CASE KillInspector(i)
  <2>1. RunsInv'
    <3>1. editLock' \in Process \cup {None} /\ \A w \in Worker : editLock = w => editLock' = w
      BY <1>1, <1>3 DEF KillInspector, TypeOK
    <3> QED
      BY <1>1, <1>3, <3>1, LeavingKept DEF KillInspector
  <2>2. /\ UNCHANGED <<head, editLock, runDir, request, source, evidence, result, workVars>>
        /\ ipc'[Exporter] = ipc[Exporter] /\ pending'[Exporter] = pending[Exporter]
        /\ at'[Exporter] = at[Exporter] /\ status'[Exporter] = status[Exporter]
    BY <1>1, <1>3 DEF KillInspector, EndView, TypeOK
  <2>3. \A r \in Run : FilesStand(r)
    BY <2>2, UntouchedDecided
  <2> QED
    BY <2>1, <2>2, <2>3, BystanderKept DEF ExportInv, LockedInv
<1> QED
  BY <1>2, <1>3

(* So does another edit of the project.                                    *)
LEMMA HeadExportKept ==
  ASSUME ExportInv, MoveHead, UNCHANGED exportVars
  PROVE  ExportInv'
<1>1. RunsInv /\ TypeOK /\ Exporter # None
  BY ExporterAssumption, RunsAssumption DEF ExportInv, RunsInv
<1>2. UNCHANGED <<editLock, dirVars, workVars, viewVars>> /\ head' \in Revision
  BY DEF MoveHead
<1>3. RunsInv'
  BY <1>1, <1>2, EnvironmentKept DEF TypeOK
<1>4. epc = "idle"
  BY <1>1 DEF ExportInv, LockedInv, MoveHead
<1>5. \A r \in Run : FilesStand(r)
  BY <1>2, UntouchedDecided DEF dirVars
<1> QED
  BY <1>2, <1>3, <1>4, <1>5, BystanderKept DEF viewVars

-----------------------------------------------------------------------------
(* The exporter's own rendering of the runs.                               *)
LEMMA NowJudged ==
  ASSUME ExportInv, epc = "viewing", NoRequest(Exporter) \/ Judge(Exporter),
         NEW r \in Run, at[Exporter] = r
  PROVE  Judged(r)'
<1>1. /\ RunsInv /\ Exporter \in Inspector /\ editLock = Exporter
      /\ TypeOK /\ InspectInv(Exporter) /\ SubmissionFrozen
      /\ ipc[Exporter] \in {"probed", "judge"}
  BY ExporterAssumption DEF ExportInv, LockedInv, RunsInv, NoRequest, Judge
<1>2. runDir[r] = "named"
  BY <1>1 DEF InspectInv
<1>3. UNCHANGED <<runDir, request, source, evidence, result, workVars>>
  BY DEF NoRequest, Judge
<1>4. (Decided(r) => Decided(r)') /\ SettledVerdict(r)' = SettledVerdict(r)
  BY <1>3 DEF Decided, Abandoned, SettledVerdict, PackagedVerdict, Snapshot, workVars
<1>5. CASE NoRequest(Exporter)
  <2>1. request[r] = None /\ status'[Exporter][r] = "invalid"
    BY <1>1, <1>5 DEF NoRequest, SetStatus, TypeOK
  <2>2. Abandoned(r)
    BY <1>1, <2>1, NoSubmission, RunsAssumption DEF Abandoned
  <2>3. Decided(r) /\ SettledVerdict(r) = "invalid"
    BY <1>2, <2>1, <2>2 DEF Decided, SettledVerdict, PackagedVerdict, Snapshot
  <2> QED
    BY <1>4, <2>1, <2>3 DEF Judged
<1>6. CASE Judge(Exporter)
  <2> DEFINE v == Verdict(r, blocker[Exporter])
  <2>1. ipc[Exporter] = "judge" /\ status'[Exporter][r] = v
    BY <1>1, <1>6 DEF Judge, SetStatus, TypeOK
  <2>2. /\ v \in Status
        /\ v = "interrupted" => result[r] = None /\ Abandoned(r)
        /\ v # "interrupted" => v = result[r] \/ v = "running"
    BY <1>1, <2>1, VerdictIsRight
  <2>3. request[r] # None /\ None \notin Status
    BY <1>1, <2>1, RunsAssumption DEF InspectInv
  <2>4. result[r] = "completed" => evidence[r] /\ source[r] = request[r]
    BY <1>1 DEF SubmissionFrozen
  <2>5. v # "running" => Decided(r)
    BY <1>2, <2>2, <2>3 DEF Decided
  <2>6. v # "running" => SettledVerdict(r) = v
    <3>1. CASE v = "interrupted"
      BY <1>2, <2>2, <2>3, <3>1
      DEF SettledVerdict, PackagedVerdict, Snapshot, Status, Terminal
    <3>2. CASE v # "interrupted" /\ v # "running"
      <4>1. result[r] = v /\ result[r] # None
        BY <2>2, <2>3, <3>2
      <4> QED
        BY <1>2, <2>3, <2>4, <4>1 DEF SettledVerdict, PackagedVerdict, Snapshot
    <3> QED
      BY <3>1, <3>2
  <2> QED
    BY <1>4, <2>1, <2>5, <2>6 DEF Judged
<1> QED
  BY <1>5, <1>6

(* The steps of that rendering.                                            *)
LEMMA ViewExportKept ==
  ASSUME ExportInv, View(Exporter), UNCHANGED exportVars
  PROVE  ExportInv'
<1> USE DEF exportVars
<1>1. /\ RunsInv /\ Exporter \in Inspector /\ InspectorTakes(Exporter)
      /\ TypeOK /\ InspectInv(Exporter)
  BY ExporterAssumption DEF ExportInv, RunsInv, InspectorTakes
<1>2. epc = "viewing" /\ editLock = Exporter
  BY DEF ExportInv, LockedInv, RenderInv, View, ProbeRun, NoRequest, LoadRequest, Judge, FinishInspect
<1>3. RunsInv' /\ UNCHANGED <<head, editLock, runDir, request, source, evidence, result, workVars>>
  BY <1>1, InspectorKept, InspectorLooks DEF LooksOnly
<1>4. \A r \in Run : FilesStand(r)
  BY <1>3, UntouchedDecided
<1>5. ExportTypeOK' /\ LockedInv' /\ QuietInv' /\ CopyInv'
  BY <1>2, <1>3 DEF ExportInv, RunsInv, ExportTypeOK, LockedInv, QuietInv, CopyInv
<1>6. PackageInv' /\ CopiedShape'
  BY <1>4, PackageStands DEF ExportInv, CopiedShape
<1>7. RenderInv'
  BY <1>1, <1>2
  DEF ExportInv, RenderInv, TypeOK, View, ProbeRun, NoRequest, LoadRequest, Judge, FinishInspect
<1>8. ViewInv'
  <2> SUFFICES ASSUME NEW r \in Run, runDir'[r] # "absent"
               PROVE  \/ r \in pending'[Exporter]
                      \/ ipc'[Exporter] \in {"probed", "judge"} /\ at'[Exporter] = r
                      \/ Judged(r)'
    BY DEF ViewInv
  <2>1. \/ r \in pending[Exporter]
        \/ ipc[Exporter] \in {"probed", "judge"} /\ at[Exporter] = r
        \/ Judged(r)
    BY <1>2, <1>3 DEF ExportInv, ViewInv
  <2>2. Judged(r) /\ status'[Exporter][r] = status[Exporter][r] => Judged(r)'
    BY <1>4 DEF Judged, FilesStand, SettledVerdict, PackagedVerdict
  <2>3. CASE ProbeRun(Exporter) \/ LoadRequest(Exporter) \/ FinishInspect(Exporter)
    <3>1. status' = status
      BY <2>3 DEF ProbeRun, LoadRequest, FinishInspect
    <3>2. CASE ProbeRun(Exporter)
      BY <1>1, <2>1, <2>2, <3>1, <3>2 DEF ProbeRun, TypeOK
    <3>3. CASE LoadRequest(Exporter)
      BY <1>1, <2>1, <2>2, <3>1, <3>3 DEF LoadRequest, TypeOK
    <3>4. CASE FinishInspect(Exporter)
      BY <1>1, <2>1, <2>2, <3>1, <3>4 DEF FinishInspect, TypeOK
    <3> QED
      BY <2>3, <3>2, <3>3, <3>4
  <2>4. CASE NoRequest(Exporter) \/ Judge(Exporter)
    <3>1. at[Exporter] = r => Judged(r)'
      BY <1>2, <2>4, NowJudged
    <3>2. pending'[Exporter] = pending[Exporter]
      BY <2>4 DEF NoRequest, Judge
    <3>3. at[Exporter] # r => status'[Exporter][r] = status[Exporter][r]
      BY <1>1, <2>4 DEF NoRequest, Judge, SetStatus, TypeOK
    <3> QED
      BY <2>1, <2>2, <3>1, <3>2, <3>3
  <2> QED
    BY <2>3, <2>4 DEF View
<1> QED
  BY <1>3, <1>5, <1>6, <1>7, <1>8 DEF ExportInv

-----------------------------------------------------------------------------
(* The export's own steps.                                                 *)

(* However an export ends the lock it gives up is its own, and what it had *)
(* copied is gone; only a publication changes the package.                 *)
LEMMA EndedKept ==
  ASSUME ExportInv, RunsInv', EndExport, PackageInv', ipc'[Exporter] = "idle",
         pending'[Exporter] = {}
  PROVE  ExportInv'
<1>1. ExportTypeOK' /\ LockedInv' /\ RenderInv' /\ ViewInv' /\ QuietInv'
  BY DEF RunsInv, EndExport, ExportTypeOK, LockedInv, RenderInv, ViewInv, QuietInv
<1>2. CopyInv' /\ CopiedShape'
  BY DEF EndExport, NothingYet, CopyInv, CopiedShape
<1> QED
  BY <1>1, <1>2 DEF ExportInv

(* An export that ends without having changed a run.                       *)
LEMMA EndRunsKept ==
  ASSUME ExportInv, EndExport, epc # "idle", UNCHANGED <<head, dirVars, workVars, viewVars>>
  PROVE  RunsInv'
<1>1. /\ RunsInv /\ TypeOK /\ editLock = Exporter
      /\ \A w \in Worker : w # Exporter
  BY ExporterAssumption, RunsAssumption DEF ExportInv, RunsInv, LockedInv
<1> QED
  BY <1>1, EnvironmentKept DEF EndExport, TypeOK

(* An export that begins has the lock and nothing in its lists.            *)
LEMMA StartExportKept ==
  ASSUME ExportInv, StartExport
  PROVE  ExportInv'
<1> USE DEF dirVars, workVars, viewVars
<1>1. RunsInv /\ TypeOK /\ Exporter \in Inspector /\ \A w \in Worker : w # None
  BY ExporterAssumption, RunsAssumption DEF ExportInv, RunsInv
<1>2. RunsInv'
  BY <1>1, EnvironmentKept DEF StartExport, TypeOK, Process
<1>3. \A r \in Run : FilesStand(r)
  BY UntouchedDecided DEF StartExport
<1>4. PackageInv'
  BY <1>3, PackageStands DEF ExportInv, StartExport
<1>5. CopyInv' /\ CopiedShape'
  BY DEF ExportInv, CopyInv, CopiedShape, StartExport
<1>6. ExportTypeOK' /\ LockedInv' /\ RenderInv' /\ ViewInv' /\ QuietInv'
  BY <1>1, <1>2 DEF ExportInv, RunsInv, TypeOK, ExportTypeOK, LockedInv, RenderInv, ViewInv,
                    QuietInv, StartExport, ExportGoto
<1> QED
  BY <1>2, <1>4, <1>5, <1>6 DEF ExportInv

(* Rendering starts with all named directories to visit; no other one has  *)
(* a worker, since none is submitting.                                     *)
LEMMA RenderExportKept ==
  ASSUME ExportInv, RenderProject
  PROVE  ExportInv'
<1>1. /\ RunsInv /\ Exporter \in Inspector /\ InspectorTakes(Exporter)
      /\ TypeOK /\ editLock = Exporter /\ StartInspect(Exporter)
  BY ExporterAssumption
  DEF ExportInv, RunsInv, LockedInv, InspectorTakes, RenderProject
<1>2. RunsInv' /\ UNCHANGED <<head, editLock, runDir, request, source, evidence, result, workVars>>
  BY <1>1, InspectorKept, InspectorLooks DEF LooksOnly
<1>3. \A r \in Run : FilesStand(r)
  BY <1>2, UntouchedDecided
<1>4. ExportTypeOK' /\ LockedInv' /\ QuietInv' /\ RenderInv'
  BY <1>1, <1>2 DEF ExportInv, RunsInv, TypeOK, ExportTypeOK, LockedInv, QuietInv, RenderInv,
                    StartInspect, RenderProject, ExportGoto
<1>5. CopyInv' /\ PackageInv' /\ CopiedShape'
  <2>1. UNCHANGED <<copied, package>> /\ epc = "view"
    BY DEF RenderProject
  <2>2. CopyInv' /\ CopiedShape'
    BY <2>1 DEF ExportInv, CopyInv, CopiedShape
  <2>3. PackageInv'
    BY <1>3, <2>1, PackageStands DEF ExportInv
  <2> QED
    BY <2>2, <2>3
<1>6. ViewInv'
  <2> SUFFICES ASSUME NEW r \in Run, runDir[r] # "absent", runDir[r] # "named"
               PROVE  Judged(r)'
    BY <1>1, <1>2 DEF ViewInv, StartInspect, TypeOK
  <2>1. runDir[r] = "reserved" /\ status'[Exporter][r] = "invalid"
    BY <1>1 DEF TypeOK, StartInspect
  <2>2. Abandoned(r)
    BY <1>1, <2>1, NoSubmission, RunsAssumption DEF Abandoned
  <2>3. Decided(r) /\ SettledVerdict(r) = "invalid"
    BY <2>1, <2>2 DEF Decided, SettledVerdict, PackagedVerdict, Snapshot
  <2> QED
    BY <1>3, <2>1, <2>3 DEF Judged, FilesStand, SettledVerdict, PackagedVerdict
<1> QED
  BY <1>2, <1>4, <1>5, <1>6 DEF ExportInv

(* The passes over the files: nothing but the exporter's own notes changes.*)
LEMMA PassExportKept ==
  ASSUME ExportInv,
         \/ CheckRunning \/ ListingDone \/ CopyDone
         \/ \E r \in Run : ListRun(r) \/ CopyRun(r) \/ VerifyRun(r)
  PROVE  ExportInv'
<1>1. UNCHANGED <<vars, package>>
  BY DEF CheckRunning, ListingDone, CopyDone, NextPass, ListRun, CopyRun, VerifyRun
<1>2. RunsInv' /\ TypeOK
  BY <1>1, EnvironmentKept DEF vars, ExportInv, RunsInv, TypeOK
<1>3. \A r \in Run : FilesStand(r)
  BY <1>1, UntouchedDecided DEF vars, dirVars
<1>4. PackageInv'
  BY <1>1 DEF ExportInv, PackageInv, Decided, Abandoned, Snapshot, SettledVerdict, PackagedVerdict,
              vars, dirVars, workVars
<1>5. epc' \in {"list", "copy", "verify"} /\ epc \in {"viewing", "list", "copy", "verify"}
  BY DEF CheckRunning, ListingDone, CopyDone, NextPass, ListRun, CopyRun, VerifyRun, ExportGoto,
         ExportInv, ExportTypeOK
<1>6. ExportTypeOK'
  BY <1>1, <1>2, <1>5
  DEF ExportInv, RunsInv, ExportTypeOK, vars, CheckRunning, ListingDone, CopyDone, NextPass, ListRun,
      CopyRun, VerifyRun, ExportGoto
<1>7. LockedInv' /\ RenderInv'
  <2>1. captured' = captured /\ ipc[Exporter] = "idle"
    BY DEF ExportInv, RenderInv, CheckRunning, ListingDone, CopyDone, NextPass, ListRun, CopyRun,
           VerifyRun
  <2> QED
    BY <1>1, <1>5, <2>1 DEF ExportInv, LockedInv, RenderInv, vars, viewVars
<1>8. ViewInv'
  <2>1. \A r \in Run : Judged(r) => Judged(r)'
    BY <1>1, <1>3 DEF Judged, FilesStand, SettledVerdict, PackagedVerdict, vars, viewVars
  <2> QED
    BY <1>1, <1>5, <2>1 DEF ExportInv, ViewInv, vars, viewVars, dirVars
<1>9. QuietInv'
  BY <1>1 DEF ExportInv, QuietInv, vars, viewVars, dirVars, CheckRunning, NoneRunning, Listed,
              ListingDone, CopyDone, NextPass, ListRun, CopyRun, VerifyRun
<1>10. CopiedShape'
  BY DEF ExportInv, CopiedShape, NothingYet, CheckRunning, ListingDone, CopyDone, NextPass, ListRun,
         CopyRun, VerifyRun
<1>11. CopyInv'
  <2> SUFFICES ASSUME NEW r \in Run, copied'[r] # None
               PROVE  /\ epc' \in {"copy", "verify"} /\ runDir[r] # "absent"
                      /\ \E leftover \in BOOLEAN : copied'[r] = Snapshot(r, leftover)
    BY <1>1 DEF CopyInv, Snapshot, vars, dirVars
  <2>1. CASE copied'[r] = copied[r]
    BY <2>1 DEF ExportInv, CopyInv, CheckRunning, ListingDone, CopyDone, NextPass, ListRun, CopyRun,
                VerifyRun, ExportGoto
  <2>2. CASE copied'[r] # copied[r]
    <3>1. epc = "copy" /\ epc' = "copy" /\ copied'[r] = FilesOf(r)
      BY <2>2 DEF ExportInv, CopiedShape, CheckRunning, ListingDone, CopyDone, NextPass, ListRun,
                  CopyRun, VerifyRun
    <3> QED
      BY <1>2, <3>1 DEF FilesOf, Snapshot, TypeOK
  <2> QED
    BY <2>1, <2>2
<1> QED
  BY <1>2, <1>4, <1>6, <1>7, <1>8, <1>9, <1>10, <1>11 DEF ExportInv

(* A refused export, and one whose copy does not match, leave no trace.    *)
LEMMA RefusalKept ==
  ASSUME ExportInv, RefuseRunning \/ SourceChanged
  PROVE  ExportInv'
<1>1. /\ EndExport /\ epc # "idle" /\ UNCHANGED <<head, dirVars, workVars, viewVars, package>>
      /\ ipc[Exporter] = "idle" /\ pending[Exporter] = {}
  BY DEF ExportInv, RenderInv, RefuseRunning, SourceChanged
<1>2. RunsInv'
  BY <1>1, EndRunsKept
<1>3. \A r \in Run : FilesStand(r)
  BY <1>1, UntouchedDecided DEF dirVars
<1>4. PackageInv'
  BY <1>1, <1>3, PackageStands DEF ExportInv
<1> QED
  BY <1>1, <1>2, <1>4, EndedKept DEF viewVars

(* The publication: what was copied was judged when it was rendered, and   *)
(* has not changed since.                                                  *)
LEMMA PublishKept ==
  ASSUME ExportInv, PublishPackage
  PROVE  ExportInv'
<1>1. /\ EndExport /\ epc # "idle" /\ UNCHANGED <<head, dirVars, workVars, viewVars>>
      /\ ipc[Exporter] = "idle" /\ pending[Exporter] = {}
  BY DEF ExportInv, RenderInv, PublishPackage
<1>2. RunsInv'
  BY <1>1, EndRunsKept
<1>3. \A r \in Run : FilesStand(r)
  BY <1>1, UntouchedDecided DEF dirVars
<1>4. /\ package'.files = copied
      /\ package'.verdicts = status[Exporter]
  BY DEF PublishPackage
<1>5. ASSUME NEW r \in Run, copied[r] # None
      PROVE  /\ Decided(r)
             /\ \E leftover \in BOOLEAN : copied[r] = Snapshot(r, leftover)
             /\ status[Exporter][r] = SettledVerdict(r)
  <2>1. /\ runDir[r] # "absent" /\ epc = "verify"
        /\ \E leftover \in BOOLEAN : copied[r] = Snapshot(r, leftover)
    BY <1>5 DEF ExportInv, CopyInv, PublishPackage
  <2> QED
    BY <1>1, <2>1 DEF ExportInv, ViewInv, QuietInv, Judged
<1>6. PackageInv'
  <2> SUFFICES ASSUME NEW r \in Run, package'.files[r] # None
               PROVE  /\ Decided(r)'
                      /\ \E leftover \in BOOLEAN : package'.files[r] = Snapshot(r, leftover)'
                      /\ package'.verdicts[r] = SettledVerdict(r)'
    BY DEF PackageInv
  <2> QED
    BY <1>3, <1>4, <1>5, SettledStands
<1> QED
  BY <1>1, <1>2, <1>6, EndedKept DEF viewVars

(* A killed exporter gives up its lock and the run lock it may have.       *)
LEMMA KilledKept ==
  ASSUME ExportInv, KillExporter
  PROVE  ExportInv'
<1>1. /\ RunsInv /\ TypeOK /\ Exporter \in Inspector /\ editLock = Exporter
      /\ \A w \in Worker : w # Exporter
  BY ExporterAssumption, RunsAssumption DEF ExportInv, RunsInv, LockedInv, KillExporter
<1>2. RunsInv'
  <2>1. /\ editLock' \in Process \cup {None}
        /\ \A w \in Worker : editLock = w => editLock' = w
    BY <1>1 DEF KillExporter, EndExport
  <2> QED
    BY <1>1, <2>1, LeavingKept DEF KillExporter, EndView
<1>3. \A r \in Run : FilesStand(r)
  BY UntouchedDecided DEF KillExporter
<1>4. PackageInv'
  BY <1>3, PackageStands DEF ExportInv, KillExporter
<1>5. EndExport /\ ipc'[Exporter] = "idle" /\ pending'[Exporter] = {}
  BY <1>1 DEF KillExporter, TypeOK
<1> QED
  BY <1>2, <1>4, <1>5, EndedKept

-----------------------------------------------------------------------------
(* No export has begun at first.                                           *)
LEMMA InitExport == ExportInit => ExportInv
<1> SUFFICES ASSUME ExportInit
             PROVE  ExportInv
  OBVIOUS
<1>1. RunsInv
  BY InitRuns DEF ExportInit
<1>2. ExportTypeOK /\ LockedInv /\ ViewInv /\ QuietInv
  BY <1>1 DEF ExportInit, RunsInv, ExportTypeOK, LockedInv, ViewInv, QuietInv
<1>3. RenderInv
  BY ExporterAssumption DEF ExportInit, Init, RenderInv
<1>4. CopiedShape /\ CopyInv /\ PackageInv
  BY DEF ExportInit, NothingYet, CopiedShape, CopyInv, PackageInv
<1> QED
  BY <1>1, <1>2, <1>3, <1>4 DEF ExportInv

(* The invariant is inductive.                                             *)
LEMMA StepExport == ExportInv /\ [ExportNext]_allVars => ExportInv'
<1> SUFFICES ASSUME ExportInv, [ExportNext]_allVars
             PROVE  ExportInv'
  OBVIOUS
<1>1. CASE Export
  BY <1>1, StartExportKept, RenderExportKept, PassExportKept, RefusalKept, PublishKept, KilledKept
  DEF Export
<1>2. CASE Project
  <2>1. CASE MoveHead
    BY <1>2, <2>1, HeadExportKept DEF Project
  <2>2. ASSUME NEW w \in Worker, StartRun(w) \/ Work(w) \/ Signal(w) \/ KillWorker(w)
        PROVE  ExportInv'
    BY <1>2, <2>2, WorkerExportKept DEF Project, WorkerTakes
  <2>3. ASSUME NEW i \in Inspector, View(i)
        PROVE  ExportInv'
    BY <1>2, <2>3, ViewExportKept, InspectorExportKept DEF Project, InspectorTakes
  <2>4. ASSUME NEW i \in Inspector \ {Exporter}, StartInspect(i) \/ KillInspector(i)
        PROVE  ExportInv'
    BY <1>2, <2>4, InspectorExportKept DEF Project, InspectorTakes
  <2> QED
    BY <1>2, <2>1, <2>2, <2>3, <2>4 DEF Project
<1>3. CASE UNCHANGED allVars
  <2>1. RunsInv' /\ \A r \in Run : FilesStand(r)
    BY <1>3, EnvironmentKept, UntouchedDecided
    DEF allVars, vars, dirVars, ExportInv, RunsInv, TypeOK
  <2> QED
    BY <1>3, <2>1, BystanderKept DEF allVars, vars, viewVars, dirVars, ExportInv, LockedInv
<1> QED
  BY <1>1, <1>2, <1>3 DEF ExportNext

(* The inductive invariant of an export among workers and inspectors.      *)
THEOREM ExportInvariant == ExportSpec => []ExportInv
BY InitExport, StepExport, PTL DEF ExportSpec

(* Every variable keeps its shape, and an export under way has the lock.   *)
THEOREM ExportTypeCorrect == ExportSpec => []ExportTypeOK
<1>1. ExportInv => ExportTypeOK
  BY DEF ExportInv
<1> QED
  BY <1>1, ExportInvariant, PTL

(* export: whoever inspects a package later reads, run by run, the status  *)
(* its manifest recorded.                                                  *)
THEOREM PackagesVerify == ExportSpec => []PackageVerifies
<1>1. ExportInv => PackageVerifies
  BY SameVerdict DEF ExportInv, PackageInv, PackageVerifies
<1> QED
  BY <1>1, ExportInvariant, PTL

(* A run in a package never changes in the project afterwards, leftovers   *)
(* aside.                                                                  *)
LEMMA PackagedRunsStand == ExportInv => PackageIsFinal
<1> SUFFICES ASSUME ExportInv, package # NoPackage, NEW r \in Run, package.files[r] # None
             PROVE  [package.files[r] EXCEPT !.scrap = FALSE] = [FilesOf(r) EXCEPT !.scrap = FALSE]
  BY DEF PackageIsFinal
<1>1. PICK leftover \in BOOLEAN : package.files[r] = Snapshot(r, leftover)
  BY DEF ExportInv, PackageInv
<1>2. runDir[r] # "absent"
  BY DEF ExportInv, PackageInv, Decided, RunsInv, FreshInv
<1>3. FilesOf(r) = Snapshot(r, scrap[r])
  BY <1>2 DEF FilesOf, Snapshot
<1>4. ASSUME NEW s
      PROVE  [Snapshot(r, s) EXCEPT !.scrap = FALSE] = Snapshot(r, FALSE)
  <2> DEFINE Files == [name : {runDir[r]}, request : {request[r]}, source : {source[r]},
                       evidence : {evidence[r]}, result : {result[r]}, scrap : {s, FALSE}]
  <2>1. Snapshot(r, s) \in Files /\ Snapshot(r, FALSE) \in Files
    BY DEF Snapshot
  <2>2. /\ [Snapshot(r, s) EXCEPT !.scrap = FALSE] \in Files
        /\ [Snapshot(r, s) EXCEPT !.scrap = FALSE].scrap = FALSE
    BY <2>1
  <2>3. \A f, g \in Files : f.scrap = g.scrap => f = g
    OBVIOUS
  <2> QED
    BY <2>1, <2>2, <2>3 DEF Snapshot
<1> QED
  BY <1>1, <1>3, <1>4

(* export_review_package(): a run whose files are in a package has reached *)
(* its verdict, so nothing in the project changes them later, leftovers of *)
(* killed processes aside.                                                 *)
THEOREM PackagesAreFinal == ExportSpec => []PackageIsFinal
BY PackagedRunsStand, ExportInvariant, PTL

(* The revision in the manifest, read when the export began, is still the  *)
(* head when the package appears.                                          *)
THEOREM PackagesNameTheHead == ExportSpec => PackageNamesHead
<1>1. ExportInv /\ [ExportNext]_allVars =>
        [package' # package => package'.revision = head]_allVars
  <2> SUFFICES ASSUME ExportInv, ExportNext, package' # package
               PROVE  package'.revision = head
    OBVIOUS
  <2>1. PublishPackage
    BY DEF ExportNext, Export, Project, exportVars, StartExport, RenderProject, CheckRunning,
           RefuseRunning, ListRun, CopyRun, VerifyRun, ListingDone, CopyDone, NextPass,
           SourceChanged, KillExporter
  <2> QED
    BY <2>1 DEF PublishPackage, ExportInv, LockedInv
<1> QED
  BY <1>1, ExportInvariant, PTL DEF ExportSpec, PackageNamesHead

-----------------------------------------------------------------------------
(* The runs among which an export goes on keep all they promise without    *)
(* one: verdicts stand, submissions are frozen, cancellations are in time  *)
(* and the runs stay within their bound.                                   *)
THEOREM ExportedRunsKeepTheirPromises ==
  ExportSpec => [](VerdictsStand /\ SubmissionFrozen /\ CancelledInTime /\ RunsBounded)
<1>1. ExportInv => VerdictsStand /\ SubmissionFrozen /\ CancelledInTime /\ RunsBounded
  BY RunsCancelInTime DEF ExportInv, RunsInv
<1> QED
  BY <1>1, ExportInvariant, PTL
=============================================================================
