---------------------------- MODULE ReviewExport ----------------------------
(***************************************************************************)
(* `galata project export`: a locked, verified copy of a project into a    *)
(* new directory, taken while workers started earlier may still be         *)
(* finishing without the project lock. The exporter renders the runs as    *)
(* any inspector does (its steps View are those of ProjectRuns), lists the *)
(* project's files, copies them against the listing, lists them again and  *)
(* renames the copy into place.                                            *)
(***************************************************************************)
EXTENDS ProjectRuns

CONSTANT Exporter        \* the exporting process, one of the inspectors

ASSUME ExporterAssumption == Exporter \in Inspector

VARIABLES
  epc,           \* next step of the export
  captured,      \* the head the manifest will name
  todo,          \* run directories still to be visited in the current pass
  listing,       \* files of each run directory as first listed
  copied,        \* files of each run directory in the temporary copy
  package        \* the published package, NoPackage before

exportVars == <<epc, captured, todo, listing, copied, package>>
allVars == <<vars, exportVars>>

NoPackage == [revision |-> None, verdicts |-> None, files |-> None]

(* What a recursive listing finds in one run directory, None when there is *)
(* none; lock files are left out.                                          *)
FilesOf(r) ==
  IF runDir[r] = "absent" THEN None
  ELSE [name |-> runDir[r], request |-> request[r], source |-> source[r],
        evidence |-> evidence[r], result |-> result[r], scrap |-> scrap[r]]

NothingYet == [r \in Run |-> None]

ExportGoto(step) == epc' = step

(* Any refusal removes the temporary copy and gives the lock back.         *)
EndExport ==
  /\ epc' = "idle"
  /\ editLock' = None
  /\ captured' = None
  /\ todo' = {}
  /\ listing' = NothingYet
  /\ copied' = NothingYet

-----------------------------------------------------------------------------
(* The destination must not exist; the lock is tried once.                 *)
ExportUnlocked ==
  /\ epc = "idle"
  /\ package = NoPackage
  /\ ipc[Exporter] = "idle"
  /\ ExportGoto("view")
  /\ captured' = head
  /\ UNCHANGED <<vars, todo, listing, copied, package>>

StartExport ==
  /\ epc = "idle"
  /\ package = NoPackage
  /\ ipc[Exporter] = "idle"
  /\ editLock = None
  /\ editLock' = Exporter
  /\ ExportGoto("view")
  /\ captured' = head
  /\ UNCHANGED <<head, dirVars, workVars, viewVars, todo, listing, copied, package>>

(* inspect(): the names under runs/, then run_view() of each by View.      *)
RenderProject ==
  /\ epc = "view"
  /\ StartInspect(Exporter)
  /\ ExportGoto("viewing")
  /\ UNCHANGED <<captured, todo, listing, copied, package>>

Listed == {r \in Run : runDir[r] # "absent"}

AnyStatus == TRUE

NoneRunning == \A r \in Listed : status[Exporter][r] # "running"

CheckRunning ==
  /\ epc = "viewing"
  /\ ipc[Exporter] = "idle"
  /\ NoneRunning
  /\ ExportGoto("list")
  /\ todo' = Run
  /\ UNCHANGED <<vars, captured, listing, copied, package>>

RefuseRunning ==
  /\ epc = "viewing"
  /\ ipc[Exporter] = "idle"
  /\ ~NoneRunning
  /\ EndExport
  /\ UNCHANGED <<head, dirVars, workVars, viewVars, package>>

ListRun(r) ==
  /\ epc = "list"
  /\ r \in todo
  /\ listing' = [listing EXCEPT ![r] = FilesOf(r)]
  /\ todo' = todo \ {r}
  /\ UNCHANGED <<vars, epc, captured, copied, package>>

(* Every byte copied must be the byte listed.                              *)
CopyRun(r) ==
  /\ epc = "copy"
  /\ r \in todo
  /\ FilesOf(r) = listing[r]
  /\ copied' = [copied EXCEPT ![r] = FilesOf(r)]
  /\ todo' = todo \ {r}
  /\ UNCHANGED <<vars, epc, captured, listing, package>>

(* The source is listed once more against the first listing.               *)
VerifyRun(r) ==
  /\ epc = "verify"
  /\ r \in todo
  /\ FilesOf(r) = listing[r]
  /\ todo' = todo \ {r}
  /\ UNCHANGED <<vars, epc, captured, listing, copied, package>>

NextPass(from, to) ==
  /\ epc = from
  /\ todo = {}
  /\ todo' = Run
  /\ ExportGoto(to)
  /\ UNCHANGED <<vars, captured, listing, copied, package>>

ListingDone == NextPass("list", "copy")

CopyDone == NextPass("copy", "verify")

(* A file appeared, changed or vanished, or the copy fails.                *)
SourceChanged ==
  /\ epc \in {"copy", "verify"}
  /\ EndExport
  /\ UNCHANGED <<head, dirVars, workVars, viewVars, package>>

PublishPackage ==
  /\ epc = "verify"
  /\ todo = {}
  /\ package' = [revision |-> captured,
                 verdicts |-> status[Exporter],
                 files |-> copied]
  /\ EndExport
  /\ UNCHANGED <<head, dirVars, workVars, viewVars>>

KillExporter ==
  /\ epc # "idle"
  /\ EndExport
  /\ Drop(Exporter)
  /\ ipc' = [ipc EXCEPT ![Exporter] = "idle"]
  /\ pending' = [pending EXCEPT ![Exporter] = {}]
  /\ at' = [at EXCEPT ![Exporter] = None]
  /\ blocker' = [blocker EXCEPT ![Exporter] = None]
  /\ UNCHANGED <<head, runDir, request, source, evidence, result, scrap, workVars, status, package>>

-----------------------------------------------------------------------------
ExportInit ==
  /\ Init
  /\ epc = "idle"
  /\ captured = None
  /\ todo = {}
  /\ listing = NothingYet
  /\ copied = NothingYet
  /\ package = NoPackage

Export ==
  \/ StartExport \/ RenderProject \/ CheckRunning \/ RefuseRunning
  \/ \E r \in Run : ListRun(r) \/ CopyRun(r) \/ VerifyRun(r)
  \/ ListingDone \/ CopyDone \/ SourceChanged \/ PublishPackage \/ KillExporter

(* The rest of the project goes on: editors, workers, other inspectors and *)
(* the exporter's own rendering of the runs.                               *)
Project ==
  /\ \/ MoveHead
     \/ \E w \in Worker : StartRun(w) \/ Work(w) \/ Signal(w) \/ KillWorker(w)
     \/ \E i \in Inspector : View(i)
     \/ \E i \in Inspector \ {Exporter} : StartInspect(i) \/ KillInspector(i)
  /\ UNCHANGED exportVars

ExportNext == Export \/ Project

ExportSpec == ExportInit /\ [][ExportNext]_allVars

-----------------------------------------------------------------------------
(* Properties                                                              *)

(* Every variable keeps its shape, and an export under way owns the lock.  *)
ExportTypeOK ==
  /\ TypeOK
  /\ epc \in {"idle", "view", "viewing", "list", "copy", "verify"}
  /\ captured \in Revision \cup {None}
  /\ todo \subseteq Run
  /\ epc # "idle" => editLock = Exporter

(* What run_view() says of a packaged run directory, where no process holds *)
(* a lock.                                                                 *)
PackagedVerdict(files) ==
  CASE files.name = "reserved" \/ files.request = None -> "invalid"
    [] files.name = "named" /\ files.request # None /\ files.result = None -> "interrupted"
    [] files.name = "named" /\ files.request # None /\ files.result = "completed"
         /\ ~(files.evidence /\ files.source = files.request) -> "invalid"
    [] OTHER -> files.result

(* A package verifies: inspecting it later gives every run the status its  *)
(* manifest recorded, although that status was read before the files were  *)
(* listed and workers were writing without the project lock.               *)
PackageVerifies ==
  package # NoPackage =>
    \A r \in Run : package.files[r] # None =>
      package.verdicts[r] = PackagedVerdict(package.files[r])

(* A package is final: no run it contains changes in the project after the *)
(* export, temporary leftovers aside.                                      *)
PackageIsFinal ==
  package # NoPackage =>
    \A r \in Run : package.files[r] # None =>
      [package.files[r] EXCEPT !.scrap = FALSE] = [FilesOf(r) EXCEPT !.scrap = FALSE]

(* The revision the manifest names is the head at the moment of            *)
(* publication.                                                            *)
PackageNamesHead ==
  [][package' # package => package'.revision = head]_allVars
=============================================================================
