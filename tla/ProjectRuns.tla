---------------------------- MODULE ProjectRuns ----------------------------
(***************************************************************************)
(* The run side of a project directory: workers executing `galata project  *)
(* run`, each over a run directory of its own, and inspectors rendering    *)
(* the retained runs without any project lock, by trying each run's        *)
(* worker.lock. Editors appear only as the environment that moves the head *)
(* under the project lock.                                                 *)
(***************************************************************************)
EXTENDS Integers, FiniteSets

CONSTANTS
  Worker,        \* processes that run the current revision
  Inspector,     \* processes that render the project's runs
  Revision,      \* saved revisions, all retained
  Run,           \* run identities mkdtemp and sha256 may yield
  RunLimit,      \* kHistoryEntries, 1024 in the code
  Mortal,        \* processes that may be killed
  None

Terminal == {"completed", "failed", "cancelled"}

Status == Terminal \cup {"running", "interrupted", "invalid"}

ASSUME RunsAssumption ==
  /\ None \notin Revision \cup Run \cup Worker \cup Inspector \cup Status
  /\ Worker \cap Inspector = {}
  /\ IsFiniteSet(Run)
  /\ RunLimit \in Nat
  /\ Mortal \subseteq Worker \cup Inspector

Process == Worker \cup Inspector

VARIABLES
  head,          \* the revision project.json names
  editLock,      \* the process holding project.lock
  runDir,        \* "absent", "reserved" (.new-XXXXXX) or "named" (runs/<id>)
  workerLock,    \* the process holding runs/<id>/worker.lock
  request,       \* the revision request.json names
  source,        \* the revision model.yaml and study.yaml were written from
  evidence,      \* trajectory, evidence and manifest under output/ are complete
  result,        \* the status in result.json
  scrap,         \* the temporary of result.json is (still) in the run directory
  wpc,           \* next step of each worker
  job,           \* the run directory each worker allocated
  submitted,     \* the revision each worker read under the project lock
  terminal,      \* the status each worker is about to record
  signal,        \* SIGTERM or SIGINT arrived before the last look at the flag
  ipc,           \* next step of each inspector
  pending,       \* run directories each inspector has still to render
  at,            \* the run each inspector is rendering
  blocker,       \* who held that run's lock when the inspector tried it
  status         \* what each inspector last reported of each run

dirVars == <<runDir, workerLock, request, source, evidence, result, scrap>>
workVars == <<wpc, job, submitted, terminal, signal>>
viewVars == <<ipc, pending, at, blocker, status>>
vars == <<head, editLock, dirVars, workVars, viewVars>>

WorkerStep == {"idle", "lock", "reserve", "name", "own", "request", "leave", "source",
               "execute", "verify", "result", "unlink", "release", "view", "viewed"}

(* Steps before the last look at the cancellation flag.                    *)
Cancellable == {"lock", "reserve", "name", "own", "request", "leave", "source",
                "execute", "verify"}

WorkerGoto(w, step) == wpc' = [wpc EXCEPT ![w] = step]

Forget(w) ==
  /\ WorkerGoto(w, "idle")
  /\ job' = [job EXCEPT ![w] = None]
  /\ submitted' = [submitted EXCEPT ![w] = None]
  /\ terminal' = [terminal EXCEPT ![w] = None]
  /\ signal' = [signal EXCEPT ![w] = FALSE]

DropNothing(p) == UNCHANGED workerLock

(* What a process that exits, however it does, no longer holds.            *)
Drop(p) == workerLock' = [r \in Run |-> IF workerLock[r] = p THEN None ELSE workerLock[r]]

-----------------------------------------------------------------------------
(* run(): the submission, under the project lock                           *)

StartRun(w) ==
  /\ wpc[w] = "idle"
  /\ WorkerGoto(w, "lock")
  /\ UNCHANGED <<head, editLock, dirVars, job, submitted, terminal, signal, viewVars>>

TakeEditLock(w) ==
  /\ wpc[w] = "lock"
  /\ editLock = None
  /\ editLock' = w
  /\ WorkerGoto(w, "reserve")
  /\ UNCHANGED <<head, dirVars, job, submitted, terminal, signal, viewVars>>

EditLockBusy(w) ==
  /\ wpc[w] = "lock"
  /\ editLock # None
  /\ Forget(w)
  /\ UNCHANGED <<head, editLock, dirVars, viewVars>>

RunCount == Cardinality({r \in Run : runDir[r] # "absent"})

RoomForOneMore == RunCount <= RunLimit

RoomForRun == RunCount < RunLimit

(* head, revision_at, the bound on retained runs, then mkdtemp.            *)
ReserveRun(w) ==
  /\ wpc[w] = "reserve"
  /\ RoomForRun
  /\ submitted' = [submitted EXCEPT ![w] = head]
  /\ \E r \in Run :
       /\ runDir[r] = "absent"
       /\ runDir' = [runDir EXCEPT ![r] = "reserved"]
       /\ job' = [job EXCEPT ![w] = r]
  /\ WorkerGoto(w, "name")
  /\ UNCHANGED <<head, editLock, workerLock, request, source, evidence, result, scrap,
                 terminal, signal, viewVars>>

(* run history limit exceeded.                                             *)
ReserveRefused(w) ==
  /\ wpc[w] = "reserve"
  /\ ~RoomForRun
  /\ editLock' = None
  /\ Forget(w)
  /\ UNCHANGED <<head, dirVars, viewVars>>

NameRun(w) ==
  /\ wpc[w] = "name"
  /\ runDir' = [runDir EXCEPT ![job[w]] = "named"]
  /\ WorkerGoto(w, "own")
  /\ UNCHANGED <<head, editLock, workerLock, request, source, evidence, result, scrap,
                 job, submitted, terminal, signal, viewVars>>

OwnRun(w) ==
  /\ wpc[w] = "own"
  /\ workerLock[job[w]] = None
  /\ workerLock' = [workerLock EXCEPT ![job[w]] = w]
  /\ WorkerGoto(w, "request")
  /\ UNCHANGED <<head, editLock, runDir, request, source, evidence, result, scrap,
                 job, submitted, terminal, signal, viewVars>>

(* An inspector has the lock of the new directory: the command fails as    *)
(* busy and the directory stays behind without a request.                  *)
OwnRunBusy(w) ==
  /\ wpc[w] = "own"
  /\ workerLock[job[w]] # None
  /\ editLock' = None
  /\ Forget(w)
  /\ UNCHANGED <<head, dirVars, viewVars>>

WriteRequest(w) ==
  /\ wpc[w] = "request"
  /\ request' = [request EXCEPT ![job[w]] = submitted[w]]
  /\ WorkerGoto(w, "leave")
  /\ UNCHANGED <<head, editLock, runDir, workerLock, source, evidence, result, scrap,
                 job, submitted, terminal, signal, viewVars>>

(* request.json cannot be written: the worker exits and its locks go.      *)
WriteRequestFails(w) ==
  /\ wpc[w] = "request"
  /\ editLock' = None
  /\ Drop(w)
  /\ Forget(w)
  /\ UNCHANGED <<head, runDir, request, source, evidence, result, scrap, viewVars>>

LeaveEditLock(w) ==
  /\ wpc[w] = "leave"
  /\ editLock' = None
  /\ WorkerGoto(w, "source")
  /\ UNCHANGED <<head, dirVars, job, submitted, terminal, signal, viewVars>>

-----------------------------------------------------------------------------
(* run(): the execution, under the worker lock only                        *)

WriteCurrentSource(w) ==
  /\ wpc[w] = "source"
  /\ source' = [source EXCEPT ![job[w]] = head]
  /\ WorkerGoto(w, "execute")
  /\ UNCHANGED <<head, editLock, runDir, workerLock, request, evidence, result, scrap,
                 job, submitted, terminal, signal, viewVars>>

WriteSource(w) ==
  /\ wpc[w] = "source"
  /\ source' = [source EXCEPT ![job[w]] = submitted[w]]
  /\ WorkerGoto(w, "execute")
  /\ UNCHANGED <<head, editLock, runDir, workerLock, request, evidence, result, scrap,
                 job, submitted, terminal, signal, viewVars>>

(* The pipeline polls the flag a last time and publishes its manifest; a   *)
(* signal from here on finds complete evidence of a run it still cancels.  *)
Execute(w) ==
  /\ wpc[w] = "execute"
  /\ ~signal[w]
  /\ evidence' = [evidence EXCEPT ![job[w]] = TRUE]
  /\ WorkerGoto(w, "verify")
  /\ UNCHANGED <<head, editLock, runDir, workerLock, request, source, result, scrap,
                 job, submitted, terminal, signal, viewVars>>

(* The catch block: any failure up to here is recorded as cancelled once   *)
(* the signal has arrived, as failed otherwise, without artifacts.         *)
FailureStatusLost(w) == "interrupted"

FailureStatus(w) == IF signal[w] THEN "cancelled" ELSE "failed"

AttemptFailsEarly(w) ==
  /\ wpc[w] \in {"source", "execute"}
  /\ terminal' = [terminal EXCEPT ![w] = FailureStatus(w)]
  /\ WorkerGoto(w, "result")
  /\ UNCHANGED <<head, editLock, dirVars, job, submitted, signal, viewVars>>

AttemptFails(w) ==
  /\ wpc[w] \in {"source", "execute", "verify"}
  /\ terminal' = [terminal EXCEPT ![w] = FailureStatus(w)]
  /\ WorkerGoto(w, "result")
  /\ UNCHANGED <<head, editLock, dirVars, job, submitted, signal, viewVars>>

(* check_completion: the evidence is there and the source on disk is the   *)
(* one the request names.                                                  *)
CompletionChecks(r, revision) == evidence[r] /\ source[r] = revision

AcceptAnyway(w) ==
  /\ wpc[w] = "verify"
  /\ CompletionChecks(job[w], submitted[w])
  /\ terminal' = [terminal EXCEPT ![w] = "completed"]
  /\ WorkerGoto(w, "result")
  /\ UNCHANGED <<head, editLock, dirVars, job, submitted, signal, viewVars>>

Accept(w) ==
  /\ wpc[w] = "verify"
  /\ CompletionChecks(job[w], submitted[w])
  /\ ~signal[w]
  /\ terminal' = [terminal EXCEPT ![w] = "completed"]
  /\ WorkerGoto(w, "result")
  /\ UNCHANGED <<head, editLock, dirVars, job, submitted, signal, viewVars>>

LinkResultUnlocked(w) ==
  /\ wpc[w] = "result"
  /\ IF workerLock[job[w]] = w
       THEN /\ Drop(w)
            /\ UNCHANGED <<result, scrap, wpc>>
       ELSE /\ result' = [result EXCEPT ![job[w]] = terminal[w]]
            /\ scrap' = [scrap EXCEPT ![job[w]] = TRUE]
            /\ WorkerGoto(w, "unlink")
            /\ UNCHANGED workerLock
  /\ UNCHANGED <<head, editLock, runDir, request, source, evidence,
                 job, submitted, terminal, signal, viewVars>>

LinkResult(w) ==
  /\ wpc[w] = "result"
  /\ result' = [result EXCEPT ![job[w]] = terminal[w]]
  /\ scrap' = [scrap EXCEPT ![job[w]] = TRUE]
  /\ WorkerGoto(w, "unlink")
  /\ UNCHANGED <<head, editLock, runDir, workerLock, request, source, evidence,
                 job, submitted, terminal, signal, viewVars>>

UnlinkResult(w) ==
  /\ wpc[w] = "unlink"
  /\ scrap' = [scrap EXCEPT ![job[w]] = FALSE]
  /\ WorkerGoto(w, "release")
  /\ UNCHANGED <<head, editLock, runDir, workerLock, request, source, evidence, result,
                 job, submitted, terminal, signal, viewVars>>

(* result.json cannot be written: the worker exits and its lock goes.      *)
WriteResultFails(w) ==
  /\ wpc[w] = "result"
  /\ Drop(w)
  /\ Forget(w)
  /\ UNCHANGED <<head, editLock, runDir, request, source, evidence, result, scrap, viewVars>>

ReleaseRun(w) ==
  /\ wpc[w] = "release"
  /\ workerLock' = [workerLock EXCEPT ![job[w]] = None]
  /\ WorkerGoto(w, "view")
  /\ UNCHANGED <<head, editLock, runDir, request, source, evidence, result, scrap,
                 job, submitted, terminal, signal, viewVars>>

(* The worker renders its own run as any inspector would.                  *)
ViewOwnRun(w) ==
  /\ wpc[w] = "view"
  /\ workerLock' = [workerLock EXCEPT ![job[w]] = IF @ = None THEN w ELSE @]
  /\ WorkerGoto(w, "viewed")
  /\ UNCHANGED <<head, editLock, runDir, request, source, evidence, result, scrap,
                 job, submitted, terminal, signal, viewVars>>

FinishRun(w) ==
  /\ wpc[w] = "viewed"
  /\ Drop(w)
  /\ Forget(w)
  /\ UNCHANGED <<head, editLock, runDir, request, source, evidence, result, scrap, viewVars>>

(* SIGTERM or SIGINT sets a flag that nobody reads after the last check.    *)
Signal(w) ==
  /\ wpc[w] \in Cancellable
  /\ signal' = [signal EXCEPT ![w] = TRUE]
  /\ UNCHANGED <<head, editLock, dirVars, wpc, job, submitted, terminal, viewVars>>

KillWorker(w) ==
  /\ w \in Mortal
  /\ wpc[w] # "idle"
  /\ editLock' = IF editLock = w THEN None ELSE editLock
  /\ Drop(w)
  /\ Forget(w)
  /\ UNCHANGED <<head, runDir, request, source, evidence, result, scrap, viewVars>>
-----------------------------------------------------------------------------
(* inspect(): the head, the names under runs/, and run_view() of each      *)

SetStatus(i, r, verdict) == [status EXCEPT ![i][r] = verdict]

(* A .new-XXXXXX entry is no run identity: reported invalid by its name.   *)
StartInspect(i) ==
  /\ ipc[i] = "idle"
  /\ pending' = [pending EXCEPT ![i] = {r \in Run : runDir[r] = "named"}]
  /\ status' = [status EXCEPT ![i] =
                  [r \in Run |-> IF runDir[r] = "reserved" THEN "invalid" ELSE status[i][r]]]
  /\ ipc' = [ipc EXCEPT ![i] = "scan"]
  /\ UNCHANGED <<head, editLock, dirVars, workVars, at, blocker>>

(* Lock active(worker.lock, required = false): taken if it is free.        *)
ProbeRun(i) ==
  /\ ipc[i] = "scan"
  /\ \E r \in pending[i] :
       /\ at' = [at EXCEPT ![i] = r]
       /\ pending' = [pending EXCEPT ![i] = @ \ {r}]
       /\ blocker' = [blocker EXCEPT ![i] = workerLock[r]]
       /\ workerLock' = [workerLock EXCEPT ![r] = IF @ = None THEN i ELSE @]
  /\ ipc' = [ipc EXCEPT ![i] = "probed"]
  /\ UNCHANGED <<head, editLock, runDir, request, source, evidence, result, scrap, workVars, status>>

EndView(i) ==
  /\ Drop(i)
  /\ at' = [at EXCEPT ![i] = None]
  /\ blocker' = [blocker EXCEPT ![i] = None]

NoRequest(i) ==
  /\ ipc[i] = "probed"
  /\ request[at[i]] = None
  /\ status' = SetStatus(i, at[i], "invalid")
  /\ EndView(i)
  /\ ipc' = [ipc EXCEPT ![i] = "scan"]
  /\ UNCHANGED <<head, editLock, runDir, request, source, evidence, result, scrap, workVars, pending>>

LoadRequest(i) ==
  /\ ipc[i] = "probed"
  /\ request[at[i]] # None
  /\ ipc' = [ipc EXCEPT ![i] = "judge"]
  /\ UNCHANGED <<head, editLock, dirVars, workVars, pending, at, blocker, status>>

(* Without result.json the lock decides; with it the record is verified.   *)
Verdict(r, holder) ==
  CASE result[r] = None /\ holder = None -> "interrupted"
    [] result[r] = None /\ holder # None -> "running"
    [] result[r] = "completed" /\ ~CompletionChecks(r, request[r]) -> "invalid"
    [] OTHER -> result[r]

Judge(i) ==
  /\ ipc[i] = "judge"
  /\ status' = SetStatus(i, at[i], Verdict(at[i], blocker[i]))
  /\ EndView(i)
  /\ ipc' = [ipc EXCEPT ![i] = "scan"]
  /\ UNCHANGED <<head, editLock, runDir, request, source, evidence, result, scrap, workVars, pending>>

FinishInspect(i) ==
  /\ ipc[i] = "scan"
  /\ pending[i] = {}
  /\ ipc' = [ipc EXCEPT ![i] = "idle"]
  /\ UNCHANGED <<head, editLock, dirVars, workVars, pending, at, blocker, status>>

(* Not a step of Next: ReviewExport takes it, where some other inspector   *)
(* goes on.                                                                *)
KillInspector(i) ==
  /\ i \in Mortal
  /\ ipc[i] # "idle"
  /\ EndView(i)
  /\ ipc' = [ipc EXCEPT ![i] = "idle"]
  /\ pending' = [pending EXCEPT ![i] = {}]
  /\ UNCHANGED <<head, editLock, runDir, request, source, evidence, result, scrap, workVars, status>>

-----------------------------------------------------------------------------
(* An editor saves or restores: the head moves while no run is submitted.  *)
MoveHead ==
  /\ editLock = None
  /\ head' \in Revision
  /\ UNCHANGED <<editLock, dirVars, workVars, viewVars>>

Init ==
  /\ head \in Revision
  /\ editLock = None
  /\ runDir = [r \in Run |-> "absent"]
  /\ workerLock = [r \in Run |-> None]
  /\ request = [r \in Run |-> None]
  /\ source = [r \in Run |-> None]
  /\ evidence = [r \in Run |-> FALSE]
  /\ result = [r \in Run |-> None]
  /\ scrap = [r \in Run |-> FALSE]
  /\ wpc = [w \in Worker |-> "idle"]
  /\ job = [w \in Worker |-> None]
  /\ submitted = [w \in Worker |-> None]
  /\ terminal = [w \in Worker |-> None]
  /\ signal = [w \in Worker |-> FALSE]
  /\ ipc = [i \in Inspector |-> "idle"]
  /\ pending = [i \in Inspector |-> {}]
  /\ at = [i \in Inspector |-> None]
  /\ blocker = [i \in Inspector |-> None]
  /\ status = [i \in Inspector |-> [r \in Run |-> None]]

Work(w) ==
  \/ TakeEditLock(w) \/ EditLockBusy(w)
  \/ ReserveRun(w) \/ ReserveRefused(w) \/ NameRun(w) \/ OwnRun(w) \/ OwnRunBusy(w)
  \/ WriteRequest(w) \/ WriteRequestFails(w) \/ LeaveEditLock(w)
  \/ WriteSource(w) \/ Execute(w) \/ AttemptFails(w) \/ Accept(w)
  \/ LinkResult(w) \/ UnlinkResult(w) \/ WriteResultFails(w) \/ ReleaseRun(w)
  \/ ViewOwnRun(w) \/ FinishRun(w)

View(i) ==
  \/ ProbeRun(i) \/ NoRequest(i) \/ LoadRequest(i) \/ Judge(i) \/ FinishInspect(i)

Next ==
  \/ MoveHead
  \/ \E w \in Worker : StartRun(w) \/ Work(w) \/ Signal(w) \/ KillWorker(w)
  \/ \E i \in Inspector : StartInspect(i) \/ View(i)

(* Running processes are scheduled; inspectors keep inspecting.            *)
Fairness ==
  /\ \A w \in Worker : WF_vars(Work(w))
  /\ \A i \in Inspector : WF_vars(StartInspect(i) \/ View(i))

Spec == Init /\ [][Next]_vars

FairSpec == Spec /\ Fairness

-----------------------------------------------------------------------------
(* Properties                                                              *)

(* Every variable keeps its shape; a recorded status is a terminal one.    *)
TypeOK ==
  /\ head \in Revision
  /\ editLock \in Process \cup {None}
  /\ runDir \in [Run -> {"absent", "reserved", "named"}]
  /\ workerLock \in [Run -> Process \cup {None}]
  /\ request \in [Run -> Revision \cup {None}]
  /\ source \in [Run -> Revision \cup {None}]
  /\ evidence \in [Run -> BOOLEAN]
  /\ result \in [Run -> Terminal \cup {None}]
  /\ scrap \in [Run -> BOOLEAN]
  /\ wpc \in [Worker -> WorkerStep]
  /\ job \in [Worker -> Run \cup {None}]
  /\ submitted \in [Worker -> Revision \cup {None}]
  /\ terminal \in [Worker -> Terminal \cup {None}]
  /\ signal \in [Worker -> BOOLEAN]
  /\ ipc \in [Inspector -> {"idle", "scan", "probed", "judge"}]
  /\ pending \in [Inspector -> SUBSET Run]
  /\ at \in [Inspector -> Run \cup {None}]
  /\ blocker \in [Inspector -> Process \cup {None}]
  /\ status \in [Inspector -> [Run -> Status \cup {None}]]

(* No process is working on r, and none ever will: a directory is allocated *)
(* once.                                                                   *)
Abandoned(r) == \A w \in Worker : job[w] # r

(* A verdict an inspector has given never has to be taken back: a run it   *)
(* called interrupted has no worker and never gets a result, and a         *)
(* terminal status it reported is the one on record for good.              *)
VerdictsStand ==
  \A i \in Inspector, r \in Run :
    /\ status[i][r] = "interrupted" => result[r] = None /\ Abandoned(r)
    /\ status[i][r] \in Terminal => result[r] = status[i][r]

(* The source a worker executes is the revision its request names, however *)
(* often the head moved since, and a completed record has its evidence.    *)
SubmissionFrozen ==
  \A r \in Run :
    /\ source[r] # None => source[r] = request[r]
    /\ result[r] = "completed" => evidence[r] /\ source[r] # None

(* A signal that arrived before the worker's last look at the flag keeps   *)
(* the run from being recorded as completed, although its evidence may     *)
(* already be complete on disk.                                            *)
CancelledInTime ==
  \A w \in Worker : signal[w] =>
    /\ terminal[w] # "completed"
    /\ job[w] # None => result[job[w]] # "completed"

(* At most RunLimit run directories, those that killed or refused          *)
(* submissions leave behind included.                                      *)
RunsBounded == RunCount <= RunLimit

(* The stated meaning of "running": the request exists and its worker owns *)
(* the run lock. The lock an inspector failed to get is the worker's.      *)
RunningMeansOwned ==
  [][\A i \in Inspector, r \in Run :
       status'[i][r] = "running" /\ status[i][r] # "running" => blocker[i] \in Worker]_vars

(* The comment in run() that mkdtemp allocates jobs free of collisions:    *)
(* nobody holds the lock of a run directory its own worker comes to lock.  *)
AllocationIsPrivate ==
  \A w \in Worker : wpc[w] = "own" => workerLock[job[w]] = None

(* A request is decided: it gets its result or its worker is gone.         *)
RequestsDecided ==
  \A r \in Run : request[r] # None ~> result[r] # None \/ Abandoned(r)

(* A lone inspector that keeps looking ends up calling every abandoned     *)
(* request interrupted.                                                    *)
AbandonedGetsReported ==
  \A i \in Inspector, r \in Run :
    request[r] # None /\ result[r] = None /\ Abandoned(r) ~> status[i][r] = "interrupted"
=============================================================================
