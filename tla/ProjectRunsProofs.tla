------------------------- MODULE ProjectRunsProofs -------------------------
(***************************************************************************)
(* The run side of a project is correct for any number of workers,         *)
(* inspectors, revisions and runs. Workers share nothing but the project   *)
(* lock and the directory names, and inspectors nothing but worker.lock,   *)
(* so the inductive invariant RunsInv is stated per process, and each      *)
(* lemma below says what a step of one process leaves to the others.       *)
(***************************************************************************)
EXTENDS ProjectRuns, FiniteSetTheorems, TLAPS

(* Steps of a worker under the project lock.                               *)
Submitting == {"reserve", "name", "own", "request", "leave"}

(* Steps that have a directory but no request in it yet.                   *)
Unrequested == {"name", "own", "request"}

(* Steps under the lock of the run directory.                              *)
Owning == {"request", "leave", "source", "execute", "verify", "result", "unlink", "release"}

(* Steps after the result is on disk.                                      *)
Recorded == {"unlink", "release", "view", "viewed"}

(* A worker's directory is its own, and it holds the locks its step needs. *)
HoldsInv(w) ==
  /\ job[w] # None <=> wpc[w] \notin {"idle", "lock", "reserve"}
  /\ \A v \in Worker : job[v] = job[w] /\ job[w] # None => v = w
  /\ wpc[w] \in Submitting => editLock = w
  /\ wpc[w] \in Owning => workerLock[job[w]] = w

(* What its step implies about the files in that directory.                *)
FilesInv(w) ==
  /\ job[w] # None => /\ runDir[job[w]] = IF wpc[w] = "name" THEN "reserved" ELSE "named"
                      /\ submitted[w] \in Revision
  /\ wpc[w] \in Unrequested => request[job[w]] = None
  /\ job[w] # None /\ wpc[w] \notin Unrequested => request[job[w]] = submitted[w]
  /\ job[w] # None /\ wpc[w] \notin Recorded => result[job[w]] = None
  /\ wpc[w] \in Recorded => result[job[w]] = terminal[w]

(* The status it is about to record, or has recorded, is justified.        *)
OutcomeInv(w) ==
  /\ wpc[w] \in Recorded \cup {"result"} => terminal[w] \in Terminal
  /\ wpc[w] \notin Recorded \cup {"result"} => terminal[w] = None
  /\ wpc[w] = "idle" => ~signal[w]
  /\ terminal[w] = "completed" => /\ CompletionChecks(job[w], submitted[w])
                                  /\ ~signal[w]

WorkerInv(w) == HoldsInv(w) /\ FilesInv(w) /\ OutcomeInv(w)

(* A directory that was never reserved holds nothing.                      *)
FreshInv(r) == runDir[r] = "absent" => request[r] = None /\ result[r] = None

(* What an inspector has seen: it keeps the lock of a run it found         *)
(* unowned, and it only speaks of directories that exist.                  *)
InspectInv(i) ==
  /\ ipc[i] \in {"probed", "judge"} =>
       /\ at[i] \in Run
       /\ runDir[at[i]] = "named"
       /\ blocker[i] = None => workerLock[at[i]] = i
  /\ ipc[i] = "judge" => request[at[i]] # None
  /\ \A r \in pending[i] : runDir[r] = "named"
  /\ \A r \in Run : status[i][r] # None => runDir[r] # "absent"

RunsInv ==
  /\ TypeOK
  /\ \A w \in Worker : WorkerInv(w)
  /\ \A r \in Run : FreshInv(r)
  /\ \A i \in Inspector : InspectInv(i)
  /\ VerdictsStand
  /\ SubmissionFrozen
  /\ RunsBounded

WorkerTakes(w) == StartRun(w) \/ Work(w) \/ Signal(w) \/ KillWorker(w)

InspectorTakes(i) == StartInspect(i) \/ View(i)

-----------------------------------------------------------------------------
(* A worker's step keeps the shape of every variable.                      *)
LEMMA WorkerTypes ==
  ASSUME RunsInv, NEW w \in Worker, WorkerTakes(w)
  PROVE  TypeOK'
<1> USE DEF TypeOK, WorkerGoto, WorkerStep
<1>0. TypeOK /\ WorkerInv(w)
  BY DEF RunsInv
<1>1. CASE StartRun(w)
  BY <1>0, <1>1 DEF StartRun, dirVars, viewVars
<1>2. CASE TakeEditLock(w)
  BY <1>0, <1>2 DEF TakeEditLock, Process, dirVars, viewVars
<1>3. CASE EditLockBusy(w)
  BY <1>0, <1>3 DEF EditLockBusy, Forget, dirVars, viewVars
<1>4. CASE ReserveRun(w)
  BY <1>0, <1>4 DEF ReserveRun, viewVars
<1>5. CASE ReserveRefused(w)
  BY <1>0, <1>5 DEF ReserveRefused, Forget, dirVars, viewVars
<1>6. CASE NameRun(w)
  BY <1>0, <1>6 DEF NameRun, viewVars
<1>7. CASE OwnRun(w)
  BY <1>0, <1>7 DEF OwnRun, Process, viewVars
<1>8. CASE OwnRunBusy(w)
  BY <1>0, <1>8 DEF OwnRunBusy, Forget, dirVars, viewVars
<1>9. CASE WriteRequest(w)
  BY <1>0, <1>9 DEF WriteRequest, viewVars
<1>10. CASE WriteRequestFails(w)
  BY <1>0, <1>10 DEF WriteRequestFails, Drop, Forget, viewVars
<1>11. CASE LeaveEditLock(w)
  BY <1>0, <1>11 DEF LeaveEditLock, dirVars, viewVars
<1>12. CASE WriteSource(w)
  BY <1>0, <1>12 DEF WriteSource, viewVars
<1>13. CASE Execute(w)
  BY <1>0, <1>13 DEF Execute, viewVars
<1>14. CASE AttemptFails(w)
  BY <1>0, <1>14 DEF AttemptFails, FailureStatus, Terminal, dirVars, viewVars
<1>15. CASE Accept(w)
  BY <1>0, <1>15 DEF Accept, Terminal, dirVars, viewVars
<1>16. CASE LinkResult(w)
  BY <1>0, <1>16 DEF LinkResult, WorkerInv, OutcomeInv, viewVars
<1>17. CASE UnlinkResult(w)
  BY <1>0, <1>17 DEF UnlinkResult, viewVars
<1>18. CASE WriteResultFails(w)
  BY <1>0, <1>18 DEF WriteResultFails, Drop, Forget, viewVars
<1>19. CASE ReleaseRun(w)
  BY <1>0, <1>19 DEF ReleaseRun, viewVars
<1>20. CASE ViewOwnRun(w)
  BY <1>0, <1>20 DEF ViewOwnRun, Process, viewVars
<1>21. CASE FinishRun(w)
  BY <1>0, <1>21 DEF FinishRun, Drop, Forget, viewVars
<1>22. CASE Signal(w)
  BY <1>0, <1>22 DEF Signal, dirVars, viewVars
<1>23. CASE KillWorker(w)
  BY <1>0, <1>23 DEF KillWorker, Drop, Forget, viewVars
<1> QED
  BY <1>1, <1>2, <1>3, <1>4, <1>5, <1>6, <1>7, <1>8, <1>9, <1>10, <1>11, <1>12, <1>13, <1>14, <1>15, <1>16, <1>17, <1>18, <1>19, <1>20, <1>21, <1>22, <1>23
  DEF WorkerTakes, Work

(* A worker's step leaves the other workers, the views and the head alone; *)
(* the project lock only changes hands when it is free or given up, and a  *)
(* directory is only reserved when nobody has it.                          *)
LEMMA WorkerFrame ==
  ASSUME RunsInv, NEW w \in Worker, WorkerTakes(w)
  PROVE  /\ UNCHANGED <<head, viewVars>>
         /\ \A v \in Worker \ {w} :
              /\ wpc'[v] = wpc[v] /\ job'[v] = job[v] /\ submitted'[v] = submitted[v]
              /\ terminal'[v] = terminal[v] /\ signal'[v] = signal[v]
         /\ \A p : p # w /\ p # None /\ editLock = p => editLock' = p
         /\ job'[w] \in {job[w], None} \/ (job'[w] \in Run /\ runDir[job'[w]] = "absent")
<1> USE DEF WorkerGoto, viewVars
<1>0. TypeOK /\ HoldsInv(w)
  BY DEF RunsInv, WorkerInv
<1> USE DEF TypeOK, HoldsInv, Submitting
<1>1. CASE StartRun(w)
  BY <1>0, <1>1 DEF StartRun, dirVars
<1>2. CASE TakeEditLock(w)
  BY <1>0, <1>2 DEF TakeEditLock, dirVars
<1>3. CASE EditLockBusy(w)
  BY <1>0, <1>3 DEF EditLockBusy, Forget, dirVars
<1>4. CASE ReserveRun(w)
  BY <1>0, <1>4 DEF ReserveRun
<1>5. CASE ReserveRefused(w)
  BY <1>0, <1>5 DEF ReserveRefused, Forget, dirVars
<1>6. CASE NameRun(w)
  BY <1>0, <1>6 DEF NameRun
<1>7. CASE OwnRun(w)
  BY <1>0, <1>7 DEF OwnRun
<1>8. CASE OwnRunBusy(w)
  BY <1>0, <1>8 DEF OwnRunBusy, Forget, dirVars
<1>9. CASE WriteRequest(w)
  BY <1>0, <1>9 DEF WriteRequest
<1>10. CASE WriteRequestFails(w)
  BY <1>0, <1>10 DEF WriteRequestFails, Drop, Forget
<1>11. CASE LeaveEditLock(w)
  BY <1>0, <1>11 DEF LeaveEditLock, dirVars
<1>12. CASE WriteSource(w)
  BY <1>0, <1>12 DEF WriteSource
<1>13. CASE Execute(w)
  BY <1>0, <1>13 DEF Execute
<1>14. CASE AttemptFails(w)
  BY <1>0, <1>14 DEF AttemptFails, dirVars
<1>15. CASE Accept(w)
  BY <1>0, <1>15 DEF Accept, dirVars
<1>16. CASE LinkResult(w)
  BY <1>0, <1>16 DEF LinkResult
<1>17. CASE UnlinkResult(w)
  BY <1>0, <1>17 DEF UnlinkResult
<1>18. CASE WriteResultFails(w)
  BY <1>0, <1>18 DEF WriteResultFails, Drop, Forget
<1>19. CASE ReleaseRun(w)
  BY <1>0, <1>19 DEF ReleaseRun
<1>20. CASE ViewOwnRun(w)
  BY <1>0, <1>20 DEF ViewOwnRun
<1>21. CASE FinishRun(w)
  BY <1>0, <1>21 DEF FinishRun, Drop, Forget
<1>22. CASE Signal(w)
  BY <1>0, <1>22 DEF Signal, dirVars
<1>23. CASE KillWorker(w)
  BY <1>0, <1>23 DEF KillWorker, Drop, Forget
<1> QED
  BY <1>1, <1>2, <1>3, <1>4, <1>5, <1>6, <1>7, <1>8, <1>9, <1>10, <1>11, <1>12,
     <1>13, <1>14, <1>15, <1>16, <1>17, <1>18, <1>19, <1>20, <1>21, <1>22, <1>23
  DEF WorkerTakes, Work

(* Only the files of its own directory change in its step: a name stays a  *)
(* name, a request a request and a result with what it rests on for good.  *)
(* The lock of a directory never passes from one process to another.       *)
LEMMA WorkerFiles ==
  ASSUME RunsInv, NEW w \in Worker, WorkerTakes(w), NEW r \in Run
  PROVE  /\ r # job[w] /\ runDir[r] # "absent" => runDir'[r] = runDir[r]
         /\ r # job[w] => /\ request'[r] = request[r] /\ source'[r] = source[r]
                          /\ evidence'[r] = evidence[r] /\ result'[r] = result[r]
         /\ runDir[r] = "named" => runDir'[r] = "named"
         /\ runDir[r] # "absent" => runDir'[r] # "absent"
         /\ runDir'[r] # runDir[r] => wpc[w] \in {"reserve", "name"}
         /\ request[r] # None => request'[r] = request[r]
         /\ request'[r] # request[r] => wpc[w] = "request"
         /\ result[r] # None => /\ result'[r] = result[r] /\ source'[r] = source[r]
                                /\ evidence'[r] = evidence[r]
         /\ workerLock[r] \notin {w, None} => workerLock'[r] = workerLock[r]
         /\ workerLock'[r] \in {workerLock[r], w, None}
<1> USE DEF WorkerGoto
<1>0. TypeOK /\ HoldsInv(w) /\ FilesInv(w)
  BY DEF RunsInv, WorkerInv
<1> USE DEF TypeOK, HoldsInv, FilesInv, Owning, Unrequested, Recorded
<1>1. CASE StartRun(w)
  BY <1>0, <1>1 DEF StartRun, dirVars
<1>2. CASE TakeEditLock(w)
  BY <1>0, <1>2 DEF TakeEditLock, dirVars
<1>3. CASE EditLockBusy(w)
  BY <1>0, <1>3 DEF EditLockBusy, Forget, dirVars
<1>4. CASE ReserveRun(w)
  BY <1>0, <1>4 DEF ReserveRun
<1>5. CASE ReserveRefused(w)
  BY <1>0, <1>5 DEF ReserveRefused, Forget, dirVars
<1>6. CASE NameRun(w)
  BY <1>0, <1>6 DEF NameRun
<1>7. CASE OwnRun(w)
  BY <1>0, <1>7 DEF OwnRun
<1>8. CASE OwnRunBusy(w)
  BY <1>0, <1>8 DEF OwnRunBusy, Forget, dirVars
<1>9. CASE WriteRequest(w)
  BY <1>0, <1>9 DEF WriteRequest
<1>10. CASE WriteRequestFails(w)
  BY <1>0, <1>10 DEF WriteRequestFails, Drop, Forget
<1>11. CASE LeaveEditLock(w)
  BY <1>0, <1>11 DEF LeaveEditLock, dirVars
<1>12. CASE WriteSource(w)
  BY <1>0, <1>12 DEF WriteSource
<1>13. CASE Execute(w)
  BY <1>0, <1>13 DEF Execute
<1>14. CASE AttemptFails(w)
  BY <1>0, <1>14 DEF AttemptFails, dirVars
<1>15. CASE Accept(w)
  BY <1>0, <1>15 DEF Accept, dirVars
<1>16. CASE LinkResult(w)
  BY <1>0, <1>16 DEF LinkResult
<1>17. CASE UnlinkResult(w)
  BY <1>0, <1>17 DEF UnlinkResult
<1>18. CASE WriteResultFails(w)
  BY <1>0, <1>18 DEF WriteResultFails, Drop, Forget
<1>19. CASE ReleaseRun(w)
  BY <1>0, <1>19 DEF ReleaseRun
<1>20. CASE ViewOwnRun(w)
  BY <1>0, <1>20 DEF ViewOwnRun
<1>21. CASE FinishRun(w)
  BY <1>0, <1>21 DEF FinishRun, Drop, Forget
<1>22. CASE Signal(w)
  BY <1>0, <1>22 DEF Signal, dirVars
<1>23. CASE KillWorker(w)
  BY <1>0, <1>23 DEF KillWorker, Drop, Forget
<1> QED
  BY <1>1, <1>2, <1>3, <1>4, <1>5, <1>6, <1>7, <1>8, <1>9, <1>10, <1>11, <1>12,
     <1>13, <1>14, <1>15, <1>16, <1>17, <1>18, <1>19, <1>20, <1>21, <1>22, <1>23
  DEF WorkerTakes, Work

(* So no worker disturbs what another one relies on.                       *)
LEMMA OtherWorkersKept ==
  ASSUME RunsInv, NEW w \in Worker, WorkerTakes(w), NEW v \in Worker \ {w}
  PROVE  WorkerInv(v)'
<1>1. /\ TypeOK /\ WorkerInv(v) /\ WorkerInv(w)
      /\ v # None /\ w # None /\ v \in Worker
  BY RunsAssumption DEF RunsInv
<1>2. /\ wpc'[v] = wpc[v] /\ job'[v] = job[v] /\ submitted'[v] = submitted[v]
      /\ terminal'[v] = terminal[v] /\ signal'[v] = signal[v]
      /\ editLock = v => editLock' = v
  BY <1>1, WorkerFrame
<1>3. HoldsInv(v)'
  <2>1. job'[v] # None <=> wpc'[v] \notin {"idle", "lock", "reserve"}
    BY <1>1, <1>2 DEF WorkerInv, HoldsInv
  <2>2. ASSUME NEW u \in Worker, job'[u] = job'[v], job'[v] # None
        PROVE  u = v
    <3>1. CASE u # w
      BY <1>1, <1>2, <2>2, <3>1, WorkerFrame DEF WorkerInv, HoldsInv
    <3>2. CASE u = w
      BY <1>1, <1>2, <2>2, <3>2, WorkerFrame DEF WorkerInv, HoldsInv, FilesInv
    <3> QED
      BY <3>1, <3>2
  <2>3. wpc'[v] \in Submitting => editLock' = v
    BY <1>1, <1>2 DEF WorkerInv, HoldsInv
  <2>4. wpc'[v] \in Owning => workerLock'[job'[v]] = v
    BY <1>1, <1>2, WorkerFiles DEF WorkerInv, HoldsInv, Owning, TypeOK
  <2> QED
    BY <2>1, <2>2, <2>3, <2>4 DEF HoldsInv
<1>4. job[v] # None => job[v] \in Run /\ job[v] # job[w]
  BY <1>1 DEF TypeOK, WorkerInv, HoldsInv
<1>5. job[v] # None =>
        /\ runDir'[job[v]] = runDir[job[v]] /\ request'[job[v]] = request[job[v]]
        /\ source'[job[v]] = source[job[v]] /\ evidence'[job[v]] = evidence[job[v]]
        /\ result'[job[v]] = result[job[v]]
  BY <1>1, <1>4, WorkerFiles DEF WorkerInv, FilesInv
<1>6. FilesInv(v)'
  BY <1>1, <1>2, <1>5 DEF WorkerInv, HoldsInv, FilesInv, Unrequested, Recorded
<1>7. OutcomeInv(v)'
  BY <1>1, <1>2, <1>5, RunsAssumption
  DEF WorkerInv, HoldsInv, OutcomeInv, Recorded, CompletionChecks, Terminal, Status
<1> QED
  BY <1>3, <1>6, <1>7 DEF WorkerInv

(* The locks and the directory the worker itself goes on with.             *)
LEMMA OwnHoldsKept ==
  ASSUME RunsInv, NEW w \in Worker, WorkerTakes(w)
  PROVE  HoldsInv(w)'
<1> USE RunsAssumption DEF WorkerGoto
<1>0. TypeOK /\ HoldsInv(w) /\ \A v \in Worker : FilesInv(v)
  BY DEF RunsInv, WorkerInv
<1>a. \A v \in Worker \ {w} : job'[v] = job[v]
  BY WorkerFrame
<1> USE DEF TypeOK, HoldsInv, FilesInv, Submitting, Owning
<1>1. CASE StartRun(w)
  BY <1>0, <1>a, <1>1 DEF StartRun, dirVars
<1>2. CASE TakeEditLock(w)
  BY <1>0, <1>a, <1>2 DEF TakeEditLock, dirVars
<1>3. CASE EditLockBusy(w)
  BY <1>0, <1>a, <1>3 DEF EditLockBusy, Forget, dirVars
<1>4. CASE ReserveRun(w)
  <2>1. PICK r \in Run : runDir[r] = "absent" /\ job' = [job EXCEPT ![w] = r]
    BY <1>4 DEF ReserveRun
  <2>2. job'[w] = r /\ r # None /\ wpc'[w] = "name" /\ editLock = w /\ editLock' = editLock
    BY <1>0, <1>4, <2>1 DEF ReserveRun
  <2>3. \A v \in Worker \ {w} : job[v] # r
    BY <1>0, <2>1
  <2> QED
    BY <1>0, <1>a, <2>2, <2>3
<1>5. CASE ReserveRefused(w)
  BY <1>0, <1>a, <1>5 DEF ReserveRefused, Forget, dirVars
<1>6. CASE NameRun(w)
  BY <1>0, <1>a, <1>6 DEF NameRun
<1>7. CASE OwnRun(w)
  BY <1>0, <1>a, <1>7 DEF OwnRun
<1>8. CASE OwnRunBusy(w)
  BY <1>0, <1>a, <1>8 DEF OwnRunBusy, Forget, dirVars
<1>9. CASE WriteRequest(w)
  BY <1>0, <1>a, <1>9 DEF WriteRequest
<1>10. CASE WriteRequestFails(w)
  BY <1>0, <1>a, <1>10 DEF WriteRequestFails, Drop, Forget
<1>11. CASE LeaveEditLock(w)
  BY <1>0, <1>a, <1>11 DEF LeaveEditLock, dirVars
<1>12. CASE WriteSource(w)
  BY <1>0, <1>a, <1>12 DEF WriteSource
<1>13. CASE Execute(w)
  BY <1>0, <1>a, <1>13 DEF Execute
<1>14. CASE AttemptFails(w)
  BY <1>0, <1>a, <1>14 DEF AttemptFails, dirVars
<1>15. CASE Accept(w)
  BY <1>0, <1>a, <1>15 DEF Accept, dirVars
<1>16. CASE LinkResult(w)
  BY <1>0, <1>a, <1>16 DEF LinkResult
<1>17. CASE UnlinkResult(w)
  BY <1>0, <1>a, <1>17 DEF UnlinkResult
<1>18. CASE WriteResultFails(w)
  BY <1>0, <1>a, <1>18 DEF WriteResultFails, Drop, Forget
<1>19. CASE ReleaseRun(w)
  BY <1>0, <1>a, <1>19 DEF ReleaseRun
<1>20. CASE ViewOwnRun(w)
  BY <1>0, <1>a, <1>20 DEF ViewOwnRun
<1>21. CASE FinishRun(w)
  BY <1>0, <1>a, <1>21 DEF FinishRun, Drop, Forget
<1>22. CASE Signal(w)
  BY <1>0, <1>a, <1>22 DEF Signal, dirVars
<1>23. CASE KillWorker(w)
  BY <1>0, <1>a, <1>23 DEF KillWorker, Drop, Forget
<1> QED
  BY <1>1, <1>2, <1>3, <1>4, <1>5, <1>6, <1>7, <1>8, <1>9, <1>10, <1>11, <1>12,
     <1>13, <1>14, <1>15, <1>16, <1>17, <1>18, <1>19, <1>20, <1>21, <1>22, <1>23
  DEF WorkerTakes, Work

(* What it finds in, and writes to, that directory.                        *)
LEMMA OwnFilesKept ==
  ASSUME RunsInv, NEW w \in Worker, WorkerTakes(w)
  PROVE  FilesInv(w)'
<1> USE RunsAssumption DEF WorkerGoto
<1>0. TypeOK /\ HoldsInv(w) /\ FilesInv(w) /\ OutcomeInv(w) /\ \A r \in Run : FreshInv(r)
  BY DEF RunsInv, WorkerInv
<1> USE DEF TypeOK, HoldsInv, FilesInv, FreshInv, Unrequested, Recorded
<1>1. CASE StartRun(w)
  BY <1>0, <1>1 DEF StartRun, dirVars
<1>2. CASE TakeEditLock(w)
  BY <1>0, <1>2 DEF TakeEditLock, dirVars
<1>3. CASE EditLockBusy(w)
  BY <1>0, <1>3 DEF EditLockBusy, Forget, dirVars
<1>4. CASE ReserveRun(w)
  BY <1>0, <1>4 DEF ReserveRun
<1>5. CASE ReserveRefused(w)
  BY <1>0, <1>5 DEF ReserveRefused, Forget, dirVars
<1>6. CASE NameRun(w)
  BY <1>0, <1>6 DEF NameRun
<1>7. CASE OwnRun(w)
  BY <1>0, <1>7 DEF OwnRun
<1>8. CASE OwnRunBusy(w)
  BY <1>0, <1>8 DEF OwnRunBusy, Forget, dirVars
<1>9. CASE WriteRequest(w)
  BY <1>0, <1>9 DEF WriteRequest
<1>10. CASE WriteRequestFails(w)
  BY <1>0, <1>10 DEF WriteRequestFails, Drop, Forget
<1>11. CASE LeaveEditLock(w)
  BY <1>0, <1>11 DEF LeaveEditLock, dirVars
<1>12. CASE WriteSource(w)
  BY <1>0, <1>12 DEF WriteSource
<1>13. CASE Execute(w)
  BY <1>0, <1>13 DEF Execute
<1>14. CASE AttemptFails(w)
  BY <1>0, <1>14 DEF AttemptFails, dirVars
<1>15. CASE Accept(w)
  BY <1>0, <1>15 DEF Accept, dirVars
<1>16. CASE LinkResult(w)
  BY <1>0, <1>16 DEF LinkResult
<1>17. CASE UnlinkResult(w)
  BY <1>0, <1>17 DEF UnlinkResult
<1>18. CASE WriteResultFails(w)
  BY <1>0, <1>18 DEF WriteResultFails, Drop, Forget
<1>19. CASE ReleaseRun(w)
  BY <1>0, <1>19 DEF ReleaseRun
<1>20. CASE ViewOwnRun(w)
  BY <1>0, <1>20 DEF ViewOwnRun
<1>21. CASE FinishRun(w)
  BY <1>0, <1>21 DEF FinishRun, Drop, Forget
<1>22. CASE Signal(w)
  BY <1>0, <1>22 DEF Signal, dirVars
<1>23. CASE KillWorker(w)
  BY <1>0, <1>23 DEF KillWorker, Drop, Forget
<1> QED
  BY <1>1, <1>2, <1>3, <1>4, <1>5, <1>6, <1>7, <1>8, <1>9, <1>10, <1>11, <1>12,
     <1>13, <1>14, <1>15, <1>16, <1>17, <1>18, <1>19, <1>20, <1>21, <1>22, <1>23
  DEF WorkerTakes, Work

(* A status is about to be recorded only with what justifies it.           *)
LEMMA OwnOutcomeKept ==
  ASSUME RunsInv, NEW w \in Worker, WorkerTakes(w)
  PROVE  OutcomeInv(w)'
<1> USE RunsAssumption DEF WorkerGoto, Status
<1>0. TypeOK /\ HoldsInv(w) /\ OutcomeInv(w)
  BY DEF RunsInv, WorkerInv
<1> USE DEF TypeOK, HoldsInv, OutcomeInv, Recorded, CompletionChecks, Terminal
<1>1. CASE StartRun(w)
  BY <1>0, <1>1 DEF StartRun, dirVars
<1>2. CASE TakeEditLock(w)
  BY <1>0, <1>2 DEF TakeEditLock, dirVars
<1>3. CASE EditLockBusy(w)
  BY <1>0, <1>3 DEF EditLockBusy, Forget, dirVars
<1>4. CASE ReserveRun(w)
  BY <1>0, <1>4 DEF ReserveRun
<1>5. CASE ReserveRefused(w)
  BY <1>0, <1>5 DEF ReserveRefused, Forget, dirVars
<1>6. CASE NameRun(w)
  BY <1>0, <1>6 DEF NameRun
<1>7. CASE OwnRun(w)
  BY <1>0, <1>7 DEF OwnRun
<1>8. CASE OwnRunBusy(w)
  BY <1>0, <1>8 DEF OwnRunBusy, Forget, dirVars
<1>9. CASE WriteRequest(w)
  BY <1>0, <1>9 DEF WriteRequest
<1>10. CASE WriteRequestFails(w)
  BY <1>0, <1>10 DEF WriteRequestFails, Drop, Forget
<1>11. CASE LeaveEditLock(w)
  BY <1>0, <1>11 DEF LeaveEditLock, dirVars
<1>12. CASE WriteSource(w)
  BY <1>0, <1>12 DEF WriteSource
<1>13. CASE Execute(w)
  BY <1>0, <1>13 DEF Execute
<1>14. CASE AttemptFails(w)
  BY <1>0, <1>14 DEF AttemptFails, dirVars, FailureStatus
<1>15. CASE Accept(w)
  BY <1>0, <1>15 DEF Accept, dirVars
<1>16. CASE LinkResult(w)
  BY <1>0, <1>16 DEF LinkResult
<1>17. CASE UnlinkResult(w)
  BY <1>0, <1>17 DEF UnlinkResult
<1>18. CASE WriteResultFails(w)
  BY <1>0, <1>18 DEF WriteResultFails, Drop, Forget
<1>19. CASE ReleaseRun(w)
  BY <1>0, <1>19 DEF ReleaseRun
<1>20. CASE ViewOwnRun(w)
  BY <1>0, <1>20 DEF ViewOwnRun
<1>21. CASE FinishRun(w)
  BY <1>0, <1>21 DEF FinishRun, Drop, Forget
<1>22. CASE Signal(w)
  BY <1>0, <1>22 DEF Signal, dirVars, Cancellable
<1>23. CASE KillWorker(w)
  BY <1>0, <1>23 DEF KillWorker, Drop, Forget
<1> QED
  BY <1>1, <1>2, <1>3, <1>4, <1>5, <1>6, <1>7, <1>8, <1>9, <1>10, <1>11, <1>12,
     <1>13, <1>14, <1>15, <1>16, <1>17, <1>18, <1>19, <1>20, <1>21, <1>22, <1>23
  DEF WorkerTakes, Work

(* What the inspectors have seen is still there.                           *)
LEMMA InspectorsKept ==
  ASSUME RunsInv, NEW w \in Worker, WorkerTakes(w), NEW i \in Inspector
  PROVE  InspectInv(i)'
<1>1. TypeOK /\ InspectInv(i) /\ i # w /\ i # None
  BY RunsAssumption DEF RunsInv
<1>2. UNCHANGED viewVars
  BY WorkerFrame
<1>3. \A r \in Run : /\ runDir[r] = "named" => runDir'[r] = "named"
                     /\ runDir[r] # "absent" => runDir'[r] # "absent"
                     /\ request[r] # None => request'[r] = request[r]
                     /\ workerLock[r] = i => workerLock'[r] = i
  BY <1>1, WorkerFiles
<1>4. pending[i] \subseteq Run
  BY <1>1 DEF TypeOK
<1> QED
  BY <1>1, <1>2, <1>3, <1>4 DEF InspectInv, viewVars

(* A verdict stands: of an abandoned run nothing changes any more, and a   *)
(* result stays what it is.                                                *)
LEMMA WorkerVerdicts ==
  ASSUME RunsInv, NEW w \in Worker, WorkerTakes(w)
  PROVE  VerdictsStand'
<1> SUFFICES ASSUME NEW i \in Inspector, NEW r \in Run
             PROVE  /\ status'[i][r] = "interrupted" => result'[r] = None /\ Abandoned(r)'
                    /\ status'[i][r] \in Terminal => result'[r] = status'[i][r]
  BY DEF VerdictsStand
<1>1. /\ TypeOK /\ InspectInv(i) /\ VerdictsStand
      /\ status' = status
  BY WorkerFrame DEF RunsInv, viewVars
<1>2. CASE status[i][r] = "interrupted"
  <2>1. /\ result[r] = None /\ Abandoned(r) /\ runDir[r] # "absent"
        /\ status[i][r] \notin Terminal
    BY <1>1, <1>2, RunsAssumption DEF VerdictsStand, InspectInv, Status, Terminal
  <2>2. result'[r] = None
    BY <2>1, WorkerFiles DEF Abandoned
  <2>3. job'[w] # r
    BY <2>1, WorkerFrame, RunsAssumption DEF Abandoned
  <2>4. Abandoned(r)'
    BY <2>1, <2>3, WorkerFrame DEF Abandoned
  <2> QED
    BY <1>1, <2>1, <2>2, <2>4
<1>3. CASE status[i][r] \in Terminal
  <2>1. result[r] = status[i][r] /\ result[r] # None /\ status[i][r] # "interrupted"
    BY <1>1, <1>3, RunsAssumption DEF VerdictsStand, Status, Terminal
  <2> QED
    BY <1>1, <2>1, WorkerFiles
<1> QED
  BY <1>1, <1>2, <1>3

(* A directory nobody reserved stays empty.                                *)
LEMMA WorkerFresh ==
  ASSUME RunsInv, NEW w \in Worker, WorkerTakes(w), NEW r \in Run
  PROVE  FreshInv(r)'
<1>1. FreshInv(r) /\ FilesInv(w)
  BY DEF RunsInv, WorkerInv
<1>2. runDir'[r] = "absent" => runDir[r] = "absent"
  BY WorkerFiles
<1>3. runDir[r] = "absent" => r # job[w]
  BY <1>1, RunsAssumption DEF FilesInv
<1> QED
  BY <1>1, <1>2, <1>3, WorkerFiles DEF FreshInv

(* The worker executes what its request names, and records completion only *)
(* of what it executed.                                                    *)
LEMMA WorkerFrozen ==
  ASSUME RunsInv, NEW w \in Worker, WorkerTakes(w)
  PROVE  SubmissionFrozen'
<1> SUFFICES ASSUME NEW r \in Run
             PROVE  /\ source'[r] # None => source'[r] = request'[r]
                    /\ result'[r] = "completed" => evidence'[r] /\ source'[r] # None
  BY DEF SubmissionFrozen
<1> USE RunsAssumption DEF WorkerGoto
<1>0. TypeOK /\ HoldsInv(w) /\ FilesInv(w) /\ OutcomeInv(w) /\ SubmissionFrozen
  BY DEF RunsInv, WorkerInv
<1> USE DEF TypeOK, HoldsInv, FilesInv, OutcomeInv, Recorded, Unrequested, CompletionChecks,
        SubmissionFrozen
<1>1. CASE StartRun(w)
  BY <1>0, <1>1 DEF StartRun, dirVars
<1>2. CASE TakeEditLock(w)
  BY <1>0, <1>2 DEF TakeEditLock, dirVars
<1>3. CASE EditLockBusy(w)
  BY <1>0, <1>3 DEF EditLockBusy, Forget, dirVars
<1>4. CASE ReserveRun(w)
  BY <1>0, <1>4 DEF ReserveRun
<1>5. CASE ReserveRefused(w)
  BY <1>0, <1>5 DEF ReserveRefused, Forget, dirVars
<1>6. CASE NameRun(w)
  BY <1>0, <1>6 DEF NameRun
<1>7. CASE OwnRun(w)
  BY <1>0, <1>7 DEF OwnRun
<1>8. CASE OwnRunBusy(w)
  BY <1>0, <1>8 DEF OwnRunBusy, Forget, dirVars
<1>9. CASE WriteRequest(w)
  BY <1>0, <1>9 DEF WriteRequest
<1>10. CASE WriteRequestFails(w)
  BY <1>0, <1>10 DEF WriteRequestFails, Drop, Forget
<1>11. CASE LeaveEditLock(w)
  BY <1>0, <1>11 DEF LeaveEditLock, dirVars
<1>12. CASE WriteSource(w)
  BY <1>0, <1>12 DEF WriteSource
<1>13. CASE Execute(w)
  BY <1>0, <1>13 DEF Execute
<1>14. CASE AttemptFails(w)
  BY <1>0, <1>14 DEF AttemptFails, dirVars
<1>15. CASE Accept(w)
  BY <1>0, <1>15 DEF Accept, dirVars
<1>16. CASE LinkResult(w)
  BY <1>0, <1>16 DEF LinkResult
<1>17. CASE UnlinkResult(w)
  BY <1>0, <1>17 DEF UnlinkResult
<1>18. CASE WriteResultFails(w)
  BY <1>0, <1>18 DEF WriteResultFails, Drop, Forget
<1>19. CASE ReleaseRun(w)
  BY <1>0, <1>19 DEF ReleaseRun
<1>20. CASE ViewOwnRun(w)
  BY <1>0, <1>20 DEF ViewOwnRun
<1>21. CASE FinishRun(w)
  BY <1>0, <1>21 DEF FinishRun, Drop, Forget
<1>22. CASE Signal(w)
  BY <1>0, <1>22 DEF Signal, dirVars
<1>23. CASE KillWorker(w)
  BY <1>0, <1>23 DEF KillWorker, Drop, Forget
<1> QED
  BY <1>1, <1>2, <1>3, <1>4, <1>5, <1>6, <1>7, <1>8, <1>9, <1>10, <1>11, <1>12,
     <1>13, <1>14, <1>15, <1>16, <1>17, <1>18, <1>19, <1>20, <1>21, <1>22, <1>23
  DEF WorkerTakes, Work

(* Directories are only added by a worker that found room for one more.    *)
LEMMA WorkerBounded ==
  ASSUME RunsInv, NEW w \in Worker, WorkerTakes(w)
  PROVE  RunsBounded'
<1> DEFINE Used == {r \in Run : runDir[r] # "absent"}
<1>0. TypeOK /\ RunsBounded /\ HoldsInv(w) /\ FilesInv(w)
  BY DEF RunsInv, WorkerInv
<1>1. IsFiniteSet(Used) /\ Cardinality(Used) \in Nat
  BY RunsAssumption, FS_Subset, FS_CardinalityType
<1>2. CASE ReserveRun(w)
  <2>1. PICK r \in Run : runDir[r] = "absent" /\ runDir' = [runDir EXCEPT ![r] = "reserved"]
    BY <1>2 DEF ReserveRun
  <2>2. Used' = Used \cup {r}
    BY <1>0, <2>1 DEF TypeOK
  <2>3. Cardinality(Used') = Cardinality(Used) + 1
    BY <1>1, <2>1, <2>2, FS_AddElement
  <2>4. Cardinality(Used) < RunLimit
    BY <1>2 DEF ReserveRun, RoomForRun, RunCount
  <2> QED
    BY <1>1, <2>3, <2>4, RunsAssumption DEF RunsBounded, RunCount
<1>3. CASE ~ReserveRun(w)
  <2>1. runDir' = runDir \/ NameRun(w)
    BY <1>3 DEF WorkerTakes, Work, StartRun, TakeEditLock, EditLockBusy, ReserveRefused, OwnRun,
                OwnRunBusy, WriteRequest, WriteRequestFails, LeaveEditLock, WriteSource, Execute,
                AttemptFails, Accept, LinkResult, UnlinkResult, WriteResultFails, ReleaseRun,
                ViewOwnRun, FinishRun, Signal, KillWorker, dirVars
  <2>2. Used' = Used
    BY <1>0, <2>1 DEF NameRun, TypeOK, HoldsInv, FilesInv
  <2> QED
    BY <1>0, <2>2 DEF RunsBounded, RunCount
<1> QED
  BY <1>2, <1>3

(* A worker's step preserves the invariant.                                *)
LEMMA WorkerKept ==
  ASSUME RunsInv, NEW w \in Worker, WorkerTakes(w)
  PROVE  RunsInv'
<1>1. TypeOK'
  BY WorkerTypes
<1>2. \A v \in Worker : WorkerInv(v)'
  BY OtherWorkersKept, OwnHoldsKept, OwnFilesKept, OwnOutcomeKept DEF WorkerInv
<1>3. \A r \in Run : FreshInv(r)'
  BY WorkerFresh
<1>4. \A i \in Inspector : InspectInv(i)'
  BY InspectorsKept
<1>5. VerdictsStand' /\ SubmissionFrozen' /\ RunsBounded'
  BY WorkerVerdicts, WorkerFrozen, WorkerBounded
<1> QED
  BY <1>1, <1>2, <1>3, <1>4, <1>5 DEF RunsInv

-----------------------------------------------------------------------------
(* Inspectors. They change no file, and no lock but from free to theirs    *)
(* and back; that much is common to looking and to being killed.           *)
LockGoesTo(i) == \A r \in Run : workerLock'[r] = workerLock[r]
                              \/ {workerLock[r], workerLock'[r]} \subseteq {i, None}

LooksOnly(i) ==
  /\ UNCHANGED <<runDir, request, source, evidence, result, scrap, workVars>>
  /\ head' \in Revision
  /\ editLock' \in Process \cup {None}
  /\ \A w \in Worker : editLock = w => editLock' = w
  /\ LockGoesTo(i)

(* Workers, files and the directories' names do not notice.                *)
LEMMA LookingDisturbsNobody ==
  ASSUME RunsInv, NEW i \in Inspector, LooksOnly(i), workerLock' \in [Run -> Process \cup {None}]
  PROVE  /\ \A w \in Worker : WorkerInv(w)'
         /\ \A r \in Run : FreshInv(r)'
         /\ SubmissionFrozen' /\ RunsBounded'
         /\ \A r \in Run : Abandoned(r)' <=> Abandoned(r)
<1>1. ASSUME NEW w \in Worker
      PROVE  WorkerInv(w)'
  <2>1. WorkerInv(w) /\ TypeOK /\ w # i /\ w # None
    BY <1>1, RunsAssumption DEF RunsInv
  <2>2. HoldsInv(w)'
    <3>1. wpc[w] \in Owning => job[w] \in Run /\ workerLock'[job[w]] = w
      BY <2>1 DEF WorkerInv, HoldsInv, Owning, TypeOK, LooksOnly, LockGoesTo
    <3> QED
      BY <1>1, <2>1, <3>1 DEF WorkerInv, HoldsInv, LooksOnly, workVars
  <2>3. FilesInv(w)' /\ OutcomeInv(w)'
    BY <2>1 DEF WorkerInv, FilesInv, OutcomeInv, CompletionChecks, LooksOnly, workVars
  <2> QED
    BY <2>2, <2>3 DEF WorkerInv
<1>2. \A r \in Run : FreshInv(r)'
  BY DEF RunsInv, FreshInv, LooksOnly
<1>3. SubmissionFrozen' /\ RunsBounded'
  BY DEF RunsInv, SubmissionFrozen, RunsBounded, RunCount, LooksOnly
<1>4. \A r \in Run : Abandoned(r)' <=> Abandoned(r)
  BY DEF Abandoned, LooksOnly, workVars
<1> QED
  BY <1>1, <1>2, <1>3, <1>4

(* Neither do the other inspectors.                                        *)
LEMMA LookingLeavesOthers ==
  ASSUME RunsInv, NEW i \in Inspector, LooksOnly(i), NEW j \in Inspector \ {i},
         ipc'[j] = ipc[j], pending'[j] = pending[j], at'[j] = at[j],
         blocker'[j] = blocker[j], status'[j] = status[j]
  PROVE  InspectInv(j)'
<1>1. InspectInv(j) /\ TypeOK /\ j # i /\ j # None
  BY RunsAssumption DEF RunsInv
<1>2. \A r \in Run : workerLock[r] = j => workerLock'[r] = j
  BY <1>1 DEF LooksOnly, LockGoesTo
<1> QED
  BY <1>1, <1>2 DEF InspectInv, LooksOnly

(* A run whose lock an inspector has, with a request and no result, has     *)
(* lost its worker for good.                                               *)
LEMMA UnownedIsAbandoned ==
  ASSUME RunsInv, NEW i \in Inspector, NEW r \in Run,
         workerLock[r] = i, request[r] # None, result[r] = None
  PROVE  Abandoned(r)
<1> SUFFICES ASSUME NEW w \in Worker, job[w] = r
             PROVE  FALSE
  BY DEF Abandoned
<1>1. TypeOK /\ WorkerInv(w) /\ w # i /\ r # None
  BY RunsAssumption DEF RunsInv
<1>2. wpc[w] \notin Owning \cup Unrequested
  BY <1>1 DEF WorkerInv, HoldsInv, FilesInv
<1>3. wpc[w] \in Recorded
  BY <1>1, <1>2 DEF WorkerInv, HoldsInv, TypeOK, WorkerStep, Owning, Unrequested, Recorded
<1>4. terminal[w] # None
  BY <1>1, <1>3, RunsAssumption DEF WorkerInv, OutcomeInv, Status
<1> QED
  BY <1>1, <1>3, <1>4 DEF WorkerInv, FilesInv

(* The verdict on a run under judgement is right: a run without a result   *)
(* is interrupted or has a worker, and a completed one verifies.           *)
LEMMA VerdictIsRight ==
  ASSUME RunsInv, NEW i \in Inspector, ipc[i] = "judge"
  PROVE  LET v == Verdict(at[i], blocker[i]) IN
           /\ v \in Status
           /\ v = "interrupted" => result[at[i]] = None /\ Abandoned(at[i])
           /\ v # "interrupted" => v = result[at[i]] \/ v = "running"
<1>1. /\ TypeOK /\ SubmissionFrozen
      /\ at[i] \in Run /\ request[at[i]] # None
      /\ blocker[i] = None => workerLock[at[i]] = i
  BY DEF RunsInv, InspectInv
<1>2. result[at[i]] = None /\ blocker[i] = None => Abandoned(at[i])
  BY <1>1, UnownedIsAbandoned
<1>3. result[at[i]] \in Terminal \cup {None}
  BY <1>1 DEF TypeOK
<1>4. result[at[i]] = "completed" => CompletionChecks(at[i], request[at[i]])
  BY <1>1 DEF SubmissionFrozen, CompletionChecks
<1>5. None \notin Status
  BY RunsAssumption
<1> QED
  BY <1>2, <1>3, <1>4, <1>5 DEF Verdict, Status, Terminal

(* Looking changes nothing else, and nothing of another inspector.         *)
LEMMA InspectorLooks ==
  ASSUME RunsInv, NEW i \in Inspector, InspectorTakes(i)
  PROVE  /\ TypeOK'
         /\ LooksOnly(i)
         /\ UNCHANGED <<head, editLock>>
         /\ \A j \in Inspector \ {i} :
              /\ ipc'[j] = ipc[j] /\ pending'[j] = pending[j] /\ at'[j] = at[j]
              /\ blocker'[j] = blocker[j] /\ status'[j] = status[j]
<1>0. TypeOK
  BY DEF RunsInv
<1> USE <1>0 DEF TypeOK, Process, LooksOnly, LockGoesTo, workVars
<1>1. CASE StartInspect(i)
  BY <1>1 DEF StartInspect, dirVars, Status
<1>2. CASE ProbeRun(i)
  BY <1>2 DEF ProbeRun
<1>3. CASE NoRequest(i)
  BY <1>3 DEF NoRequest, SetStatus, EndView, Drop, Status
<1>4. CASE LoadRequest(i)
  BY <1>4 DEF LoadRequest, dirVars
<1>5. CASE Judge(i)
  <2>1. Verdict(at[i], blocker[i]) \in Status
    BY <1>5, VerdictIsRight DEF Judge
  <2> QED
    BY <1>5, <2>1 DEF Judge, SetStatus, EndView, Drop
<1>6. CASE FinishInspect(i)
  BY <1>6 DEF FinishInspect, dirVars
<1> QED
  BY <1>1, <1>2, <1>3, <1>4, <1>5, <1>6 DEF InspectorTakes, View

(* What the inspector has seen in its own step.                            *)
LEMMA OwnInspectKept ==
  ASSUME RunsInv, NEW i \in Inspector, InspectorTakes(i)
  PROVE  InspectInv(i)'
<1>0. TypeOK /\ InspectInv(i)
  BY DEF RunsInv
<1>a. \A r \in Run : runDir[r] = "named" => runDir[r] # "absent"
  OBVIOUS
<1> USE <1>0, <1>a DEF TypeOK, InspectInv, dirVars
<1>1. CASE StartInspect(i)
  BY <1>1 DEF StartInspect
<1>2. CASE ProbeRun(i)
  BY <1>2 DEF ProbeRun
<1>3. CASE NoRequest(i)
  BY <1>3 DEF NoRequest, SetStatus, EndView
<1>4. CASE LoadRequest(i)
  BY <1>4 DEF LoadRequest
<1>5. CASE Judge(i)
  BY <1>5 DEF Judge, SetStatus, EndView
<1>6. CASE FinishInspect(i)
  BY <1>6 DEF FinishInspect
<1> QED
  BY <1>1, <1>2, <1>3, <1>4, <1>5, <1>6 DEF InspectorTakes, View

(* The verdicts given so far, and the one given in this step.              *)
LEMMA InspectorVerdicts ==
  ASSUME RunsInv, NEW i \in Inspector, InspectorTakes(i)
  PROVE  VerdictsStand'
<1>1. /\ TypeOK /\ VerdictsStand /\ InspectInv(i)
      /\ result' = result
      /\ \A r \in Run : Abandoned(r)' <=> Abandoned(r)
      /\ \A j \in Inspector \ {i} : status'[j] = status[j]
  BY InspectorLooks, LookingDisturbsNobody DEF RunsInv, LooksOnly, TypeOK
<1>2. ASSUME NEW r \in Run, status'[i][r] # status[i][r]
      PROVE  /\ status'[i][r] = "interrupted" => result[r] = None /\ Abandoned(r)
             /\ status'[i][r] \in Terminal => result[r] = status'[i][r]
  <2>1. CASE Judge(i)
    <3>1. r = at[i] /\ status'[i][r] = Verdict(at[i], blocker[i])
      BY <1>1, <1>2, <2>1 DEF Judge, SetStatus, TypeOK
    <3> QED
      BY <2>1, <3>1, VerdictIsRight DEF Judge, Terminal
  <2>2. CASE ~Judge(i)
    <3>1. status'[i][r] = "invalid"
      BY <1>1, <1>2, <2>2
      DEF InspectorTakes, View, StartInspect, ProbeRun, NoRequest, LoadRequest, FinishInspect,
          SetStatus, TypeOK
    <3> QED
      BY <3>1 DEF Terminal
  <2> QED
    BY <2>1, <2>2
<1> QED
  BY <1>1, <1>2 DEF VerdictsStand

(* An inspector's step preserves the invariant.                            *)
LEMMA InspectorKept ==
  ASSUME RunsInv, NEW i \in Inspector, InspectorTakes(i)
  PROVE  RunsInv'
<1>1. TypeOK' /\ LooksOnly(i) /\ workerLock' \in [Run -> Process \cup {None}]
  BY InspectorLooks DEF TypeOK
<1>2. \A j \in Inspector : InspectInv(j)'
  BY <1>1, InspectorLooks, OwnInspectKept, LookingLeavesOthers
<1> QED
  BY <1>1, <1>2, LookingDisturbsNobody, InspectorVerdicts DEF RunsInv

(* An inspector that gives up, by whatever is done to the project lock     *)
(* meanwhile, leaves everything as if it had not looked.                   *)
LEMMA LeavingKept ==
  ASSUME RunsInv, NEW i \in Inspector, EndView(i),
         ipc' = [ipc EXCEPT ![i] = "idle"], pending' = [pending EXCEPT ![i] = {}],
         UNCHANGED <<head, runDir, request, source, evidence, result, scrap, workVars, status>>,
         editLock' \in Process \cup {None}, \A w \in Worker : editLock = w => editLock' = w
  PROVE  RunsInv'
<1>1. TypeOK /\ InspectInv(i) /\ VerdictsStand
  BY DEF RunsInv
<1>2. LooksOnly(i) /\ workerLock' \in [Run -> Process \cup {None}]
  BY <1>1 DEF LooksOnly, LockGoesTo, EndView, Drop, TypeOK
<1>3. TypeOK'
  BY <1>1, <1>2 DEF TypeOK, EndView, workVars
<1>4. InspectInv(i)'
  BY <1>1 DEF InspectInv, TypeOK
<1>5. \A j \in Inspector : InspectInv(j)'
  BY <1>1, <1>2, <1>4, LookingLeavesOthers, SMTT(30) DEF TypeOK, EndView
<1>6. VerdictsStand'
  BY <1>1, <1>2, LookingDisturbsNobody DEF VerdictsStand
<1> QED
  BY <1>2, <1>3, <1>5, <1>6, LookingDisturbsNobody DEF RunsInv

(* So do the editors around them: they move the head and pass the project  *)
(* lock among those that are not submitting.                               *)
LEMMA EnvironmentKept ==
  ASSUME RunsInv, head' \in Revision, UNCHANGED <<dirVars, workVars, viewVars>>,
         editLock' \in Process \cup {None}, \A w \in Worker : editLock = w => editLock' = w
  PROVE  RunsInv'
<1> USE DEF dirVars, workVars, viewVars
<1>1. TypeOK'
  BY DEF RunsInv, TypeOK
<1>2. ASSUME NEW w \in Worker
      PROVE  WorkerInv(w)'
  BY <1>2 DEF RunsInv, WorkerInv, HoldsInv, FilesInv, OutcomeInv, CompletionChecks
<1>3. (\A r \in Run : FreshInv(r)') /\ (\A i \in Inspector : InspectInv(i)')
  BY DEF RunsInv, FreshInv, InspectInv
<1>4. VerdictsStand' /\ SubmissionFrozen' /\ RunsBounded'
  BY DEF RunsInv, VerdictsStand, Abandoned, SubmissionFrozen, RunsBounded, RunCount
<1> QED
  BY <1>1, <1>2, <1>3, <1>4 DEF RunsInv

-----------------------------------------------------------------------------
(* Init has no runs, and every step of Next is one of the above.           *)
LEMMA InitRuns == Init => RunsInv
<1> SUFFICES ASSUME Init
             PROVE  RunsInv
  OBVIOUS
<1>1. TypeOK
  BY DEF Init, TypeOK, WorkerStep
<1>2. \A w \in Worker : WorkerInv(w)
  BY RunsAssumption
  DEF Init, WorkerInv, HoldsInv, FilesInv, OutcomeInv, Submitting, Unrequested, Owning, Recorded,
      Status, Terminal
<1>3. /\ \A r \in Run : FreshInv(r)
      /\ \A i \in Inspector : InspectInv(i)
      /\ VerdictsStand /\ SubmissionFrozen
  BY RunsAssumption DEF Init, FreshInv, InspectInv, VerdictsStand, SubmissionFrozen, Status,
                         Terminal
<1>4. RunsBounded
  <2>1. {r \in Run : runDir[r] # "absent"} = {}
    BY DEF Init
  <2> QED
    BY <2>1, FS_EmptySet, RunsAssumption DEF RunsBounded, RunCount
<1> QED
  BY <1>1, <1>2, <1>3, <1>4 DEF RunsInv

(* The invariant is inductive.                                             *)
LEMMA StepRuns == RunsInv /\ [Next]_vars => RunsInv'
<1> SUFFICES ASSUME RunsInv, [Next]_vars
             PROVE  RunsInv'
  OBVIOUS
<1>0. head \in Revision /\ editLock \in Process \cup {None}
  BY DEF RunsInv, TypeOK
<1>1. CASE MoveHead
  BY <1>0, <1>1, EnvironmentKept DEF MoveHead
<1>2. ASSUME NEW w \in Worker, StartRun(w) \/ Work(w) \/ Signal(w) \/ KillWorker(w)
      PROVE  RunsInv'
  BY <1>2, WorkerKept DEF WorkerTakes
<1>3. ASSUME NEW i \in Inspector, StartInspect(i) \/ View(i)
      PROVE  RunsInv'
  BY <1>3, InspectorKept DEF InspectorTakes
<1>4. CASE UNCHANGED vars
  BY <1>0, <1>4, EnvironmentKept DEF vars
<1> QED
  BY <1>1, <1>2, <1>3, <1>4 DEF Next

(* The inductive invariant of the runs: what each process holds, what it   *)
(* has written and what it has seen fit together in every state.           *)
THEOREM RunsInvariant == Spec => []RunsInv
BY InitRuns, StepRuns, PTL DEF Spec

(* Every variable keeps its shape, for any number of processes and runs.   *)
THEOREM TypeCorrect == Spec => []TypeOK
<1>1. RunsInv => TypeOK
  BY DEF RunsInv
<1> QED
  BY <1>1, RunsInvariant, PTL

(* run_view(): a run reported interrupted stays without worker and result, *)
(* and a terminal status reported once is the one on record for good.      *)
THEOREM VerdictsAreFinal == Spec => []VerdictsStand
<1>1. RunsInv => VerdictsStand
  BY DEF RunsInv
<1> QED
  BY <1>1, RunsInvariant, PTL

(* run(): the source executed is the revision requested, and completion is *)
(* recorded only with its evidence, however often the head moved.          *)
THEOREM SubmissionsAreFrozen == Spec => []SubmissionFrozen
<1>1. RunsInv => SubmissionFrozen
  BY DEF RunsInv
<1> QED
  BY <1>1, RunsInvariant, PTL

(* A worker signalled before its last look at the flag records no          *)
(* completion, whatever it has already written.                            *)
LEMMA RunsCancelInTime == RunsInv => CancelledInTime
<1> SUFFICES ASSUME RunsInv, NEW w \in Worker, signal[w]
             PROVE  /\ terminal[w] # "completed"
                    /\ job[w] # None => result[job[w]] # "completed"
  BY DEF CancelledInTime
<1>1. HoldsInv(w) /\ FilesInv(w) /\ OutcomeInv(w) /\ None # "completed"
  BY RunsAssumption DEF RunsInv, WorkerInv, Status, Terminal
<1> QED
  BY <1>1 DEF HoldsInv, FilesInv, OutcomeInv

(* run(): a worker that was signalled before its last look at the flag     *)
(* never records a completion.                                             *)
THEOREM CancellationIsInTime == Spec => []CancelledInTime
BY RunsCancelInTime, RunsInvariant, PTL

(* Killed and refused submissions never take the project over its bound    *)
(* on retained runs.                                                       *)
THEOREM RunsAreBounded == Spec => []RunsBounded
<1>1. RunsInv => RunsBounded
  BY DEF RunsInv
<1> QED
  BY <1>1, RunsInvariant, PTL
=============================================================================
