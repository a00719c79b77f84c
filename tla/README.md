# Verification of galata's stateful core

galata is a C++ toolchain for flight-control studies: a command-line engine
(`galata`), a macOS window over it, and an onboard runtime that drives a plant
through a serial, UDP or CAN-FD link. Most of its code is numerical. The part
that is hard to get right without a model is smaller: a project directory
several processes edit, run, inspect and export at once while any of them may
be killed; pipeline runs and packages made of files that change meanwhile; editor
windows that crash with unsaved work; and a supervisor between a lossy link, an
untrusted controller and a set of actuators. This directory specifies that part
in TLA+, checks it with TLC on small instances, and proves its safety with TLAPS
for every size.

Paths below are relative to the repository.

## 1. Inventory

| Component | State | Operations | Interacts with | What is hard |
|---|---|---|---|---|
| Project store, `src/cli/project.cpp` | `project.json`, `revisions/`, `origins/`, `project.lock` | create, import-linear, save, restore, revisions, inspect | desktop and shells start one process per command; runs and exports share the lock | kills between file operations, replies read after unlock, a bounded directory |
| Project runs, same file | `runs/<id>/` with request, source, evidence, result, `worker.lock` | run, cancel (signal), inspect | store lock during submission; inspectors probe run locks | inspection by taking the lock, cancellation racing completion, abandoned runs |
| Review export, same file | the package directory | export | holds the store lock, reads runs whose workers do not | copying while workers finish |
| File publication, `src/pipeline/files.cpp` | temporaries, reservations, input snapshots | publish, reserve_output, read_input | everything that writes | crash atomicity |
| Pipeline executor, `src/pipeline/pipeline.cpp`, `provenance.cpp` | produced artifacts, manifest | order, run, cancel, write manifest | capabilities, file publication | failure after some outputs exist, inputs changing during a run |
| Onboard runtime, `src/onboard/runtime.cpp` | `RuntimeState`, cycle counter | connect, arm, disarm, stop, step | guarded transport, interlock, controller callback | the callback may call back, a cycle may fail anywhere |
| Transports and interlock, `src/hardware/*.cpp` | `LinkState`, last sequence and time each way, `armed_` | connect, disconnect, receive, send, arm, disarm | devices | loss, repetition, reordering, stale frames |
| Onboard run loop, `src/cli/main.cpp` | stop flag | `galata onboard run` | signals, runtime | stopping promptly, safe exits |
| Deployment, target evidence and dossiers, `src/onboard/deployment.cpp`, `target_evidence.cpp`, `src/cli/main.cpp` | staging directory, installed package | stage, create, verify | files a pipeline run or an editor may replace | sources that change while they are copied, leftovers, shared staging names |
| Desktop, `src/desktop/main.mm` | draft, dirty flags, opened revision, recovery file | edit, save, run, restore, recover | starts engine commands | edits while a command runs, crash recovery |
| Simulations, `src/sim`, `src/pipeline/helicopter_capabilities.cpp`, `quadrotor_capabilities.cpp` | plant state, sensor, delay line, stored samples | boundary, tick, step, export | pipeline capabilities | which state, command and measurement belong to a time at which several things happen |
| Everything else (modelling graph, capabilities, data readers, numerics, analysis, python, tools) | none beyond one call | pure functions | | floating point, parsing |

What makes each correct, and where it is stated:

* store: the head is always readable, no edit is overwritten unseen, an import
  keeps its attachment, the directory stays within its limit, commands return
  and the lock comes free;
* runs: a verdict is never taken back, a run keeps the source it was submitted
  with, an early signal is honoured, every request is decided or reported
  abandoned;
* export: what is packaged verifies, is final and names the head;
* runtime: nothing is sent without permission, outputs answer inputs one for
  one, a failed cycle ends the session disarmed;
* run loop: a signal stops it within a cycle, every exit is safe;
* pipeline: a manifest is whole and appears only when its run completes, it
  names the bytes that were used, nothing a run has read is written over, no
  run takes a name another has published, evidence is that of its source;
* packages: what is installed is what its manifest lists, a failed creator
  leaves nothing;
* desktop: unsaved work survives a crash, a save never undoes what somebody
  else has saved, no reply takes work away;
* simulations: an exported sample is the state after the events of its time,
  reached under the commands and winds the study declares; a controller works
  with what its sensor owes it.

## 2. Modules

| Module | Models |
|---|---|
| `EditHistory` | abstract: retained revisions and a head moved by compare-and-set |
| `ProjectStore` | the store's commands, one step per observable file operation; implements `EditHistory` |
| `ProjectStoreProofs` | theorems about the store |
| `ProjectRuns` | workers and inspectors over run directories |
| `ProjectRunsProofs` | theorems about runs |
| `ReviewExport` | extends `ProjectRuns` with an exporter that is one of its inspectors |
| `ReviewExportProofs` | theorems about packages, and about runs beside an export |
| `ActuationGate` | abstract: permission, inputs, and outputs that answer them |
| `OnboardRuntime` | runtime, interlock, adapter, link and controller; implements `ActuationGate` |
| `OnboardRun` | extends `OnboardRuntime` with the process that runs it, or with any other program |
| `OnboardProofs` | theorems about the runtime and its process |
| `Study` | a study and the pure computations on it: execution order, evidence, with reference definitions |
| `StudyRecord` | abstract: runs that are decided once, records that appear whole |
| `Pipeline` | the executor, several runs of it, over shared files; implements `StudyRecord` |
| `PipelineProofs` | what the execution order is, for every study, and theorems about the executor |
| `Packaging` | extends `Pipeline` with the creators of packages, which copy the files its runs write |
| `PackagingProofs` | theorems about packages, and about runs beside their creators |
| `DesktopSession` | windows, drafts, recovery files and engine commands |
| `DesktopSessionProofs` | theorems about the desktop |
| `Simulation` | samples and events of the helicopter simulations |
| `SampledLoop` | controller ticks, sensor, delay line, hold and record of the sampled simulations and of `sim.plant` |
| `SampledLoopProofs` | theorems about the sampled simulations and `sim.plant` |
| `MCProjectStore`, `MCReviewExport`, `MCPackaging`, `MCDesktopSession` | instances and symmetries |

### Store

A process is its program counter `pc[e]` and its command `cmd[e]`. `lockHolder`
is the `flock` on `project.lock`; `LockBusy` is the `LOCK_NB` failure, `Kill` a
process that dies, whose descriptors the system closes and whose files stay.
`publish_revision` is `WriteTemp`, `LinkRevision`, `UnlinkTemp`, because
another process, or the next one after a kill, can see the directory between
any two of them; `tempFiles` counts the leftovers `entries()` counts.
`publish_head` is one `rename`, one step. Steps taken under the lock that only
read are one step with the checks they feed (`Check`), since nothing they read
is written without the lock; the two exceptions the code makes are kept apart:
`import-linear` publishes its attachment long before its revision, and create,
import and save print the project after they have unlocked (`Unlock`, then
`InspectHead`), while restore prints before. `opened[e]` is the revision the
caller (a window, or a person at a shell) last saw; it survives a killed
command and is what save and restore pass as `--expected-revision`.

Content is a model value; `OriginOf` gives the attachment a draft binds. A
revision's file name is its digest, so the file *is* the content. The schema
comparison of `preserve_origin()` is folded into the comparison of attachments:
schema v2 is exactly "has an attachment".

### Runs

A worker's steps follow `run()`: the submission under the project lock, then
the execution under the worker lock only. Reservation (`.new-XXXXXX`), rename
and worker lock are three steps, because an inspector can act between them.
`run_view()` probes by taking the lock (`ProbeRun`), keeps `blocker`, who held
it instead, and later looks for the result (`Judge`). `signal` is the
cancellation flag until the last place that reads it. Editors appear as
`MoveHead`, possible while nobody holds the project lock. Evidence is one bit
per run: complete or not.

### Export

The exporter holds the project lock from the start, renders the runs with the
inspector's own steps, refuses a run reported as running, then lists, copies and
lists again, directory by directory; the copy compares with the first listing.
Workers started before go on in between, without the project lock.

### Runtime

A frame is its sample number: sequence and timestamp advance together, and the
adapter accepts a frame only if it is one period after the last one, hence the
next sample. `inbound` is the set of frames on their way: taking any of them
reorders, leaving one behind after a `Receive` repeats it, `Lose` loses it, and
those of an earlier connection are still there after the next. `step()` is
three steps, since the callback runs in the middle: `Receive`, `Answer`,
`Publish`, with a failing variant each. While the callback runs the owner's
operations `Arm`, `Disarm`, `Stop` and `TripInterlock` are enabled too.
Channel values, budgets and measured times matter only to whether a check
passes, so each check is a choice; so is the answer, `None` standing for a
malformed one. `received` and `delivered` are history variables, reset by
`connect()` as the counter is.

Assumed of the caller: a callback does not call `connect()` or `step()`
re-entrantly, and only the runtime arms the interlock; nothing in the
repository does otherwise.

`OnboardRun` puts the loop of `onboard_run_command` around these actions. There
the controller is a plugin that cannot reach the runtime and an adapter changes
state only when called, so only `Run`, `Signal` and the wire take steps. The
runtime is a library, so a behaviour may start in another program instead
(`rpc = "hosted"`), which does with it whatever `Owner` and `StepBody` allow.

### Pipeline

`ExecutionOrder` is `execution_order()`: `Ready` is what a scan may pick,
`Extend` one pass of the `while` loop, `Rounds` the loop as a recursive
function. What it should compute is said without an algorithm: `IsExecutionOrder`
and `Acyclic`, on top of `DependsOn`, the least set closed under references. The
assumption `OrderIsRight` of `MCPackaging` compares the two, and `DependsOn` with
a transitive closure, on every graph of references between three stages;
`OrderIsRightForAll` proves it of every study. A run is `pc[r]`
and its memory: `plan` (the loaded study), `ledger` (its `RunFiles`), `exe`,
`produced`, `evidence`, `pending`. A step ends where another process could see
or change a file: one input read, one look at a name (`CheckOutput`), one
publication (`Publish`, `linkat` or `renameat`), one evidence check with the
return of its stage (`LeaveStage`), the comparison of the executable
(`CloseRun`), and the manifest looked for, then linked. `Throw` is everything
that stops a run: a failed check, a capability, I/O, a cancellation at one of
the polls, a kill. Bytes are values; what a stage publishes is
`Product`, a function of the input bytes in the ledger, which is how a manifest
that names other bytes than were used is told apart. The inputs of `MCPackaging`
are the shapes that differ in what they do with files: a chain whose output is
undeclared, an input that becomes known late, one name twice, the executable as
output, a diamond of evidence, cycles and duplicate ids.

### Packages

Four commands do the same in a slightly different order, and one creator models
all: a deployment knows its digests beforehand (`Pinned`), a dossier takes each
before it copies (`TakeDigest`), target evidence compares the source again
afterwards (`Compare`). The staging directory is named after the destination
and, for a deployment, the manifest; a name can therefore be shared, and
`trespassed` remembers the destinations where two creators did. Between the
check that the name is free and its creation is a step of its own, as is the
clean-up, which removes the directory whoever made it. A copy is one step: a
copy torn by a writer has another digest than either version and fails the same
comparison.

### Desktop

A window is one record of what it shows and what of it is unsaved; `job` is the
engine process it has started, which goes on when the window crashes. Commands
disable every editor until their reply (`Free`), but not the recovery timer
(`Persist`). `basis` is what the edits were made on, carried through the
recovery file, so that `SavesReplaceTheirBasis` can say more than the engine's
comparison with `--expected-revision`, which is in `Perform`. The engine is
reduced here to that comparison, because `ProjectStore` models it in full and
proves it to be atomic (`StoreImplementsHistory`). `contended` remembers
projects shown by two windows.

### Simulations

A plant state is the set of events it has been through, so that a state from
before an event differs from one after it. `Boundary`, `Integrate`, `Terminate`
and `Exported` follow the two open-loop branches of `sim.helicopter` and
`run_sampled_loop` under `sim.helicopter.closed_loop`.

`SampledLoop` is about the order of everything else at a boundary, in the three
loops that have a schedule of wind, commands or controller ticks: `Segment` and
`ClosePlant` are `sim.plant`, which splits its integration at every change;
`SampledTick`, `Hold` and `CloseSampled` are `sim.sampled`; `Boundary`, `Tick`,
`Refuse` and `Integrate` are `run_sampled_loop` with the callbacks of
`sim.helicopter.closed_loop`. A plant state is the sequence of what was done to
it, a command the number of the tick that computed it, so that a delay of one
tick too many or a step under an old wind shows in every later state. `Deliver`
and `SampleIfDue` are the sensor, `Effective` the policy for a measurement that
is missing; `pending`, `latest`, `queue` and `head` are the code's own. The
reference (`Declared`, `Command`, `Reading`) is in terms of the study alone and
has no delay line, no queue and no split.

## 3. Runs

| Run | Instance | Result |
|---|---|---|
| `project_store` | 2 editors, 4 drafts (2 without, 2 with different attachments), limit 3 | pass |
| `project_store_listable` | as above, limit 2 | violation, finding 1 |
| `project_runs_live` | 2 workers, one of which may be killed, 1 inspector that is not, 1 run | pass |
| `project_runs_probe` | 2 inspectors, 1 run | violation, finding 2 |
| `project_runs_busy` | 1 worker, 1 inspector, nobody killed | violation, finding 3 |
| `review_export` | 2 workers, 1 inspector, the exporter, all mortal, 2 run names, 2 revisions, limit 1 | pass |
| `onboard_runtime_fault` | samples 0 and 1 | violation, finding 4 |
| `onboard_run` | samples 0 to 3, 2 cycles, also hosted by another program | pass |
| `delivery` | 2 runs, 2 creators, any two of the four; 5 files, 11 studies, 4 orders, 1 edit | pass |
| `desktop_session` | 2 windows, 2 projects, 3 contents, 3 commands, 3 events | pass |
| `simulation_events` | 2 steps, stride up to 2 | violation, finding 5 |
| `sampled_loop` | 4 steps; period, stride and sensor period up to 2, delay and latency up to 2, two changes of each kind | pass |

Properties of the passing runs:

* `project_store`: `HeadReadable`, `HistoryBounded`, `NoLostEdit`,
  `AttachmentKept`, `EditsAreCompareAndSet` (the refinement), and under
  fairness `CommandsReturn` and `LockComesFree`.
* `project_runs_live`: `RequestsDecided`, `AbandonedGetsReported`.
* `review_export`: of the runs `VerdictsStand`, `SubmissionFrozen`,
  `CancelledInTime`, `RunsBounded`; of the package `PackageVerifies`,
  `PackageIsFinal`, `PackageNamesHead`.
* `onboard_run`: of the runtime in any program `ArmedIsSupervised`,
  `CyclesComplete`, `OutputsAnswerInputs` (the refinement); of the process
  `StopsWithinOneCycle`, `ExitIsSafe`, `CompletionIsExact`, `RunEnds`.
* `delivery`: `RecordIsWhole`, `EvidenceComesFromItsSource`,
  `RecordedOutputsStand`, `InputsSurvive`, `AllOrNothing` (the refinement),
  `PublishedIsWhole`, `NoLeftovers`.
* `desktop_session`: `RecoveryHasTheWork`, `SavesReplaceTheirBasis`,
  `CommandsKeepTheWork`.
* `sampled_loop`: `ExportIsTheDeclaredRun`, `ControllerSeesItsReading`.

One type invariant accompanies each safety run but the last, whose states are
compared in full.

### Bounds

* `HistoryLimit` and `RunLimit` are `kHistoryEntries`, 1,024 in the code. Three
  with four drafts reaches a full history with and without leftovers, and lets
  a restore go back past another edit. The theorems hold for every limit.
* Two editors are enough for an edit between another's opening and its save,
  and between its unlock and its reply; the theorems hold for any number.
* In `review_export` two workers compete for the project and for a limit of one
  run, so that the second finds the project locked or full, and either returns
  to an abandoned run; two run names let `RunsBounded` fail. What is said of
  runs is said of one run at a time, and of the inspectors and the export
  beside it. Two inspectors beside the exporter's lock are what makes a verdict
  depend on who else looks.
* Four samples give up to four cycles, a gap, a repeat and a reconnection with
  old frames on the link. Two cycles out of four samples let the loop end by
  count, by signal and by a missing sample.
* `Horizon` bounds the samples only; `completed` is bounded by them because a
  session accepts each at most once.
* In `delivery` any two of two runs and two creators get going (`MaxStarted`),
  so that each pair of kinds meets: two runs over one output, a run that
  refreshes what a creator copies, two creators with one staging name. One edit
  from outside (`MaxEdits`) falls anywhere between two steps, on an input or on
  the executable. Three stages are what a diamond takes.
* In `desktop_session` `MaxCommands` and `MaxEvents` bound what reaches the
  engine and what is edited, crashes or is saved by somebody else; three of each
  give edit, crash, load, recover and save, or an edit of somebody else between
  any two of them.
* Two steps give the closed loop a boundary that is neither first nor last.
* In `sampled_loop` four ticks outlast every delay and latency, two steps to a
  period let a change, a sample and a stored state fall between ticks, a
  sensor may be slower or faster than the controller, and two dropped samples
  may be the first ones, consecutive or the last ones.
* `CHECK_DEADLOCK FALSE` in `onboard_run`, `delivery`, `desktop_session`,
  `simulation_events` and `sampled_loop`: a process exits, a run is over, or the bounds are used
  up. The other runs never stop.
* Symmetry is used in `review_export`, `delivery` and
  `desktop_session` only, which check no liveness.

### Fairness

Weak fairness of each process's own next step (`Work`, `View`, `Run`): a running
process is scheduled. No fairness for starting a command, for killing, for
signals, or for the link to deliver anything. An inspector keeps inspecting in
`project_runs_live`, as the window that polls a run does, and it is alone
there: with two that inspect for ever each may find the other's probe every
time, which is finding 2 again. It is not killed either: a viewer killed in
every view reports nothing; `review_export` kills inspectors. In `onboard_run` fairness of `Run` includes the
receive that times out, which `receive_timeout_ms` bounds in every adapter, and
a controller that returns, which the header of the runtime says it cannot
enforce. The pipeline, the packages and the desktop promise nothing that must
happen: no fairness is assumed there and no liveness claimed.

## 4. Findings

1. `project_store_listable`, `HistoryListable`: a process killed between
   `linkat` and `unlinkat` with the last free entry leaves one entry more than
   `entries()` admits; from then on `revisions` refuses, although ADR 0014 says
   invalid entries do not suppress valid ones.
2. `project_runs_probe`, `RunningMeansOwned`: of two simultaneous inspections
   the second reports a dead run as running, since it finds the lock in the
   hands of the first; `PROJECT_FILES.md` says the worker owns it.
3. `project_runs_busy`, `AllocationIsPrivate`: an inspection between the
   worker's rename and its lock makes the submission fail as busy and leaves
   an invalid directory for good; the comment says the allocation is free of
   collisions.
4. `onboard_runtime_fault`, `FaultMeansDisconnected`: a `connect()` that fails
   because the link is open disarms and faults but does not disconnect, where
   the header says a transport exception does both. No output follows (it is
   disarmed), but no `connect()` succeeds until `stop()`.
5. `simulation_events`, `SamplesAreAfterEvents`: the closed-loop simulation
   exports, for the time of a wind step or a jam after the first boundary, the
   state from before it with the wind and the failures after it, which a comment
   in the open-loop simulation names as the error it avoids. `run_sampled_loop`
   replaces the stored sample at step 0 only.

Seen on the way and not claimed as findings: two creators of one package can
share its staging directory between the check and the creation, and then a
package may be installed with files its manifest does not list or without some
of them (`trespassed` in `PublishedIsWhole`); two windows of one project
overwrite each other's recovery file (`contended`); `sampled_loop.hpp:36` says a
held command lasts from one stored sample to the next, which is so only if no
controller tick falls between two stored samples; `model_at_failure_step` gives
a sample between two jams of one actuator the position of the second; `galata
onboard run` installs its signal handlers before it clears the stop flag, and
loses a signal in between (`ClearFlag`); under `missing_measurement: hold_last`
a first replacement, the references of the moment, is held in its turn when the
references have moved on (`Effective`).

## 5. Theorems

`ProjectStoreProofs`, for any finite set of drafts, any editors and any limit,
from `StoreAssumption`. The inductive invariant `StoreInv` adds to the wanted
properties what each step of a command has established already: who holds the
lock (`LockInv`), that the head is still the base the command checked
(`BaseInv`), that the target keeps its origin and its attachment is on disk
(`TargetInv`), that the step after a temporary file has one to remove
(`TempInv`). The argument splits an editor's step into the effect on itself and
the frame: other editors change files only under the lock, so what its holder
established stands (`OthersKept`). From it follow `TypeCorrect`,
`HeadIsReadable`, `HistoryIsBounded`, the action properties `NoEditIsLost` and
`AttachmentIsKept`, and the safety refinement `StoreImplementsHistory`.

`OnboardProofs`, for any number of samples and cycles, from `RuntimeAssumption`.
`RuntimeInv` says that as long as a session stands (Ready or Armed) at most the
frame in hand is unanswered (`OneInFlight`) and the adapter compares the next
frame with the last one taken (`SequenceKept`); both are lost in Faulted and
Stopped, and need not hold there, because only `connect()` leads back and it
forgets both histories. `CyclesComplete` is not inductive alone: it says nothing
of a runtime that was disarmed in a callback and armed again. From it follow
`TypeCorrect`, `OutputIsSupervised`, `CyclesAreComplete` and the refinement
`RuntimeImplementsGate`. A step of the process, or of any other host, is a step
of the runtime or none (`RunImplementsRuntime`), so all of this holds in it
(`RunImplementsGate`). `RunInv` adds what the process knows at each line: in the
loop the runtime is armed and the count short of the limit (`LoopInv`), and once
the flag is set no further cycle begins (`SignalInv`). That gives `StopIsPrompt`,
`ExitIsAlwaysSafe` and `CompletionIsAlwaysExact`.

`ProjectRunsProofs`, for any workers, inspectors, revisions, names and limit,
from `RunsAssumption`. `RunsInv` is stated per process: which locks and which
directory a worker has at each step (`HoldsInv`), what is in that directory
(`FilesInv`), why it may record what it is about to record (`OutcomeInv`); what an
inspector has seen (`InspectInv`). A verdict alone is not inductive: that
"interrupted" stays true needs that a directory found without a worker never
gets one, because a worker only ever takes a name nobody has used. From it
follow `TypeCorrect`, `VerdictsAreFinal`, `SubmissionsAreFrozen`,
`CancellationIsInTime` and `RunsAreBounded`.

`ReviewExportProofs`, from `ExporterAssumption` as well. Every run the exporter
did not find running is `Decided`, and nothing but leftovers changes in a decided
run (`FilesStand`); so what it rendered is what it lists, copies and packages,
though workers go on beside it, and a run still running makes it refuse.
`ExportInv` carries this through the passes (`ViewInv`, `QuietInv`, `CopyInv`,
`PackageInv`). From it follow `ExportTypeCorrect`, `PackagesVerify`,
`PackagesAreFinal`, `PackagesNameTheHead`, and the promises of the runs beside
an export (`ExportedRunsKeepTheirPromises`).

`PipelineProofs` begins with the study itself. That the rounds exist at all and that what is
said of them holds of each is an induction; it is made with the least element of
a set of numbers (`LeastNatural`, from the library's theorem that `<` is
well-founded), and the absence of an endless chain of references with the
well-founded order of the subsets of a finite set (`SomethingIsFree`). Rounds
keep what they have in order (`RoundAdds`), and in an acyclic study something is
always free, so that the loop ends with all of it (`RoundsComplete`). The result,
`OrderIsRightForAll`: `parse_pipeline` and `execution_order` accept exactly the
studies with stages, unique ids and no stage that depends on itself or on an
undefined one, and order them after what they refer to. The proof found that the
model's reference had forgotten the empty study, which the code refuses and
which has no cycle; `RecordIsWhole` now says so and the instance includes it.

Of the executor, for any runs, files and studies, from `PipelineAssumption`:
`RunsInv` says that a ledger is one and that what `CheckOutput` has found still
holds at `Publish` (`CheckedInv`), which gives `TypeCorrect` and
`InputsAlwaysSurvive`. `PipelineInv` adds that under every published name lies
what was published, or the bytes of a run told to overwrite; it needs that no
step takes a file away (`RecordedOutputsAlwaysStand`). `EvidencedInv` adds that a
run follows the order of its study (`OrderInv`) and that every stage that is
through has been told of just what it depends on (`Told`): what a stage adds is
covered by the stages it refers to, and these were through before it
(`StageIsTold`). That gives `RecordedEvidenceIsComplete`. `WholeInv` says which
outputs are due at each step, published or still to come, and that the ledger
still has the inputs each was computed from (`FilesInv`); it gives
`RecordsAreWhole` and the refinement `RunsImplementRecord`.

Where existence of a file matters, these theorems assume `ProductsExist`: what a
stage computes is not `None`. It is stated as a hypothesis because it ranges over
all inputs, which TLC cannot enumerate; it holds wherever `None` is, as in the
runs, a value that is no record, and without it a stage might publish nothing at
all.

`PackagingProofs`, for any creators and orders, from `PackagingAssumption`.
Creators only read what the runs write, so `DeliverySpec` implies the executor's
`Spec` (`DeliveryRunsPipeline`) and its theorems hold beside them. The staging
directory is not locked: a creator looks whether its name is free and takes it
later. `PackInv` therefore says what a creator knows of its directory only as long
as it is alone under its name (`StagingInv`), and that two who are not have been
noticed (`AloneInv`). From it follow `DeliveryTypeCorrect`,
`PublishedPackagesAreWhole` and `FailuresLeaveNothing`.

`DesktopSessionProofs`, for any windows, projects and contents, from
`SessionAssumption`. `SessionInv` relates, window by window, what is on the
screen, what the engine process was given and what was offered from the recovery
file. Saves being fair needs that edits recovered from a file were made on the
revision the file is for (`ProjectInv`); work being kept needs that nothing of
what a command was given changes on the screen until it replies (`WaitingInv`);
recovery needs that only windows of one project share its file (`Alone`). From it
follow `TypeCorrect`, `RecoveryIsComplete`, `SavesAreFair` and `WorkIsKept`.

`SampledLoopProofs`, for any number of steps and any bounds on periods, strides,
delays, latencies and changes, from `BoundsAssumption` and `NoneAssumption` (the
value for "none" is no measurement). The run a study declares is a recursion over
the boundaries; that it exists and is what its equations say is an induction made
with `LeastNatural` (`AllNaturals`, `Recursion`, `DeclaredRun`), and so are
quotient and remainder (`Divided`), which the clocks are made of. The program has
no such recursion but a loop, and `Invariant` says where it stands. At a boundary
the plant has been through what was declared up to it, and as many ticks are over
as periods have begun (`Clock`). Slot `t % (delay + 1)` of the delay line holds
tick `t` for the last ones, and none where no tick has written yet, so that the
slot the next tick will overwrite holds the tick `delay` before the present one
(`Line`, `NextLine`). What waits in the sensor are the last samples taken, as
many as the latency, and what it last delivered is the newest that is due and
was not dropped (`SensorLine`, `NextPending`). What is stored is the run so far,
of which the entry of the boundary in hand is still to be relabelled by its tick
(`LoopStored`, `SampledStored`, `RelabelledSample`). In `sim.plant`
the pieces between two changes join to the declared run with nothing left out or
twice (`Plant`, `FlownPiece`, `SegmentSplit`), and what is kept of them is every
stride and the end (`Subsampling`). Neither property is inductive: the export is
judged at the end only, and a reading depends on samples that have not arrived.
From it follow `SimulationExport`, which includes the prediction `sim.sampled`
makes for itself, and `SimulationReadings`. The closed loop exports a stored
state from before the wind event of its boundary, finding 5;
`ExportIsTheDeclaredRun` says so, and that nothing else differs.

The bounds of the runs on cycles, edits, commands and events are constants of
the models, and the theorems hold for every value of them.

Every invariant and action property of a passing run is a theorem. Only
model-checked: liveness (`CommandsReturn`, `LockComesFree`, `RequestsDecided`,
`AbandonedGetsReported`, `RunEnds`), which rests on ENABLED and fairness and is
out of the provers' reach, and `Simulation`, whose one run refutes the property
it checks.

## 6. Not modelled

* Loss of power. A kill keeps what a process has done to the file system; the
  files are fsynced but their directories are not, so a power loss could undo a
  rename. The code makes no claim about it.
* A file damaged or planted by something other than galata; the code verifies
  digests on reading, which the models take as "the file is the content".
* Bytes of a frame, CRC, channel values, budgets: choices, as said above. The
  measured times are never compared with each other.
* Names. A path is its portable identity: case folding, normalisation, symbolic
  links and the refusals that depend on a name's characters are string work.
* What a capability computes, and its checks of its input: a choice to fail.
  Verify commands, which only read. Runs without a manifest
  (`write_manifest = false`), which promise nothing afterwards.
* The loss of a directory half removed by `remove_all`: one step.
* Drafts over 8 MiB, which the recovery file leaves out silently.
* Numbers of the simulations: dynamics, saturation, the states of a PID
  controller, noise and quantisation of a sensor, ramps of wind (linear
  schedules), and the refusal of schedules that are off the lattice.
* Pipeline capabilities, modelling graph, data readers, hardware profiles,
  numerics and the Python package: pure functions of one call, most of them in
  floating point. They are the greater part of the code, and there is no
  behaviour over time to check in them.

## 7. Plan

What the passing runs check for safety is proved. What would come next is breadth:

* the open-loop branches of `sim.helicopter` beside `SampledLoop`, so that
  `Simulation` becomes a fourth way of it and the two differ in finding 5 only;
* the byte stream of the serial and UDP adapters, where a partial packet and a
  first frame of any age outlive a cycle (hazards without a property);
* `project create` killed before its first revision, which leaves a directory
  no command accepts (likewise).
