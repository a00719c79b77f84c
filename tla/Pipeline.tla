------------------------------ MODULE Pipeline ------------------------------
(***************************************************************************)
(* Runs of the pipeline executor, each a process, over files they share    *)
(* with each other and with whoever edits them: load and check the study,  *)
(* snapshot the inputs, reserve the outputs, run the stages in order, each *)
(* publishing its files as it goes, and write the manifest last. A step is *)
(* what another process can see happen at once. Any step may fail instead, *)
(* the process may die, and neither takes back what was published.         *)
(***************************************************************************)
EXTENDS Study, FiniteSets

CONSTANTS
  Run,           \* processes that call run_pipeline, once each
  Studies,       \* the studies each may be given
  File,          \* every path a study mentions, and the executable
  Given,         \* bytes somebody puts in a file from outside
  Existing,      \* files that are there at first
  Editable,      \* those that may be edited from outside
  MaxEdits       \* bound: how often that happens

ASSUME PipelineAssumption ==
  /\ None \notin Given
  /\ Executable \in File
  /\ Existing \subseteq File
  /\ Editable \subseteq Existing
  /\ MaxEdits \in Nat
  /\ Run \subseteq DOMAIN Studies
  /\ \A st \in UNION Range(Studies) :
       /\ st # None
       /\ st.declared \in Seq(Range(st.declared))
       /\ st.source \in File
       /\ Range(st.inputs) \subseteq File
       /\ \A s \in Ids(st) : /\ st.writes[s] \in Seq(File)
                             /\ st.late[s] \cup Range(st.reserved[s]) \subseteq File

VARIABLES
  disk,          \* bytes of each file, None without one
  records,       \* run-<digest>.json files, named by their content
  edits,         \* number of edits from outside so far
  pc,            \* next step of each run
  plan,          \* the study a run has loaded
  ledger,        \* its RunFiles: snapshots of inputs, what it has published
  exe,           \* its snapshot of the executable and the loaded modules
  role,          \* the preflight input to be read next
  produced,      \* stages that have returned, in order
  evidence,      \* evidence map of each of them
  pending        \* outputs the running stage has still to publish

fileVars == <<disk, records, edits>>
runVars == <<pc, plan, ledger, exe, role, produced, evidence, pending>>
vars == <<disk, records, edits, pc, plan, ledger, exe, role, produced, evidence, pending>>

NoFiles == [f \in File |-> None]

Active == {"loaded", "reading", "stages", "writing", "publishing", "recording", "linking"}

Running(r) == pc[r] \in Active

Goto(r, label) == pc' = [pc EXCEPT ![r] = label]

Init ==
  /\ \E bytes \in Given : disk = [f \in File |-> IF f \in Existing THEN bytes ELSE None]
  /\ records = {}
  /\ edits = 0
  /\ pc = [r \in Run |-> "idle"]
  /\ plan = [r \in Run |-> None]
  /\ ledger = [r \in Run |-> [inputs |-> NoFiles, outputs |-> NoFiles, overwrite |-> FALSE]]
  /\ exe = [r \in Run |-> None]
  /\ role = [r \in Run |-> 1]
  /\ produced = [r \in Run |-> <<>>]
  /\ evidence = [r \in Run |-> None]
  /\ pending = [r \in Run |-> <<>>]

-----------------------------------------------------------------------------
(* Preflight                                                               *)

(* The document is read once; these bytes are the study and, as soon as    *)
(* the run has its ledger, its first input.                                *)
Load(r) ==
  /\ pc[r] = "idle"
  /\ \E st \in Studies[r], overwrite \in BOOLEAN :
       /\ disk[st.source] # None
       /\ plan' = [plan EXCEPT ![r] = st]
       /\ ledger' = [ledger EXCEPT
            ![r] = [inputs |-> [NoFiles EXCEPT ![st.source] = disk[st.source]],
                    outputs |-> NoFiles, overwrite |-> overwrite]]
       /\ Goto(r, IF WellFormed(st) THEN "loaded" ELSE "refused")
  /\ UNCHANGED <<disk, records, edits, exe, role, produced, evidence, pending>>

Begin(r) ==
  /\ pc[r] = "loaded"
  /\ disk[Executable] # None
  /\ exe' = [exe EXCEPT ![r] = disk[Executable]]
  /\ evidence' = [evidence EXCEPT
       ![r] = [s \in Ids(plan[r]) |-> [src \in Ids(plan[r]) |-> None]]]
  /\ Goto(r, "reading")
  /\ UNCHANGED <<disk, records, edits, plan, ledger, role, produced, pending>>

(* A file is read from the disk the first time and from the ledger after   *)
(* that, whatever has become of it.                                        *)
SnapshotAgain(r, f) == disk[f]
Snapshot(r, f) == IF ledger[r].inputs[f] # None THEN ledger[r].inputs[f] ELSE disk[f]

ReadInput(r) ==
  /\ pc[r] = "reading"
  /\ role[r] \in DOMAIN plan[r].inputs
  /\ LET f == plan[r].inputs[role[r]] IN
       /\ Snapshot(r, f) # None
       /\ ledger' = [ledger EXCEPT ![r].inputs[f] = Snapshot(r, f)]
  /\ role' = [role EXCEPT ![r] = @ + 1]
  /\ UNCHANGED <<disk, records, edits, pc, plan, exe, produced, evidence, pending>>

(* An output may be neither an input read so far nor the executable.       *)
CollidesWithExecutable(r, f) == f = Executable
Collides(r, f) == ledger[r].inputs[f] # None \/ f = Executable

(* Unless told to overwrite, a run publishes only where nothing exists.    *)
MayAppear(r, f) == disk[f] = None \/ ledger[r].overwrite

ReserveOutputs(r) ==
  /\ pc[r] = "reading"
  /\ role[r] \notin DOMAIN plan[r].inputs
  /\ ReservationsDistinct(plan[r])
  /\ \A f \in Reserved(plan[r]) : ~ Collides(r, f) /\ MayAppear(r, f)
  /\ Goto(r, "stages")
  /\ UNCHANGED <<disk, records, edits, plan, ledger, exe, role, produced, evidence, pending>>

-----------------------------------------------------------------------------
(* Stages                                                                  *)

AllDone(r) == Len(produced[r]) = Len(plan[r].declared)

Stage(r) == ExecutionOrder(plan[r])[Len(produced[r]) + 1]

(* A capability reads what it did not declare when it gets there.          *)
EnterStage(r) ==
  /\ pc[r] = "stages"
  /\ ~ AllDone(r)
  /\ LET late == plan[r].late[Stage(r)] IN
       /\ \A f \in late : Snapshot(r, f) # None
       /\ ledger' = [ledger EXCEPT
            ![r].inputs = [f \in File |-> IF f \in late THEN Snapshot(r, f) ELSE @[f]]]
  /\ pending' = [pending EXCEPT ![r] = plan[r].writes[Stage(r)]]
  /\ Goto(r, "writing")
  /\ UNCHANGED <<disk, records, edits, plan, exe, role, produced, evidence>>

(* The checks of write_output and the look at the target before the        *)
(* temporary file is written.                                              *)
CheckOutput(r) ==
  /\ pc[r] = "writing"
  /\ pending[r] # <<>>
  /\ LET f == Head(pending[r]) IN
       /\ ledger[r].outputs[f] = None
       /\ ~ Collides(r, f)
       /\ MayAppear(r, f)
  /\ Goto(r, "publishing")
  /\ UNCHANGED <<disk, records, edits, plan, ledger, exe, role, produced, evidence, pending>>

(* renameat replaces, linkat refuses a name that exists by now.            *)
PublishByRename(r) ==
  /\ pc[r] = "publishing"
  /\ LET f == Head(pending[r])
         bytes == Product(Stage(r), f, ledger[r].inputs)
     IN
       /\ disk' = [disk EXCEPT ![f] = bytes]
       /\ ledger' = [ledger EXCEPT ![r].outputs[f] = bytes]
  /\ pending' = [pending EXCEPT ![r] = Tail(@)]
  /\ Goto(r, "writing")
  /\ UNCHANGED <<records, edits, plan, exe, role, produced, evidence>>

Publish(r) ==
  /\ pc[r] = "publishing"
  /\ LET f == Head(pending[r])
         bytes == Product(Stage(r), f, ledger[r].inputs)
     IN
       /\ MayAppear(r, f)
       /\ disk' = [disk EXCEPT ![f] = bytes]
       /\ ledger' = [ledger EXCEPT ![r].outputs[f] = bytes]
  /\ pending' = [pending EXCEPT ![r] = Tail(@)]
  /\ Goto(r, "writing")
  /\ UNCHANGED <<records, edits, plan, exe, role, produced, evidence>>

StayInStage(r) ==
  /\ pc[r] = "writing"
  /\ pending[r] = <<>>
  /\ LET s == Stage(r) IN
       /\ \E claim \in Claims(s, plan[r], evidence[r]) :
            /\ Acceptable(s, claim, plan[r], evidence[r])
            /\ evidence' = [evidence EXCEPT ![r][s] = Merge(s, claim, plan[r], evidence[r])]
       /\ produced' = [produced EXCEPT ![r] = Append(@, s)]
  /\ Goto(r, "writing")
  /\ UNCHANGED <<disk, records, edits, plan, ledger, exe, role, pending>>

LeaveStage(r) ==
  /\ pc[r] = "writing"
  /\ pending[r] = <<>>
  /\ LET s == Stage(r) IN
       /\ \E claim \in Claims(s, plan[r], evidence[r]) :
            /\ Acceptable(s, claim, plan[r], evidence[r])
            /\ evidence' = [evidence EXCEPT ![r][s] = Merge(s, claim, plan[r], evidence[r])]
       /\ produced' = [produced EXCEPT ![r] = Append(@, s)]
  /\ Goto(r, "stages")
  /\ UNCHANGED <<disk, records, edits, plan, ledger, exe, role, pending>>

-----------------------------------------------------------------------------
(* The manifest                                                            *)

Manifest(r) ==
  [study |-> plan[r], order |-> produced[r], evidence |-> evidence[r],
   inputs |-> ledger[r].inputs, outputs |-> ledger[r].outputs,
   executable |-> exe[r], overwrite |-> ledger[r].overwrite]

CloseRunRecordingFirst(r) ==
  /\ pc[r] = "stages"
  /\ AllDone(r)
  /\ records' = records \cup {Manifest(r)}
  /\ Goto(r, "recording")
  /\ UNCHANGED <<disk, edits, plan, ledger, exe, role, produced, evidence, pending>>

CloseRun(r) ==
  /\ pc[r] = "stages"
  /\ AllDone(r)
  /\ disk[Executable] = exe[r]
  /\ Goto(r, "recording")
  /\ UNCHANGED <<disk, records, edits, plan, ledger, exe, role, produced, evidence, pending>>

(* Its name is its digest, so a file of that name is the same manifest.    *)
ReuseManifest(r) ==
  /\ pc[r] = "recording"
  /\ Manifest(r) \in records
  /\ Goto(r, "done")
  /\ UNCHANGED <<disk, records, edits, plan, ledger, exe, role, produced, evidence, pending>>

PrepareManifest(r) ==
  /\ pc[r] = "recording"
  /\ Manifest(r) \notin records
  /\ Goto(r, "linking")
  /\ UNCHANGED <<disk, records, edits, plan, ledger, exe, role, produced, evidence, pending>>

LinkManifest(r) ==
  /\ pc[r] = "linking"
  /\ Manifest(r) \notin records
  /\ records' = records \cup {Manifest(r)}
  /\ Goto(r, "done")
  /\ UNCHANGED <<disk, edits, plan, ledger, exe, role, produced, evidence, pending>>

-----------------------------------------------------------------------------
(* Whatever stops a run: a check above that does not hold, a capability    *)
(* that throws, an I/O error, a cancellation noticed at one of its polls   *)
(* around stages and before the manifest, a kill. Its memory is gone; what *)
(* it published stays.                                                     *)
Throw(r) ==
  /\ Running(r)
  /\ Goto(r, "failed")
  /\ plan' = [plan EXCEPT ![r] = None]
  /\ ledger' = [ledger EXCEPT ![r].inputs = NoFiles]
  /\ exe' = [exe EXCEPT ![r] = None]
  /\ role' = [role EXCEPT ![r] = 1]
  /\ produced' = [produced EXCEPT ![r] = <<>>]
  /\ evidence' = [evidence EXCEPT ![r] = None]
  /\ pending' = [pending EXCEPT ![r] = <<>>]
  /\ UNCHANGED fileVars

(* Somebody replaces a file, the executable included.                      *)
Edit(f, bytes) ==
  /\ edits < MaxEdits
  /\ disk[f] # bytes
  /\ edits' = edits + 1
  /\ disk' = [disk EXCEPT ![f] = bytes]
  /\ UNCHANGED <<records, runVars>>

Step(r) ==
  \/ Begin(r) \/ ReadInput(r) \/ ReserveOutputs(r)
  \/ EnterStage(r) \/ CheckOutput(r) \/ Publish(r) \/ LeaveStage(r)
  \/ CloseRun(r) \/ ReuseManifest(r) \/ PrepareManifest(r) \/ LinkManifest(r)

Next ==
  \/ \E r \in Run : Load(r) \/ Step(r) \/ Throw(r)
  \/ \E f \in Editable, bytes \in Given : Edit(f, bytes)

Spec == Init /\ [][Next]_vars

-----------------------------------------------------------------------------
TypeOK ==
  /\ DOMAIN disk = File
  /\ edits \in 0..MaxEdits
  /\ pc \in [Run -> Active \cup {"idle", "refused", "failed", "done"}]
  /\ \A r \in Run : plan[r] \in Studies[r] \cup {None}
  /\ \A r \in Run :
       /\ DOMAIN ledger[r].inputs = File
       /\ DOMAIN ledger[r].outputs = File
       /\ ledger[r].overwrite \in BOOLEAN
       /\ Running(r) => /\ plan[r] # None
                        /\ Len(produced[r]) <= Len(plan[r].declared)
       /\ pc[r] \in {"writing", "publishing"} => ~ AllDone(r)

(* A study is run exactly when it has stages, their ids are unique and     *)
(* none depends on itself or on an undefined one, and a manifest           *)
(* names them in an order in which each came after all it refers to, with  *)
(* every file they publish, each computed from the input bytes the         *)
(* manifest itself records and no others, whoever edited the files         *)
(* meanwhile.                                                              *)
RecordIsWhole ==
  /\ \A r \in Run : pc[r] \in {"loaded", "refused"} =>
       (pc[r] = "loaded" <=> /\ plan[r].declared # <<>>
                             /\ IsInjective(plan[r].declared)
                             /\ Acyclic(plan[r]))
  /\ \A m \in records :
       /\ IsExecutionOrder(m.order, m.study)
       /\ \A f \in File :
            IF \E s \in Ids(m.study) : f \in Range(m.study.writes[s])
            THEN /\ m.outputs[f] # None
                 /\ \A g \in File : m.outputs[f].from[g] \in {None, m.inputs[g]}
            ELSE m.outputs[f] = None

(* The evidence recorded for a stage is that of the stages it depends on   *)
(* and its own, every record the one its source computed: none is lost on  *)
(* the way, invented or replaced by another.                               *)
EvidenceComesFromItsSource ==
  \A m \in records : \A s, src \in Ids(m.study) :
    m.evidence[s][src] =
      IF src = s \/ src \in DependsOn(m.study, s) THEN m.evidence[src][src] ELSE None

(* Under a name a manifest lists stand the bytes it lists, or those of a   *)
(* run that was told to overwrite: a run that was not never takes a name   *)
(* that another run has published first, however the two interleave.       *)
RecordedOutputsStand ==
  \A m \in records : \A f \in File \ Existing : m.outputs[f] # None =>
    \/ disk[f] = m.outputs[f]
    \/ \E r \in Run : ledger[r].overwrite /\ disk[f] = ledger[r].outputs[f]

(* A run publishes over neither the executable nor a file it has read, be  *)
(* it told to overwrite or not, and over nothing it has published before.  *)
InputsSurvive ==
  [][\A r \in Run, f \in File :
       ledger'[r].outputs[f] # ledger[r].outputs[f] /\ pc[r] # "idle" =>
         /\ ledger[r].inputs[f] = None
         /\ ledger[r].outputs[f] = None
         /\ f # Executable]_vars

(* A run is decided once, and the manifest appears whole in the step that  *)
(* completes it.                                                           *)
Record == INSTANCE StudyRecord WITH
  outcome <- [r \in Run |-> CASE pc[r] = "done" -> "completed"
                              [] pc[r] \in {"refused", "failed"} -> "abandoned"
                              [] OTHER -> "open"]

AllOrNothing == Record!Spec
=============================================================================
