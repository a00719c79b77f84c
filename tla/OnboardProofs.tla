--------------------------- MODULE OnboardProofs ---------------------------
(***************************************************************************)
(* For every number of cycles and samples. The runtime keeps its types, an *)
(* armed interlock has an armed runtime behind it, cycles are all or       *)
(* nothing, and the runtime on its lossy link implements the actuation     *)
(* gate. `galata onboard run`, and any other host of the runtime, only     *)
(* does what the runtime's specification allows, so all of that holds of   *)
(* its process; and the process stops in time, leaves the plant safe and   *)
(* reports completion exactly.                                             *)
(***************************************************************************)
EXTENDS OnboardRun, TLAPS, SequenceTheorems

-----------------------------------------------------------------------------
(* The runtime: its inductive invariant                                    *)

Connected == state \in {"Ready", "Armed"}

(* A cycle in progress has its sensor frame.                               *)
FrameInHand == pc # "idle" => sensor \in Sample

(* That frame is the only one not answered yet.                            *)
OneInFlight ==
  Connected => received = IF pc = "idle" THEN delivered ELSE Append(delivered, sensor)

(* What the adapter compares the next frame with is the last one taken.    *)
SequenceKept ==
  Connected => lastIn = IF received = <<>> THEN None ELSE received[Len(received)]

CountKept == completed = Len(delivered)

RuntimeInv ==
  /\ TypeOK
  /\ ArmedIsSupervised
  /\ CountKept
  /\ FrameInHand
  /\ OneInFlight
  /\ SequenceKept

-----------------------------------------------------------------------------
(* Steps                                                                   *)

(* A runtime that has just been put into Faulted or Stopped, or has just   *)
(* been connected, owes its history nothing.                               *)
LEMMA NoSession ==
  ASSUME ~Connected', armed' = FALSE
  PROVE  ArmedIsSupervised' /\ OneInFlight' /\ SequenceKept'
BY DEF ArmedIsSupervised, OneInFlight, SequenceKept

(* No step spoils the shape of a variable.                                 *)
LEMMA TypeKept ==
  ASSUME TypeOK, FrameInHand, Next
  PROVE  TypeOK' /\ FrameInHand'
<1> USE RuntimeAssumption DEF TypeOK, FrameInHand, Sample
<1>1. CASE TakeSample
  <2>1. clock' \in 0..(Horizon + 1) /\ inbound' \subseteq Sample
    BY <1>1 DEF TakeSample
  <2> QED
    BY <1>1, <2>1 DEF TakeSample, cycleVars
<1>2. CASE \E n \in Sample : Lose(n)
  BY <1>2 DEF Lose, cycleVars
<1>3. CASE LinkDrops
  BY <1>3 DEF LinkDrops, linkVars, cycleVars
<1>4. CASE Connect \/ ConnectFails
  <2>1. Restart
    BY <1>4 DEF Connect, ConnectFails
  <2>2. received' \in Seq(Sample) /\ delivered' \in Seq(Sample)
    BY <2>1, EmptySeq DEF Restart
  <2>3. completed' \in Nat /\ armed' \in BOOLEAN
    BY <2>1 DEF Restart
  <2> QED
    BY <1>4, <2>2, <2>3 DEF Connect, ConnectFails, linkVars, cycleVars
<1>5. CASE Arm \/ ArmFails \/ Disarm \/ TripInterlock \/ Stop
  BY <1>5 DEF Arm, ArmFails, Fault, Disconnect, Disarm, TripInterlock, Stop, linkVars, cycleVars
<1>6. CASE \E n \in Sample : Receive(n)
  BY <1>6 DEF Receive
<1>7. CASE ReceiveFails
  BY <1>7 DEF ReceiveFails, Fault, Disconnect, linkVars, cycleVars
<1>8. CASE \E a \in Sample \cup {None} : Answer(a)
  BY <1>8 DEF Answer, linkVars
<1>9. CASE ControllerFails \/ PublishFails
  BY <1>9 DEF ControllerFails, PublishFails, Fault, Disconnect, EndCycle, linkVars
<1>10. CASE Publish
  <2>1. actuator \in Sample
    BY <1>10 DEF Publish, AnswersSensor
  <2> QED
    BY <1>10, <2>1 DEF Publish, EndCycle, linkVars
<1> QED
  BY <1>1, <1>2, <1>3, <1>4, <1>5, <1>6, <1>7, <1>8, <1>9, <1>10
     DEF Next, Wire, Owner, StepBody

(* Outside a cycle nothing touches the histories but connect(), and arm()  *)
(* alone gives permission.                                                 *)
LEMMA QuietSteps ==
  ASSUME RuntimeInv, Wire \/ LinkDrops \/ Disarm \/ TripInterlock \/ Arm
  PROVE  ArmedIsSupervised' /\ CountKept' /\ OneInFlight' /\ SequenceKept'
BY DEF RuntimeInv, ArmedIsSupervised, CountKept, OneInFlight, SequenceKept, Connected,
       Wire, TakeSample, Lose, LinkDrops, Disarm, TripInterlock, Arm, linkVars, cycleVars

(* A session begins with nothing taken and nothing answered, and ends      *)
(* without permission.                                                     *)
LEMMA SessionSteps ==
  ASSUME RuntimeInv, Connect \/ ConnectFails \/ ArmFails \/ Stop
  PROVE  ArmedIsSupervised' /\ CountKept' /\ OneInFlight' /\ SequenceKept'
<1>1. CASE Connect
  <2>1. Restart
    BY <1>1 DEF Connect
  <2>2. CountKept'
    BY <2>1, EmptySeq DEF Restart, CountKept
  <2>3. ArmedIsSupervised' /\ SequenceKept'
    BY <1>1, <2>1 DEF Connect, Restart, ArmedIsSupervised, SequenceKept
  <2>4. OneInFlight'
    BY <1>1, <2>1 DEF Connect, Restart, OneInFlight, cycleVars
  <2> QED
    BY <2>2, <2>3, <2>4
<1>2. CASE ConnectFails
  <2>1. Restart
    BY <1>2 DEF ConnectFails
  <2>2. CountKept'
    BY <2>1, EmptySeq DEF Restart, CountKept
  <2>3. armed' = FALSE /\ ~Connected'
    BY <1>2, <2>1 DEF ConnectFails, Restart, Connected
  <2> QED
    BY <2>2, <2>3, NoSession
<1>3. CASE ArmFails \/ Stop
  <2>1. CountKept'
    BY <1>3 DEF ArmFails, Stop, RuntimeInv, CountKept
  <2>2. armed' = FALSE /\ ~Connected'
    BY <1>3 DEF ArmFails, Stop, Fault, Connected
  <2> QED
    BY <2>1, <2>2, NoSession
<1> QED
  BY <1>1, <1>2, <1>3

(* The steps of a cycle: a frame is taken only when every earlier one has  *)
(* been answered, and a cycle that fails ends the session.                 *)
LEMMA CycleSteps ==
  ASSUME RuntimeInv, StepBody
  PROVE  ArmedIsSupervised' /\ CountKept' /\ OneInFlight' /\ SequenceKept'
<1> USE DEF RuntimeInv
<1>1. ASSUME NEW n \in Sample, Receive(n)
      PROVE  ArmedIsSupervised' /\ CountKept' /\ OneInFlight' /\ SequenceKept'
  <2>1. received' = Append(received, n) /\ lastIn' = n /\ sensor' = n /\ pc' = "control"
    BY <1>1 DEF Receive
  <2>2. received = delivered /\ delivered' = delivered
    BY <1>1 DEF Receive, Stepping, OneInFlight, Connected
  <2>3. received' # <<>> /\ received'[Len(received')] = n
    BY <2>1, AppendProperties DEF TypeOK
  <2> QED
    BY <1>1, <2>1, <2>2, <2>3
       DEF Receive, ArmedIsSupervised, CountKept, OneInFlight, SequenceKept
<1>2. CASE \E a \in Sample \cup {None} : Answer(a)
  BY <1>2 DEF Answer, ArmedIsSupervised, CountKept, OneInFlight, SequenceKept, Connected
<1>3. CASE ReceiveFails \/ ControllerFails \/ PublishFails
  <2>1. CountKept'
    BY <1>3 DEF ReceiveFails, ControllerFails, PublishFails, CountKept
  <2>2. armed' = FALSE /\ ~Connected'
    BY <1>3 DEF ReceiveFails, ControllerFails, PublishFails, Fault, Connected
  <2> QED
    BY <2>1, <2>2, NoSession
<1>4. CASE Publish
  <2>1. sensor \in Sample /\ actuator = sensor /\ delivered' = Append(delivered, sensor)
    BY <1>4 DEF Publish, AnswersSensor, FrameInHand
  <2>2. CountKept'
    BY <1>4, <2>1, AppendProperties DEF Publish, CountKept, TypeOK
  <2>3. OneInFlight'
    BY <1>4, <2>1 DEF Publish, EndCycle, OneInFlight, Connected
  <2>4. ArmedIsSupervised' /\ SequenceKept'
    BY <1>4 DEF Publish, ArmedIsSupervised, SequenceKept, Connected
  <2> QED
    BY <2>2, <2>3, <2>4
<1> QED
  BY <1>1, <1>2, <1>3, <1>4 DEF StepBody

(* A runtime that was never connected satisfies the invariant.             *)
LEMMA InitEstablishes == Init => RuntimeInv
<1> SUFFICES ASSUME Init PROVE RuntimeInv
  OBVIOUS
<1>1. <<>> \in Seq(Sample) /\ Len(<<>>) = 0
  BY EmptySeq
<1>2. TypeOK
  <2>1. received \in Seq(Sample) /\ delivered \in Seq(Sample)
    BY <1>1 DEF Init
  <2>2. clock \in 0..(Horizon + 1) /\ completed \in Nat
    BY RuntimeAssumption DEF Init
  <2> QED
    BY <2>1, <2>2 DEF Init, TypeOK
<1>3. ArmedIsSupervised /\ CountKept /\ FrameInHand /\ OneInFlight /\ SequenceKept
  BY <1>1 DEF Init, ArmedIsSupervised, CountKept, FrameInHand, OneInFlight, SequenceKept, Connected
<1> QED
  BY <1>2, <1>3 DEF RuntimeInv

(* Every step keeps it.                                                    *)
LEMMA StepKeeps == RuntimeInv /\ [Next]_vars => RuntimeInv'
<1>1. CASE RuntimeInv /\ Next
  <2>1. TypeOK' /\ FrameInHand'
    BY <1>1, TypeKept DEF RuntimeInv
  <2>2. ArmedIsSupervised' /\ CountKept' /\ OneInFlight' /\ SequenceKept'
    BY <1>1, QuietSteps, SessionSteps, CycleSteps DEF Next, Owner
  <2> QED
    BY <2>1, <2>2 DEF RuntimeInv
<1>2. CASE RuntimeInv /\ UNCHANGED vars
  BY <1>2 DEF RuntimeInv, vars, linkVars, cycleVars, TypeOK, ArmedIsSupervised, CountKept,
              FrameInHand, OneInFlight, SequenceKept, Connected
<1> QED
  BY <1>1, <1>2

-----------------------------------------------------------------------------
(* Theorems                                                                *)

(* At every moment, callbacks and the link included, the runtime is in     *)
(* step with its interlock, its histories and its adapter's sequence.      *)
THEOREM RuntimeInvariant == Spec => []RuntimeInv
BY InitEstablishes, StepKeeps, PTL DEF Spec

(* Every variable of the runtime keeps its type.                           *)
THEOREM TypeCorrect == Spec => []TypeOK
<1>1. RuntimeInv => TypeOK
  BY DEF RuntimeInv
<1> QED
  BY <1>1, RuntimeInvariant, PTL

(* Runtime::fault(), disarm() and stop() never leave an armed interlock    *)
(* without an armed runtime behind it.                                     *)
THEOREM OutputIsSupervised == Spec => []ArmedIsSupervised
<1>1. RuntimeInv => ArmedIsSupervised
  BY DEF RuntimeInv
<1> QED
  BY <1>1, RuntimeInvariant, PTL

(* Runtime::step() counts exactly the frames it sent, and is armed between *)
(* cycles only when it has answered every frame it took.                   *)
THEOREM CyclesAreComplete == Spec => []CyclesComplete
<1>1. RuntimeInv => CyclesComplete
  BY DEF RuntimeInv, CountKept, OneInFlight, Connected, CyclesComplete
<1> QED
  BY <1>1, RuntimeInvariant, PTL

-----------------------------------------------------------------------------
(* The actuation gate                                                      *)

(* A frame the runtime accepts is the next sample the gate may sense.      *)
LEMMA ReceiveSenses ==
  ASSUME RuntimeInv, NEW n \in Sample, Receive(n)
  PROVE  Gate!Sense(n)
<1> USE DEF RuntimeInv
<1>1. Connected /\ received = delivered
  BY DEF Receive, Stepping, Connected, OneInFlight
<1>2. ASSUME received # <<>> PROVE n = received[Len(received)] + 1
  <2>1. lastIn = received[Len(received)]
    BY <1>1, <1>2 DEF SequenceKept
  <2>2. received[Len(received)] \in Sample
    BY <1>2, EmptySeq, ElementOfSeq DEF TypeOK
  <2>3. lastIn # None
    BY <2>1, <2>2, RuntimeAssumption DEF Sample
  <2> QED
    BY <2>1, <2>3 DEF Receive, InOrder
<1> QED
  BY <1>1, <1>2 DEF Receive, Gate!Sense

(* A frame the runtime sends answers the frame in hand, with permission.   *)
LEMMA PublishActuates ==
  ASSUME RuntimeInv, Publish
  PROVE  Gate!Actuate
<1> USE DEF RuntimeInv
<1>1. armed /\ actuator = sensor /\ sensor \in Sample
  BY DEF Publish, MayOutput, AnswersSensor, FrameInHand
<1>2. received = Append(delivered, sensor)
  BY <1>1 DEF Publish, ArmedIsSupervised, OneInFlight, Connected
<1>3. Len(delivered) < Len(received) /\ received[Len(delivered) + 1] = sensor
  BY <1>1, <1>2, AppendProperties, LenProperties DEF TypeOK
<1> QED
  BY <1>1, <1>3 DEF Publish, Gate!Actuate

(* Every other step permits, revokes, begins a session or is hidden.       *)
LEMMA StepRefines == RuntimeInv /\ [Next]_vars => [Gate!Next]_(Gate!vars)
<1> SUFFICES ASSUME RuntimeInv, [Next]_vars PROVE Gate!Next \/ UNCHANGED Gate!vars
  OBVIOUS
<1>1. CASE UNCHANGED vars
  BY <1>1 DEF vars, Gate!vars
<1>2. CASE \E n \in Sample : Receive(n)
  BY <1>2, ReceiveSenses DEF Gate!Next
<1>3. CASE Publish
  BY <1>3, PublishActuates DEF Gate!Next
<1>4. CASE Connect \/ ConnectFails
  BY <1>4 DEF Connect, ConnectFails, Restart, Gate!NewSession, Gate!Next
<1>5. CASE Arm
  BY <1>5 DEF Arm, Gate!Permit, Gate!Next
<1>6. CASE ArmFails \/ Disarm \/ TripInterlock \/ Stop \/ ReceiveFails
  BY <1>6 DEF ArmFails, Disarm, TripInterlock, Stop, ReceiveFails, Fault, Gate!Revoke, Gate!Next
<1>7. CASE ControllerFails \/ PublishFails
  BY <1>7 DEF ControllerFails, PublishFails, Fault, Gate!Revoke, Gate!Next
<1>8. CASE Wire \/ LinkDrops \/ \E a \in Sample \cup {None} : Answer(a)
  BY <1>8 DEF Wire, TakeSample, Lose, LinkDrops, Answer, Gate!vars
<1> QED
  BY <1>1, <1>2, <1>3, <1>4, <1>5, <1>6, <1>7, <1>8 DEF Next, Owner, StepBody

(* Runtime::step() over GuardedTransport outputs nothing without           *)
(* permission and answers its inputs one for one, in order and without a   *)
(* gap, whatever the link and the controller do.                           *)
THEOREM RuntimeImplementsGate == Spec => OutputsAnswerInputs
<1>1. Init => Gate!Init
  BY DEF Init, Gate!Init
<1> QED
  BY <1>1, StepRefines, RuntimeInvariant, PTL DEF Spec, OutputsAnswerInputs, Gate!Spec

-----------------------------------------------------------------------------
(* The run loop: its inductive invariant                                   *)

RunTypeOK ==
  /\ rpc \in {"clear", "connect", "arm", "loop", "step", "stop", "abort", "exit", "hosted"}
  /\ stopRequested \in BOOLEAN
  /\ outcome \in {"none", "completed", "stopped", "error"}
  /\ sentAtSignal \in Nat \cup {None}

(* The flag has the count of frames sent beside it; once it is set a cycle *)
(* may end but none may begin.                                             *)
SignalInv ==
  /\ stopRequested => /\ sentAtSignal \in Nat
                      /\ completed <= sentAtSignal + 1
  /\ stopRequested /\ rpc = "step" => completed <= sentAtSignal
  /\ rpc = "hosted" => ~stopRequested

(* In the loop the runtime is armed, between cycles when the loop's        *)
(* condition is evaluated, and short of its count while a cycle is run.    *)
LoopInv ==
  /\ rpc = "arm" => completed = 0 /\ pc = "idle"
  /\ rpc \in {"loop", "step"} => state = "Armed"
  /\ rpc = "loop" => pc = "idle" /\ (Cycles = 0 \/ completed <= Cycles)
  /\ rpc = "step" => Cycles = 0 \/ completed < Cycles

(* An outcome is reported on the way out only.                             *)
OutcomeInv == outcome # "none" => rpc \in {"stop", "abort", "exit"}

RunInv ==
  /\ RuntimeInv
  /\ RunTypeOK
  /\ SignalInv
  /\ LoopInv
  /\ OutcomeInv
  /\ ExitIsSafe
  /\ CompletionIsExact

-----------------------------------------------------------------------------
(* The runtime in its process                                              *)

(* Whatever the process does, its runtime takes one of its own steps or    *)
(* none.                                                                   *)
LEMMA RunIsRuntime == [RunNext]_allVars => [Next]_vars
<1> SUFFICES ASSUME [RunNext]_allVars
             PROVE  Next \/ UNCHANGED vars
  OBVIOUS
<1>1. CASE ClearFlag \/ NextCycle \/ Conclude \/ Signal
  BY <1>1 DEF ClearFlag, NextCycle, Conclude, Signal
<1>2. CASE RunConnect \/ RunArm \/ Leave \/ LeaveFailed
  BY <1>2 DEF RunConnect, RunArm, Leave, LeaveFailed, Next, Owner
<1>3. CASE RunReceive \/ RunController \/ RunPublish
  BY <1>3 DEF RunReceive, NoFrame, RunController, RunPublish, Next, StepBody
<1>4. CASE Hosted \/ Wire
  BY <1>4 DEF Hosted, Next
<1>5. CASE UNCHANGED allVars
  BY <1>5 DEF allVars
<1> QED
  BY <1>1, <1>2, <1>3, <1>4, <1>5 DEF RunNext, Run

(* The runtime of `galata onboard run`, and of any other host, is the      *)
(* runtime proved about on its own.                                        *)
THEOREM RunImplementsRuntime == RunSpec => Spec
<1>1. RunInit => Init
  BY DEF RunInit
<1> QED
  BY <1>1, RunIsRuntime, PTL DEF RunSpec, Spec

-----------------------------------------------------------------------------
(* Steps                                                                   *)

(* Frames under way, and the steps of another host, are no concern of the  *)
(* command's: nothing it relies on changes.                                *)
LEMMA WireKeeps ==
  ASSUME RunInv, Wire, UNCHANGED runVars
  PROVE  SignalInv' /\ LoopInv' /\ OutcomeInv' /\ ExitIsSafe' /\ CompletionIsExact' /\ RunTypeOK'
<1>1. UNCHANGED <<link, armed, state, completed, pc, received, delivered, runVars>>
  BY DEF Wire, TakeSample, Lose, cycleVars
<1> QED
  BY <1>1 DEF RunInv, RunTypeOK, SignalInv, LoopInv, OutcomeInv, ExitIsSafe, CompletionIsExact,
              runVars

(* Another host does not touch the run loop's state.                       *)
LEMMA HostedKeeps ==
  ASSUME RunInv, Hosted
  PROVE  SignalInv' /\ LoopInv' /\ OutcomeInv' /\ ExitIsSafe' /\ CompletionIsExact' /\ RunTypeOK'
<1>1. rpc = "hosted" /\ UNCHANGED runVars
  BY DEF Hosted
<1> QED
  BY <1>1 DEF RunInv, RunTypeOK, SignalInv, LoopInv, OutcomeInv, ExitIsSafe, CompletionIsExact,
              runVars

(* The flag remembers how many frames were sent when it was set.           *)
LEMMA SignalKeeps ==
  ASSUME RunInv, Signal
  PROVE  SignalInv' /\ LoopInv' /\ OutcomeInv' /\ ExitIsSafe' /\ CompletionIsExact' /\ RunTypeOK'
<1>1. /\ stopRequested' = TRUE /\ sentAtSignal' = completed /\ rpc # "hosted"
      /\ completed \in Nat
      /\ UNCHANGED <<rpc, outcome, link, armed, state, completed, pc, received, delivered>>
  BY DEF Signal, vars, cycleVars, RunInv, RuntimeInv, TypeOK
<1> QED
  BY <1>1 DEF RunInv, RunTypeOK, SignalInv, LoopInv, OutcomeInv, ExitIsSafe, CompletionIsExact

(* Before the loop, and between two cycles: a cycle begins only when the   *)
(* flag is down and the count not reached.                                 *)
LEMMA LoopKeeps ==
  ASSUME RunInv, ClearFlag \/ RunConnect \/ RunArm \/ NextCycle \/ Conclude
  PROVE  SignalInv' /\ LoopInv' /\ OutcomeInv' /\ ExitIsSafe' /\ CompletionIsExact' /\ RunTypeOK'
<1> USE DEF RunInv, RunTypeOK, SignalInv, LoopInv, OutcomeInv, ExitIsSafe, CompletionIsExact
<1>0. /\ TypeOK /\ CountKept /\ OneInFlight /\ Cycles \in Nat /\ None \notin Nat
  BY CyclesAssumption, RuntimeAssumption DEF RuntimeInv
<1>1. CASE ClearFlag
  BY <1>0, <1>1 DEF ClearFlag, vars, cycleVars, TypeOK
<1>2. CASE RunConnect
  BY <1>0, <1>2 DEF RunConnect, Connect, ConnectFails, Restart, RunGoto, Abort, cycleVars
<1>3. CASE RunArm
  BY <1>0, <1>3 DEF RunArm, Arm, RunGoto, cycleVars, TypeOK
<1>4. CASE NextCycle
  BY <1>0, <1>4 DEF NextCycle, Continue, RunGoto, vars, cycleVars, TypeOK
<1>5. CASE Conclude
  BY <1>0, <1>5
  DEF Conclude, Continue, CountKept, OneInFlight, Connected, vars, cycleVars, TypeOK
<1> QED
  BY <1>1, <1>2, <1>3, <1>4, <1>5

(* In a cycle: it ends with one frame sent and its answer, or on the way   *)
(* out.                                                                    *)
LEMMA CycleKeeps ==
  ASSUME RunInv, RunReceive \/ RunController \/ RunPublish
  PROVE  SignalInv' /\ LoopInv' /\ OutcomeInv' /\ ExitIsSafe' /\ CompletionIsExact' /\ RunTypeOK'
<1> USE DEF RunInv, RunTypeOK, SignalInv, LoopInv, OutcomeInv, ExitIsSafe, CompletionIsExact
<1>0. rpc = "step" /\ completed \in Nat /\ Cycles \in Nat /\ outcome = "none" /\ state = "Armed"
  BY CyclesAssumption DEF RuntimeInv, TypeOK, RunReceive, RunController, RunPublish
<1>1. CASE UNCHANGED <<completed, state, runVars>>
  BY <1>0, <1>1 DEF runVars
<1>2. CASE UNCHANGED completed /\ Abort
  BY <1>0, <1>2 DEF Abort
<1>3. CASE Publish /\ RunGoto("loop")
  BY <1>0, <1>3 DEF Publish, EndCycle, RunGoto
<1>4. UNCHANGED <<completed, state, runVars>> \/ (UNCHANGED completed /\ Abort)
        \/ (Publish /\ RunGoto("loop"))
  BY DEF RunReceive, Receive, NoFrame, ReceiveFails, RunController, Answer, ControllerFails,
         RunPublish, PublishFails
<1> QED
  BY <1>1, <1>2, <1>3, <1>4

(* Both ways out stop the runtime, which keeps its histories.              *)
LEMMA LeaveKeeps ==
  ASSUME RunInv, Leave \/ LeaveFailed
  PROVE  SignalInv' /\ LoopInv' /\ OutcomeInv' /\ ExitIsSafe' /\ CompletionIsExact' /\ RunTypeOK'
BY DEF Leave, LeaveFailed, Stop, Disconnect, RunGoto, RunInv, RunTypeOK, SignalInv, LoopInv,
       OutcomeInv, ExitIsSafe, CompletionIsExact

(* A process starts with its flag clear and nothing sent.                  *)
LEMMA InitRun == RunInit => RunInv
<1> SUFFICES ASSUME RunInit
             PROVE  RunInv
  OBVIOUS
<1>1. RuntimeInv
  BY InitEstablishes DEF RunInit
<1> QED
  BY <1>1 DEF RunInit, RunInv, RunTypeOK, SignalInv, LoopInv, OutcomeInv, ExitIsSafe,
              CompletionIsExact

(* The invariant is inductive.                                             *)
LEMMA StepRun == RunInv /\ [RunNext]_allVars => RunInv'
<1> SUFFICES ASSUME RunInv, [RunNext]_allVars
             PROVE  RunInv'
  OBVIOUS
<1>1. RuntimeInv'
  BY RunIsRuntime, StepKeeps DEF RunInv
<1>2. CASE RunNext
  BY <1>1, <1>2, WireKeeps, HostedKeeps, SignalKeeps, LoopKeeps, CycleKeeps, LeaveKeeps
  DEF RunNext, Run, RunInv
<1>3. CASE UNCHANGED allVars
  BY <1>1, <1>3
  DEF allVars, vars, cycleVars, runVars, RunInv, RunTypeOK, SignalInv, LoopInv, OutcomeInv,
      ExitIsSafe, CompletionIsExact
<1> QED
  BY <1>2, <1>3

-----------------------------------------------------------------------------
(* Theorems                                                                *)

(* Loop, flag, outcome and runtime fit together in every state.            *)
THEOREM RunInvariant == RunSpec => []RunInv
BY InitRun, StepRun, PTL DEF RunSpec

(* onboard_stop_requested: from the moment the flag is set at most the     *)
(* cycle in progress still reaches the actuators.                          *)
THEOREM StopIsPrompt == RunSpec => []StopsWithinOneCycle
<1>1. RunInv => StopsWithinOneCycle
  BY DEF RunInv, SignalInv, StopsWithinOneCycle
<1> QED
  BY <1>1, RunInvariant, PTL

(* However onboard_run_command() returns, the interlock is open and the    *)
(* last word to the link was disconnect.                                   *)
THEOREM ExitIsAlwaysSafe == RunSpec => []ExitIsSafe
<1>1. RunInv => ExitIsSafe
  BY DEF RunInv
<1> QED
  BY <1>1, RunInvariant, PTL

(* "completed" is reported only of a run that sent exactly --cycles        *)
(* frames, each the answer to one it took.                                 *)
THEOREM CompletionIsAlwaysExact == RunSpec => []CompletionIsExact
<1>1. RunInv => CompletionIsExact
  BY DEF RunInv
<1> QED
  BY <1>1, RunInvariant, PTL

(* Any host's runtime drives the plant as the actuation gate allows.       *)
THEOREM RunImplementsGate == RunSpec => OutputsAnswerInputs
BY RunImplementsRuntime, RuntimeImplementsGate
=============================================================================
