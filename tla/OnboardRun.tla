----------------------------- MODULE OnboardRun -----------------------------
(***************************************************************************)
(* `galata onboard run`: a process that connects the runtime to a live     *)
(* adapter, arms it, steps a loaded controller until it has its cycles or  *)
(* a signal asks it to stop, and leaves the plant safe however it ends.    *)
(* Its controller plugin cannot reach the runtime, and its adapters change *)
(* state only when called. The runtime is a library, though: any other     *)
(* program, its tests to begin with, may be its host instead and call it   *)
(* in any order.                                                           *)
(***************************************************************************)
EXTENDS OnboardRuntime

CONSTANT Cycles          \* --cycles, 0 for --until-signal

ASSUME CyclesAssumption == Cycles \in Nat

VARIABLES
  rpc,               \* next statement of onboard_run_command, or "hosted" elsewhere
  stopRequested,     \* onboard_stop_requested
  outcome,           \* what it reports: "completed", "stopped" or "error"
  sentAtSignal       \* history: frames sent when the flag was first set, None before

runVars == <<rpc, stopRequested, outcome, sentAtSignal>>
allVars == <<vars, runVars>>

RunGoto(step) ==
  /\ rpc' = step
  /\ UNCHANGED <<stopRequested, outcome, sentAtSignal>>

Abort ==
  /\ rpc' = "abort"
  /\ outcome' = "error"
  /\ UNCHANGED <<stopRequested, sentAtSignal>>

(* The handler is installed; the flag is cleared only now.                 *)
ClearFlag ==
  /\ rpc = "clear"
  /\ stopRequested' = FALSE
  /\ sentAtSignal' = None
  /\ rpc' = "connect"
  /\ UNCHANGED <<vars, outcome>>

RunConnect ==
  /\ rpc = "connect"
  /\ \/ Connect /\ RunGoto("arm")
     \/ ConnectFails /\ Abort

RunArm ==
  /\ rpc = "arm"
  /\ Arm
  /\ RunGoto("loop")

(* The loop's condition, between two cycles.                               *)
IgnoreSignal == Cycles = 0 \/ completed < Cycles

OneMoreCycle == ~stopRequested /\ (Cycles = 0 \/ completed <= Cycles)

Continue == ~stopRequested /\ (Cycles = 0 \/ completed < Cycles)

NextCycle ==
  /\ rpc = "loop"
  /\ Continue
  /\ RunGoto("step")
  /\ UNCHANGED vars

(* step() returned false or threw: either way the loop is left.            *)
TimeoutRetried ==
  /\ Stepping
  /\ RunGoto("loop")
  /\ UNCHANGED vars

NoFrame == ReceiveFails /\ Abort

RunReceive ==
  /\ rpc = "step"
  /\ \/ (\E n \in Sample : Receive(n)) /\ UNCHANGED runVars
     \/ NoFrame

RunController ==
  /\ rpc = "step"
  /\ \/ (\E a \in Sample \cup {None} : Answer(a)) /\ UNCHANGED runVars
     \/ ControllerFails /\ Abort

RunPublish ==
  /\ rpc = "step"
  /\ \/ Publish /\ RunGoto("loop")
     \/ PublishFails /\ Abort

(* Out of the loop, after --linger-ms: the flag is read once more to name  *)
(* the outcome.                                                            *)
Conclude ==
  /\ rpc = "loop"
  /\ ~Continue
  /\ outcome' = IF stopRequested THEN "stopped" ELSE "completed"
  /\ rpc' = "stop"
  /\ UNCHANGED <<vars, stopRequested, sentAtSignal>>

Leave ==
  /\ rpc = "stop"
  /\ Stop
  /\ RunGoto("exit")

LeaveAsIs ==
  /\ rpc = "abort"
  /\ RunGoto("exit")
  /\ UNCHANGED vars

(* The catch block: stop, then rethrow.                                    *)
LeaveFailed ==
  /\ rpc = "abort"
  /\ Stop
  /\ RunGoto("exit")

(* SIGINT or SIGTERM, any time from the installation of the handler on.    *)
Signal ==
  /\ rpc \notin {"exit", "hosted"}
  /\ ~stopRequested
  /\ stopRequested' = TRUE
  /\ sentAtSignal' = completed
  /\ UNCHANGED <<vars, rpc, outcome>>

-----------------------------------------------------------------------------
RunInit ==
  /\ Init
  /\ rpc \in {"clear", "hosted"}
  /\ stopRequested = FALSE
  /\ outcome = "none"
  /\ sentAtSignal = None

Run ==
  \/ ClearFlag \/ RunConnect \/ RunArm \/ NextCycle
  \/ RunReceive \/ RunController \/ RunPublish
  \/ Conclude \/ Leave \/ LeaveFailed

(* Any other program that uses the runtime.                                *)
Hosted ==
  /\ rpc = "hosted"
  /\ LinkDrops \/ Owner \/ StepBody
  /\ UNCHANGED runVars

RunNext == Run \/ Signal \/ Hosted \/ (Wire /\ UNCHANGED runVars)

(* The process is scheduled, its receive and send timeouts are bounded and *)
(* its controller returns; no sample ever need be taken.                   *)
RunSpec == RunInit /\ [][RunNext]_allVars

RunFairSpec == RunSpec /\ WF_allVars(Run)

-----------------------------------------------------------------------------
(* Properties                                                              *)

(* From the moment the flag is set at most the cycle in progress still     *)
(* reaches the actuators.                                                  *)
StopsWithinOneCycle ==
  stopRequested /\ sentAtSignal # None => completed <= sentAtSignal + 1

(* However the process ends, its last word to the link was disconnect and  *)
(* the interlock is open.                                                  *)
ExitIsSafe == rpc = "exit" => ~armed /\ link = "Disconnected"

(* A run that reports completion has sent exactly the cycles it was asked  *)
(* for, one answer to each frame it took.                                  *)
CompletionIsExact ==
  outcome = "completed" =>
    /\ Len(delivered) = Cycles
    /\ Len(received) = Cycles

(* The process ends, whatever becomes of its sensor: a silent one makes    *)
(* the receive time out.                                                   *)
RunEnds == rpc = "clear" ~> rpc = "exit"
=============================================================================
