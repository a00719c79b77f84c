--------------------------- MODULE OnboardRuntime ---------------------------
(***************************************************************************)
(* The one-cycle onboard supervisor: Runtime over a GuardedTransport, the  *)
(* ArmingInterlock it shares with its owner, and a serial, UDP or CAN      *)
(* adapter on a link that loses, repeats, reorders and delays sensor       *)
(* frames. One thread calls it; a controller callback may itself disarm,   *)
(* re-arm or stop the runtime that is calling it.                          *)
(***************************************************************************)
EXTENDS Integers, Sequences

CONSTANTS
  Horizon,       \* last sensor sample taken; bounds a behaviour
  None

ASSUME RuntimeAssumption ==
  /\ Horizon \in Nat
  /\ None \notin Nat

(* A frame is known by its sample: its sequence number and timestamp       *)
(* advance together, one sample period at a time.                          *)
Sample == 0..Horizon

VARIABLES
  clock,         \* the next sample the device takes
  inbound,       \* frames on their way to the runtime
  link,          \* LinkState of the adapter
  lastIn,        \* last frame the adapter accepted since it connected
  lastOut,       \* last frame the adapter sent since it connected
  armed,         \* ArmingInterlock::armed_
  state,         \* RuntimeState
  completed,     \* completed_cycles_
  pc,            \* where step() is: "idle", "control" or "publish"
  sensor,        \* the frame of the cycle in progress
  actuator,      \* the controller's answer, None when it is malformed
  received,      \* history: frames accepted since connect()
  delivered      \* history: frames sent since connect()

linkVars == <<clock, inbound>>
cycleVars == <<pc, sensor, actuator>>
vars == <<linkVars, link, lastIn, lastOut, armed, state, completed, cycleVars, received, delivered>>

(* validate_monotonic() of the adapters.                                   *)
InOrder(n, last) == last # None => n = last + 1

(* disconnect() of the adapters forgets the sequence.                      *)
Disconnect ==
  /\ link' = "Disconnected"
  /\ lastIn' = None
  /\ lastOut' = None

FaultOfTheLink ==
  /\ armed' = FALSE
  /\ Disconnect
  /\ state' = link'

(* Runtime::fault.                                                         *)
Fault ==
  /\ armed' = FALSE
  /\ Disconnect
  /\ state' = "Faulted"

EndCycle ==
  /\ pc' = "idle"
  /\ sensor' = None
  /\ actuator' = None

(* The caller, or the callback in its turn.                                *)
OwnerRuns == pc \in {"idle", "control"}

-----------------------------------------------------------------------------
(* The device and the link                                                 *)

TakeSample ==
  /\ clock <= Horizon
  /\ clock' = clock + 1
  /\ inbound' = inbound \cup {clock}
  /\ UNCHANGED <<link, lastIn, lastOut, armed, state, completed, cycleVars, received, delivered>>

Lose(n) ==
  /\ n \in inbound
  /\ inbound' = inbound \ {n}
  /\ UNCHANGED <<clock, link, lastIn, lastOut, armed, state, completed, cycleVars, received, delivered>>

(* The adapter reports, or its owner puts it in, a state that is not ready. *)
LinkDrops ==
  /\ link = "Ready"
  /\ link' \in {"Faulted", "Disconnected"}
  /\ UNCHANGED <<linkVars, lastIn, lastOut, armed, state, completed, cycleVars, received, delivered>>

-----------------------------------------------------------------------------
(* connect, arm, disarm, stop                                              *)

Restart ==
  /\ completed' = 0
  /\ received' = <<>>
  /\ delivered' = <<>>
  /\ armed' = FALSE

Connect ==
  /\ pc = "idle"
  /\ state # "Armed"
  /\ link = "Disconnected"
  /\ Restart
  /\ link' = "Ready"
  /\ lastIn' = None
  /\ lastOut' = None
  /\ state' = "Ready"
  /\ UNCHANGED <<linkVars, cycleVars>>

(* The adapter insists on being disconnected first, or the device cannot   *)
(* be opened.                                                              *)
ConnectFails ==
  /\ pc = "idle"
  /\ state # "Armed"
  /\ Restart
  /\ link' \in IF link = "Disconnected" THEN {"Disconnected", "Faulted"} ELSE {link}
  /\ state' = "Faulted"
  /\ UNCHANGED <<linkVars, lastIn, lastOut, cycleVars>>

Arm ==
  /\ OwnerRuns
  /\ state = "Ready"
  /\ link = "Ready"
  /\ armed' = TRUE
  /\ state' = "Armed"
  /\ UNCHANGED <<linkVars, link, lastIn, lastOut, completed, cycleVars, received, delivered>>

ArmFails ==
  /\ OwnerRuns
  /\ state = "Ready"
  /\ link # "Ready"
  /\ Fault
  /\ UNCHANGED <<linkVars, completed, cycleVars, received, delivered>>

Disarm ==
  /\ OwnerRuns
  /\ armed' = FALSE
  /\ state' = IF state = "Armed" THEN "Ready" ELSE state
  /\ UNCHANGED <<linkVars, link, lastIn, lastOut, completed, cycleVars, received, delivered>>

(* The owner disarms the shared interlock past the runtime.                *)
TripInterlock ==
  /\ OwnerRuns
  /\ armed' = FALSE
  /\ UNCHANGED <<linkVars, link, lastIn, lastOut, state, completed, cycleVars, received, delivered>>

StopOnlyLink ==
  /\ OwnerRuns
  /\ Disconnect
  /\ state' = "Stopped"
  /\ UNCHANGED <<linkVars, armed, completed, cycleVars, received, delivered>>

Stop ==
  /\ OwnerRuns
  /\ armed' = FALSE
  /\ Disconnect
  /\ state' = "Stopped"
  /\ UNCHANGED <<linkVars, completed, cycleVars, received, delivered>>

-----------------------------------------------------------------------------
(* step: receive one sensor frame, compute one actuator frame, send it     *)

Stepping == pc = "idle" /\ state = "Armed"

(* A frame is consumed, or was repeated on its way and will come again.    *)
Receive(n) ==
  /\ Stepping
  /\ link = "Ready"
  /\ n \in inbound
  /\ InOrder(n, lastIn)
  /\ inbound' \in {inbound, inbound \ {n}}
  /\ lastIn' = n
  /\ sensor' = n
  /\ received' = Append(received, n)
  /\ pc' = "control"
  /\ UNCHANGED <<clock, link, lastOut, armed, state, completed, actuator, delivered>>

(* No callback, a timeout, a frame out of order, a corrupt packet or a     *)
(* device error.                                                           *)
ReceiveFails ==
  /\ Stepping
  /\ Fault
  /\ UNCHANGED <<linkVars, completed, cycleVars, received, delivered>>

(* The callback returns in time, with whatever it computed.                *)
Answer(a) ==
  /\ pc = "control"
  /\ actuator' = a
  /\ pc' = "publish"
  /\ UNCHANGED <<linkVars, link, lastIn, lastOut, armed, state, completed, sensor, received, delivered>>

ControllerSkipped ==
  /\ pc = "control"
  /\ EndCycle
  /\ UNCHANGED <<linkVars, link, lastIn, lastOut, armed, state, completed, received, delivered>>

(* The callback throws, or is found over its budget or the watchdog's.     *)
ControllerFails ==
  /\ pc = "control"
  /\ Fault
  /\ EndCycle
  /\ UNCHANGED <<linkVars, completed, received, delivered>>

AnyFrame == actuator # None

(* The answer is well formed and has the identity of its sensor frame.     *)
AnswersSensor == actuator = sensor

(* GuardedTransport::send.                                                 *)
MayOutput == armed /\ link = "Ready" /\ InOrder(actuator, lastOut)

Publish ==
  /\ pc = "publish"
  /\ AnswersSensor
  /\ MayOutput
  /\ lastOut' = actuator
  /\ delivered' = Append(delivered, actuator)
  /\ completed' = completed + 1
  /\ EndCycle
  /\ UNCHANGED <<linkVars, link, lastIn, armed, state, received>>

(* A check refuses the answer, the interlock blocks it or the write fails. *)
PublishFails ==
  /\ pc = "publish"
  /\ Fault
  /\ EndCycle
  /\ UNCHANGED <<linkVars, completed, received, delivered>>

-----------------------------------------------------------------------------
Init ==
  /\ clock = 0
  /\ inbound = {}
  /\ link = "Disconnected"
  /\ lastIn = None
  /\ lastOut = None
  /\ armed = FALSE
  /\ state = "Stopped"
  /\ completed = 0
  /\ pc = "idle"
  /\ sensor = None
  /\ actuator = None
  /\ received = <<>>
  /\ delivered = <<>>

Wire == TakeSample \/ \E n \in Sample : Lose(n)

StepBody ==
  \/ \E n \in Sample : Receive(n)
  \/ ReceiveFails
  \/ \E a \in Sample \cup {None} : Answer(a)
  \/ ControllerFails \/ Publish \/ PublishFails

Owner == Connect \/ ConnectFails \/ Arm \/ ArmFails \/ Disarm \/ TripInterlock \/ Stop

Next == Wire \/ LinkDrops \/ Owner \/ StepBody

Spec == Init /\ [][Next]_vars

-----------------------------------------------------------------------------
(* Properties                                                              *)

(* Every variable keeps its shape.                                         *)
TypeOK ==
  /\ clock \in 0..(Horizon + 1)
  /\ inbound \subseteq Sample
  /\ link \in {"Disconnected", "Ready", "Faulted"}
  /\ lastIn \in Sample \cup {None}
  /\ lastOut \in Sample \cup {None}
  /\ armed \in BOOLEAN
  /\ state \in {"Stopped", "Ready", "Armed", "Faulted"}
  /\ completed \in Nat
  /\ pc \in {"idle", "control", "publish"}
  /\ sensor \in Sample \cup {None}
  /\ actuator \in Sample \cup {None}
  /\ received \in Seq(Sample)
  /\ delivered \in Seq(Sample)

(* An armed interlock always has an armed runtime behind it: no fault, stop *)
(* or disarm, from a callback or between cycles, leaves the output open.   *)
ArmedIsSupervised == armed => state = "Armed"

(* Cycles are all or nothing: the counter the caller loops on is the number *)
(* of frames sent, and a runtime still armed between cycles has answered   *)
(* every frame it took.                                                    *)
CyclesComplete ==
  /\ completed = Len(delivered)
  /\ pc = "idle" /\ state = "Armed" => Len(received) = Len(delivered)

(* All of it at once: on a lossy, reordering link and with any controller, *)
(* the runtime implements the gate.                                        *)
Gate == INSTANCE ActuationGate
          WITH permitted <- armed, inputs <- received, outputs <- delivered

OutputsAnswerInputs == Gate!Spec

(* The runtime's header: a transport exception disarms and disconnects     *)
(* before the error is reported.                                           *)
FaultMeansDisconnected == state = "Faulted" => ~armed /\ link # "Ready"
=============================================================================
