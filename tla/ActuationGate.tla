--------------------------- MODULE ActuationGate ---------------------------
(***************************************************************************)
(* What an onboard runtime promises the plant it drives, with no link, no  *)
(* controller and no fault in sight: nothing is output without permission, *)
(* and the outputs of a session answer its inputs one for one, in order    *)
(* and without a gap.                                                      *)
(***************************************************************************)
EXTENDS Integers, Sequences

CONSTANT Sample          \* identities of sensor frames, in sampling order

VARIABLES
  permitted,     \* an operator's permission to output stands
  inputs,        \* sensor frames taken in this session
  outputs        \* identities of the actuator frames output in this session

vars == <<permitted, inputs, outputs>>

Init ==
  /\ permitted = FALSE
  /\ inputs = <<>>
  /\ outputs = <<>>

Permit ==
  /\ permitted' = TRUE
  /\ UNCHANGED <<inputs, outputs>>

Revoke ==
  /\ permitted' = FALSE
  /\ UNCHANGED <<inputs, outputs>>

(* A session starts without permission and without history.                *)
NewSession ==
  /\ permitted' = FALSE
  /\ inputs' = <<>>
  /\ outputs' = <<>>

(* The next sample is taken once the previous one has been answered.       *)
Sense(n) ==
  /\ Len(inputs) = Len(outputs)
  /\ inputs # <<>> => n = inputs[Len(inputs)] + 1
  /\ inputs' = Append(inputs, n)
  /\ UNCHANGED <<permitted, outputs>>

Actuate ==
  /\ permitted
  /\ Len(outputs) < Len(inputs)
  /\ outputs' = Append(outputs, inputs[Len(outputs) + 1])
  /\ UNCHANGED <<permitted, inputs>>

Next == Permit \/ Revoke \/ NewSession \/ Actuate \/ \E n \in Sample : Sense(n)

Spec == Init /\ [][Next]_vars
=============================================================================
