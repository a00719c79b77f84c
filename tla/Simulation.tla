----------------------------- MODULE Simulation -----------------------------
(***************************************************************************)
(* Fixed-step helicopter simulations with events on the step lattice:      *)
(* sim.helicopter without and with a wind schedule, and the sampled loop   *)
(* of sim.helicopter.closed_loop. They differ in when they store a state   *)
(* and in which stored states they export. A plant state is modelled by    *)
(* the events it has been through that move it, so numbers, commands and   *)
(* measurements are left out; the outputs exported with a state are        *)
(* computed with the wind and the failures in force at its time.           *)
(***************************************************************************)
EXTENDS Integers

CONSTANTS
  Steps,         \* integration steps of a run, at least one
  MaxStride,     \* bound: the largest sample_stride
  None

(* A zero-order change of wind rebases the air-relative velocity, a jam    *)
(* sets an actuator's position; a loss of tail rotor or engine changes the *)
(* model alone.                                                            *)
Event == [what : {"wind", "jam", "loss"}, step : 0..Steps]

Moving(es) == {e \in es : e.what # "loss"}

VARIABLES
  way,           \* "segments" without wind schedule, "wind", or "closed"
  stride,        \* sample_stride
  events,        \* what is scheduled
  pc, step,      \* next phase, and the boundary or step it is about
  state,         \* events the current state has been through
  stored         \* state stored for each boundary, None where there is none

config == <<way, stride, events>>
vars == <<way, stride, events, pc, step, state, stored>>

At(n) == {e \in events : e.step = n}

InForce(n) == {e \in events : e.step <= n}

Closed == way = "closed"

Init ==
  /\ way \in {"segments", "wind", "closed"}
  /\ stride \in 1..MaxStride
  /\ events \in SUBSET Event
  /\ way = "segments" => \A e \in events : e.what # "wind"
  /\ pc = "boundary"
  /\ step = 0
  /\ state = {}
  /\ stored = [n \in 0..Steps |-> IF n = 0 THEN {} ELSE None]

(* Events of a boundary are applied before the step that leaves it. The    *)
(* open loops replace the state stored for it, the sampled loop does so at *)
(* the first boundary only.                                                *)
Boundary ==
  /\ pc = "boundary"
  /\ state' = state \cup Moving(At(step))
  /\ stored' = IF Closed /\ step > 0 THEN stored ELSE [stored EXCEPT ![step] = state']
  /\ pc' = IF step = Steps THEN "done" ELSE "step"
  /\ UNCHANGED <<config, step>>

(* A jam beyond the travel of its actuator stops the stage without result. *)
JamRefused ==
  /\ pc = "boundary"
  /\ \E e \in At(step) : e.what = "jam"
  /\ pc' = "refused"
  /\ UNCHANGED <<config, step, state, stored>>

(* The open loops store every state and choose afterwards.                 *)
Integrate ==
  /\ pc = "step"
  /\ step' = step + 1
  /\ stored' = IF Closed => step' % stride = 0 \/ step' = Steps
               THEN [stored EXCEPT ![step'] = state] ELSE stored
  /\ pc' = "boundary"
  /\ UNCHANGED <<config, state>>

(* A step that cannot be taken ends the run with what it has; the reason   *)
(* is exported too.                                                        *)
Terminate ==
  /\ pc = "step"
  /\ pc' = "done"
  /\ UNCHANGED <<config, step, state, stored>>

Exported ==
  {n \in 0..Steps :
     /\ stored[n] # None
     /\ \/ Closed
        \/ n \in {0, step}
        \/ n % stride = 0
        \/ way = "segments" /\ At(n) # {}}

Next == Boundary \/ JamRefused \/ Integrate \/ Terminate

Spec == Init /\ [][Next]_vars

-----------------------------------------------------------------------------
(* The comment in sim.helicopter: the state stored for a boundary is the   *)
(* one after all events at it, so that no exported record pairs the wind   *)
(* and the failures of its time with a state from before them.             *)
SamplesAreAfterEvents ==
  pc = "done" => \A n \in Exported : stored[n] = Moving(InForce(n))
=============================================================================
