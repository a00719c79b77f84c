---------------------------- MODULE SampledLoop ----------------------------
(***************************************************************************)
(* What a simulation under a sampled controller, a delay line, a zero-     *)
(* order hold and a sensor flies and exports. Three programs keep the same *)
(* contract, each with a schedule of its own: sim.plant (no controller,    *)
(* commands from a history), sim.sampled (perfect measurement) and         *)
(* run_sampled_loop under sim.helicopter.closed_loop (a sensor, and a      *)
(* policy for the measurements it misses).                                 *)
(*                                                                         *)
(* Numbers are left out. A plant state is the sequence of what has been    *)
(* done to it, so that two states are equal exactly when every step was    *)
(* flown under the same command and wind. A command is the tick whose law  *)
(* computed it; a wind or a reference is the boundary it dates from.       *)
(***************************************************************************)
EXTENDS Integers, FiniteSetsExt, SequencesExt

CONSTANTS
  Steps,         \* integration steps of a run
  MaxPeriod,     \* bound: steps of a controller period, of a sensor period
  MaxStride,     \* bound: sample_stride
  MaxDelay,      \* bound: delay_periods, latency_samples_
  MaxChanges,    \* bound: wind changes, scheduled commands, dropped samples
  None           \* the trim command, the wind of the trim, no sensor

ASSUME BoundsAssumption ==
  Steps \in Nat \ {0} /\ {MaxPeriod, MaxStride, MaxDelay, MaxChanges} \subseteq Nat

(* What can be done to a plant: a step, or a rebase. A measurement is a    *)
(* plant state, or the references of a boundary.                           *)
Deed ==
  [command : Nat \cup {None}, wind : Nat \cup {None}] \cup [rebased : Nat]

Measurement == Seq(Deed) \cup [reference : 0..Steps]

(* last_effective_measurement is an optional.                              *)
ASSUME NoneAssumption == None \notin Measurement

Few(S) == {D \in SUBSET S : Cardinality(D) <= MaxChanges}

Sensor ==
  [every : 1..MaxPeriod, latency : 0..MaxDelay, dropped : Few(0..Steps),
   policy : {"unavailable", "hold_last"}]

Study ==
  [way : {"plant"}, stride : 1..MaxStride, winds : Few(0..Steps), orders : Few(0..Steps)]
    \cup [way : {"sampled"}, period : {p \in 1..MaxPeriod : Steps % p = 0},
          delay : 0..MaxDelay, winds : Few(0..Steps)]
    \cup [way : {"loop"}, period : {p \in 1..MaxPeriod : Steps % p = 0},
          stride : 1..MaxStride, delay : 0..MaxDelay, winds : Few(0..Steps),
          sensor : Sensor \cup {None}, missing : {"refuse", "hold_last", "trim_fallback"}]

VARIABLES
  study,         \* what is simulated
  pc, step,      \* next phase, and the boundary it starts at
  state,         \* the plant
  boundaries,    \* sim.plant: where it still has to split the integration
  applied,       \* the command held now
  queue, head,   \* the delay line
  pending,       \* samples the sensor has taken and not delivered
  latest,        \* the sensor's reading
  held,          \* last_effective_measurement, None before the first
  ticks, stored  \* records of the ticks, and of the boundaries

loopVars == <<applied, queue, head, held, ticks>>
sensorVars == <<pending, latest>>
vars == <<study, pc, step, state, boundaries, loopVars, sensorVars, stored>>

(* The change in force from boundary n on: the latest one at or before it. *)
InForce(changes, n) ==
  IF \E c \in changes : c <= n THEN Max({c \in changes : c <= n}) ELSE None

(* A zero-order change of wind rebases the air-relative velocity.          *)
Rebased(s, n) == IF n \in study.winds THEN Append(s, [rebased |-> n]) ELSE s

(* So many steps under one command and one wind.                           *)
Flown(s, length, command, wind) ==
  s \o [i \in 1..length |-> [command |-> command, wind |-> wind]]

Goto(phase) == pc' = phase

NoReading == [available |-> FALSE, stale |-> FALSE, value |-> <<>>]

Init ==
  /\ study \in Study
  /\ pc = IF study.way = "plant" THEN "segment" ELSE "boundary"
  /\ step = 0
  /\ state = <<>>
  /\ boundaries = IF study.way = "plant" THEN study.winds \cup study.orders ELSE {}
  /\ applied = None
  /\ queue = IF study.way = "plant" THEN <<>> ELSE [i \in 0..study.delay |-> None]
  /\ head = 0
  /\ pending = <<>>
  /\ latest = NoReading
  /\ held = None
  /\ ticks = <<>>
  /\ stored = IF study.way = "loop" THEN <<[at |-> 0, state |-> <<>>, command |-> None]>>
              ELSE <<>>
-----------------------------------------------------------------------------
(* sim.plant: the integration is split wherever wind or command changes;   *)
(* every state is kept, the one of a boundary after its changes.           *)
Segment ==
  /\ pc = "segment"
  /\ LET stop    == IF boundaries = {} THEN Steps ELSE Min(boundaries)
         command == InForce(study.orders, step)
         wind    == InForce(study.winds, step)
         reached == Flown(state, stop - step, command, wind)
     IN /\ stored' = stored \o
             [i \in 1..(stop - step) |->
                [at |-> step + i - 1, state |-> Flown(state, i - 1, command, wind)]]
        /\ state' = IF boundaries = {} THEN reached ELSE Rebased(reached, stop)
        /\ step' = stop
        /\ boundaries' = boundaries \ {stop}
  /\ Goto(IF boundaries = {} THEN "close" ELSE "segment")
  /\ UNCHANGED <<study, loopVars, sensorVars>>

(* The subsampling, each sample with the values in force: sample i is      *)
(* step i - 1.                                                             *)
Subsampled(all) ==
  LET kept[i \in 0..Len(all)] ==
        IF i = 0 THEN <<>>
        ELSE IF (i - 1) % study.stride = 0 \/ i = Len(all)
        THEN Append(kept[i - 1], [at |-> all[i].at, state |-> all[i].state,
                                  command |-> InForce(study.orders, i - 1)])
        ELSE kept[i - 1]
  IN kept[Len(all)]

ClosePlant ==
  /\ pc = "close"
  /\ stored' = Subsampled(Append(stored, [at |-> Steps, state |-> state]))
  /\ Goto("done")
  /\ UNCHANGED <<study, step, state, boundaries, loopVars, sensorVars>>
-----------------------------------------------------------------------------
(* The sensor takes a sample when one is due, and delivers the oldest one  *)
(* when as many are waiting as its latency is long; a dropped sample is    *)
(* dropped on delivery.                                                    *)
Deliver(sample) ==
  latest' = IF sample.index \in study.sensor.dropped
            THEN [latest EXCEPT !.stale = TRUE,
                                !.available = @ /\ study.sensor.policy = "hold_last"]
            ELSE [available |-> TRUE, stale |-> FALSE, value |-> sample.value]

SampleIfDue(truth) ==
  IF step % study.sensor.every # 0 THEN UNCHANGED sensorVars
  ELSE LET waiting == Append(pending, [index |-> step \div study.sensor.every, value |-> truth])
       IN IF Len(waiting) <= study.sensor.latency
          THEN /\ pending' = waiting
               /\ latest' = [latest EXCEPT !.available = FALSE, !.stale = FALSE]
          ELSE /\ pending' = Tail(waiting)
               /\ Deliver(Head(waiting))

Measure(truth) ==
  IF study.sensor # None THEN SampleIfDue(truth)
  ELSE /\ latest' = [available |-> TRUE, stale |-> FALSE, value |-> truth]
       /\ UNCHANGED pending

IsTick == step % study.period = 0 /\ step < Steps

(* The boundary callback of the closed loop. Of the stored states it       *)
(* replaces the first only.                                                *)
Boundary ==
  /\ pc = "boundary"
  /\ study.way = "loop"
  /\ state' = Rebased(state, step)
  /\ Measure(state')
  /\ stored' = IF step = 0 THEN [stored EXCEPT ![1].state = state'] ELSE stored
  /\ Goto(IF IsTick THEN "tick" ELSE IF step = Steps THEN "done" ELSE "step")
  /\ UNCHANGED <<study, step, boundaries, loopVars>>

EffectiveReading ==
  IF latest.available \/ (study.missing = "hold_last" /\ held # None)
  THEN latest.value ELSE [reference |-> step]

(* What the controller works with. A missing measurement is replaced by    *)
(* the one it used last, which may have been a replacement itself, or by   *)
(* the references of the moment.                                           *)
Effective ==
  IF latest.available THEN latest.value
  ELSE IF study.missing = "hold_last" /\ held # None THEN held
  ELSE [reference |-> step]

(* Law, delay line and hold; the tick's number stands for what its law     *)
(* requests, saturated.                                                    *)
Release(reading, measurement) ==
  LET tick == Len(ticks)
      line == [queue EXCEPT ![head] = tick]
  IN /\ queue' = line
     /\ head' = (head + 1) % (study.delay + 1)
     /\ applied' = line[head']
     /\ ticks' = Append(ticks, [available |-> reading.available, stale |-> reading.stale,
                                measurement |-> measurement, applied |-> applied'])

(* The sample already stored for this boundary gets the new command.       *)
Relabelled == [stored EXCEPT ![Len(stored)].command = applied']

RelabelFirst == IF step = 0 THEN Relabelled ELSE stored

Relabel == IF Last(stored).at = step THEN Relabelled ELSE stored

Tick ==
  /\ pc = "tick"
  /\ latest.available \/ study.missing # "refuse"
  /\ held' = Effective
  /\ Release(latest, Effective)
  /\ stored' = Relabel
  /\ Goto("step")
  /\ UNCHANGED <<study, step, state, boundaries, sensorVars>>

(* Without a measurement and a policy for it the run ends without result.  *)
Refuse ==
  /\ pc = "tick"
  /\ ~latest.available
  /\ study.missing = "refuse"
  /\ Goto("refused")
  /\ UNCHANGED <<study, step, state, boundaries, loopVars, sensorVars, stored>>

Integrate ==
  /\ pc = "step"
  /\ study.way = "loop"
  /\ state' = Flown(state, 1, applied, InForce(study.winds, step))
  /\ step' = step + 1
  /\ stored' = IF step' % study.stride = 0 \/ step' = Steps
               THEN Append(stored, [at |-> step', state |-> state', command |-> applied])
               ELSE stored
  /\ Goto("boundary")
  /\ UNCHANGED <<study, boundaries, loopVars, sensorVars>>

(* A step that cannot be taken ends the closed loop with what it has, the  *)
(* other two without result.                                               *)
Terminate ==
  /\ pc \in {"segment", "step"}
  /\ Goto(IF study.way = "loop" THEN "done" ELSE "refused")
  /\ UNCHANGED <<study, step, state, boundaries, loopVars, sensorVars, stored>>
-----------------------------------------------------------------------------
(* sim.sampled: changes at the tick first, then measurement, law, delay    *)
(* and record.                                                             *)
SampledTick ==
  /\ pc = "boundary"
  /\ study.way = "sampled"
  /\ step < Steps
  /\ state' = Rebased(state, step)
  /\ Release([available |-> TRUE, stale |-> FALSE], state')
  /\ stored' = Append(stored, [at |-> step, state |-> state', command |-> applied'])
  /\ Goto("step")
  /\ UNCHANGED <<study, step, boundaries, held, sensorVars>>

(* The hold is split at a change inside the period. One at its end is left *)
(* to the next tick.                                                       *)
Hold ==
  /\ pc = "step"
  /\ study.way = "sampled"
  /\ LET end     == (step \div study.period + 1) * study.period
         stop    == Min({end} \cup {c \in study.winds : step < c /\ c < end})
         reached == Flown(state, stop - step, applied, InForce(study.winds, step))
     IN /\ state' = IF stop < end THEN Rebased(reached, stop) ELSE reached
        /\ step' = stop
        /\ Goto(IF stop < end THEN "step" ELSE "boundary")
  /\ UNCHANGED <<study, boundaries, loopVars, sensorVars, stored>>

CloseSampled ==
  /\ pc = "boundary"
  /\ study.way = "sampled"
  /\ step = Steps
  /\ state' = Rebased(state, step)
  /\ stored' = Append(stored, [at |-> step, state |-> state', command |-> applied])
  /\ Goto("done")
  /\ UNCHANGED <<study, step, boundaries, loopVars, sensorVars>>

(* predict_sampled_loop keeps a delay line of its own; what it has applied *)
(* and what its line holds after so many ticks.                            *)
Predicted ==
  LET size == study.delay + 1
      after[k \in 0..(Steps \div study.period)] ==
        IF k = 0 THEN [applied |-> <<>>, line |-> [i \in 0..study.delay |-> None]]
        ELSE LET line == [after[k - 1].line EXCEPT ![(k - 1) % size] = k - 1]
             IN [applied |-> Append(after[k - 1].applied, line[k % size]), line |-> line]
  IN after[Steps \div study.period].applied

Next ==
  \/ Segment \/ ClosePlant
  \/ Boundary \/ Tick \/ Refuse \/ Integrate \/ Terminate
  \/ SampledTick \/ Hold \/ CloseSampled

Spec == Init /\ [][Next]_vars

-----------------------------------------------------------------------------
(* The declared run, in the terms of the study alone. discrete.hpp:        *)
(* v[k] = u[k - d], and trim while k < d; the hold lasts to the next tick. *)
Command(n) ==
  IF study.way = "plant" THEN InForce(study.orders, n)
  ELSE LET tick == n \div study.period
       IN IF tick < study.delay THEN None ELSE tick - study.delay

Declared ==
  LET reached[n \in 0..Steps] ==
        Rebased(IF n = 0 THEN <<>>
                ELSE Append(reached[n - 1], [command |-> Command(n - 1),
                                             wind |-> InForce(study.winds, n - 1)]), n)
  IN reached

(* The lattice of the export.                                              *)
Stride == IF study.way = "sampled" THEN study.period ELSE study.stride

(* A simulation exports the declared run: each state was reached by flying *)
(* every earlier step under the wind in force at it and the command its    *)
(* delay line owed it, and is labelled with the command of the step that   *)
(* leaves it. In sim.plant and sim.sampled the state of a boundary is the  *)
(* one after its change of wind (simulation_events is about the closed     *)
(* loop). sim.sampled applies what predict_sampled_loop predicts.          *)
ExportIsTheDeclaredRun ==
  pc = "done" =>
    /\ \A i \in DOMAIN stored :
         LET r == stored[i]
         IN /\ r.command = IF study.way # "plant" /\ r.at = Steps THEN Command(Steps - 1)
                           ELSE Command(r.at)
            /\ IF study.way = "loop" /\ r.at \in study.winds \ {0}
               THEN Append(r.state, [rebased |-> r.at]) = Declared[r.at]
               ELSE r.state = Declared[r.at]
    /\ {stored[i].at : i \in DOMAIN stored} =
         {n \in 0..step : n = Steps \/ n % Stride = 0}
    /\ study.way = "sampled" => [k \in DOMAIN ticks |-> ticks[k].applied] = Predicted

(* A sensor with latency and dropouts delivers at boundary n the sample    *)
(* taken that many samples ago, or for a dropped one its policy.           *)
Reading(n) ==
  IF study.way = "sampled" \/ study.sensor = None
  THEN [available |-> TRUE, stale |-> FALSE, value |-> Declared[n]]
  ELSE LET due  == n \div study.sensor.every - study.sensor.latency
           good == (0..due) \ study.sensor.dropped
       IN IF due < 0 THEN [available |-> FALSE, stale |-> FALSE]
          ELSE IF due \notin good /\ (study.sensor.policy = "unavailable" \/ good = {})
          THEN [available |-> FALSE, stale |-> TRUE]
          ELSE [available |-> TRUE, stale |-> due \notin good,
                value |-> Declared[Max(good) * study.sensor.every]]

(* The controller never works with a measurement it should not have: each  *)
(* tick uses and reports what the sensor owes it, a state from after the   *)
(* events of the boundary it was sampled at, and without a reading what    *)
(* its policy names, hold_last the measurement of the last tick that had   *)
(* one.                                                                    *)
ControllerSeesItsReading ==
  \A k \in DOMAIN ticks :
    LET n       == (k - 1) * study.period
        had     == {j \in 1..(k - 1) : Reading((j - 1) * study.period).available}
        reading == Reading(n)
    IN /\ ticks[k].available = reading.available
       /\ ticks[k].stale = reading.stale
       /\ ticks[k].measurement =
            IF reading.available THEN reading.value
            ELSE IF study.missing = "trim_fallback" THEN [reference |-> n]
            ELSE IF had = {} THEN [reference |-> 0]
            ELSE Reading((Max(had) - 1) * study.period).value
=============================================================================
