---------------------------- MODULE StudyRecord ----------------------------
(***************************************************************************)
(* What the executor promises about run manifests, with no files and no    *)
(* stages in sight: each run is decided once, a run that is given up       *)
(* leaves no record, and a record appears in one piece, whole, at the      *)
(* moment its run completes. Runs that did the same thing share a record.  *)
(***************************************************************************)
EXTENDS Study

CONSTANT Run

VARIABLES
  outcome,       \* "open", "completed" or "abandoned" for each run
  records        \* completed-run records, named by their content

vars == <<outcome, records>>

(* A record names every stage in an order that could be executed and every *)
(* file the stages publish, and no other.                                  *)
Whole(m) ==
  /\ IsExecutionOrder(m.order, m.study)
  /\ \A f \in DOMAIN m.outputs :
       m.outputs[f] # None <=> \E s \in Ids(m.study) : f \in Range(m.study.writes[s])

Init ==
  /\ outcome = [r \in Run |-> "open"]
  /\ records = {}

Complete(r) ==
  /\ outcome[r] = "open"
  /\ outcome' = [outcome EXCEPT ![r] = "completed"]
  /\ \E m \in records' :
       /\ Whole(m)
       /\ records' = records \cup {m}

Abandon(r) ==
  /\ outcome[r] = "open"
  /\ outcome' = [outcome EXCEPT ![r] = "abandoned"]
  /\ UNCHANGED records

Next == \E r \in Run : Complete(r) \/ Abandon(r)

Spec == Init /\ [][Next]_vars
=============================================================================
