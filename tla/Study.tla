------------------------------- MODULE Study -------------------------------
(***************************************************************************)
(* A study as the pipeline executor sees it: stages in declaration order,  *)
(* references between them, the files each reads and writes; and the       *)
(* computations on it that keep no state. A file is the canonical path of  *)
(* an input or the portable identity of an output.                         *)
(*                                                                         *)
(*   declared   the stage ids in the order of the document                 *)
(*   refs       the ids a stage's input refers to with {from: id}          *)
(*   source     the document itself                                        *)
(*   inputs     declared input roles of all stages, in preflight order:    *)
(*              bounded roles first, the strictest limit before the others *)
(*   late       files a stage reads without declaring a role for them      *)
(*   fits       stages that linearize, and so have evidence of their own   *)
(*   reserved   paths of a stage's declared output roles                   *)
(*   writes     outputs a stage publishes, in order; some are undeclared   *)
(***************************************************************************)
EXTENDS Integers, Sequences, Functions

CONSTANTS
  Executable,     \* the running binary and its modules, protected from outputs
  None            \* no such file; no such record

Ids(st) == Range(st.declared)

(* Stages that are not done and whose references are, by their position.   *)
Ready(st, done) == {i \in DOMAIN st.declared :
                      /\ st.declared[i] \notin done
                      /\ st.refs[st.declared[i]] \subseteq done}

(* Kahn's algorithm with the scan restarted after every stage: the next    *)
(* stage is the first declared one that is ready.                          *)
Extend(st, sofar) ==
  LET ready == Ready(st, Range(sofar))
      first == CHOOSE i \in ready : \A j \in ready : i <= j
  IN IF ready = {} THEN sofar ELSE Append(sofar, st.declared[first])

Rounds(st) ==
  LET order[k \in Nat] == IF k = 0 THEN <<>> ELSE Extend(st, order[k - 1])
  IN order

(* It stops early when nothing is ready.                                   *)
ExecutionOrder(st) == Rounds(st)[Len(st.declared)]

(* What parse_pipeline and execution_order accept: unique ids, defined     *)
(* references, none to itself, no cycle.                                   *)
WellFormed(st) ==
  /\ st.declared # <<>>
  /\ \A i, j \in DOMAIN st.declared : st.declared[i] = st.declared[j] => i = j
  /\ \A s \in Ids(st) : st.refs[s] \subseteq Ids(st) \ {s}
  /\ Len(ExecutionOrder(st)) = Len(st.declared)

(* Declared outputs are reserved one by one, each once.                    *)
ReservationsDistinct(st) ==
  \A s, t \in Ids(st) : \A i \in DOMAIN st.reserved[s], j \in DOMAIN st.reserved[t] :
    st.reserved[s][i] = st.reserved[t][j] => s = t /\ i = j

Reserved(st) == UNION {Range(st.reserved[s]) : s \in Ids(st)}

(* The bytes a stage publishes: whatever it computes from the input bytes  *)
(* of its run, and nothing else, since capabilities are deterministic.     *)
Product(s, f, inputs) == [by |-> s, named |-> f, from |-> inputs]

(* A stage's evidence map, source stage to linearization record, after the *)
(* executor has added the records of the stages it refers to. A record is  *)
(* named by the stage that computed it.                                    *)
Inherited(s, st, evidence) ==
  [src \in Ids(st) |->
     IF \E u \in st.refs[s] : evidence[u][src] # None
     THEN LET u == CHOOSE u \in st.refs[s] : evidence[u][src] # None
          IN evidence[u][src]
     ELSE None]

Merge(s, claim, st, evidence) ==
  [src \in Ids(st) |-> IF claim[src] # None THEN claim[src]
                       ELSE Inherited(s, st, evidence)[src]]

(* A record for another stage must be one a referenced stage passed on,    *)
(* and no referenced stage may disagree with what is passed on in turn.    *)
AcceptableUnlessReplaced(s, claim, st, evidence) ==
  \A src \in Ids(st), u \in st.refs[s] :
    evidence[u][src] \in {None, Merge(s, claim, st, evidence)[src]}

Acceptable(s, claim, st, evidence) ==
  \A src \in Ids(st) :
    /\ claim[src] # None /\ src # s =>
         \E u \in st.refs[s] : evidence[u][src] = claim[src]
    /\ \A u \in st.refs[s] :
         evidence[u][src] \in {None, Merge(s, claim, st, evidence)[src]}

(* What a capability may return: for any source stage nothing, a record of *)
(* its own making, or the one it was given.                                *)
Claims(s, st, evidence) ==
  [Ids(st) -> {None} \cup ({s} \cap st.fits)
                     \cup {Inherited(s, st, evidence)[src] : src \in Ids(st)}]

-----------------------------------------------------------------------------
(* References for the above, stated without the algorithms.                *)

(* Whatever contains the stages one refers to and, with a stage, those it  *)
(* refers to, contains all the one depends on.                             *)
DependsOn(st, s) ==
  {t \in Ids(st) : \A closed \in SUBSET Ids(st) :
     (\A u \in closed \cup {s} : st.refs[u] \cap Ids(st) \subseteq closed) => t \in closed}

(* Every stage once, each after the stages it refers to.                   *)
IsExecutionOrder(order, st) ==
  /\ Len(order) = Len(st.declared)
  /\ Range(order) = Ids(st)
  /\ \A i \in DOMAIN order : st.refs[order[i]] \subseteq {order[j] : j \in 1..(i - 1)}

(* An order exists exactly when every reference is defined and no stage    *)
(* depends on itself.                                                      *)
Acyclic(st) ==
  /\ \A s \in Ids(st) : st.refs[s] \subseteq Ids(st)
  /\ \A s \in Ids(st) : s \notin DependsOn(st, s)
=============================================================================
