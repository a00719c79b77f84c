---------------------------- MODULE EditHistory ----------------------------
(***************************************************************************)
(* What the project store promises its editors, with no lock, no file and  *)
(* no failing process in sight: a set of retained revisions that only      *)
(* grows, and one current revision that moves by compare-and-set from the  *)
(* revision an editor has opened.                                          *)
(***************************************************************************)
CONSTANTS
  Editor,       \* the editors that open and save the project
  Revision,     \* revision identities; a revision is named by its content
  OriginOf,     \* the imported source attachment of each revision, or None
  None

VARIABLES
  head,         \* the current revision, None before the project exists
  retained,     \* every revision ever kept
  opened        \* the revision each editor has on its screen

vars == <<head, retained, opened>>

Init ==
  /\ head = None
  /\ retained = {}
  /\ opened = [e \in Editor |-> None]

(* A revision is kept before anything refers to it; nothing need ever do.  *)
Retain(r) ==
  /\ retained' = retained \cup {r}
  /\ UNCHANGED <<head, opened>>

(* The project comes into existence.                                       *)
Found(r) ==
  /\ head = None
  /\ r \in retained
  /\ head' = r
  /\ UNCHANGED <<retained, opened>>

(* An editor replaces exactly the revision it opened, by a retained one    *)
(* that keeps the same source attachment.                                  *)
CompareAndSet(e, r) ==
  /\ head # None
  /\ opened[e] = head
  /\ r \in retained
  /\ OriginOf[r] = OriginOf[head]
  /\ head' = r
  /\ UNCHANGED <<retained, opened>>

(* An editor takes the current revision as the base of its next edit.      *)
Open(e) ==
  /\ head # None
  /\ opened' = [opened EXCEPT ![e] = head]
  /\ UNCHANGED <<head, retained>>

Next ==
  \/ \E r \in Revision : Retain(r) \/ Found(r)
  \/ \E e \in Editor : Open(e) \/ \E r \in Revision : CompareAndSet(e, r)

Spec == Init /\ [][Next]_vars
=============================================================================
