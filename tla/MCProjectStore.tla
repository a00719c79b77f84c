--------------------------- MODULE MCProjectStore ---------------------------
(* A starter draft, a second draft of the same kind, and two imported      *)
(* drafts with different source attachments.                               *)
EXTENDS ProjectStore, TLC

CONSTANTS starter, edited, imported, foreign, study1, study2

MCRevision == {starter, edited, imported, foreign}

MCOriginOf ==
  starter :> None @@ edited :> None @@ imported :> study1 @@ foreign :> study2
=============================================================================
