--------------------------- MODULE MCReviewExport ---------------------------
(* Symmetric instances of an export among workers.                         *)
EXTENDS ReviewExport, TLC

ExportSymmetry == Permutations(Worker) \cup Permutations(Run) \cup Permutations(Revision)
=============================================================================
