SPECIFICATION ExportSpec
CONSTANTS
  None = None
  Worker = {w1, w2}
  Inspector = {x, i1}
  Exporter = x
  Revision = {a, b}
  Run = {r1, r2}
  RunLimit = 1
  Mortal = {w1, w2, i1}
SYMMETRY ExportSymmetry
INVARIANTS ExportTypeOK PackageVerifies PackageIsFinal VerdictsStand SubmissionFrozen CancelledInTime RunsBounded
PROPERTY PackageNamesHead
