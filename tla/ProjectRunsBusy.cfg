SPECIFICATION Spec
CONSTANTS
  None = None
  Worker = {w1}
  Inspector = {i1}
  Revision = {a, b}
  Run = {r1}
  RunLimit = 1
  Mortal = {}
INVARIANT AllocationIsPrivate
