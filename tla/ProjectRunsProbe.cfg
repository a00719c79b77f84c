SPECIFICATION Spec
CONSTANTS
  None = None
  Worker = {w1}
  Inspector = {i1, i2}
  Revision = {a, b}
  Run = {r1}
  RunLimit = 1
  Mortal = {w1}
PROPERTY RunningMeansOwned
