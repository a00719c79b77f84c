SPECIFICATION FairSpec
CONSTANTS
  None = None
  Worker = {w1, w2}
  Inspector = {i1}
  Revision = {a, b}
  Run = {r1}
  RunLimit = 1
  Mortal = {w1}
PROPERTIES RequestsDecided AbandonedGetsReported
