SPECIFICATION Spec
CONSTANTS
  None = None
  Horizon = 1
INVARIANT FaultMeansDisconnected
