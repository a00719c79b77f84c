SPECIFICATION Spec
CHECK_DEADLOCK FALSE
CONSTANTS
  None = None
  Steps = 2
  MaxStride = 2
INVARIANT SamplesAreAfterEvents
