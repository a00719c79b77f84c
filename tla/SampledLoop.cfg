SPECIFICATION Spec
CHECK_DEADLOCK FALSE
CONSTANTS
  None = None
  Steps = 4
  MaxPeriod = 2
  MaxStride = 2
  MaxDelay = 2
  MaxChanges = 2
INVARIANTS ExportIsTheDeclaredRun ControllerSeesItsReading
