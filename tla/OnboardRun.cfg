SPECIFICATION RunFairSpec
CHECK_DEADLOCK FALSE
CONSTANTS
  None = None
  Horizon = 3
  Cycles = 2
INVARIANTS TypeOK ArmedIsSupervised CyclesComplete
  StopsWithinOneCycle ExitIsSafe CompletionIsExact
PROPERTIES OutputsAnswerInputs RunEnds
