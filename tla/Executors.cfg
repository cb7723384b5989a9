SPECIFICATION Spec
CONSTANTS
  BatchSize = 4
  Threads = 2
  MaxTokens = 2
  Run <- MCRun
CHECK_DEADLOCK FALSE
INVARIANTS TypeOK OnlyWorkBehindAGapIsLost
PROPERTIES KeepsTheContract CallReturns
