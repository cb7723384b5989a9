SPECIFICATION Spec
CONSTANTS
  a = a
  b = b
  Ctx <- MCCtx
  RootCtx = a
  NumPasses = 2
  NoCap = NoCap
  RoundCap = 3
  EnforceShrink = TRUE
  ShortBatches = FALSE
  Parse <- ParseWild
  MaxRuns = 2
  MaxEdits = 2
  MaxCancels = 0
  MaxLen = 3
CHECK_DEADLOCK FALSE
INVARIANTS TypeOK SpansNested HomeRounds
PROPERTIES ExpansionsAreAllOrNothing EditsReopenFromTheRoot
