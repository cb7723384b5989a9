SPECIFICATION Spec
CONSTANTS
  a = a
  b = b
  Ctx <- MCCtx
  RootCtx = a
  NumPasses = 2
  NoCap = NoCap
  RoundCap = NoCap
  EnforceShrink = FALSE
  ShortBatches = FALSE
  Parse <- ParseSmall
  MaxRuns = 2
  MaxEdits = 0
  MaxCancels = 1
  MaxLen = 2
CHECK_DEADLOCK FALSE
INVARIANT FixpointMeansSettled

