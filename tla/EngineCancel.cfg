SPECIFICATION Spec
CONSTANTS
  a = a
  b = b
  Ctx <- MCCtx
  RootCtx = a
  NumPasses = 2
  NoCap = NoCap
  RoundCap = NoCap
  EnforceShrink = FALSE
  ShortBatches = TRUE
  Parse <- ParseSmall
  MaxRuns = 2
  MaxEdits = 1
  MaxCancels = 1
  MaxLen = 2
CHECK_DEADLOCK FALSE
INVARIANTS BatchStaysReady NothingLeftBehind FirstFixpointIsTrue ReportIsReadable
PROPERTY RunsReturn
