SPECIFICATION Spec
CONSTANTS
  a = a
  b = b
  Ctx <- MCCtx
  RootCtx = a
  NumPasses = 3
  NoCap = NoCap
  RoundCap = NoCap
  EnforceShrink = FALSE
  ShortBatches = FALSE
  Parse <- ParseDeep
  MaxRuns = 2
  MaxEdits = 1
  MaxCancels = 0
  MaxLen = 2
CHECK_DEADLOCK FALSE
INVARIANTS TreeShape NodeAtIsDeepest SettledAgreesWithPending FailuresAreOfferedOnce
PROPERTIES IdsAreStable RunsTouchOnlyReadyNodes
