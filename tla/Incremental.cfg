SPECIFICATION SpecText
CONSTANTS
  Language = {"hand", "nom", "chumsky", "lua"}
  Lang <- MCLang
  Text <- MCText
  Opened <- MCOpened
  Typed <- MCTyped
  Hooks <- MCHooks
  Ctx <- MCCtx
  RootCtx <- FileCtx
  NumPasses = 3
  NoCap = NoCap
  RoundCap = NoCap
  EnforceShrink = FALSE
  ShortBatches = FALSE
  Parse <- AnyOutcome
  MaxRuns = 2
  MaxEdits = 2
  MaxCancels = 0
  MaxLen = 22
CHECK_DEADLOCK FALSE
INVARIANTS TextTypeOK EveryNodeIsCurrent SameAsFresh EditorShowsTheText SkeletonsFindTheProgram
PROPERTY CarriedOver
