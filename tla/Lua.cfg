SPECIFICATION Spec
CONSTANTS
  Configs <- MCConfigs
  Keys <- MCKeys
  Values <- MCValues
  MaxNesting = 1
  AsFloat <- MCAsFloat
  Items <- MCItems
  Region <- MCRegion
  MaxFields = 2
  MaxItems = 3
CHECK_DEADLOCK FALSE
INVARIANTS ReuseMatchesSameData AnswersAreTakenWhole
