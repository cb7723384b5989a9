SPECIFICATION Spec
CONSTANTS
  Enc = "utf16"
  Texts <- MCTexts
  Inserts <- MCInserts
  Overshoot = 1
  MaxChanges = 2
INVARIANTS TypeOK DocumentFollowsClient SpansFollowTheText ReplaceOnBoundaries RegionsOnBoundaries RoundTrip ColumnsStayOnTheirLine
CHECK_DEADLOCK FALSE
