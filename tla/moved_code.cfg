CONSTANTS
  Strings <- MCStrings
  Ids <- MCIds
  Hash <- MCHash
  Words <- MCWords
  Numbers <- MCNumbers
  HDSGPT = 1
  TLSGP1 = 17
  MaxStack = 1
  MaxSteps = 4
  Stale = TRUE
SPECIFICATION MCSpec
INVARIANT CodeKept
CHECK_DEADLOCK FALSE
