SPECIFICATION Spec
CONSTANTS
  Build = "snobol4"
  PdlMax = 100
  Char <- Alphabet
  Vars = {"x", "y"}
  Requests <- R12
  Addresses <- A12
  Block <- B12
INVARIANTS NoStrayCursor NamesWithin OwnBlock NeverWild
PROPERTIES MatchesAsMeant CallerHistoryKept Terminates
