SPECIFICATION Spec
CONSTANTS
  Build = "isnobol4"
  PdlMax = 100
  Char <- Alphabet
  Vars = {"x", "y"}
  Requests <- R3
  Addresses <- A3
  Block <- B3
INVARIANTS OwnBlock
PROPERTIES MatchesAsMeant Terminates
