SPECIFICATION Spec
CONSTANTS
  Build = "snobol4"
  PdlMax = 100
  Char <- Alphabet
  Vars = {"x", "y"}
  Requests <- R6
  Addresses <- A6
  Block <- B6
INVARIANTS BreakxIsItsEquivalent
