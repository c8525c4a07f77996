SPECIFICATION Spec
CONSTANTS
  Build = "isnobol4"
  PdlMax = 100
  Char <- Alphabet
  Vars = {"x", "y"}
  Requests <- R5
  Addresses <- A5
  Block <- B5
INVARIANTS NoneMissed
