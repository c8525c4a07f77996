SPECIFICATION Spec
CONSTANTS
  Build = "isnobol4"
  PdlMax = 100
  Char <- Alphabet
  Vars = {"x", "y"}
  Requests <- R9
  Addresses <- A9
  Block <- B9
INVARIANTS OfItsPattern
