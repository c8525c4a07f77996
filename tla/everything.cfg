SPECIFICATION Spec
CONSTANTS
  Build = "snobol4"
  PdlMax = 16
  Char <- Alphabet
  Vars = {"x", "y"}
  Requests <- R4
  Addresses <- A4
  Block <- B4
INVARIANTS TypeOK   NamesUndone
