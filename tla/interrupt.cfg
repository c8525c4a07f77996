CONSTANTS
  Programs <- MCPrograms
  Names <- MCNames
  Family = "interrupt"
SPECIFICATION Spec
INVARIANT GoesOn
