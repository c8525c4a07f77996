SPECIFICATION ProgramsSpec
CONSTANTS
  Programs <- MCPrograms
  Labels = {"A", "B", "END"}
  Extra = 9
INVARIANTS TreeAsMeant CodeAsWritten
PROPERTIES TablesAsMeant
CHECK_DEADLOCK FALSE
