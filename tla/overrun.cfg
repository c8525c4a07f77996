SPECIFICATION AllSpec
CONSTANTS
  Programs <- MCStrings
  Labels = {"A", "B", "END"}
  Extra = 9
INVARIANTS CodeFits
CHECK_DEADLOCK FALSE
