CONSTANTS
  Strings <- MCStrings
  Ids <- MCIds
  Hash <- MCHash
  Words <- MCWords
  Numbers <- MCNumbers
  HDSGPT = 1
  TLSGP1 = 17
  MaxStack = 1
  MaxSteps = 4
  Stale = FALSE
  Calls <- MCCalls
  Identifiers = {"f"}
  Lval = "<lval>"
  MaxEvents = 3
  Capacity = 2
  Functions = {"f", "g", "SQRT"}
  Pml = {"SQRT"}
  Libs = {"a", "aa", "b", "z"}
  Absolute = {}
  FileOf <- MCFileOf
  Symbols <- MCSymbols
  Missing = "none"
  Places <- MCPlaces
  Careless = FALSE
  NUNITS = 20
  UnitNos = {5, 20}
  UNITI = 5
  Std = "s"
  StdName = "stdin"
  Lines <- MCLines
  IncludeOf <- MCIncludeOf
  EndLine = "END"
  Commands <- MCCommands
  Inputs = {"s", "j", "o", "none"}
  Outputs = {"o"}
  MaxOps = 4
  Misused = FALSE
SPECIFICATION AllSpec
INVARIANTS TypeOK OneForEachText TableOfItsString OnlyWhenFull Announced LockStep EndSeen Counted TextAsWritten FilesOwned
PROPERTIES Unmoved ChannelFinishes CallsItsOwn FailsClean 
CHECK_DEADLOCK FALSE
