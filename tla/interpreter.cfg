CONSTANTS
  Programs <- MCPrograms
  Names <- MCNames
  Family = "all"
SPECIFICATION Spec
INVARIANTS TypeOK LevelIsDepth HandlerNext FailureIsOwn GoesOn OwnEntries
PROPERTIES ScopeKept Ends
