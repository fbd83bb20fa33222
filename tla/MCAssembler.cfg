SPECIFICATION BothSpec
CONSTANTS
  Alphabets <- MCAlphabets
  Starts = {20, 1048576}
  Junk = {0, 36865}
  StagingAlphabets <- MCStagingAlphabets
INVARIANTS
  BothStagesAgree
  BothAsWritten
  SymbolsPlaced
  InsideBlock
CHECK_DEADLOCK FALSE
