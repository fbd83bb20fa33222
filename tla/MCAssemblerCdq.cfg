SPECIFICATION Spec
CONSTANTS
  Alphabets <- CdqAlphabet
  Starts = {20, 1048576}
  Junk = {0, 36865}
  StagingAlphabets <- MCStagingAlphabets
INVARIANT
  MnemonicsAsWritten
CHECK_DEADLOCK FALSE
