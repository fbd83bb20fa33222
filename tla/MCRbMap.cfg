SPECIFICATION FairSpec
CONSTANTS
  MaxNodes = 6
  Settings <- SettingsMC
INVARIANTS
  AssertionsHold
  RedBlack
  KeysOwned
PROPERTIES
  ImplementsMap
  CallsReturn
CHECK_DEADLOCK FALSE
