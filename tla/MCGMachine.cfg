SPECIFICATION TSpec
CONSTANTS
  Alphabets <- MCAlphabets
  Kernel <- MCKernel
  SYMBOL_TABLE_LEN = 8
  STACK_VARS_LEN = 4
  HeapStart = 40
  MaxStack = 5
INVARIANTS
  StagesAgree
  LabelsAreOfThisFile
  BranchesLand
  SlotsResolve
  TwinsAgree
CHECK_DEADLOCK FALSE
