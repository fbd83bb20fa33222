SPECIFICATION TSpec
CONSTANTS
  Alphabets <- LoopAlphabet
  Kernel <- MCKernel
  SYMBOL_TABLE_LEN = 9
  STACK_VARS_LEN = 4
  HeapStart = 40
  MaxStack = 5
INVARIANT
  SlotsResolveAnyCondition
CHECK_DEADLOCK FALSE
