SPECIFICATION Spec
CONSTANTS
  W = 4
  HalvingW <- Halving4
  Ops <- AllOps
  Addresses = {4, 12}
INVARIANTS
  ArithmeticExact
  NoTrap
  WideWithinOne
CHECK_DEADLOCK FALSE
