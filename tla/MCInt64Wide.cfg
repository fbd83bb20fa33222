SPECIFICATION Spec
CONSTANTS
  W = 4
  HalvingW <- Halving4
  Ops = {"udiv", "umod"}
  Addresses = {4, 12}
INVARIANT
  DivisionExact
CHECK_DEADLOCK FALSE
