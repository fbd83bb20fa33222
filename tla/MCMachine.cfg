SPECIFICATION MSpec
CONSTANTS
  Jobs <- MCJobs
  Base = 100
  MaxStack = 13
INVARIANTS
  RunsAsC
  VariablesInPlace
