SPECIFICATION Spec
CONSTANTS
  p1 = p1
  p2 = p2
  Procs = {p1, p2}
  NoProc = NoProc
  FRONT_MATTER_LEN = 1
  initial_leading_gap = 2
  initial_trailing_gap = 1
  relocation_leading_padding = 4
  relocation_trailing_padding = 3
  Plans <- SmallPlans
  MaxTxns = 4
  MaxFaults = 1
INVARIANTS
  RecoversWhenIdle
PROPERTIES
  ImplementsLog
CHECK_DEADLOCK FALSE
