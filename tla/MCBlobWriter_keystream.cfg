SPECIFICATION Spec
CONSTANTS
  p1 = p1
  p2 = p2
  Procs = {p1, p2}
  NoProc = NoProc
  FRONT_MATTER_LEN = 1
  initial_leading_gap = 3
  initial_trailing_gap = 2
  relocation_leading_padding = 3
  relocation_trailing_padding = 1
  Plans <- SmallPlans
  MaxTxns = 2
  MaxFaults = 1
SYMMETRY ProcSymmetry
INVARIANTS
  KeystreamOnce
CHECK_DEADLOCK FALSE
