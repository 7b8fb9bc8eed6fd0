SPECIFICATION Spec
CONSTANTS
  p1 = p1
  p2 = p2
  Procs = {p1, p2}
  NoProc = NoProc
  FRONT_MATTER_LEN = 1
  initial_leading_gap = 1
  initial_trailing_gap = 1
  relocation_leading_padding = 1
  relocation_trailing_padding = 1
  Plans <- MixedPlans
  MaxTxns = 3
  MaxFaults = 2
SYMMETRY ProcSymmetry
INVARIANTS
  TypeOK
  LocatorsInBounds
  CommittedIndexReadable
  AckedSurvivesCrash
  CommittedChunksIntact
  SnapshotSound
  KeystreamOnceUncut
  StatsPartitionBody
CHECK_DEADLOCK FALSE
