SPECIFICATION Spec
CONSTANTS
  v1 = v1
  v2 = v2
  f1 = f1
  Vaults = {v1, v2}
  NoVault = NoVault
  Files = {f1}
  Total <- TwoAndOne
  Pieces <- Cuts
  MaxWord = 4
  MaxBlobs = 2
  MaxPuts = 2
  MaxFaults = 1
INVARIANTS
  TypeOK
  StoresOnce
  MarkerSeenMeansWhole
  ReadsItsWrites
  RangeReadIsSlice
  CursorReadsAll
  WholeReadIsOnePut
  ProbedBufferIsFilled
PROPERTIES
  PutsReturn
