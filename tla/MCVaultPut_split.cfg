SPECIFICATION Spec
CONSTANTS
  f1 = f1
  f2 = f2
  f3 = f3
  f4 = f4
  Files = {f1, f2, f3}
  Size <- ThreeSizes
  max_chunk_size = 3
  max_blob_size = 10
  Policies = {"split"}
  CHUNK_COST = 2
  COMPLETE_COST = 1
  MaxBlobs = 7
  MaxFaults = 0
INVARIANTS
  AppendsAreBounded
CHECK_DEADLOCK FALSE
