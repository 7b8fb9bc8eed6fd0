SPECIFICATION Spec
CONSTANTS
  f1 = f1
  f2 = f2
  f3 = f3
  f4 = f4
  Files = {f1, f2, f3, f4}
  Size <- FourSizes
  max_chunk_size = 3
  max_blob_size = 10
  Policies = {"whole", "stripe"}
  CHUNK_COST = 2
  COMPLETE_COST = 1
  MaxBlobs = 8
  MaxFaults = 1
INVARIANTS
  TypeOK
  MarkerMeansWhole
  WithinCapacity
  AppendsAreBounded
PROPERTIES
  PutReturns
CHECK_DEADLOCK FALSE
