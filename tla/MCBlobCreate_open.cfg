SPECIFICATION Spec
CONSTANTS
  c1 = c1
  c2 = c2
  o1 = o1
  Creators = {c1, c2}
  Openers = {o1}
  NoProc = NoProc
  LEADING = 1
  TRAILING = 1
  MaxKeys = 3
  MaxTxns = 2
  MaxFaults = 2
SYMMETRY CreatorSymmetry
INVARIANTS
  TypeOK
  KeysAgree
  OpenedIsWritable
  AckedKeptUnraced
CHECK_DEADLOCK FALSE
