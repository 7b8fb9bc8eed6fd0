SPECIFICATION Spec
CONSTANTS
  t1 = t1
  t2 = t2
  tool = tool
  f1 = f1
  Threads = {t1, t2}
  Tools = {tool}
  NoCaller = NoCaller
  MaxBlobs = 2
  Files = {f1}
  Teams <- MCTeams
  MaxVaults = 2
  MaxFaults = 1
INVARIANTS
  TypeOK
  QuietOpens
  NumbersStayApart
  AcceptedOnce
  OpenSeesAll
PROPERTIES
  IndexesStay
  CallsEnd
CHECK_DEADLOCK FALSE
