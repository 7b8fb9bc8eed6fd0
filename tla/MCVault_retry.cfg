SPECIFICATION Spec
CONSTANTS
  v1 = v1
  v2 = v2
  f1 = f1
  Vaults = {v1}
  NoVault = NoVault
  Files = {f1}
  Total <- JustTwo
  Pieces <- OneCut
  MaxWord = 5
  MaxBlobs = 2
  MaxPuts = 2
  MaxFaults = 1
INVARIANTS
  OkMeansServed
