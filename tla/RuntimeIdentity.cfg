SPECIFICATION IdentitySpec
CONSTANTS
  j1 = j1
  j2 = j2
  w1 = w1
  w2 = w2
  i1 = i1
  i2 = i2
  Apis = {api}
  Workers = {w1, w2}
  Jobs = {j1, j2}
  Images = {i1, i2}
  Unset = Unset
  Unknown = Unknown
  NoProcess = NoProcess
  MaxRebuilds = 2
  MaxFailures = 2
  MaxRestarts = 2
SYMMETRY Symmetry
INVARIANTS
  CompletedAsAccepted
PROPERTIES
  IdentityIsStable
CHECK_DEADLOCK FALSE
