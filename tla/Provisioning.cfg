SPECIFICATION Spec
CONSTANTS
  Calls = {c1, c2}
  Vpcs = {v1, v2}
  Top = 15
  Sizes <- MCSizes
  Reserved <- MCReserved
  Quota = 2
  Attempts = 2
  None = None
  MaxFaults = 3
SYMMETRY Symmetric
INVARIANTS
  TypeOK
  OrphansNeedFaults
  ReservedSpared
