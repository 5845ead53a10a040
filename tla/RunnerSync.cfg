SPECIFICATION FairSpec
CONSTANTS
  Names = {n1, n2, n3}
  PageSizes = {1, 2}
  MaxId = 4
  MaxEpoch = 2
  MaxFaults = 1
  MaxRestarts = 1
INVARIANTS TypeOK
PROPERTIES WholeList Refinement ListCatchesUp
CHECK_DEADLOCK FALSE
