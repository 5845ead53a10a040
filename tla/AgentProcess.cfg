SPECIFICATION FairSpec
CONSTANTS
  MaxRetries = 2
  MaxFaults = 2
INVARIANTS TypeOK ConfiguredFirst StaysUntilTold
PROPERTIES EndReported EndsWhenTold Refinement
CHECK_DEADLOCK FALSE
