SPECIFICATION FairSpec
CONSTANTS
  Agents = {a1, a2}
  Validity = 4
  Margin = 2
  MaxTime = 6
  MaxFaults = 1
  MaxRestarts = 1
INVARIANTS TypeOK TokenFresh
PROPERTIES StoreGrows EveryoneServed
