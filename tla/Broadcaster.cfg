SPECIFICATION FairSpec
CONSTANTS
  Subs = {s1, s2}
  Readers = {r1}
  MaxPublish = 2
INVARIANTS TypeOK
PROPERTIES Refinement CallsReturn LatestReaches Exits
CHECK_DEADLOCK FALSE
