SPECIFICATION Spec
CONSTANTS
  Pods = {p1}
  Handlers = {h1}
  MaxUid = 1
  PodFinalizers <- NoFinalizers
  MaxEpoch = 2
  MaxRunners = 1
  MaxLag = 1
  MaxFaults = 1
  MaxFlaps = 0
  MaxCrashes = 0
  MaxShifts = 0
  MaxManagerRestarts = 0
  MaxTroubles = 1
  LongJobs = FALSE
INVARIANTS TypeOK GoneIsGone
PROPERTIES FinalizerHeld
