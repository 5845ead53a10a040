SPECIFICATION Spec
CONSTANTS
  Pods = {p1}
  Handlers = {h1}
  MaxUid = 1
  PodFinalizers <- ForeignFinalizer
  MaxEpoch = 2
  MaxRunners = 2
  MaxLag = 0
  MaxFaults = 1
  MaxFlaps = 1
  MaxCrashes = 1
  MaxShifts = 1
  MaxManagerRestarts = 0
  MaxTroubles = 1
  LongJobs = FALSE
INVARIANTS PodKilledSafely Evidence
PROPERTIES FinalizerHeld
