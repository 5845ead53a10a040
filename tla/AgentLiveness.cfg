SPECIFICATION FairSpec
CONSTANTS
  Pods = {p1}
  Handlers = {h1}
  MaxUid = 1
  PodFinalizers <- NoFinalizers
  MaxEpoch = 2
  MaxRunners = 1
  MaxLag = 0
  MaxFaults = 0
  MaxFlaps = 0
  MaxCrashes = 0
  MaxShifts = 0
  MaxManagerRestarts = 0
  MaxTroubles = 1
  LongJobs = TRUE
INVARIANTS PodKilledSafely
PROPERTIES IdleAgentReaped BusyShown
