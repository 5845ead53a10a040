SPECIFICATION FairSpec
CONSTANTS
  Pods = {p1}
  Handlers = {h1}
  MaxUid = 1
  PodFinalizers <- NoFinalizers
  MaxEpoch = 2
  MaxRunners = 0
  MaxLag = 1
  MaxFaults = 1
  MaxFlaps = 0
  MaxCrashes = 1
  MaxShifts = 0
  MaxManagerRestarts = 1
  MaxTroubles = 1
  LongJobs = FALSE
PROPERTIES AcceptsOnlyUnregistered DeletedPodGoes IdleAgentReaped
