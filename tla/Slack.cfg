SPECIFICATION Spec
CONSTANTS
  Backends = {"InMemory", "FS", "KubeConfigMap"}
  Channels = {c1, c2}
  Conclusions = {"failure", "skipped"}
  Silent = {"skipped"}
  MaxLag = 2
  MaxFaults = 1
  MaxCrashes = 1
INVARIANTS SubscriptionKept OnlyMatchesTold EveryMatchTold
