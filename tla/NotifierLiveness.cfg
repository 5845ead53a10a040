SPECIFICATION FairNotifierSpec
CONSTANTS
  Runs = {r1}
  MaxAttempts = 2
  MaxTime = 2
  Retention = 1
  MaxHooks = 1
  MaxFaults = 1
  MaxCrashes = 1
  MaxTroubles = 1
PROPERTIES CompletionShown CompletionTold
CHECK_DEADLOCK FALSE
