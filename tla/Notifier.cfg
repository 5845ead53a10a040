SPECIFICATION NotifierSpec
CONSTANTS
  Runs = {r1}
  MaxAttempts = 2
  MaxTime = 2
  Retention = 1
  MaxHooks = 2
  MaxFaults = 1
  MaxCrashes = 1
  MaxTroubles = 2
INVARIANTS SyncTypeOK AttemptsApart ToldOnce
PROPERTIES NoStepBack
CHECK_DEADLOCK FALSE
