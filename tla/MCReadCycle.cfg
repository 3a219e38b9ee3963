SPECIFICATION FairSpec
CONSTANTS
  Configs <- MCConfigs
  Durations <- MCDurations
  Transmission = 4
  MaxDisturbances = 2
INVARIANTS
  CycleWithinBudget
  ExpiresOnlyAfterFailures
PROPERTIES
  PollingGoesOn
CHECK_DEADLOCK FALSE
