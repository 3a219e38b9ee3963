SPECIFICATION FairSpec
CONSTANTS
  Writers = {"worker"}
  Grace = 4
  ExchangeTime = 1
  PublishTime = 2
  RetryDelay = 1
  PublishTries = 3
  FarewellTime = 1
  ConnectTries = 2
  StartTime = 5
  MaxSignals = 2
INVARIANTS
  ForcedOnlyForCause
PROPERTIES
  ShutdownEnds
CHECK_DEADLOCK FALSE
