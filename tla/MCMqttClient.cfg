SPECIFICATION FairSpec
CONSTANTS
  Topics = {"fan", "mode"}
  Commanded = {"fan"}
  MaxConnects = 2
  PublishRetryCount = 2
  MaxSessions = 2
CHECK_DEADLOCK FALSE
INVARIANTS
  AppliedOnce
PROPERTIES
  SubscriptionsRestored
  OnlineAgain
  DeadLooksOffline
  ShutdownEnds
