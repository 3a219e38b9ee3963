SPECIFICATION LuckySpec
CONSTANTS
  Clients = {"worker", "poller"}
  ReopenBackoff = 1
  MaxReopenBackoff = 3
  HealthCheckInterval = 1
INVARIANTS
  WireExclusive
  UnhealthyForCause
  ClosedForGood
PROPERTIES
  ReopensApart
  BackoffEarned
  PortRecovers
