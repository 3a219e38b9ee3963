SPECIFICATION FairSpec
CONSTANTS
  worker = worker
  settler = settler
  extra = extra
  Holders <- MCHolders
  Timeout = 3
INVARIANTS
  LiveHoldSuppresses
  CycleYieldsToHold
PROPERTIES
  SuppressionEnds
  ImplementsWritePriority
