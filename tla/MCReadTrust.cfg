SPECIFICATION FairSpec
CONSTANTS
  Callers = {"cycle", "worker"}
  Raw = {0, 1, 2, 5, 7, 9}
  Divisor = 2
  Scale = 1
  MinValue = 0
  MaxValue = 4
  ConfirmStep = 1
  Retries = 1
  MaxChanges = 1
  MaxFailures = 1
  MaxCorrupted = 2
INVARIANTS
  DriftBounded
PROPERTIES
  TrustCatchesUp
