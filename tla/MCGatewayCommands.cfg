SPECIFICATION GatewaySpec
CONSTANTS
  fan = fan
  rod = rod
  stage0 = stage0
  stage3 = stage3
  junk = junk
  NoValue = NoValue
  NoRegister = NoRegister
  Holders <- MCHolders
  Timeout = 1
  Registers = {fan}
  Readable = {fan}
  Values <- MCValues
  Refusable = {}
  QueueDepth = 2
  MaxCommands = 3
  MaxDrifts = 1
  Polling = FALSE
SYMMETRY ValueSymmetry
INVARIANTS
  NoHoldLeaks
  RereadOwed
  OnlyReportedState
PROPERTIES
  DropsOnlyConfirmed
CHECK_DEADLOCK FALSE
