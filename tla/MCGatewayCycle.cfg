SPECIFICATION MCLiveSpec
CONSTANTS
  fan = fan
  rod = rod
  stage0 = stage0
  stage3 = stage3
  junk = junk
  NoValue = NoValue
  NoRegister = NoRegister
  Holders <- MCHolders
  Timeout = 1
  Registers = {fan, rod}
  Readable = {fan}
  Values <- MCValues
  Refusable = {junk}
  QueueDepth = 1
  MaxCommands = 1
  MaxDrifts = 0
  Polling = TRUE
PROPERTIES
  WriteHasPriority
  TopicsConverge
