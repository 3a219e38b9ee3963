SPECIFICATION Spec
CONSTANTS
  Files <- MCFiles
  Readings <- MCReadings
  NoReading = NoReading
  Nothing = Nothing
  MaxStarts = 3
INVARIANTS
  NoStaleEntity
  EntityCommandsAccepted
  DerivedFromReadings
CHECK_DEADLOCK FALSE
