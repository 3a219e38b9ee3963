SPECIFICATION FairSpec
CONSTANTS
  Registers = {"fan", "mode", "auto"}
  Delay = 3
  MaxBusy = 2
INVARIANTS
  LateByOneBatch
PROPERTIES
  QuietBeforeReread
  EveryRequestServed
CHECK_DEADLOCK FALSE
