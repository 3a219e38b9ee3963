SPECIFICATION FairBusSpec
CONSTANTS
  fan = fan
  mode = mode
  Registers <- MCRegisters
  MaxFrameLen = 2
  ResponseTimeout = 1
  BusQuietGap = 2
  BusQuietMaxWait = 2
  InputSize = 2
  MaxAsked = 1
  MaxLosses = 2
PROPERTIES
  NothingLeftOver
  SplicedOnlyByLoss
  NoReplyOverlooked
  ExchangeEnds
