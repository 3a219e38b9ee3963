SPECIFICATION Spec
CONSTANTS
  Topics = {"fan"}
  Commanded = {}
  MaxConnects = 1
  PublishRetryCount = 1
  MaxSessions = 2
CHECK_DEADLOCK FALSE
PROPERTIES
  NeverOnlineAgain
