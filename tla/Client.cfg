SPECIFICATION FairSpec
CONSTANTS
  Streams <- MCStreams
  Sessions <- MCSessions
  Junk = {0, 999}
  SinkSize = 1
INVARIANTS
  TypeOK
  ReceivedIsSent
  PostedIsTyped
  LeftBehind
PROPERTIES
  AcceptedIsPrinted
  QuitEnds
  ServerEndSeen
CHECK_DEADLOCK FALSE
