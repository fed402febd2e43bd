SPECIFICATION Spec
CONSTANTS
  c1 = c1
  c2 = c2
  nobody = nobody
  Clients = {c1, c2}
  Nobody = nobody
  Fds = {5, 6}
  Senders = {c1}
  MaxMessages = 2
  SinkSize = 2
  Leavers = {c1}
  SlowReaders = {c2}
  MayStop = FALSE
INVARIANTS
  TypeOK
  ConnectionMapIsOpenFds
  BroadcastsComplete
  PrivateInOrder
  MisroutedOnlyAfterClosing
PROPERTIES
  ExchangeSpec
CHECK_DEADLOCK FALSE
