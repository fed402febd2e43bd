SPECIFICATION Spec
CONSTANTS
  c1 = c1
  c2 = c2
  nobody = nobody
  Clients = {c1, c2}
  Nobody = nobody
  Fds = {5}
  Senders = {c1, c2}
  MaxMessages = 1
  SinkSize = 2
  Leavers = {c1}
  SlowReaders = {}
  MayStop = FALSE
INVARIANTS
  PrivateToOriginatorOnly
CHECK_DEADLOCK FALSE
