SPECIFICATION Spec
CONSTANTS
  c1 = c1
  c2 = c2
  nobody = nobody
  Clients = {c1, c2}
  Nobody = nobody
  Fds = {5, 6}
  Senders = {c1, c2}
  MaxMessages = 1
  SinkSize = 2
  Leavers = {}
  SlowReaders = {c2}
  MayStop = FALSE
INVARIANTS
  BroadcastReachesAll
CHECK_DEADLOCK FALSE
