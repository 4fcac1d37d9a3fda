SPECIFICATION ServerSpec
CONSTANTS
  Events = {m1}
  Unknown = {u1}
  NotJson = {n1}
  JsonNull = {z1}
  Requests = {r1}
  Signals = {SIGTERM, SIGINT}
  MaxTries = 1
  Running = Running
INVARIANTS
  ServerTypeOK
  NoMessageLost
  GracefulExit
  ReadyIsTrue
  ErrorsAreContained
PROPERTY ShutdownEnds
CHECK_DEADLOCK FALSE
