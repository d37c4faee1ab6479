SPECIFICATION LiveSpec
CONSTANTS
  Port = {t1, u1}
  UdpPort = {u1}
  Served = {u1}
  Hooked = {u1}
  Listener = {l1, l2}
  Flow = {f1}
  Accepter = {a1}
  None = None
  MaxChecks = 2
INVARIANTS
  TypesHold
  FoundWhileOpen
  FilterFollows
  ClosedWhenIdle
PROPERTIES
  NobodyWaitsOnClosed
  IdleIsClosed
  RegistersInBackground
  SessionReturns
  EndedIsReclaimed
  ExitIsTold
CHECK_DEADLOCK FALSE
