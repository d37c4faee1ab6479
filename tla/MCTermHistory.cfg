SPECIFICATION Spec
CONSTANTS
  NL = NL
  ESC = ESC
  NUL = NUL
  Byte = {NL, ESC, NUL}
  History = 3
  Replay = 2
  ReplayEpoch = "last"
  ReplayTrim = 1
  DataChunk = 1
  ReadMax = 4
  EpochMax = 1
  Client = {c1, c2}
  NoClient = NoClient
  MaxOut = 4
SYMMETRY Symmetry
INVARIANTS
  TypeOK
  RingHoldsTail
  FaithfulDelivery
  LiveIsCaughtUp
  GapOnlyIfTold
  UnflaggedReplayHasHead
CHECK_DEADLOCK FALSE
