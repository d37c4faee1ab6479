SPECIFICATION FairSpec
CONSTANTS
  Mode = {"exec", "pipes", "pty", "conpty"}
  Room = 2
  MaxOut = 2
PROPERTIES ExecCloses
CHECK_DEADLOCK FALSE
