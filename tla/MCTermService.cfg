SPECIFICATION Spec
CONSTANTS
  Name = {n1, n2}
  Session = {s1, s2}
  Client = {c1, c2}
  Killer = {k1}
  MaxSessions = 1
  None = None
INVARIANTS
  RegisteredUntilReclaimed
  TruthfulEnd
PROPERTIES
  ServesNames
  NoSilentClient
SYMMETRY Symmetry
CHECK_DEADLOCK FALSE
