SPECIFICATION Spec
CONSTANTS
  Client = {c1, c2}
  DirectClient = {c1, c2}
  PingClient = {}
  LazyMax = 1
  MaxRuns = 2
SYMMETRY Symmetry
CONSTRAINT Explored
INVARIANTS
  AckMeansRegistered
  ReadyMeansAdmitted
  OutsidersStayOut
PROPERTIES
  MapStaysComplete
CHECK_DEADLOCK FALSE
