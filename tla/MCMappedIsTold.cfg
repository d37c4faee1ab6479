SPECIFICATION Spec
CONSTANTS
  Peer = {p1}
  Routine = {r1, r2}
  PortLimit = 3
  Config <- Configs
SYMMETRY Symmetry
INVARIANTS MappedIsTold
CHECK_DEADLOCK FALSE
