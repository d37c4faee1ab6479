SPECIFICATION Spec
CONSTANTS
  Role = {"forward", "serve", "udp", "client", "oneshot"}
  Via = {"direct", "proxy"}
  MaxSent = 1
INVARIANTS HalfCloseIsCarried
CHECK_DEADLOCK FALSE
