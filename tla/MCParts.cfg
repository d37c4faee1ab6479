SPECIFICATION PartsSpec
CONSTANTS
  None = None
  UdpFlow = {"f1", "f2"}
  UdpMode = {"off", "auto", "on"}
  UdpKind = {"relays", "deaf", "wants", "refuses", "down", "portless", "locked", "garbles"}
  UdpThreshold = 2
  UdpRoom = 4
  UdpBuffer = 2
  UdpChanges = 1
  Iface = {"e0", "t0"}
  Virtual = {"t0"}
  Wish = {"off", "physical"}
  Pins = TRUE
  Patience = 2
  EgressChanges = 3
  MapFetcher = {"p1", "p2"}
  MapBackend = {"memory", "disk"}
  MaxVersion = 2
  MaxAges = 1
  AddressKeys <- ThreeKeys
  MaxHints = 3
  Interfaces <- AtHome
  Manuals <- ByHand
  HintTTL = 3
  ScanClient = {"c1", "c2"}
  MaxCSI = 4
  MaxOSC = 6
  TitleMax = 2
  ScanTokens <- SomeTokens
  MaxTokens = 2
  Procs = 4
  Hops = 2
  Buckets = 4
  Window = 3
  AgentThreshold = 2
  Degrade = 2
  MaxQuiet = 4
  MaxTime = 4
  BoxSession = {"s1", "s2"}
  BoxMode = {"ro", "rw", "wo", "wo+"}
  MaxObjects = 3
  Role = {"forward", "serve", "udp", "client", "oneshot"}
  Via = {"direct", "proxy"}
  MaxSent = 1
  MaxPort = 4
  Ssh = 2
  Term = 3
  MaxWords = 2
  CommandMode = {"exec", "pipes", "pty", "conpty"}
  CommandRoom = 2
  MaxOut = 2
INVARIANTS
  TypesHold
  ProbeIsShared
  MapsAreWhole
  AddressRestores
  WrittenIsRead
  ScanFollows
  ClientIsTold
  VerdictHasGrounds
  BoxHolds
  WholeBothWays
  PortsAnswerAsAsked
  AddressIsEnough
  WholeOutput
PROPERTIES
  NotGivenUpLightly
CHECK_DEADLOCK FALSE
