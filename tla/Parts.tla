---- MODULE Parts ----
(***************************************************************************)
(* The smaller parts of the system, side by side.  They share nothing, so  *)
(* a behaviour is one of a single part: part says which, and it keeps its  *)
(* variables in x1 to x9, leaving what it does not need None.              *)
(***************************************************************************)
EXTENDS Integers, Sequences

CONSTANT None

\* The constants of each part, see its module.
CONSTANTS
  UdpFlow, UdpMode, UdpKind, UdpThreshold, UdpRoom, UdpBuffer, UdpChanges,
  Iface, Virtual, Wish, Pins, Patience, EgressChanges,
  MapFetcher, MapBackend, MaxVersion, MaxAges,
  AddressKeys,
  MaxHints, Interfaces, Manuals, HintTTL,
  ScanClient, MaxCSI, MaxOSC, TitleMax, ScanTokens, MaxTokens,
  Procs, Hops,
  Buckets, Window, AgentThreshold, Degrade, MaxQuiet, MaxTime,
  BoxSession, BoxMode, MaxObjects,
  Role, Via, MaxSent,
  MaxPort, Ssh, Term, MaxWords,
  CommandMode, CommandRoom, MaxOut

\* What the bounds and the choices are.
ASSUME UdpConstants ==
  /\ UdpThreshold \in Nat \ {0} /\ UdpRoom \in Nat /\ UdpBuffer \in Nat
  /\ UdpChanges \in Nat /\ None \notin UdpFlow
ASSUME EgressConstants ==
  Patience \in Nat /\ EgressChanges \in Nat /\ Wish \subseteq {"off", "physical"} \cup Iface
ASSUME MapConstants == MaxVersion \in Nat \ {0} /\ MaxAges \in Nat /\ None \notin Nat
ASSUME AddressConstants ==
  /\ AddressKeys \in Seq({AddressKeys[i] : i \in DOMAIN AddressKeys}) /\ AddressKeys # <<>>
  /\ \A i, j \in DOMAIN AddressKeys : AddressKeys[i] = AddressKeys[j] => i = j
  /\ \A i \in DOMAIN AddressKeys, kind \in {"own", "host"} : None # <<kind, AddressKeys[i]>>
ASSUME HintConstants ==
  /\ MaxHints \in Nat \ {0, 1}
  /\ Interfaces \in Seq({Interfaces[i] : i \in DOMAIN Interfaces})
  /\ \A m \in Manuals : m \in Seq({m[i] : i \in DOMAIN m})
ASSUME AgentConstants ==
  /\ Procs \in Nat /\ Hops \in Nat /\ None \notin Nat /\ None \notin {"codex", "claude"}
  /\ Buckets \in Nat \ {0} /\ Window \in Nat \ {0} /\ AgentThreshold \in Nat /\ MaxTime \in Nat
  /\ Degrade \in Nat /\ MaxQuiet \in Nat /\ Degrade < MaxQuiet
ASSUME BoxConstants == MaxObjects \in Nat /\ None \notin Nat
ASSUME CommandConstants == CommandRoom \in Nat /\ MaxOut \in Nat
ASSUME ServeConstants ==
  /\ MaxPort \in Nat /\ Ssh \in Nat /\ Ssh < MaxPort /\ MaxWords \in Nat
  /\ None \notin {"ssh files", "ssh command", "ssh shell", "term", "local", "exec", "stdout"}
  /\ None \notin Seq([first : 0 .. MaxPort, last : 0 .. MaxPort])
ASSUME ProxyConstants == MaxSent \in Nat /\ Via \subseteq {"direct", "proxy"}

VARIABLES part, x1, x2, x3, x4, x5, x6, x7, x8, x9

xs == <<x1, x2, x3, x4, x5, x6, x7, x8, x9>>

\* UDP over a proxy.
Udp == INSTANCE UdpForward WITH
  Flow <- UdpFlow, Mode <- UdpMode, Kind <- UdpKind, Threshold <- UdpThreshold,
  Room <- UdpRoom, Buffer <- UdpBuffer, MaxChanges <- UdpChanges,
  setup <- x1, proxy <- x2, verdict <- x3, inflight <- x4, flow <- x5

\* The bind to an interface.
Egress == INSTANCE EgressBind WITH
  MaxChanges <- EgressChanges,
  wish <- x1, net <- x2, changes <- x3, bound <- x4, netns <- x5, socket <- x6,
  engine <- x7, monitor <- x8, failed <- x9

\* The map of relays and its cache.
Map == INSTANCE RelayMap WITH
  Fetcher <- MapFetcher, Backend <- MapBackend,
  backend <- x1, server <- x2, cache <- x3, ages <- x4, fetch <- x5

\* The address a server prints.
Address == INSTANCE RelayAddress WITH
  Keys <- AddressKeys,
  map <- x1, info <- x2, step <- x3, addr <- x4, read <- x5

\* The endpoint hints of an address.
Hints == INSTANCE EndpointHints WITH
  TTL <- HintTTL,
  exit <- x1, seen <- x2, printed <- x3, client <- x4, used <- x5

\* A session's modes, and the frames of an attach.
Scan == INSTANCE TermScan WITH
  Client <- ScanClient, Tokens <- ScanTokens,
  scan <- x1, output <- x2, program <- x3, activity <- x4, attached <- x5,
  told <- x6

\* What runs in a session, by all the tables of some processes ...
Table == INSTANCE ProcessTable

\* ... and for how long.
Agent == INSTANCE TermAgent WITH
  Outcome <- Table!Outcome, Threshold <- AgentThreshold,
  now <- x1, buckets <- x2, agent <- x3, wrote <- x4, cause <- x5, found <- x6,
  ticks <- x7

\* The file service.
Box == INSTANCE DropBox WITH
  Session <- BoxSession, Mode <- BoxMode,
  mode <- x1, names <- x2, object <- x3, wrote <- x4, handle <- x5, told <- x6

\* A connection carried between two peers.
Proxy == INSTANCE Proxying WITH
  role <- x1, via <- x2, main <- x3, peer <- x4, conn <- x5, copy <- x6,
  fin <- x7, stop <- x8, late <- x9

\* The words and flags of serve.
Server == INSTANCE Serve WITH
  spec <- x1, phase <- x2, serve <- x3, filter <- x4, key <- x5, addr <- x6

\* A command run for a client.
Command == INSTANCE ServedCommand WITH
  Mode <- CommandMode, Room <- CommandRoom,
  mode <- x1, main <- x2, handles <- x3, writers <- x4, out <- x5, copies <- x6,
  client <- x7, window <- x8

-----------------------------------------------------------------------------
\* The program of a session writes what a program can write; and None is no frame.
ASSUME ScanConstants ==
  /\ MaxCSI \in Nat /\ MaxOSC \in Nat /\ TitleMax \in Nat \ {0} /\ MaxTokens \in Nat
  /\ ScanTokens \subseteq Scan!Token
  /\ None \notin ScanClient
  /\ None \notin [activity : Scan!Activity, title : Seq(Scan!Byte) \cup {None},
                  at : Seq(Scan!Byte)]

\* And None is no address, nor what is read of one.
ASSUME RelayConstants ==
  None \notin
    [id : Int, regions :
      Seq([id : Nat, code : {None} \cup Nat, nodes :
        Seq([key : Address!Key, name : Address!Name \cup {None}, host : BOOLEAN,
             region : Nat, stunOnly : BOOLEAN])])]

\* What a part leaves of them.
After5 == <<x6, x7, x8, x9>>
After6 == <<x7, x8, x9>>
After7 == <<x8, x9>>
After8 == <<x9>>

Unused8 == x9 = None
Unused7 == x8 = None /\ Unused8
Unused6 == x7 = None /\ Unused7
Unused5 == x6 = None /\ Unused6

PartsInit ==
  \/ part = "udp" /\ Udp!Init /\ Unused5
  \/ part = "egress" /\ Egress!Init
  \/ part = "map" /\ Map!Init /\ Unused5
  \/ part = "address" /\ Address!Init /\ Unused5
  \/ part = "hints" /\ Hints!Init /\ Unused5
  \/ part = "scan" /\ Scan!Init /\ Unused6
  \/ part = "agent" /\ Agent!Init /\ Unused7
  \/ part = "box" /\ Box!Init /\ Unused6
  \/ part = "proxying" /\ Proxy!Init
  \/ part = "serve" /\ Server!Init /\ Unused6
  \/ part = "command" /\ Command!Init /\ Unused8

PartsNext ==
  \/ part = "udp" /\ Udp!Next /\ UNCHANGED <<part, After5>>
  \/ part = "egress" /\ Egress!Next /\ UNCHANGED part
  \/ part = "map" /\ Map!Next /\ UNCHANGED <<part, After5>>
  \/ part = "address" /\ Address!Next /\ UNCHANGED <<part, After5>>
  \/ part = "hints" /\ Hints!Next /\ UNCHANGED <<part, After5>>
  \/ part = "scan" /\ Scan!Next /\ UNCHANGED <<part, After6>>
  \/ part = "agent" /\ Agent!Next /\ UNCHANGED <<part, After7>>
  \/ part = "box" /\ Box!Next /\ UNCHANGED <<part, After6>>
  \/ part = "proxying" /\ Proxy!Next /\ UNCHANGED part
  \/ part = "serve" /\ Server!Next /\ UNCHANGED <<part, After6>>
  \/ part = "command" /\ Command!Next /\ UNCHANGED <<part, After8>>

PartsSpec == PartsInit /\ [][PartsNext]_<<part, xs>>

-----------------------------------------------------------------------------
(* Properties *)

\* Every part's variables have their types.
TypesHold ==
  /\ part = "udp" => Udp!TypeOK
  /\ part = "egress" => Egress!TypeOK
  /\ part = "map" => Map!TypeOK
  /\ part = "address" => Address!TypeOK
  /\ part = "hints" => Hints!TypeOK
  /\ part = "scan" => Scan!TypeOK
  /\ part = "agent" => Agent!TypeOK
  /\ part = "box" => Box!TypeOK
  /\ part = "proxying" => Proxy!TypeOK
  /\ part = "serve" => Server!TypeOK
  /\ part = "command" => Command!TypeOK

\* Each of these is what the module of its part says under the same name, of the
\* code that module models (EgressBind: egressbind.go; and so on).
ProbeIsShared == part = "udp" => Udp!ProbeIsShared
NotGivenUpLightly == [][part = "egress" => Egress!GivenUpOnlyAfter]_<<part, x4, x9>>
MapsAreWhole == part = "map" => Map!MapsAreWhole
AddressRestores == part = "address" => Address!AddressRestores
WrittenIsRead == part = "hints" => Hints!WrittenIsRead
ScanFollows == part = "scan" => Scan!ScanFollows
ClientIsTold == part = "scan" => Scan!ClientIsTold
VerdictHasGrounds == part = "agent" => Agent!VerdictHasGrounds
BoxHolds == part = "box" => Box!BoxHolds
WholeBothWays == part = "proxying" => Proxy!WholeBothWays
PortsAnswerAsAsked == part = "serve" => Server!PortsAnswerAsAsked
AddressIsEnough == part = "serve" => Server!AddressIsEnough
WholeOutput == part = "command" => Command!WholeOutput

=============================================================================
