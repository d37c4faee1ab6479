---- MODULE Advertise ----
(***************************************************************************)
(* How a server tells its peers where it can be reached without the relay: *)
(* onEngineStatus, onMeow and a rebind each start a goroutine that runs    *)
(* advertiseEndpoints (src/tailcat.go:1784-1963, 2127-2178), while UPnP    *)
(* may get another external port at any time (src/portmapping.go:251-335). *)
(*                                                                         *)
(* b.eps, b.nm and mappedPort are read and written in sections of b.mu, an *)
(* action each.  A port is a number below PortLimit, which stands for      *)
(* 2^16; 0 means none.  An endpoint is the address on the local network or *)
(* the one STUN has learnt, with a port.                                   *)
(***************************************************************************)
EXTENDS Naturals

CONSTANTS
  Peer,
  Routine,   \* bound: goroutines in advertiseEndpoints at the same time
  PortLimit,
  Config     \* AdvertiseUDPPort, whether ListenPort is set, and the port that
             \* magicsock has bound, which is another one if that was taken

VARIABLES
  config,  \* of the server, an element of Config
  mapped,  \* mappedPort
  locals,  \* what magicsock reports as its endpoints
  status,  \* the call of onEngineStatus
  eps,     \* b.eps
  peers,   \* b.nm.Peers
  routine, \* the goroutines in advertiseEndpoints
  told     \* history: the endpoints a peer was sent

vars == <<config, mapped, locals, status, eps, peers, routine, told>>

Port == 1 .. PortLimit - 1

ASSUME AdvertiseAssumption ==
  /\ PortLimit \in Nat
  /\ Config \subseteq [advertise : {0} \cup Port, listen : BOOLEAN, bound : Port]

Endpoint == [addr : {"lan", "pub"}, port : Port]

Public(port) == [addr |-> "pub", port |-> port]

-----------------------------------------------------------------------------
(* The engine and the router *)

\* magicsock's view of the network changes.
LocalsChange(l) ==
  /\ l # locals
  /\ locals' = l
  /\ UNCHANGED <<config, mapped, status, eps, peers, routine, told>>

\* ensurePortMapping asks for the bound port, and if refused for the next one.
External == {config.bound, (config.bound + 1) % PortLimit}

\* startPortMapping, at first and every 30 minutes; a failure changes nothing.
GetsMapped(ext) ==
  /\ ext \in External
  /\ mapped' = ext
  /\ UNCHANGED <<config, locals, status, eps, peers, routine, told>>

-----------------------------------------------------------------------------
(* What starts the goroutines *)

Spawn(r) ==
  /\ routine[r].pc = "idle"
  /\ routine' = [routine EXCEPT ![r].pc = "started"]

\* The endpoints to advertise: those of the report, and next to a public one the
\* port that was configured or mapped for it.
Computed(l, m) ==
  LET port == IF config.advertise # 0 THEN config.advertise ELSE m
      public == \E e \in l : e.addr = "pub"
  IN  l \cup IF port # 0 /\ public THEN {Public(port)} ELSE {}

\* onEngineStatus up to the section that reads mappedPort.
StatusReads ==
  /\ status.pc = "idle"
  /\ status' = [pc |-> "computed", eps |-> Computed(locals, mapped)]
  /\ UNCHANGED <<config, mapped, locals, eps, peers, routine, told>>

\* The section that compares with b.eps; news are advertised.
StatusSets ==
  /\ status.pc = "computed"
  /\ status' = [pc |-> "idle", eps |-> {}]
  /\ eps' = status.eps
  /\ IF status.eps # eps /\ status.eps # {} THEN \E r \in Routine : Spawn(r)
     ELSE UNCHANGED routine
  /\ UNCHANGED <<config, mapped, locals, peers, told>>

\* Mutant: a client is added without being told.
OnMeowSilent(p) ==
  /\ p \notin peers
  /\ peers' = peers \cup {p}
  /\ UNCHANGED <<config, mapped, locals, status, eps, routine, told>>

\* onMeow adds a client it did not know.
OnMeow(p) ==
  /\ p \notin peers
  /\ peers' = peers \cup {p}
  /\ \E r \in Routine : Spawn(r)
  /\ UNCHANGED <<config, mapped, locals, status, eps, told>>

\* rebindMagicsock, for egress binding.
Rebinds ==
  /\ \E r \in Routine : Spawn(r)
  /\ UNCHANGED <<config, mapped, locals, status, eps, peers, told>>

-----------------------------------------------------------------------------
(* advertiseEndpoints *)

Idle == [pc |-> "idle", eps |-> {}, todo |-> {}]

\* The section that clones b.eps and takes the peers.
Copies(r) ==
  /\ routine[r].pc = "started"
  /\ routine' = [routine EXCEPT ![r] =
       IF eps = {} \/ peers = {} THEN Idle
       ELSE [pc |-> "copied", eps |-> eps, todo |-> peers]]
  /\ UNCHANGED <<config, mapped, locals, status, eps, peers, told>>

\* pinnedEndpointPort: the port a public endpoint is expected to have.
Pinned ==
  IF config.advertise # 0 THEN config.advertise
  ELSE IF config.listen THEN config.bound
  ELSE mapped

Kept(endpoints) ==
  {e \in endpoints : e.addr = "pub" /\ Pinned # 0 => e.port = Pinned}

\* Public endpoints with another port are dropped.
Filters(r) ==
  /\ routine[r].pc = "copied"
  /\ routine' = [routine EXCEPT ![r] =
       IF Kept(routine[r].eps) = {} THEN Idle
       ELSE [routine[r] EXCEPT !.pc = "sending", !.eps = Kept(routine[r].eps)]]
  /\ UNCHANGED <<config, mapped, locals, status, eps, peers, told>>

\* The next peer is sent the message.  That the relay does not know the peer is
\* only logged: it is directly connected then.
Sends(r, p) ==
  /\ routine[r].pc = "sending" /\ p \in routine[r].todo
  /\ told' = [told EXCEPT ![p] = @ \cup routine[r].eps]
  /\ routine' = [routine EXCEPT ![r] =
       IF routine[r].todo = {p} THEN Idle
       ELSE [routine[r] EXCEPT !.todo = routine[r].todo \ {p}]]
  /\ UNCHANGED <<config, mapped, locals, status, eps, peers>>

-----------------------------------------------------------------------------
Init ==
  /\ config \in Config
  /\ mapped = 0
  /\ locals = {}
  /\ status = [pc |-> "idle", eps |-> {}]
  /\ eps = {}
  /\ peers = {}
  /\ routine = [r \in Routine |-> Idle]
  /\ told = [p \in Peer |-> {}]

\* The local address has the bound port; what STUN learns may have any.
Reports == SUBSET {e \in Endpoint : e.addr = "lan" => e.port = config.bound}

Next ==
  \/ \E l \in Reports : LocalsChange(l)
  \/ \E ext \in External : GetsMapped(ext)
  \/ StatusReads \/ StatusSets \/ Rebinds
  \/ \E p \in Peer : OnMeow(p)
  \/ \E r \in Routine : Copies(r) \/ Filters(r) \/ \E p \in Peer : Sends(r, p)

Spec == Init /\ [][Next]_vars

-----------------------------------------------------------------------------
(* Properties *)

TypeOK ==
  /\ config \in Config
  /\ mapped \in {0} \cup Port
  /\ locals \subseteq Endpoint
  /\ status \in [pc : {"idle", "computed"}, eps : SUBSET Endpoint]
  /\ eps \subseteq Endpoint
  /\ peers \subseteq Peer
  /\ routine \in [Routine -> [pc : {"idle", "started", "copied", "sending"},
                              eps : SUBSET Endpoint, todo : SUBSET Peer]]
  /\ told \in [Peer -> SUBSET Endpoint]

\* Nothing is under way, and the last report has been taken in.
Quiet ==
  /\ status.pc = "idle" /\ eps = Computed(locals, mapped)
  /\ \A r \in Routine : routine[r].pc = "idle"

Settled(e) == e.addr = "lan" \/ config.advertise # 0 \/ config.listen

\* When it is quiet, every peer was sent every endpoint that is kept, whether the
\* peer or the endpoint came first, and whoever overtook whom.  With neither
\* AdvertiseUDPPort nor ListenPort, what is kept of the public ones depends on
\* the mapping: one that changes without changing b.eps starts no goroutine.
NobodyForgotten ==
  Quiet => \A p \in peers : {e \in Kept(eps) : Settled(e)} \subseteq told[p]

\* "onEngineStatus advertises public IP:mappedPort to the peers" (tailcat.go:442).
MappedIsTold ==
  Quiet /\ config.advertise = 0 /\ mapped # 0 /\ (\E e \in locals : e.addr = "pub")
    => \A p \in peers : Public(mapped) \in told[p]
====
