---- MODULE Rendezvous ----
(***************************************************************************)
(* How a client becomes a peer of a server (src/tailcat.go,                *)
(* src/directconnect.go, src/disco.go).                                    *)
(*                                                                         *)
(* The client sends a meow ping over a DERP relay until it gets a meowed;  *)
(* the server registers it before it answers.  A client with fresh         *)
(* endpoint hints (direct-first) is ready before that, as soon as a probe  *)
(* comes back through the tunnel: the server lets the WireGuard handshake  *)
(* of a key it does not know in, and notes the key in an index of bounded  *)
(* size for the way back.  Registration then goes on in the background.    *)
(*                                                                         *)
(* A relay loses, delays and reorders packets, and the client repeats its  *)
(* own.  The copies of a packet are one element of pings or acks, which a  *)
(* delivery may leave there; a packet that is delivered and one whose      *)
(* goroutine has not run yet are the same.  A server that restarts has its *)
(* key, and the list of its allowed clients, from whoever runs it.         *)
(***************************************************************************)
EXTENDS Naturals, Sequences, SequencesExt

CONSTANTS
  Client,       \* node keys of clients
  DirectClient, \* those that are direct-first
  PingClient,   \* bound: those whose user calls Ping
  LazyMax,      \* lazyPeerMax
  MaxRuns       \* bound: how often the server is started

ASSUME RendezvousAssumption ==
  /\ DirectClient \subseteq Client /\ PingClient \subseteq Client
  /\ LazyMax \in Nat \ {0}
  /\ MaxRuns \in Nat

VARIABLES
  server,     \* how far Start is, and which run of the server it is
  restricted, \* whether allowedClients was not empty when the server started first
  allowed,    \* allowedClients; empty for nil, which allows everyone
  clients,    \* locoBackend.clients
  nm,         \* the peers of locoBackend.nm
  magic,      \* the peers magicsock knows
  lazy,       \* lazyPeers, oldest first
  session,    \* WireGuard sessions of the server
  node,       \* per client: its Client object
  pings, acks \* meow pings to the server, and meowed packets to the clients

serverVars == <<server, restricted, allowed, clients, nm, magic, lazy, session>>
vars == <<serverVars, node, pings, acks>>

-----------------------------------------------------------------------------
(* State *)

NodeState ==
  [pc : {"new", "open", "closed"},
   wait : BOOLEAN,                 \* meowWait is closed
   up : BOOLEAN,                   \* upDone
   meowed : BOOLEAN,               \* meowedOnce
   bg : {"none", "ping", "sleep"}, \* the goroutine meowInFlight stands for
   call : {"none", "ping", "race"}]

New == [pc |-> "new", wait |-> FALSE, up |-> FALSE, meowed |-> FALSE,
        bg |-> "none", call |-> "none"]

Permitted(c) == allowed = {} \/ c \in allowed

-----------------------------------------------------------------------------
(* The server *)

\* startLocked and Start.  From SetDERPMap on, pings may be handled ...
ServerStarts ==
  /\ server.phase = "down"
  /\ server' = [server EXCEPT !.phase = "relayed"]
  /\ UNCHANGED <<restricted, allowed, clients, nm, magic, lazy, session,
                 node, pings, acks>>

\* ... and the network map of a server without clients is installed after that,
\* in a section of its own ...
ServerInstalls ==
  /\ server.phase = "relayed"
  /\ server' = [server EXCEPT !.phase = "mapped"]
  /\ nm' = {}
  /\ UNCHANGED <<restricted, allowed, clients, magic, lazy, session,
                 node, pings, acks>>

\* ... then in magicsock; then the engine is given peerConfig.
ServerIsUp ==
  /\ server.phase = "mapped"
  /\ server' = [server EXCEPT !.phase = "up"]
  /\ magic' = {}
  /\ UNCHANGED <<restricted, allowed, clients, nm, lazy, session,
                 node, pings, acks>>

\* The process ends.  It kept everything in memory.
ServerStops ==
  /\ server.phase # "down"
  /\ server.run < MaxRuns
  /\ server' = [phase |-> "down", run |-> server.run + 1]
  /\ clients' = {} /\ nm' = {} /\ magic' = {} /\ lazy' = << >>
  /\ session' = {}
  /\ UNCHANGED <<restricted, allowed, node, pings, acks>>

AddAllowedClient(c) ==
  /\ allowed' = allowed \cup {c}
  /\ UNCHANGED <<server, restricted, clients, nm, magic, lazy, session,
                 node, pings, acks>>

\* Mutant: every ping is answered.
OnMeowAnswersAll(c) ==
  /\ server.phase # "down"
  /\ c \in pings
  /\ pings' \in {pings, pings \ {c}}
  /\ acks' = acks \cup {c}
  /\ IF Permitted(c)
     THEN /\ clients' = clients \cup {c}
          /\ IF c \in clients THEN UNCHANGED <<nm, magic>>
             ELSE nm' = clients' /\ magic' = clients'
     ELSE UNCHANGED <<clients, nm, magic>>
  /\ UNCHANGED <<server, restricted, allowed, lazy, session, node>>

\* Mutant: the network map only has the client that registers.
OnMeowMapsOne(c) ==
  /\ server.phase # "down"
  /\ c \in pings
  /\ pings' \in {pings, pings \ {c}}
  /\ IF Permitted(c)
     THEN /\ clients' = clients \cup {c}
          /\ acks' = acks \cup {c}
          /\ IF c \in clients THEN UNCHANGED <<nm, magic>>
             ELSE nm' = {c} /\ magic' = {c}
     ELSE UNCHANGED <<clients, acks, nm, magic>>
  /\ UNCHANGED <<server, restricted, allowed, lazy, session, node>>

\* onMeow, in one section of mu, and the answer after it.
OnMeow(c) ==
  /\ server.phase # "down"
  /\ c \in pings
  /\ pings' \in {pings, pings \ {c}}
  /\ IF Permitted(c)
     THEN /\ clients' = clients \cup {c}
          /\ acks' = acks \cup {c}
          /\ IF c \in clients THEN UNCHANGED <<nm, magic>>
             ELSE nm' = clients' /\ magic' = clients'
     ELSE UNCHANGED <<clients, acks, nm, magic>>
  /\ UNCHANGED <<server, restricted, allowed, lazy, session, node>>

-----------------------------------------------------------------------------
(* The index of unregistered peers *)

Without(index, k) ==
  IF \E i \in DOMAIN index : index[i] = k
  THEN RemoveAt(index, CHOOSE i \in DOMAIN index : index[i] = k)
  ELSE index

\* noteLazyPeer: the expired ones go; where LazyMax are left the oldest goes,
\* also when k is one of them; then k is the newest.
Noted(index, old, k) ==
  LET fresh == SubSeq(index, old + 1, Len(index))
      kept  == IF Len(fresh) >= LazyMax THEN Tail(fresh) ELSE fresh
  IN  Append(Without(kept, k), k)

\* Mutant: only clients that have registered shake hands.
AdmitsRegistered(c) == c \in clients

\* Mutant: whoever can reach the server shakes hands.
AdmitsAnyone(c) == c \in Client

\* peerConfig: whom the server lets shake hands.
Admits(c) == c \in clients \/ Permitted(c)

\* peerByIP: whom it finds by address for the way back.
Routes(c) == c \in clients \/ c \in Range(lazy)

\* The entries older than lazyPeerTTL: the oldest ones, but none of a client in
\* use, which refreshes its own.
Expired(n) == \A i \in 1 .. n : ~ (lazy[i] \in session /\ node[lazy[i]].pc = "open")

\* A handshake of a client that has traffic or probes; sessions are renewed.
Handshake(c) ==
  /\ server.phase = "up"
  /\ node[c].pc = "open"
  /\ node[c].up \/ node[c].call = "race"
  /\ Admits(c)
  /\ session' = session \cup {c}
  /\ IF c \in clients THEN UNCHANGED lazy
     ELSE \E n \in 0 .. Len(lazy) : Expired(n) /\ lazy' = Noted(lazy, n, c)
  /\ UNCHANGED <<server, restricted, allowed, clients, nm, magic, node, pings, acks>>

-----------------------------------------------------------------------------
(* A client *)

Set(c, new) == node' = [node EXCEPT ![c] = new] /\ UNCHANGED <<serverVars, pings, acks>>

\* Ping, or up and Ready of a direct-first client, which start the client on first
\* use (ensureStarted).  The latter also register in the background, with one
\* goroutine at a time and never again once it has succeeded.
Call(c) ==
  /\ node[c].pc # "closed"
  /\ node[c].call = "none"
  /\ \/ /\ c \in PingClient
        /\ Set(c, [node[c] EXCEPT !.pc = "open", !.call = "ping"])
     \/ /\ c \in DirectClient
        /\ Set(c, [node[c] EXCEPT !.pc = "open", !.call = "race",
                     !.bg = IF ~ node[c].meowed /\ @ = "none" THEN "ping" ELSE @])

\* ping sends, and sends again every second.
SendPing(c) ==
  /\ node[c].pc = "open"
  /\ "ping" \in {node[c].call, node[c].bg}
  /\ pings' = pings \cup {c}
  /\ UNCHANGED <<serverVars, node, acks>>

\* The first meowed closes meowWait.
OnMeowed(c) ==
  /\ c \in acks
  /\ acks' \in {acks, acks \ {c}}
  /\ node[c].pc = "open"
  /\ node' = [node EXCEPT ![c].wait = TRUE]
  /\ UNCHANGED <<serverVars, pings>>

\* The relay drops a packet, for one because its receiver is gone.
Lose(c) ==
  /\ pings' \in {pings, pings \ {c}} /\ acks' \in {acks, acks \ {c}}
  /\ UNCHANGED <<serverVars, node>>

\* Mutant: a direct-first client is ready without waiting for the probe.
CallSucceedsBlind(c) ==
  /\ \/ node[c].call # "none" /\ node[c].wait
     \/ node[c].call = "race" /\ node[c].pc = "open"
  /\ Set(c, [node[c] EXCEPT !.call = "none", !.up = TRUE])

\* ping and raceFirst wait for meowWait, and the latter also for a probe that
\* went through the tunnel and back.
CallSucceeds(c) ==
  /\ \/ node[c].call # "none" /\ node[c].wait
     \/ node[c].call = "race" /\ node[c].pc = "open" /\ c \in session /\ Routes(c)
  /\ Set(c, [node[c] EXCEPT !.call = "none", !.up = TRUE])

CallTimesOut(c) ==
  /\ node[c].call # "none"
  /\ Set(c, [node[c] EXCEPT !.call = "none"])

\* meowBackground: an attempt succeeds (meowRegistered) ...
BackgroundSucceeds(c) ==
  /\ node[c].bg = "ping"
  /\ node[c].wait
  /\ Set(c, [node[c] EXCEPT !.bg = "none", !.meowed = TRUE, !.up = TRUE])

\* Mutant: the first attempt is the only one.
BackgroundGivesUp(c) ==
  /\ node[c].bg = "ping"
  /\ node[c].pc = "open"
  /\ Set(c, [node[c] EXCEPT !.bg = "none"])

\* ... or its budget runs out; the next one starts after a while ...
BackgroundTimesOut(c) ==
  /\ node[c].bg = "ping"
  /\ node[c].pc = "open"
  /\ Set(c, [node[c] EXCEPT !.bg = "sleep"])

BackgroundRetries(c) ==
  /\ node[c].bg = "sleep"
  /\ Set(c, [node[c] EXCEPT !.bg = "ping"])

\* ... until the client is closed.
BackgroundStops(c) ==
  /\ node[c].bg # "none"
  /\ node[c].pc = "closed"
  /\ Set(c, [node[c] EXCEPT !.bg = "none"])

Close(c) ==
  /\ node[c].pc = "open"
  /\ Set(c, [node[c] EXCEPT !.pc = "closed"])

\* A new Client object with the same key.  What the old one was waiting for is
\* its own.
Replace(c) ==
  /\ node[c].pc = "closed"
  /\ node[c].bg = "none" /\ node[c].call = "none"
  /\ Set(c, New)

-----------------------------------------------------------------------------
Init ==
  /\ server = [phase |-> "down", run |-> 1]
  /\ allowed \in SUBSET Client
  /\ restricted = (allowed # {})
  /\ clients = {} /\ nm = {} /\ magic = {} /\ lazy = << >>
  /\ session = {}
  /\ node = [c \in Client |-> New]
  /\ pings = {} /\ acks = {}

Starting == ServerStarts \/ ServerInstalls \/ ServerIsUp

Background(c) == BackgroundSucceeds(c) \/ BackgroundRetries(c) \/ BackgroundStops(c)

Next ==
  \/ Starting \/ ServerStops
  \/ \E c \in Client :
       \/ AddAllowedClient(c) \/ OnMeow(c) \/ Handshake(c)
       \/ Call(c) \/ SendPing(c) \/ OnMeowed(c) \/ Lose(c)
       \/ CallSucceeds(c) \/ CallTimesOut(c)
       \/ Background(c) \/ BackgroundTimesOut(c)
       \/ Close(c) \/ Replace(c)

Spec == Init /\ [][Next]_vars

\* The relay delivers what is sent again and again, an attempt sends at once and
\* sees a meowed that is there, timers fire, goroutines run, and a client in use
\* shakes hands again when its session is gone.
Fairness ==
  /\ WF_vars(Starting)
  /\ \A c \in Client :
       /\ SF_vars(SendPing(c)) /\ SF_vars(OnMeow(c)) /\ SF_vars(OnMeowed(c))
       /\ SF_vars(BackgroundSucceeds(c))
       /\ WF_vars(BackgroundRetries(c)) /\ WF_vars(BackgroundStops(c))
       /\ SF_vars(Handshake(c))

FairSpec == Spec /\ Fairness

-----------------------------------------------------------------------------
(* Properties *)

TypeOK ==
  /\ server \in [phase : {"down", "relayed", "mapped", "up"}, run : Nat \ {0}]
  /\ restricted \in BOOLEAN
  /\ allowed \subseteq Client
  /\ clients \subseteq Client /\ nm \subseteq clients /\ magic \subseteq clients
  /\ lazy \in Seq(Client)
  /\ session \subseteq Client
  /\ node \in [Client -> NodeState]
  /\ pings \subseteq Client /\ acks \subseteq Client

\* "meowed" is the ack that tells the client it can start dialing (tailcat.go:819):
\* while the server has not been restarted, a client that a meowed has reached, or
\* is under way to, is registered, however late or often packets arrive.
AckMeansRegistered ==
  server.run = 1 => \A c \in Client : node[c].wait \/ c \in acks => c \in clients

\* A client that calls itself ready has been let in by the server, whichever of
\* the meow, the probe and the background registration was first.
ReadyMeansAdmitted ==
  server.run = 1 => \A c \in Client : node[c].up => c \in clients \cup session

\* Where the server was started with a list of allowed clients, one that was
\* never put on it is neither registered nor has a session nor takes itself for
\* ready: neither by meow, nor by a handshake before it, nor by a late meowed.
OutsidersStayOut ==
  restricted => \A c \in Client \ allowed : ~ node[c].up /\ c \notin clients \cup session

\* The index of unregistered peers never has more than LazyMax entries.
LazyBounded == Len(lazy) <= LazyMax

\* Once every registered client is in the network map and in magicsock, so is
\* every one that registers later, until the server ends.  (Before it is up, Start
\* may overwrite what onMeow has installed.)
MapStaysComplete ==
  [][server.phase = "up" /\ nm = clients /\ magic = clients /\ server'.phase = "up"
       => nm' = clients' /\ magic' = clients']_vars

\* The background registration of a client that stays open and is allowed goes
\* on until it succeeds, after the first budget has run out too.
Registering(c) == node[c].bg # "none"
NeedsNone(c) == node[c].meowed \/ node[c].pc = "closed" \/ ~ Permitted(c)
RegistersInBackground == \A c \in Client : Registering(c) ~> NeedsNone(c)

\* A client that is in use has a session with the server again after a restart
\* that made the server forget it, though it never sends another meow.
Used(c) == node[c].up
Connected(c) == c \in session \/ node[c].pc = "closed" \/ ~ Permitted(c)
SessionReturns == \A c \in Client : Used(c) ~> Connected(c)

\* What lazy_peer_cap_test.go:4 and the comments at tailcat.go:489 and 493 say of
\* the index: the entry of a client in use, which keeps it fresh, is evicted only
\* to keep the index from growing.
EvictedOnlyWhenFull ==
  [][\A c \in Client :
       node[c].pc = "open" /\ c \in session /\ Routes(c) /\ ~ Routes(c)'
         => Len(lazy') = LazyMax \/ server'.run # server.run]_vars
====
