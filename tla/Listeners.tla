---- MODULE Listeners ----
(***************************************************************************)
(* The listeners of a server (src/listen.go), the packet filter that goes  *)
(* with them (src/tailcat.go:933-1034), the goroutines netstack starts for *)
(* incoming flows (853-896), and the idle timer of a UDP flow (2969-3068). *)
(*                                                                         *)
(* The maps and the filter change in one section of listenerMu.  A flow is *)
(* handed from its goroutine to an Accept call over an unbuffered channel, *)
(* and both also wait for the listener's closedc: once that is closed, the *)
(* Go runtime has none of them left to hand over.                          *)
(***************************************************************************)
EXTENDS Naturals

CONSTANTS
  Port,      \* ports of one protocol each
  UdpPort,   \* those of UDP
  Served,    \* those the filter admits without a listener
  Hooked,    \* those OnTCP or OnUDP has a handler for
  Listener,  \* listener objects, each used once
  Flow,      \* incoming flows
  Accepter,  \* goroutines that call Accept
  None,
  MaxChecks  \* bound: timer goroutines of one flow that have not run yet

ASSUME ListenersAssumption ==
  /\ None \notin Port \cup Listener
  /\ Served \subseteq Port
  /\ MaxChecks \in Nat

VARIABLES
  server,   \* Server: Close runs in two steps
  ports,    \* tcpListeners and udpListeners
  listener, \* the port of a listener, and whether it is closed
  filter,   \* the ports the packet filter admits
  accept,   \* the listener an Accept call waits on
  flow,     \* where the goroutine of a flow is
  timer     \* of the flow: idlePacketConn

vars == <<server, ports, listener, filter, accept, flow, timer>>
flows == <<accept, flow, timer>>

-----------------------------------------------------------------------------
(* Listen and Close *)

Opened(l) == listener[l].port # None

Admitted(listening) == Served \cup {p \in Port : listening[p] # None}

\* startLocked, in Start or the first Listen.
Starts ==
  /\ server = "new"
  /\ server' = "up"
  /\ filter' = Admitted(ports)
  /\ UNCHANGED <<ports, listener, flows>>

\* The second section of Listen; the first has started the server, which may
\* have been closed since.  Port 0 is any port that is not in use.
Listen(l, p) ==
  /\ server # "new"
  /\ ~ Opened(l)
  /\ ports[p] = None
  /\ ports' = [ports EXCEPT ![p] = l]
  /\ listener' = [listener EXCEPT ![l].port = p]
  /\ filter' = Admitted(ports')
  /\ UNCHANGED <<server, flows>>

\* Mutant: a listener may be closed twice.
CloseTwice(l) ==
  /\ Opened(l)
  /\ ports' = [ports EXCEPT ![listener[l].port] = None]
  /\ listener' = [listener EXCEPT ![l].closed = TRUE]
  /\ filter' = Admitted(ports')
  /\ UNCHANGED <<server, flows>>

\* Mutant: the filter is left as it is, as Server.Close does.
CloseKeepsFilter(l) ==
  /\ Opened(l) /\ ~ listener[l].closed
  /\ ports' = [ports EXCEPT ![listener[l].port] = None]
  /\ listener' = [listener EXCEPT ![l].closed = TRUE]
  /\ UNCHANGED <<server, filter, flows>>

\* listener.Close; a second one is an error and changes nothing.
Close(l) ==
  /\ Opened(l) /\ ~ listener[l].closed
  /\ ports' = [ports EXCEPT ![listener[l].port] = None]
  /\ listener' = [listener EXCEPT ![l].closed = TRUE]
  /\ filter' = Admitted(ports')
  /\ UNCHANGED <<server, flows>>

\* Server.Close: every listener in the maps, without the filter; then the engine,
\* once.
ServerCloses ==
  /\ server # "new"
  /\ server' = IF server = "closed" THEN "closed" ELSE "closing"
  /\ ports' = [p \in Port |-> None]
  /\ listener' = [l \in Listener |->
       IF \E p \in Port : ports[p] = l THEN [listener[l] EXCEPT !.closed = TRUE]
       ELSE listener[l]]
  /\ UNCHANGED <<filter, flows>>

EngineCloses ==
  /\ server = "closing"
  /\ server' = "closed"
  /\ UNCHANGED <<ports, listener, filter, flows>>

-----------------------------------------------------------------------------
(* A flow and its handler *)

NoTimer == [open |-> FALSE, late |-> FALSE, armed |-> FALSE, checks |-> 0, io |-> FALSE]

\* newIdlePacketConn, for UDP.
Fresh(p) == [NoTimer EXCEPT !.open = TRUE, !.armed = p \in UdpPort]

\* The flow's connection is closed, and its timer stopped.
Closed(t) == [t EXCEPT !.open = FALSE, !.armed = FALSE]

SetFlow(f, pc) == flow' = [flow EXCEPT ![f].pc = pc]

\* GetTCPHandlerForFlow and GetUDPHandlerForFlow: a listener goes before a hook,
\* and a flow of neither is reset or dropped.
Arrives(f, p) ==
  LET handled == ports[p] # None \/ p \in Hooked
  IN  /\ server \in {"up", "closing"}
      /\ p \in filter
      /\ flow[f].pc = "none"
      /\ flow' = [flow EXCEPT ![f] =
           [pc |-> IF ports[p] # None THEN "found" ELSE IF handled THEN "taken" ELSE "gone",
            port |-> p, on |-> ports[p]]]
      /\ timer' = [timer EXCEPT ![f] = IF handled THEN Fresh(p) ELSE @]
      /\ UNCHANGED <<server, ports, listener, filter, accept>>

AcceptCalled(a, l) ==
  /\ Opened(l)
  /\ accept[a] = None
  /\ accept' = [accept EXCEPT ![a] = l]
  /\ UNCHANGED <<server, ports, listener, filter, flow, timer>>

\* handle meets Accept.
HandOver(f, a) ==
  /\ flow[f].pc = "found"
  /\ accept[a] = flow[f].on
  /\ ~ listener[flow[f].on].closed
  /\ SetFlow(f, "taken")
  /\ accept' = [accept EXCEPT ![a] = None]
  /\ UNCHANGED <<server, ports, listener, filter, timer>>

\* Mutant: handle only closes what came before the listener closed, where
\* nobody has the port now.
HandleLeaves(f) ==
  /\ flow[f].pc = "found"
  /\ listener[flow[f].on].closed
  /\ ports[flow[f].port] # None
  /\ SetFlow(f, "gone")
  /\ timer' = [timer EXCEPT ![f] = Closed(@)]
  /\ UNCHANGED <<server, ports, listener, filter, accept>>

\* handle finds the listener closed and closes the connection.
HandleCloses(f) ==
  /\ flow[f].pc = "found"
  /\ listener[flow[f].on].closed
  /\ SetFlow(f, "gone")
  /\ timer' = [timer EXCEPT ![f] = Closed(@)]
  /\ UNCHANGED <<server, ports, listener, filter, accept>>

\* Accept returns net.ErrClosed.
AcceptFails(a) ==
  /\ accept[a] # None
  /\ listener[accept[a]].closed
  /\ accept' = [accept EXCEPT ![a] = None]
  /\ UNCHANGED <<server, ports, listener, filter, flow, timer>>

\* The handler is done with the flow.
FlowEnds(f) ==
  /\ flow[f].pc = "taken"
  /\ SetFlow(f, "gone")
  /\ timer' = [timer EXCEPT ![f] = Closed(@)]
  /\ UNCHANGED <<server, ports, listener, filter, accept>>

-----------------------------------------------------------------------------
(* The idle timer *)

SetTimer(f, t) ==
  /\ timer' = [timer EXCEPT ![f] = t]
  /\ UNCHANGED <<server, ports, listener, filter, accept, flow>>

\* The deadline passes.
GetsLate(f) ==
  /\ timer[f].open /\ flow[f].port \in UdpPort
  /\ ~ timer[f].late
  /\ SetTimer(f, [timer[f] EXCEPT !.late = TRUE])

\* The timer, set to the deadline, starts checkIdle.
Fires(f) ==
  /\ timer[f].armed /\ timer[f].late
  /\ timer[f].checks < MaxChecks
  /\ SetTimer(f, [timer[f] EXCEPT !.armed = FALSE, !.checks = @ + 1])

\* Mutant: whoever is started by the timer closes.
CheckIdleBlind(f) ==
  /\ timer[f].checks > 0
  /\ SetTimer(f, [timer[f] EXCEPT !.checks = @ - 1, !.open = FALSE])

\* checkIdle looks at the deadline again, which may have been moved meanwhile.
CheckIdle(f) ==
  /\ timer[f].checks > 0
  /\ SetTimer(f, [timer[f] EXCEPT !.checks = @ - 1,
                    !.open = @ /\ ~ timer[f].late,
                    !.armed = @ \/ (timer[f].open /\ ~ timer[f].late)])

\* A Read or Write has succeeded, and will touch the timer.
Traffic(f) ==
  /\ flow[f].pc = "taken" /\ flow[f].port \in UdpPort
  /\ timer[f].open /\ ~ timer[f].io
  /\ SetTimer(f, [timer[f] EXCEPT !.io = TRUE])

\* Mutant: touch sets the timer only if stopping it says that it had fired.
TouchOnlyFired(f) ==
  /\ timer[f].io
  /\ SetTimer(f, IF timer[f].open
                 THEN [timer[f] EXCEPT !.io = FALSE, !.late = FALSE, !.armed = ~ @]
                 ELSE [timer[f] EXCEPT !.io = FALSE])

Touch(f) ==
  /\ timer[f].io
  /\ SetTimer(f, IF timer[f].open
                 THEN [timer[f] EXCEPT !.io = FALSE, !.late = FALSE, !.armed = TRUE]
                 ELSE [timer[f] EXCEPT !.io = FALSE])

-----------------------------------------------------------------------------
Init ==
  /\ server = "new"
  /\ ports = [p \in Port |-> None]
  /\ listener = [l \in Listener |-> [port |-> None, closed |-> FALSE]]
  /\ filter = {}
  /\ accept = [a \in Accepter |-> None]
  /\ flow = [f \in Flow |-> [pc |-> "none", port |-> None, on |-> None]]
  /\ timer = [f \in Flow |-> NoTimer]

Timing(f) == Fires(f) \/ CheckIdle(f) \/ Touch(f)

Next ==
  \/ Starts \/ ServerCloses \/ EngineCloses
  \/ \E l \in Listener : Close(l) \/ \E p \in Port : Listen(l, p)
  \/ \E a \in Accepter : AcceptFails(a) \/ \E l \in Listener : AcceptCalled(a, l)
  \/ \E f \in Flow :
       \/ \E p \in Port : Arrives(f, p)
       \/ \E a \in Accepter : HandOver(f, a)
       \/ HandleCloses(f) \/ FlowEnds(f)
       \/ GetsLate(f) \/ Traffic(f) \/ Timing(f)

Spec == Init /\ [][Next]_vars

\* Goroutines that can go on do, and timers fire.
Fairness ==
  /\ \A f \in Flow : WF_vars(HandleCloses(f)) /\ WF_vars(Timing(f))
  /\ \A a \in Accepter : WF_vars(AcceptFails(a))

FairSpec == Spec /\ Fairness

-----------------------------------------------------------------------------
(* Properties *)

TypeOK ==
  /\ server \in {"new", "up", "closing", "closed"}
  /\ ports \in [Port -> Listener \cup {None}]
  /\ listener \in [Listener -> [port : Port \cup {None}, closed : BOOLEAN]]
  /\ filter \subseteq Port
  /\ accept \in [Accepter -> Listener \cup {None}]
  /\ flow \in [Flow -> [pc : {"none", "found", "taken", "gone"},
                        port : Port \cup {None}, on : Listener \cup {None}]]
  /\ timer \in [Flow -> [open : BOOLEAN, late : BOOLEAN, armed : BOOLEAN,
                         checks : 0 .. MaxChecks, io : BOOLEAN]]

\* A listener is found under its port exactly as long as it is open, however
\* often its port was reused and whoever closes what.
FoundWhileOpen ==
  /\ \A l \in Listener : Opened(l) /\ ~ listener[l].closed => ports[listener[l].port] = l
  /\ \A p \in Port : ports[p] # None =>
       listener[ports[p]].port = p /\ ~ listener[ports[p]].closed

\* While the server is up, the filter admits what is served and listened on, and
\* nothing else: a port that is given up is closed to the tunnel again.
FilterFollows == server = "up" => filter = Admitted(ports)

\* A UDP flow that is open has a timer set or on its way to look at it: none
\* stays behind for ever, whichever way touches and the timer cross.
Watched ==
  \A f \in Flow :
    timer[f].open /\ flow[f].port \in UdpPort => timer[f].armed \/ timer[f].checks > 0

\* "a concurrent touch cannot be followed by a spurious close" (tailcat.go:2998):
\* while somebody has a flow, or it waits for an Accept, its connection is only
\* closed when nobody touched it for a timeout, however many goroutines an earlier
\* deadline has started that have not looked yet.  One that was read or written
\* and has not reached touch (3025-3055) may be closed, as the deadline says.
ClosedWhenIdle ==
  \A f \in Flow :
    flow[f].pc \in {"found", "taken"} /\ ~ timer[f].open => timer[f].late

\* A flow that waits for an Accept on a listener that is closed does not wait
\* for ever, nor does an Accept.
NobodyWaitsOnClosed ==
  /\ \A f \in Flow :
       (flow[f].pc = "found" /\ listener[flow[f].on].closed) ~> flow[f].pc # "found"
  /\ \A a \in Accepter, l \in Listener :
       (accept[a] = l /\ listener[l].closed) ~> accept[a] # l

\* A flow that nobody uses is closed.
IdleIsClosed ==
  \A f \in Flow :
    (timer[f].open /\ timer[f].late) ~> ~ (timer[f].open /\ timer[f].late)
====
