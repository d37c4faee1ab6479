---- MODULE EgressBind ----
(***************************************************************************)
(* An exit binds its own sockets to a physical interface (src/egressbind.  *)
(* go), so that a TUN proxy on the same host leaves them alone.            *)
(*                                                                         *)
(* Three things must agree: the interface the process thinks it is bound   *)
(* to, the switch of netns, which is the whole process's, and where the    *)
(* engine's sockets are.  They are set one after the other by the          *)
(* server's start and by a monitor that runs beside it.                    *)
(***************************************************************************)
EXTENDS Naturals

CONSTANTS
  Iface,
  Virtual,    \* those with the name of a TUN
  None,
  Wish,       \* --bind-interface: "off", "physical" or an interface
  Pins,       \* the platform lets netns be pinned to an interface (darwin)
  Patience,   \* failsBeforeReval
  MaxChanges  \* bound: of the network, while the exit runs

VARIABLES
  wish,
  net,     \* "down", "up" or "answers" per interface, and netmon's default route
  changes, \* of the network
  bound,   \* egressBindSt; sticky: switchDwellTime has not passed
  netns,   \* whether netns is enabled, and what it was pinned to
  socket,  \* the interface the engine's sockets are bound to
  engine,  \* where Start is
  monitor, \* where the monitor is; a tick or a change of network may wake it any time
  failed   \* probes of the bound interface that failed in a row

vars == <<wish, net, changes, bound, netns, socket, engine, monitor, failed>>

-----------------------------------------------------------------------------
(* Candidates and winners *)

\* enumerateCandidates: up, with an address, and no TUN.
Physical == {i \in Iface \ Virtual : net.state[i] # "down"}

Candidates == IF wish = "physical" THEN Physical ELSE {wish}

\* probeCandidate: an answer to the query, from the resolver that was asked.
Answers(i) == net.state[i] = "answers"

\* evaluateBind: of those that answer, the default route's, or the fastest.
Winners ==
  LET passed == {i \in Candidates : Answers(i)} IN
  IF passed = {} THEN {None} ELSE IF net.route \in passed THEN {net.route} ELSE passed

\* setEgressBind
Bound(i) == [ifc |-> i, sticky |-> TRUE, fails |-> 0]

\* netns.Control, for a socket that is made now.
Bind(ns) == IF ~ ns.enabled THEN None ELSE IF Pins THEN ns.pin ELSE net.route

\* rebindMagicsock, if there is an engine yet.
Rebind(ns) == socket' = IF engine = "up" THEN Bind(ns) ELSE socket

\* applyBindDecision has set egressBindSt and goes on to the switch.
Decide(winner) ==
  IF winner = bound.ifc THEN UNCHANGED <<bound, netns>>
  ELSE /\ bound' = Bound(winner)
       /\ netns' = IF winner = None THEN netns ELSE [netns EXCEPT !.pin = winner]

\* The switch and the sockets.
Switch == netns' = [netns EXCEPT !.enabled = bound.ifc # None] /\ Rebind(netns')

-----------------------------------------------------------------------------
(* Start: startEgressBind, then createEngine *)

Evaluates ==
  /\ engine = "new"
  /\ IF wish = "off" THEN /\ engine' = "asks"
                          /\ UNCHANGED <<bound, netns, monitor>>
     ELSE \E w \in Winners :
            /\ bound' = IF w = None THEN bound ELSE Bound(w)
            /\ netns' = IF w = None THEN netns ELSE [enabled |-> TRUE, pin |-> w]
            /\ engine' = "asks"
            /\ monitor' = "waits"
  /\ UNCHANGED <<wish, net, changes, socket, failed>>

\* createEngine asks whether a binding is active ...
Asks ==
  /\ engine = "asks"
  /\ engine' = IF bound.ifc = None THEN "disables" ELSE "makes"
  /\ UNCHANGED <<wish, net, changes, bound, netns, socket, monitor, failed>>

\* ... disables netns if none was, as PickBestRegion does before the start ...
Disables ==
  /\ engine = "disables"
  /\ netns' = [netns EXCEPT !.enabled = FALSE]
  /\ engine' = "makes"
  /\ UNCHANGED <<wish, net, changes, bound, socket, monitor, failed>>

\* ... and makes the engine.
Makes ==
  /\ engine = "makes"
  /\ engine' = "up"
  /\ socket' = Bind(netns)
  /\ UNCHANGED <<wish, net, changes, bound, netns, monitor, failed>>

-----------------------------------------------------------------------------
(* The monitor *)

\* Mutant: a binding that has recovered keeps its count of failures.
ConfirmsOnly ==
  /\ monitor = "waits" /\ bound.ifc # None /\ Answers(bound.ifc)
  /\ failed' = 0
  /\ UNCHANGED <<wish, net, changes, bound, netns, socket, engine, monitor>>

\* The binding holds.
Confirms ==
  /\ monitor = "waits" /\ bound.ifc # None /\ Answers(bound.ifc)
  /\ bound' = IF bound.fails > 0 THEN Bound(bound.ifc) ELSE bound
  /\ failed' = 0
  /\ UNCHANGED <<wish, net, changes, netns, socket, engine, monitor>>

\* It does not, and is given up only after Patience rounds and its dwell time.
Doubts ==
  /\ monitor = "waits" /\ bound.ifc # None /\ ~ Answers(bound.ifc)
  /\ bound' = [bound EXCEPT !.fails = IF @ < Patience THEN @ + 1 ELSE @]
  /\ failed' = IF failed < Patience THEN failed + 1 ELSE failed
  /\ monitor' = IF bound'.fails < Patience \/ bound.sticky THEN "waits" ELSE "evaluates"
  /\ UNCHANGED <<wish, net, changes, netns, socket, engine>>

\* Unbound, it looks again at every tick.
Retries ==
  /\ monitor = "waits" /\ bound.ifc = None
  /\ monitor' = "evaluates"
  /\ UNCHANGED <<wish, net, changes, bound, netns, socket, engine, failed>>

Chooses ==
  /\ monitor = "evaluates"
  /\ \E w \in Winners :
       /\ Decide(w)
       /\ monitor' = IF w = bound.ifc THEN "waits" ELSE "switches"
       /\ failed' = IF w = bound.ifc THEN failed ELSE 0
  /\ UNCHANGED <<wish, net, changes, socket, engine>>

Switches ==
  /\ monitor = "switches"
  /\ Switch
  /\ monitor' = "waits"
  /\ UNCHANGED <<wish, net, changes, bound, engine, failed>>

\* switchDwellTime is over.
DwellEnds ==
  /\ bound.sticky
  /\ bound' = [bound EXCEPT !.sticky = FALSE]
  /\ UNCHANGED <<wish, net, changes, netns, socket, engine, monitor, failed>>

\* An interface comes, goes or falls silent.
NetworkChanges ==
  /\ changes < MaxChanges
  /\ changes' = changes + 1
  /\ \E i \in Iface, s \in {"down", "up", "answers"}, r \in Iface :
       net' = [state |-> [net.state EXCEPT ![i] = s], route |-> r]
  /\ UNCHANGED <<wish, bound, netns, socket, engine, monitor, failed>>

Init ==
  /\ wish \in Wish
  /\ net \in [state : [Iface -> {"up", "answers"}], route : Iface]
  /\ changes = 0
  /\ bound = [ifc |-> None, sticky |-> FALSE, fails |-> 0]
  /\ netns \in [enabled : BOOLEAN, pin : {None}]
  /\ socket = None
  /\ engine = "new" /\ monitor = "none" /\ failed = 0

Next ==
  \/ Evaluates \/ Asks \/ Disables \/ Makes
  \/ Confirms \/ Doubts \/ Retries \/ Chooses \/ Switches
  \/ DwellEnds \/ NetworkChanges

Spec == Init /\ [][Next]_vars

-----------------------------------------------------------------------------
(* Properties *)

\* Every variable has its type.
TypeOK ==
  /\ wish \in Wish
  /\ net \in [state : [Iface -> {"down", "up", "answers"}], route : Iface]
  /\ changes \in 0 .. MaxChanges
  /\ bound \in [ifc : Iface \cup {None}, sticky : BOOLEAN, fails : 0 .. Patience]
  /\ netns \in [enabled : BOOLEAN, pin : Iface \cup {None}]
  /\ socket \in Iface \cup {None}
  /\ engine \in {"new", "asks", "disables", "makes", "up"}
  /\ monitor \in {"none", "waits", "evaluates", "switches"}
  /\ failed \in 0 .. Patience

\* A binding is only given up when it failed Patience times in a row and was not
\* made, or found good again, a moment ago (egressbind.go:42-46, 283-286): one
\* lost answer does not throw the exit's sockets about.
GivenUpOnlyAfter ==
  bound.ifc # None /\ bound'.ifc # bound.ifc => failed >= Patience /\ ~ bound.sticky
NotGivenUpLightly == [][GivenUpOnlyAfter]_vars

\* What keeps it.  There is no binding before the first evaluation, and no monitor before
\* it, or without a wish; the count of the state is at most that of the true failures;
\* and the monitor evaluates anew only with Patience of them, when the dwell time is over.
GivenUpInv ==
  /\ TypeOK
  /\ engine = "new" => bound.ifc = None /\ monitor = "none"
  /\ monitor # "none" => wish # "off"
  /\ bound.fails <= failed
  /\ monitor = "evaluates" /\ bound.ifc # None => bound.fails >= Patience /\ ~ bound.sticky

\* Does not hold.  tailcat.go:2269-2270: while a binding is active netns stays enabled,
\* which binds the engine's sockets to the interface.  The monitor's first binding
\* may come between the question of createEngine and its answer.
BoundMeansEnabled ==
  engine = "up" /\ monitor = "waits" /\ bound.ifc # None
    => netns.enabled /\ (Pins => socket = bound.ifc)

=============================================================================
