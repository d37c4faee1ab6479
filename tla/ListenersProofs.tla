---- MODULE ListenersProofs ----
(***************************************************************************)
(* The safety of Listeners, for every number of ports, listeners and flows *)
(* and however many timer goroutines are under way; and the types of the   *)
(* parts that run beside it in MCLive.                                     *)
(***************************************************************************)
EXTENDS MCLive, Sequences, FiniteSetTheorems, TLAPS

\* Only a flow that is on its way or being handled has an open connection.
OpenIsHandled == \A f \in Flow : timer[f].open => flow[f].pc \in {"found", "taken"}

\* No timer was made for a flow that has not come.
NewIsUntimed == \A f \in Flow :
  flow[f].pc = "none" => ~ timer[f].armed /\ timer[f].checks = 0

\* A listener that was not opened yet is not closed either.
ClosedWasOpened == \A l \in Listener : listener[l].closed => Opened(l)

IInv == TypeOK /\ FoundWhileOpen /\ FilterFollows /\ ClosedWasOpened
        /\ OpenIsHandled /\ NewIsUntimed /\ Watched /\ ClosedWhenIdle

TimerType == [open : BOOLEAN, late : BOOLEAN, armed : BOOLEAN,
              checks : 0 .. MaxChecks, io : BOOLEAN]

FlowType == [pc : {"none", "found", "taken", "gone"},
             port : Port \cup {None}, on : Listener \cup {None}]

ListenerType == [port : Port \cup {None}, closed : BOOLEAN]

-----------------------------------------------------------------------------
(* Listeners, ports and the filter *)

ListenVars == <<server, ports, listener, filter>>

ListenInv ==
  /\ server \in {"new", "up", "closing", "closed"}
  /\ ports \in [Port -> Listener \cup {None}]
  /\ listener \in [Listener -> ListenerType]
  /\ filter \subseteq Port
  /\ FoundWhileOpen
  /\ FilterFollows
  /\ ClosedWasOpened

\* The filter admits ports, and nothing but ports.
LEMMA AdmittedType ==
  ASSUME NEW listening PROVE Admitted(listening) \subseteq Port
BY ListenersAssumption DEF Admitted

\* Steps of flows, accepts and timers leave the listeners alone.
LEMMA OthersKeepListenInv ==
  ASSUME ListenInv, UNCHANGED ListenVars PROVE ListenInv'
BY DEF ListenInv, ListenVars, ClosedWasOpened, FoundWhileOpen, FilterFollows, Opened, Admitted

\* The filter of a server that starts is built from the maps.
LEMMA StartsListenInv == ASSUME ListenInv, Starts PROVE ListenInv'
BY AdmittedType DEF ListenInv, Starts, ClosedWasOpened, FoundWhileOpen, FilterFollows, Opened, Admitted

\* The port is free and the listener unused, so no other listener can be
\* under that port, nor this one under another.
LEMMA ListenListenInv ==
  ASSUME ListenInv, NEW l \in Listener, NEW p \in Port, Listen(l, p)
  PROVE  ListenInv'
<1>1. ports' \in [Port -> Listener \cup {None}]
  BY DEF ListenInv, Listen
<1>2. listener' \in [Listener -> ListenerType]
  BY DEF ListenInv, Listen, ListenerType
<1>3. \A m \in Listener : Opened(m)' /\ ~ listener'[m].closed => ports'[listener'[m].port] = m
  <2> SUFFICES ASSUME NEW m \in Listener, Opened(m)', ~ listener'[m].closed
               PROVE  ports'[listener'[m].port] = m
    OBVIOUS
  <2>1. CASE m = l
    BY <2>1 DEF ListenInv, Listen, ListenerType
  <2>2. CASE m # l
    <3>1. listener'[m] = listener[m] /\ ports[listener[m].port] = m
      BY <2>2 DEF ListenInv, Listen, FoundWhileOpen, Opened
    <3>2. listener[m].port # p
      BY <3>1, ListenersAssumption DEF Listen
    <3> QED BY <3>1, <3>2 DEF ListenInv, Listen
  <2> QED BY <2>1, <2>2
<1>4. \A q \in Port : ports'[q] # None =>
        listener'[ports'[q]].port = q /\ ~ listener'[ports'[q]].closed
  <2> SUFFICES ASSUME NEW q \in Port, ports'[q] # None
               PROVE  listener'[ports'[q]].port = q /\ ~ listener'[ports'[q]].closed
    OBVIOUS
  <2>1. CASE q = p
    BY <2>1 DEF ListenInv, ClosedWasOpened, Listen, ListenerType
  <2>2. CASE q # p
    <3>1. ports'[q] = ports[q] /\ ports[q] \in Listener
      BY <2>2 DEF ListenInv, Listen
    <3>2. listener[ports[q]].port = q /\ ~ listener[ports[q]].closed
      BY <3>1 DEF ListenInv, FoundWhileOpen
    <3>3. ports[q] # l
      BY <3>2, ListenersAssumption DEF Listen, Opened
    <3> QED BY <3>1, <3>2, <3>3 DEF ListenInv, Listen
  <2> QED BY <2>1, <2>2
<1>5. ClosedWasOpened'
  BY ListenersAssumption DEF ListenInv, ClosedWasOpened, Listen, ListenerType, Opened
<1> QED BY <1>1, <1>2, <1>3, <1>4, <1>5, AdmittedType
     DEF ListenInv, Listen, FoundWhileOpen, FilterFollows, Admitted

\* Whoever is open is found under its port, so it is its own port it gives up.
LEMMA CloseListenInv ==
  ASSUME ListenInv, NEW l \in Listener, Close(l)
  PROVE  ListenInv'
<1> DEFINE p == listener[l].port
<1>1. p \in Port /\ ports[p] = l
  BY ListenersAssumption DEF ListenInv, ListenerType, Close, Opened, FoundWhileOpen
<1>2. ports' \in [Port -> Listener \cup {None}]
  BY DEF ListenInv, Close
<1>3. listener' \in [Listener -> ListenerType]
  BY DEF ListenInv, Close, ListenerType
<1>4. \A m \in Listener : Opened(m)' /\ ~ listener'[m].closed => ports'[listener'[m].port] = m
  <2> SUFFICES ASSUME NEW m \in Listener, Opened(m)', ~ listener'[m].closed
               PROVE  ports'[listener'[m].port] = m
    OBVIOUS
  <2>1. m # l
    BY DEF ListenInv, Close, ListenerType
  <2>2. listener'[m] = listener[m] /\ ports[listener[m].port] = m
    BY <2>1 DEF ListenInv, Close, FoundWhileOpen, Opened
  <2>3. listener[m].port # p /\ listener[m].port \in Port
    BY <1>1, <2>1, <2>2 DEF ListenInv, ListenerType, Opened
  <2> QED BY <2>2, <2>3 DEF ListenInv, Close
<1>5. \A q \in Port : ports'[q] # None =>
        listener'[ports'[q]].port = q /\ ~ listener'[ports'[q]].closed
  <2> SUFFICES ASSUME NEW q \in Port, ports'[q] # None
               PROVE  listener'[ports'[q]].port = q /\ ~ listener'[ports'[q]].closed
    OBVIOUS
  <2>1. q # p /\ ports'[q] = ports[q] /\ ports[q] \in Listener
    BY DEF ListenInv, Close
  <2>2. listener[ports[q]].port = q /\ ~ listener[ports[q]].closed
    BY <2>1 DEF ListenInv, FoundWhileOpen
  <2> QED BY <2>1, <2>2 DEF ListenInv, Close
<1>6. ClosedWasOpened'
  BY DEF ListenInv, ClosedWasOpened, Close, ListenerType, Opened
<1> QED BY <1>2, <1>3, <1>4, <1>5, <1>6, AdmittedType
     DEF ListenInv, Close, FoundWhileOpen, FilterFollows, Admitted

\* Every open listener is in the maps, so none is left open.
LEMMA ServerClosesListenInv == ASSUME ListenInv, ServerCloses PROVE ListenInv'
<1>1. listener' \in [Listener -> ListenerType]
  BY DEF ListenInv, ServerCloses, ListenerType
<1>2. \A m \in Listener : Opened(m)' => listener'[m].closed
  <2> SUFFICES ASSUME NEW m \in Listener, Opened(m)' PROVE listener'[m].closed
    OBVIOUS
  <2>1. CASE \E p \in Port : ports[p] = m
    BY <2>1 DEF ServerCloses, ListenInv, ListenerType
  <2>2. CASE ~ \E p \in Port : ports[p] = m
    <3>1. listener'[m] = listener[m]
      BY <2>2 DEF ServerCloses
    <3>2. listener[m].port \in Port /\ Opened(m)
      BY <3>1 DEF ListenInv, ListenerType, Opened
    <3> QED BY <2>2, <3>1, <3>2 DEF ListenInv, FoundWhileOpen
  <2> QED BY <2>1, <2>2
<1>3. server' # "up" /\ server' \in {"new", "up", "closing", "closed"}
  BY DEF ServerCloses
<1>4. ClosedWasOpened'
  <2> SUFFICES ASSUME NEW l \in Listener, listener'[l].closed PROVE listener[l].port # None
    BY DEF ClosedWasOpened, Opened, ServerCloses, ListenInv, ListenerType
  <2>1. CASE \E p \in Port : ports[p] = l
    BY <2>1, ListenersAssumption DEF ListenInv, FoundWhileOpen
  <2>2. CASE ~ \E p \in Port : ports[p] = l
    BY <2>2 DEF ServerCloses, ListenInv, ClosedWasOpened, Opened
  <2> QED BY <2>1, <2>2
<1> QED BY <1>1, <1>2, <1>3, <1>4 DEF ListenInv, ServerCloses, FoundWhileOpen, FilterFollows

\* The engine goes down behind the listeners.
LEMMA EngineClosesListenInv == ASSUME ListenInv, EngineCloses PROVE ListenInv'
BY DEF ListenInv, EngineCloses, ClosedWasOpened, FoundWhileOpen, FilterFollows, Opened

-----------------------------------------------------------------------------
(* Flows and their timers *)

FlowVars == <<accept, flow, timer>>

FlowInv ==
  /\ accept \in [Accepter -> Listener \cup {None}]
  /\ flow \in [Flow -> FlowType]
  /\ timer \in [Flow -> TimerType]
  /\ OpenIsHandled
  /\ NewIsUntimed
  /\ Watched
  /\ ClosedWhenIdle

\* Steps of the listeners leave flows, accepts and timers alone.
LEMMA OthersKeepFlowInv ==
  ASSUME FlowInv, UNCHANGED FlowVars PROVE FlowInv'
BY DEF FlowInv, FlowVars, OpenIsHandled, NewIsUntimed, Watched, ClosedWhenIdle

\* A step of one flow keeps the invariant if what becomes of that flow has it.
LEMMA OneFlowKeepsFlowInv ==
  ASSUME FlowInv, accept' \in [Accepter -> Listener \cup {None}],
         NEW f \in Flow, NEW r \in FlowType, NEW t \in TimerType,
         flow' = [flow EXCEPT ![f] = r], timer' = [timer EXCEPT ![f] = t],
         t.open => r.pc \in {"found", "taken"},
         r.pc = "none" => ~ t.armed /\ t.checks = 0,
         t.open /\ r.port \in UdpPort => t.armed \/ t.checks > 0,
         r.pc \in {"found", "taken"} /\ ~ t.open => t.late
  PROVE  FlowInv'
BY DEF FlowInv, OpenIsHandled, NewIsUntimed, Watched, ClosedWhenIdle

\* A new UDP flow has its timer set (newIdlePacketConn).
LEMMA FreshType ==
  ASSUME NEW p PROVE Fresh(p) \in TimerType /\ Fresh(p).open /\ (p \in UdpPort => Fresh(p).armed)
<1> DEFINE set   == [NoTimer EXCEPT !.open = TRUE, !.armed = TRUE]
           unset == [NoTimer EXCEPT !.open = TRUE, !.armed = FALSE]
<1>0. NoTimer \in TimerType
  BY ListenersAssumption DEF NoTimer, TimerType
<1>1. set \in TimerType /\ set.armed /\ set.open /\ unset \in TimerType /\ unset.open
  BY <1>0 DEF TimerType
<1>3. CASE p \in UdpPort
  <2>1. (p \in UdpPort) = TRUE
    BY <1>3
  <2>2. Fresh(p) = set
    BY <2>1, Zenon DEF Fresh
  <2> QED BY <1>1, <2>2, Zenon
<1>4. CASE p \notin UdpPort
  <2>1. (p \in UdpPort) = FALSE
    BY <1>4
  <2>2. Fresh(p) = unset
    BY <2>1, Zenon DEF Fresh
  <2> QED BY <1>1, <1>4, <2>2, Zenon
<1> QED BY <1>3, <1>4

\* A closed flow is of no more interest to its timer.
LEMMA ClosedType ==
  ASSUME NEW t \in TimerType PROVE Closed(t) \in TimerType /\ ~ Closed(t).open
BY DEF Closed, TimerType

\* A flow that somebody handles is open, one that nobody does is not.
LEMMA ArrivesFlowInv ==
  ASSUME ListenInv, FlowInv, NEW f \in Flow, NEW p \in Port, Arrives(f, p)
  PROVE  FlowInv'
<1> DEFINE handled == ports[p] # None \/ p \in Hooked
           r == [pc |-> IF ports[p] # None THEN "found" ELSE IF handled THEN "taken" ELSE "gone",
                 port |-> p, on |-> ports[p]]
           t == IF handled THEN Fresh(p) ELSE timer[f]
<1>1. r \in FlowType
  BY DEF ListenInv, FlowType
<1>2. t \in TimerType
  BY FreshType DEF FlowInv
<1>3. flow' = [flow EXCEPT ![f] = r] /\ timer' = [timer EXCEPT ![f] = t]
  BY DEF Arrives
<1>4. t.open => handled
  BY DEF FlowInv, OpenIsHandled, Arrives
<1>5. handled => r.pc \in {"found", "taken"}
  OBVIOUS
<1>6. t.open /\ r.port \in UdpPort => t.armed
  BY <1>4, FreshType
<1>7. r.pc # "none"
  OBVIOUS
<1>8. accept' \in [Accepter -> Listener \cup {None}]
  BY DEF Arrives, FlowInv
<1>9. r.pc \in {"found", "taken"} => t.open
  BY FreshType
<1> HIDE DEF handled, r, t
<1> QED BY <1>1, <1>2, <1>3, <1>4, <1>5, <1>6, <1>7, <1>8, <1>9, OneFlowKeepsFlowInv

\* A flow is let go of with its timer.
LEMMA LetGoFlowInv ==
  ASSUME FlowInv, NEW f \in Flow, HandleCloses(f) \/ FlowEnds(f)
  PROVE  FlowInv'
<1> DEFINE r == [flow[f] EXCEPT !.pc = "gone"]
           t == Closed(timer[f])
<1>1. r \in FlowType /\ t \in TimerType /\ ~ t.open /\ r.pc = "gone"
  BY ClosedType DEF FlowInv, FlowType
<1>2. flow' = [flow EXCEPT ![f] = r] /\ timer' = [timer EXCEPT ![f] = t] /\ accept' = accept
  BY DEF HandleCloses, FlowEnds, SetFlow, FlowInv
<1> HIDE DEF r, t
<1> QED BY <1>1, <1>2, OneFlowKeepsFlowInv DEF FlowInv

\* Accept takes a flow over with its timer as it is.
LEMMA HandOverFlowInv ==
  ASSUME FlowInv, NEW f \in Flow, NEW a \in Accepter, HandOver(f, a)
  PROVE  FlowInv'
BY DEF FlowInv, FlowType, HandOver, SetFlow, OpenIsHandled, NewIsUntimed, Watched, ClosedWhenIdle

\* An Accept that begins or fails touches no flow.
LEMMA AcceptFlowInv ==
  ASSUME FlowInv, NEW a \in Accepter,
         AcceptFails(a) \/ \E l \in Listener : AcceptCalled(a, l)
  PROVE  FlowInv'
BY DEF FlowInv, AcceptFails, AcceptCalled, OpenIsHandled, NewIsUntimed, Watched, ClosedWhenIdle

\* A step of a timer never opens a flow.
LEMMA SetTimerFlowInv ==
  ASSUME FlowInv, NEW f \in Flow, NEW t \in TimerType, SetTimer(f, t),
         t.open => timer[f].open,
         flow[f].pc = "none" => ~ t.armed /\ t.checks = 0,
         t.open /\ flow[f].port \in UdpPort => t.armed \/ t.checks > 0,
         flow[f].pc \in {"found", "taken"} /\ ~ t.open => t.late
  PROVE  FlowInv'
<1>1. flow' = [flow EXCEPT ![f] = flow[f]] /\ timer' = [timer EXCEPT ![f] = t]
      /\ accept' = accept
  BY DEF SetTimer, FlowInv
<1>2. t.open => flow[f].pc \in {"found", "taken"}
  BY DEF FlowInv, OpenIsHandled
<1>3. flow[f] \in FlowType
  BY DEF FlowInv
<1> QED BY <1>1, <1>2, <1>3, OneFlowKeepsFlowInv DEF FlowInv

\* Whether it fires, is looked at, or is touched, the timer of an open flow is
\* set or about to be looked at.
LEMMA TimerFlowInv ==
  ASSUME FlowInv, NEW f \in Flow,
         GetsLate(f) \/ Fires(f) \/ CheckIdle(f) \/ Traffic(f) \/ Touch(f)
  PROVE  FlowInv'
<1>0. timer[f] \in TimerType
      /\ (timer[f].open /\ flow[f].port \in UdpPort => timer[f].armed \/ timer[f].checks > 0)
      /\ (timer[f].open => flow[f].pc # "none")
      /\ (flow[f].pc = "none" => ~ timer[f].armed /\ timer[f].checks = 0)
      /\ (flow[f].pc \in {"found", "taken"} /\ ~ timer[f].open => timer[f].late)
  BY DEF FlowInv, Watched, OpenIsHandled, NewIsUntimed, ClosedWhenIdle
<1>1. CASE GetsLate(f)
  <2> DEFINE t == [timer[f] EXCEPT !.late = TRUE]
  <2>1. t \in TimerType /\ t.open = timer[f].open /\ t.armed = timer[f].armed
        /\ t.checks = timer[f].checks /\ t.late
    BY <1>0 DEF TimerType
  <2>2. SetTimer(f, t)
    BY <1>1 DEF GetsLate
  <2> HIDE DEF t
  <2> QED BY <1>0, <2>1, <2>2, SetTimerFlowInv
<1>2. CASE Fires(f)
  <2> DEFINE n == timer[f].checks + 1
             t == [timer[f] EXCEPT !.armed = FALSE, !.checks = n]
  <2>0. n \in 0 .. MaxChecks /\ n > 0
    BY <1>0, <1>2, ListenersAssumption DEF Fires, TimerType
  <2>1. t \in TimerType /\ t.open = timer[f].open /\ t.checks > 0
        /\ t.late = timer[f].late
    <3> HIDE DEF n
    <3> QED BY <1>0, <2>0 DEF TimerType
  <2>2. SetTimer(f, t)
    BY <1>2 DEF Fires
  <2> HIDE DEF t
  <2>3. flow[f].pc # "none"
    BY <1>0, <1>2 DEF Fires
  <2> QED BY <1>0, <2>1, <2>2, <2>3, SetTimerFlowInv
<1>3. CASE CheckIdle(f)
  <2> DEFINE n == timer[f].checks - 1
             o == timer[f].open /\ ~ timer[f].late
             t == [timer[f] EXCEPT !.checks = n, !.open = o, !.armed = @ \/ o]
  <2>1. n \in 0 .. MaxChecks
    BY <1>0, <1>3, ListenersAssumption DEF CheckIdle, TimerType
  <2>2. t \in TimerType /\ (t.open => timer[f].open /\ t.armed)
        /\ (~ t.open => ~ timer[f].open \/ timer[f].late) /\ t.late = timer[f].late
    <3> HIDE DEF n
    <3>1. CASE o
      BY <1>0, <2>1, <3>1 DEF TimerType
    <3>2. CASE ~ o
      BY <1>0, <2>1, <3>2 DEF TimerType
    <3> QED BY <3>1, <3>2
  <2>3. SetTimer(f, t)
    BY <1>3, Zenon DEF CheckIdle
  <2>4. flow[f].pc # "none"
    BY <1>0, <1>3, ListenersAssumption DEF CheckIdle, TimerType
  <2> HIDE DEF t
  <2> QED BY <1>0, <2>2, <2>3, <2>4, SetTimerFlowInv
<1>4. CASE Traffic(f)
  <2> DEFINE t == [timer[f] EXCEPT !.io = TRUE]
  <2>1. t \in TimerType /\ t.open = timer[f].open /\ t.armed = timer[f].armed
        /\ t.checks = timer[f].checks /\ t.late = timer[f].late
    BY <1>0 DEF TimerType
  <2>2. SetTimer(f, t)
    BY <1>4 DEF Traffic
  <2> HIDE DEF t
  <2> QED BY <1>0, <2>1, <2>2, SetTimerFlowInv
<1>5. CASE Touch(f)
  <2> DEFINE live == [timer[f] EXCEPT !.io = FALSE, !.late = FALSE, !.armed = TRUE]
             dead == [timer[f] EXCEPT !.io = FALSE]
  <2>1. live \in TimerType /\ dead \in TimerType /\ dead.open = timer[f].open /\ live.armed
        /\ dead.armed = timer[f].armed /\ dead.checks = timer[f].checks
        /\ live.open = timer[f].open /\ dead.late = timer[f].late
    BY <1>0 DEF TimerType
  <2>2. SetTimer(f, IF timer[f].open THEN live ELSE dead)
    BY <1>5 DEF Touch
  <2> HIDE DEF live, dead
  <2>3. CASE timer[f].open
    BY <1>0, <2>1, <2>2, <2>3, SetTimerFlowInv
  <2>4. CASE ~ timer[f].open
    BY <1>0, <2>1, <2>2, <2>4, SetTimerFlowInv
  <2> QED BY <2>3, <2>4
<1> QED BY <1>1, <1>2, <1>3, <1>4, <1>5

-----------------------------------------------------------------------------
(* The theorems *)

\* The invariant is one of the listeners and one of the flows.
LEMMA IInvParts == IInv <=> ListenInv /\ FlowInv
BY DEF IInv, ListenInv, FlowInv, TypeOK, ListenerType, FlowType, TimerType

\* It holds where nothing is open.
LEMMA InitIInv == Init => IInv
<1> SUFFICES ASSUME Init PROVE ListenInv /\ FlowInv
  BY IInvParts
<1>1. ListenInv
  BY ListenersAssumption DEF Init, ListenInv, ListenerType, FoundWhileOpen, FilterFollows,
       ClosedWasOpened, Opened
<1>2. NoTimer \in TimerType /\ ~ NoTimer.open
  BY ListenersAssumption DEF NoTimer, TimerType
<1>3. FlowInv
  BY <1>2 DEF Init, FlowInv, FlowType, NoTimer, OpenIsHandled, NewIsUntimed, Watched, ClosedWhenIdle
<1> QED BY <1>1, <1>3

\* Each action disturbs at most one of its halves.
LEMMA NextIInv == IInv /\ [Next]_vars => IInv'
<1> SUFFICES ASSUME ListenInv, FlowInv, [Next]_vars PROVE ListenInv' /\ FlowInv'
  BY DEF IInv, ListenInv, FlowInv, TypeOK, ListenerType, FlowType, TimerType
<1>1. CASE Starts
  BY <1>1, StartsListenInv, OthersKeepFlowInv DEF Starts, flows, FlowVars
<1>2. CASE ServerCloses
  BY <1>2, ServerClosesListenInv, OthersKeepFlowInv DEF ServerCloses, flows, FlowVars
<1>3. CASE EngineCloses
  BY <1>3, EngineClosesListenInv, OthersKeepFlowInv DEF EngineCloses, flows, FlowVars
<1>4. ASSUME NEW l \in Listener, Close(l) PROVE ListenInv' /\ FlowInv'
  BY <1>4, CloseListenInv, OthersKeepFlowInv DEF Close, flows, FlowVars
<1>5. ASSUME NEW l \in Listener, NEW p \in Port, Listen(l, p) PROVE ListenInv' /\ FlowInv'
  BY <1>5, ListenListenInv, OthersKeepFlowInv DEF Listen, flows, FlowVars
<1>6. ASSUME NEW a \in Accepter, AcceptFails(a) \/ \E l \in Listener : AcceptCalled(a, l)
      PROVE  ListenInv' /\ FlowInv'
  <2>1. UNCHANGED ListenVars
    BY <1>6 DEF AcceptFails, AcceptCalled, ListenVars
  <2> QED BY <1>6, <2>1, AcceptFlowInv, OthersKeepListenInv
<1>7. ASSUME NEW f \in Flow, NEW p \in Port, Arrives(f, p) PROVE ListenInv' /\ FlowInv'
  <2>1. UNCHANGED ListenVars
    BY <1>7 DEF Arrives, ListenVars
  <2> QED BY <1>7, <2>1, ArrivesFlowInv, OthersKeepListenInv
<1>8. ASSUME NEW f \in Flow, NEW a \in Accepter, HandOver(f, a) PROVE ListenInv' /\ FlowInv'
  <2>1. UNCHANGED ListenVars
    BY <1>8 DEF HandOver, ListenVars
  <2> QED BY <1>8, <2>1, HandOverFlowInv, OthersKeepListenInv
<1>9. ASSUME NEW f \in Flow, HandleCloses(f) \/ FlowEnds(f) PROVE ListenInv' /\ FlowInv'
  <2>1. UNCHANGED ListenVars
    BY <1>9 DEF HandleCloses, FlowEnds, ListenVars
  <2> QED BY <1>9, <2>1, LetGoFlowInv, OthersKeepListenInv
<1>10. ASSUME NEW f \in Flow,
              GetsLate(f) \/ Fires(f) \/ CheckIdle(f) \/ Traffic(f) \/ Touch(f)
       PROVE  ListenInv' /\ FlowInv'
  <2>1. UNCHANGED ListenVars
    BY <1>10 DEF GetsLate, Fires, CheckIdle, Traffic, Touch, SetTimer, ListenVars
  <2> QED BY <1>10, <2>1, TimerFlowInv, OthersKeepListenInv
<1>11. CASE UNCHANGED vars
  BY <1>11, OthersKeepListenInv, OthersKeepFlowInv DEF vars, ListenVars, FlowVars
<1> QED BY <1>1, <1>2, <1>3, <1>4, <1>5, <1>6, <1>7, <1>8, <1>9, <1>10, <1>11
     DEF Next, Timing

\* The inductive invariant holds: it is what the theorems below rest on.
THEOREM IInvHolds == Spec => []IInv
BY InitIInv, NextIInv, PTL DEF Spec

\* Type correctness, and no timer ever has a negative number of goroutines.
THEOREM TypeCorrect == Spec => []TypeOK
<1>1. IInv => TypeOK
  BY DEF IInv
<1> QED BY <1>1, IInvHolds, PTL

\* However many listeners come and go on a port, the one under it is the one
\* that is open, and a closed one is under none (listen.go:175-200).
THEOREM OpenListenersAreFound == Spec => []FoundWhileOpen
<1>1. IInv => FoundWhileOpen
  BY DEF IInv
<1> QED BY <1>1, IInvHolds, PTL

\* While the server is up, the packet filter admits the served and the
\* listened-on ports and no other (tailcat.go:954-1034).
THEOREM FilterIsCurrent == Spec => []FilterFollows
<1>1. IInv => FilterFollows
  BY DEF IInv
<1> QED BY <1>1, IInvHolds, PTL

\* No open UDP flow is without a timer, however touch and checkIdle cross
\* (tailcat.go:3000-3023).
THEOREM OpenFlowsAreWatched == Spec => []Watched
<1>1. IInv => Watched
  BY DEF IInv
<1> QED BY <1>1, IInvHolds, PTL

\* Whoever has a flow that its timer closed had left it alone until its deadline,
\* for any number of timer goroutines (tailcat.go:2995-3023).
THEOREM ClosedFlowsWereIdle == Spec => []ClosedWhenIdle
<1>1. IInv => ClosedWhenIdle
  BY DEF IInv
<1> QED BY <1>1, IInvHolds, PTL

-----------------------------------------------------------------------------
(* The rendezvous and the terminal service of MCLive.  Their own proofs hold of the *)
(* instances here, and an instance of a module is the same with its proofs as      *)
(* without, which takes no more than to expand both.                                *)

MeowProved == INSTANCE RendezvousProofs WITH
  Client <- {"c1"}, DirectClient <- {"c1"}, PingClient <- {"c1"}, LazyMax <- 1,
  MaxRuns <- 2,
  server <- x1, restricted <- x2, allowed <- x3, clients <- x4, nm <- x5,
  magic <- x6, lazy <- x7, session <- x8, node <- x9, pings <- x10, acks <- x11

TermProved == INSTANCE TermServiceProofs WITH
  Name <- {"n1"}, Session <- {"s1", "s2"}, Client <- {"c1"}, Killer <- {"k1"},
  MaxSessions <- 1,
  registry <- x1, session <- x2, conn <- x3, kill <- x4, closing <- x5

\* The instances of the rendezvous are one.
LEMMA MeowSame ==
  /\ Meow!Init <=> MeowProved!Init
  /\ Meow!Next <=> MeowProved!Next
  /\ Meow!TypeOK <=> MeowProved!TypeOK
BY DEF
     Meow!serverVars, MeowProved!serverVars, Meow!NodeState, MeowProved!NodeState,
     Meow!New, MeowProved!New, Meow!Permitted, MeowProved!Permitted, Meow!ServerStarts,
     MeowProved!ServerStarts, Meow!ServerInstalls, MeowProved!ServerInstalls,
     Meow!ServerIsUp, MeowProved!ServerIsUp, Meow!ServerStops, MeowProved!ServerStops,
     Meow!AddAllowedClient, MeowProved!AddAllowedClient, Meow!OnMeow, MeowProved!OnMeow,
     Meow!Without, MeowProved!Without, Meow!Noted, MeowProved!Noted, Meow!Admits,
     MeowProved!Admits, Meow!Routes, MeowProved!Routes, Meow!Expired, MeowProved!Expired,
     Meow!Handshake, MeowProved!Handshake, Meow!Set, MeowProved!Set, Meow!Call,
     MeowProved!Call, Meow!SendPing, MeowProved!SendPing, Meow!OnMeowed,
     MeowProved!OnMeowed, Meow!Lose, MeowProved!Lose, Meow!CallSucceeds,
     MeowProved!CallSucceeds, Meow!CallTimesOut, MeowProved!CallTimesOut,
     Meow!BackgroundSucceeds, MeowProved!BackgroundSucceeds, Meow!BackgroundTimesOut,
     MeowProved!BackgroundTimesOut, Meow!BackgroundRetries, MeowProved!BackgroundRetries,
     Meow!BackgroundStops, MeowProved!BackgroundStops, Meow!Close, MeowProved!Close,
     Meow!Replace, MeowProved!Replace, Meow!Init, MeowProved!Init, Meow!Starting,
     MeowProved!Starting, Meow!Background, MeowProved!Background, Meow!Next,
     MeowProved!Next, Meow!TypeOK, MeowProved!TypeOK, Meow!RemoveAt, MeowProved!RemoveAt,
     Meow!Range, MeowProved!Range

\* So are those of the service.
LEMMA TermSame ==
  /\ Term!Init <=> TermProved!Init
  /\ Term!Next <=> TermProved!Next
  /\ Term!TypeOK <=> TermProved!TypeOK
BY DEF
     Term!ExitCode, TermProved!ExitCode, Term!Phase, TermProved!Phase,
     Term!Reason, TermProved!Reason, Term!SessionState,
     TermProved!SessionState, Term!ConnState, TermProved!ConnState, Term!KillState,
     TermProved!KillState, Term!Spawned, TermProved!Spawned, Term!Done, TermProved!Done,
     Term!Registered, TermProved!Registered, Term!Started, TermProved!Started,
     Term!Found, TermProved!Found, Term!HelloFinds, TermProved!HelloFinds,
     Term!HelloCreates, TermProved!HelloCreates, Term!HelloRefused,
     TermProved!HelloRefused, Term!Closed, TermProved!Closed, Term!Let, TermProved!Let,
     Term!Attach, TermProved!Attach, Term!AttachFails, TermProved!AttachFails,
     Term!StreamEnds, TermProved!StreamEnds, Term!FrameFails, TermProved!FrameFails,
     Term!Exit, TermProved!Exit, Term!LetGo, TermProved!LetGo, Term!Signalled,
     TermProved!Signalled, Term!TellExitCode, TermProved!TellExitCode, Term!Tell,
     TermProved!Tell, Term!CloseMaster, TermProved!CloseMaster, Term!FinishWait,
     TermProved!FinishWait, Term!Remove, TermProved!Remove, Term!PumpReadFails,
     TermProved!PumpReadFails, Term!PumpWait, TermProved!PumpWait, Term!PumpFinish,
     TermProved!PumpFinish, Term!KillLookup, TermProved!KillLookup, Term!KillMark,
     TermProved!KillMark, Term!KillSignal, TermProved!KillSignal, Term!KillGrace,
     TermProved!KillGrace, Term!CloseStarts, TermProved!CloseStarts, Term!CloseFinishes,
     TermProved!CloseFinishes, Term!NotSpawned, TermProved!NotSpawned, Term!Init,
     TermProved!Init, Term!Finishing, TermProved!Finishing, Term!Pumping,
     TermProved!Pumping, Term!Killing, TermProved!Killing, Term!Next, TermProved!Next,
     Term!TypeOK, TermProved!TypeOK, Term!Cardinality, TermProved!Cardinality

\* The invariant of the rendezvous starts, stays, and says enough.
LEMMA MeowTyped ==
  /\ Meow!Init => MeowProved!IInv
  /\ MeowProved!IInv /\ (Meow!Next \/ UNCHANGED xs) => MeowProved!IInv'
  /\ MeowProved!IInv => Meow!TypeOK
<1>1. MeowProved!RendezvousAssumption
  BY DEF MeowProved!RendezvousAssumption
<1>2. Meow!Init => MeowProved!IInv
  BY MeowSame, MeowProved!InitIInv
<1>3. UNCHANGED xs => UNCHANGED MeowProved!vars
  BY DEF xs, MeowProved!vars, MeowProved!serverVars
<1>4. MeowProved!IInv => MeowProved!TypeOK
  BY DEF MeowProved!IInv
<1> QED
  BY <1>2, <1>3, <1>4, MeowSame, MeowProved!NextIInv

\* So does that of the service, with sessions that are finitely many.
LEMMA TermTyped ==
  /\ Term!Init => TermProved!IInv
  /\ TermProved!IInv /\ (Term!Next \/ UNCHANGED xs) => TermProved!IInv'
  /\ TermProved!IInv => Term!TypeOK
<1>1. TermProved!ServiceAssumption
  <2>1. IsFiniteSet({"s1"})
    BY FS_Singleton
  <2>2. IsFiniteSet({"s1"} \cup {"s2"})
    BY <2>1, FS_AddElement
  <2>3. {"s1"} \cup {"s2"} = {"s1", "s2"}
    OBVIOUS
  <2>4. IsFiniteSet({"s1", "s2"})
    BY <2>2, <2>3, Zenon
  <2>5. TermProved!IsFiniteSet({"s1", "s2"})
    BY <2>4 DEF IsFiniteSet, TermProved!IsFiniteSet
  <2>6. None \notin {"n1"} \cup {"s1", "s2"} \cup {"c1"}
    BY LiveAssumption
  <2> QED
    BY <2>5, <2>6 DEF TermProved!ServiceAssumption
<1>2. Term!Init => TermProved!IInv
  BY <1>1, TermSame, TermProved!InitIInv DEF TermProved!ServiceAssumption
<1>3. UNCHANGED xs => UNCHANGED TermProved!vars
  BY DEF xs, TermProved!vars
<1>4. TermProved!IInv => TermProved!TypeOK
  BY DEF TermProved!IInv
<1> QED
  BY <1>1, <1>2, <1>3, <1>4, TermSame, TermProved!NextIInv DEF TermProved!ServiceAssumption
-----------------------------------------------------------------------------
(* The command of MCLive, with its types: what was sent and what is queued is not    *)
(* more than what was written, a start has a step left, and only a pseudoconsole is  *)
(* closed.                                                                           *)

CommandTyped ==
  /\ Command!TypeOK
  /\ x5.sent + x5.queued <= x5.wrote
  /\ x2[1] = "starts" => x2[2] <= Len(Command!Steps)
  /\ x2[1] = "closes" => x1 = "conpty"

\* The phase after one that comes to its end.
LEMMA CommandPhases ==
  ASSUME NEW phase \in {"drains", "waits", "closes"}, phase = "closes" => x1 = "conpty"
  PROVE  /\ Command!After(phase) \in {"drains", "waits", "closes", "ended"}
         /\ Command!After(phase) = "closes" => x1 = "conpty"
<1>1. CASE x1 = "conpty"
  <2>1. DOMAIN Command!Order = 1 .. 4
    BY <1>1 DEF Command!Order, Command!Phases
  <2>2. (CHOOSE i \in DOMAIN Command!Order : Command!Order[i] = "waits") = 1
    BY <1>1 DEF Command!Order, Command!Phases
  <2>3. (CHOOSE i \in DOMAIN Command!Order : Command!Order[i] = "closes") = 2
    BY <1>1 DEF Command!Order, Command!Phases
  <2>4. (CHOOSE i \in DOMAIN Command!Order : Command!Order[i] = "drains") = 3
    BY <1>1 DEF Command!Order, Command!Phases
  <2> QED
    BY <1>1, <2>1, <2>2, <2>3, <2>4 DEF Command!After, Command!Order, Command!Phases
<1>2. CASE x1 # "conpty"
  <2>1. (CHOOSE i \in DOMAIN Command!Order : Command!Order[i] = "drains") = 1
    BY <1>2 DEF Command!Order, Command!Phases
  <2>2. (CHOOSE i \in DOMAIN Command!Order : Command!Order[i] = "waits") = 2
    BY <1>2 DEF Command!Order, Command!Phases
  <2> QED
    BY <1>2, <2>1, <2>2 DEF Command!After, Command!Order, Command!Phases
<1> QED
  BY <1>1, <1>2

\* What a step of a start opens is of a terminal or of a pseudoconsole.
LEMMA CommandOpens ==
  ASSUME NEW i \in 1 .. 4, i <= Len(Command!Steps)
  PROVE  /\ Len(Command!Steps) \in 1 .. 4
         /\ Command!Steps[i].opens
              \subseteq {"ptmx", "tty", "winch", "inRead", "inWrite", "outRead", "outWrite", "hpc", "proc"}
<1>1. CASE x1 = "conpty"
  <2>1. i = 1 \/ i = 2 \/ i = 3 \/ i = 4
    OBVIOUS
  <2> QED
    BY <1>1, <2>1 DEF Command!Steps, Command!ConPTY, Command!Step
<1>2. CASE x1 = "pty"
  <2>1. i = 1 \/ i = 2
    BY <1>2 DEF Command!Steps, Command!PTY
  <2> QED
    BY <1>2, <2>1 DEF Command!Steps, Command!PTY, Command!Step
<1>3. CASE x1 \notin {"conpty", "pty"}
  <2>1. i = 1
    BY <1>3 DEF Command!Steps, Command!Pipes
  <2> QED
    BY <1>3, <2>1 DEF Command!Steps, Command!Pipes, Command!Step
<1> QED
  BY <1>1, <1>2, <1>3

\* A start begins with its first step.
LEMMA CommandInit == Command!Init => CommandTyped
<1>1. Len(Command!Steps) >= 1
  BY DEF Command!Steps, Command!ConPTY, Command!PTY, Command!Pipes
<1> QED
  BY <1>1 DEF Command!Init, Command!TypeOK, CommandTyped

\* A step of the start is taken, is the last, or fails.
LEMMA CommandStarts ==
  ASSUME NEW i \in 1 .. 4, CommandTyped, Command!Starts(i) PROVE CommandTyped'
<1>1. /\ i <= Len(Command!Steps) /\ Command!Steps' = Command!Steps
      /\ UNCHANGED <<x1, x5, x7, x8>>
  BY DEF Command!Starts, Command!Steps, CommandTyped
<1>2. x3' \subseteq x3 \cup Command!Steps[i].opens
  BY DEF Command!Starts
<1>3. /\ x2' \in {<<"starts", j>> : j \in 1 .. 4} \cup {<<p, 0>> : p \in {"drains", "waits", "ended"}}
      /\ x2'[1] = "starts" => x2'[2] <= Len(Command!Steps)
  <2>1. CASE i < Len(Command!Steps) /\ x2' = <<"starts", i + 1>>
    <3> DEFINE n == Len(Command!Steps)
    <3>2. n \in 1 .. 4 /\ i < n
      BY <1>1, <2>1, CommandOpens
    <3> HIDE DEF n
    <3>1. i + 1 \in 1 .. 4 /\ i + 1 <= n
      BY <3>2
    <3> QED
      BY <2>1, <3>1 DEF n
  <2>2. CASE x2' = <<Command!Order[1], 0>>
    <3>1. Command!Order[1] \in {"drains", "waits"}
      BY DEF Command!Order, Command!Phases
    <3> QED
      BY <2>2, <3>1
  <2>3. CASE x2' = <<"ended", 0>>
    BY <2>3
  <2> QED
    BY <2>1, <2>2, <2>3 DEF Command!Starts
<1>4. x4' \subseteq {"proc", "heir"} /\ x6' \subseteq {"in", "out"}
  BY DEF Command!Starts, Command!TypeOK, CommandTyped
<1>5. Command!TypeOK'
  BY <1>1, <1>2, <1>3, <1>4, CommandOpens DEF Command!TypeOK, CommandTyped
<1> QED
  BY <1>1, <1>3, <1>5 DEF CommandTyped

\* Output is written, carried, or lost.
LEMMA CommandOutput ==
  ASSUME CommandTyped, Command!Writes \/ Command!CopiesOut PROVE CommandTyped'
<1>1. UNCHANGED <<x1, x2, x3, x4, x7, x8>> /\ x6' \subseteq x6
  BY DEF Command!Writes, Command!CopiesOut
<1>2. x5 \in [wrote : 0 .. 2, queued : 0 .. 2, sent : 0 .. 2] /\ x5.sent + x5.queued <= x5.wrote
  BY DEF Command!TypeOK, CommandTyped
<1>3. \/ /\ x5' = [wrote |-> x5.wrote + 1, queued |-> x5.queued + 1, sent |-> x5.sent]
         /\ x5.queued < 2 /\ x5.wrote < 2
      \/ /\ \/ x5' = [wrote |-> x5.wrote, queued |-> x5.queued - 1, sent |-> x5.sent]
            \/ x5' = [wrote |-> x5.wrote, queued |-> x5.queued - 1, sent |-> x5.sent + 1]
         /\ x5.queued > 0
  BY <1>2 DEF Command!Writes, Command!CopiesOut
<1>4. x5' \in [wrote : 0 .. 2, queued : 0 .. 2, sent : 0 .. 2] /\ x5'.sent + x5'.queued <= x5'.wrote
  BY <1>2, <1>3
<1> QED
  BY <1>1, <1>4 DEF Command!TypeOK, Command!Steps, CommandTyped

\* The handler goes on to its next phase.
LEMMA CommandHandler ==
  ASSUME CommandTyped, Command!Handler PROVE CommandTyped'
<1>1. /\ UNCHANGED <<x1, x7, x8>> /\ x3' \subseteq x3 /\ x4' \subseteq x4 /\ x6' \subseteq x6
      /\ x5' = x5 \/ x5' = [x5 EXCEPT !.queued = 0]
  BY DEF Command!Handler, Command!Drains, Command!Waits, Command!ClosesConsole,
     Command!PhaseEnds
<1>2. PICK phase \in {"drains", "waits", "closes"} :
        x2[1] = phase /\ x2' = <<Command!After(phase), 0>>
  BY DEF Command!Handler, Command!Drains, Command!Waits, Command!ClosesConsole,
     Command!PhaseEnds
<1>3. /\ Command!After(phase) \in {"drains", "waits", "closes", "ended"}
      /\ Command!After(phase) = "closes" => x1 = "conpty"
  BY <1>2, CommandPhases DEF CommandTyped
<1>4. x5' \in [wrote : 0 .. 2, queued : 0 .. 2, sent : 0 .. 2] /\ x5'.sent + x5'.queued <= x5'.wrote
  BY <1>1 DEF Command!TypeOK, CommandTyped
<1>5. Command!TypeOK'
  BY <1>1, <1>2, <1>3, <1>4 DEF Command!TypeOK, CommandTyped
<1> QED
  BY <1>1, <1>2, <1>3, <1>4, <1>5 DEF CommandTyped

\* Nobody else touches the output or the phase.
LEMMA CommandOthers ==
  ASSUME CommandTyped,
         \/ Command!Forks \/ \E w \in {"proc", "heir"} : Command!Exits(w)
         \/ \E how \in {"eof", "gone"} : Command!Leaves(how)
         \/ Command!Sends \/ Command!CopiesIn \/ Command!OutputEnds
         \/ Command!WindowEnds \/ Command!WindowReturns \/ UNCHANGED xs
  PROVE  CommandTyped'
<1>1. /\ UNCHANGED <<x1, x2, x5>> /\ x3' \subseteq x3 /\ x4' \subseteq x4 \cup {"proc", "heir"}
      /\ x6' \subseteq x6 /\ x7' \in {x7, "eof", "gone"} /\ x8' \in {x8, "shut"}
  BY DEF Command!Forks, Command!Exits, Command!Leaves, Command!Sends, Command!CopiesIn,
     Command!InputEnds, Command!OutputEnds, Command!WindowEnds, Command!WindowReturns, xs
<1>2. Command!Steps' = Command!Steps
  BY <1>1 DEF Command!Steps
<1>3. Command!TypeOK'
  BY <1>1 DEF Command!TypeOK, CommandTyped
<1> QED
  BY <1>1, <1>2, <1>3 DEF CommandTyped

\* Every step of the command keeps its types.
LEMMA CommandStep ==
  ASSUME CommandTyped, Command!Next \/ UNCHANGED xs PROVE CommandTyped'
BY CommandStarts, CommandOutput, CommandHandler, CommandOthers DEF Command!Next, Command!Copier

-----------------------------------------------------------------------------
(* What runs in MCLive.  The invariant of the part that runs holds of its variables, *)
(* and that of the listeners throughout: their variables only change in their part.  *)

LiveInv ==
  /\ IInv
  /\ part = "command" => CommandTyped
  /\ part = "rdv" => MeowProved!IInv
  /\ part = "term" => TermProved!IInv

\* It holds at first, ...
LEMMA LiveInvInit == LiveInit => LiveInv
BY InitIInv, CommandInit, MeowTyped, TermTyped DEF LiveInit, LiveInv

\* ... and a step of one part leaves the others' share of it alone.
LEMMA LiveInvStep ==
  ASSUME LiveInv, LiveNext \/ UNCHANGED <<part, xs, vars>> PROVE LiveInv'
<1>1. part' = part /\ (Next \/ UNCHANGED vars)
  BY DEF LiveNext
<1>2. IInv'
  BY <1>1, NextIInv DEF LiveInv
<1>3. ASSUME part = "command" PROVE CommandTyped'
  BY <1>3, CommandStep DEF LiveInv, LiveNext
<1>4. ASSUME part = "rdv" PROVE MeowProved!IInv'
  BY <1>4, MeowTyped DEF LiveInv, LiveNext
<1>5. ASSUME part = "term" PROVE TermProved!IInv'
  BY <1>5, TermTyped DEF LiveInv, LiveNext
<1> QED
  BY <1>1, <1>2, <1>3, <1>4, <1>5 DEF LiveInv

\* Whichever of the live parts runs, its variables keep their types, and so do those
\* of the listeners, for any ports, listeners and flows.
THEOREM LiveTyped == LiveSpec => []TypesHold
<1>1. LiveInv /\ [LiveNext]_<<part, xs, vars>> => LiveInv'
  BY LiveInvStep
<1>2. LiveInv => TypesHold
  BY MeowTyped, TermTyped DEF LiveInv, CommandTyped, IInv, TypesHold
<1> HIDE DEF LiveInv
<1> QED
  BY <1>1, <1>2, LiveInvInit, PTL DEF LiveSpec

====
