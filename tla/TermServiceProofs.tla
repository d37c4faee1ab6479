---- MODULE TermServiceProofs ----
(***************************************************************************)
(* What holds of the terminal service for every number of names, sessions, *)
(* clients and KILLs, and every limit on the sessions.                     *)
(***************************************************************************)
EXTENDS TermService, Functions, SequenceTheorems, FiniteSetTheorems, TLAPS

-----------------------------------------------------------------------------
(* The inductive invariant *)

\* Whoever is past the lookup of a session has one, and a client a spawned one.
Bound ==
  /\ \A c \in Client : conn[c].pc \in {"found", "stream"} =>
                       conn[c].on \in Session /\ Spawned(conn[c].on)
  /\ \A k \in Killer : kill[k].pc \in {"found", "signal", "grace"} => kill[k].on \in Session

\* The registry has only sessions of their own name that are not taken out of it.
RegistrySound ==
  \A n \in Name :
    registry[n] # None => /\ session[registry[n]].name = n
                          /\ session[registry[n]].phase # "removed"

\* The client a session is attached to is in stream, on that session.
AttachedSound ==
  \A s \in Session :
    LET c == session[s].attached
    IN  c # None => conn[c].pc = "stream" /\ conn[c].on = s

\* finish releases the ring of a session only after its process was waited for.
WaitedFirst ==
  \A s \in Session : session[s].phase = "reclaimed" => session[s].process = "reaped"

\* An open connection in stream is the one its session is attached to.
ListensAttached ==
  \A c \in Client :
    conn[c].pc = "stream" /\ conn[c].open => session[conn[c].on].attached = c

IInv ==
  /\ TypeOK
  /\ Bound
  /\ RegistrySound
  /\ AttachedSound
  /\ WaitedFirst
  /\ RegisteredUntilReclaimed
  /\ ListensAttached

LEMMA InitIInv == Init => IInv
<1> SUFFICES ASSUME Init PROVE IInv
  OBVIOUS
<1>1. NotSpawned \in SessionState /\ NotSpawned.name = None /\ NotSpawned.attached = None
      /\ NotSpawned.phase = "none"
  BY DEF NotSpawned, Started, SessionState, Phase, ExitCode
<1>2. << >> \in Seq({"attached"} \cup Reason)
  BY EmptySeq
<1> QED
  BY <1>1, <1>2, ServiceAssumption
     DEF Init, IInv, TypeOK, Bound, RegistrySound, AttachedSound, WaitedFirst,
         RegisteredUntilReclaimed, ListensAttached, Spawned, ConnState, KillState

-----------------------------------------------------------------------------
(* Steps of one session that concern neither its name nor its client *)

LEMMA OwnStep ==
  ASSUME IInv, NEW s \in Session, NEW ss \in SessionState,
         session' = [session EXCEPT ![s] = ss],
         ss.name = session[s].name, ss.attached = session[s].attached,
         session[s].process = "reaped" => ss.process = "reaped",
         ss.phase # session[s].phase =>
           /\ session[s].phase # "removed" /\ ss.phase # "removed"
           /\ ss.phase = "reclaimed" => ss.process = "reaped",
         UNCHANGED <<registry, conn, closing>>,
         kill' \in [Killer -> KillState],
         \A k \in Killer : kill'[k].on = kill[k].on
                           /\ (kill'[k].pc \in {"found", "signal", "grace"} =>
                                 kill[k].pc \in {"found", "signal", "grace"})
  PROVE  IInv'
<1> USE DEF IInv
<1>1. /\ session \in [Session -> SessionState] /\ session' \in [Session -> SessionState]
      /\ session'[s] = ss
      /\ \A t \in Session : t # s => session'[t] = session[t]
  BY DEF TypeOK
<1>2. \A t \in Session :
        /\ session'[t].name = session[t].name
        /\ session'[t].attached = session[t].attached
        /\ session'[t].phase = "removed" <=> session[t].phase = "removed"
        /\ session[t].process = "reaped" => session'[t].process = "reaped"
  BY <1>1
<1>3. TypeOK'
  BY <1>1 DEF TypeOK
<1>4. Bound'
  BY <1>2 DEF Bound, Spawned
<1>5. RegistrySound'
  BY <1>2 DEF RegistrySound, TypeOK
<1>6. AttachedSound'
  BY <1>2 DEF AttachedSound
<1>7. WaitedFirst'
  BY <1>1 DEF WaitedFirst
<1>8. RegisteredUntilReclaimed'
  BY <1>2 DEF RegisteredUntilReclaimed, Spawned
<1>9. ListensAttached'
  BY <1>2 DEF ListensAttached, Bound
<1> QED BY <1>3, <1>4, <1>5, <1>6, <1>7, <1>8, <1>9

\* The process, the pump while it reads and waits, and finish after its first
\* section take such steps.
LEMMA SessionIInv ==
  ASSUME IInv, NEW s \in Session,
         \/ Exit(s) \/ LetGo(s) \/ CloseMaster(s) \/ FinishWait(s)
         \/ PumpReadFails(s) \/ PumpWait(s)
  PROVE  IInv'
<1> DEFINE ss == session'[s]
<1>1. session \in [Session -> SessionState] /\ kill \in [Killer -> KillState]
      /\ session[s] \in SessionState
  BY DEF IInv, TypeOK
<1>2. /\ session' = [session EXCEPT ![s] = ss]
      /\ ss \in SessionState
      /\ ss.name = session[s].name /\ ss.attached = session[s].attached
      /\ session[s].process = "reaped" => ss.process = "reaped"
      /\ ss.phase # session[s].phase =>
           /\ session[s].phase # "removed" /\ ss.phase # "removed"
           /\ ss.phase = "reclaimed" => ss.process = "reaped"
  <2>1. CASE Exit(s)
    <3>1. PICK code \in ExitCode :
            session' = [session EXCEPT ![s].process = "exited", ![s].code = code]
      BY <2>1 DEF Exit
    <3> QED BY <1>1, <2>1, <3>1 DEF Exit, SessionState
  <2>4. CASE LetGo(s)
    BY <1>1, <2>4 DEF LetGo, SessionState
  <2>5. CASE PumpReadFails(s)
    BY <1>1, <2>5 DEF PumpReadFails, SessionState
  <2>6. CASE PumpWait(s)
    BY <1>1, <2>6 DEF PumpWait, SessionState
  <2>2. CASE CloseMaster(s)
    BY <1>1, <2>2 DEF CloseMaster, Signalled, SessionState, Phase
  <2>3. CASE FinishWait(s)
    BY <1>1, <2>3 DEF FinishWait, SessionState, Phase
  <2> QED BY <2>1, <2>2, <2>3, <2>4, <2>5, <2>6
<1>3. UNCHANGED <<registry, conn, kill, closing>>
  BY DEF Exit, LetGo, CloseMaster, FinishWait, PumpReadFails, PumpWait
<1> HIDE DEF ss
<1> QED BY <1>1, <1>2, <1>3, OwnStep

\* So does a KILL after its lookup.
LEMMA KillingIInv ==
  ASSUME IInv, NEW k \in Killer, Killing(k)
  PROVE  IInv'
<1> DEFINE s  == kill[k].on
           ss == session'[s]
<1>1. /\ session \in [Session -> SessionState] /\ kill \in [Killer -> KillState]
      /\ s \in Session /\ session[s] \in SessionState /\ kill[k] \in KillState
  BY DEF IInv, TypeOK, Bound, Killing, KillMark, KillSignal, KillGrace
<1>2. /\ session' = [session EXCEPT ![s] = ss]
      /\ ss \in SessionState
      /\ ss.name = session[s].name /\ ss.attached = session[s].attached
      /\ session[s].process = "reaped" => ss.process = "reaped"
      /\ ss.phase = session[s].phase
  <2>1. CASE KillMark(k)
    BY <1>1, <2>1 DEF KillMark, SessionState
  <2>2. CASE KillSignal(k)
    <3>1. PICK sig \in {"hup", "kill"} : session' = [session EXCEPT ![s] = Signalled(@, sig)]
      BY <2>2 DEF KillSignal
    <3> QED BY <1>1, <3>1 DEF Signalled, SessionState
  <2>3. CASE KillGrace(k)
    BY <1>1, <2>3 DEF KillGrace, Signalled, SessionState
  <2> QED BY <2>1, <2>2, <2>3 DEF Killing
<1>3. UNCHANGED <<registry, conn, closing>>
  BY DEF Killing, KillMark, KillSignal, KillGrace
<1>4. /\ kill' \in [Killer -> KillState]
      /\ \A j \in Killer : /\ kill'[j].on = kill[j].on
                           /\ kill'[j].pc \in {"found", "signal", "grace"} =>
                                kill[j].pc \in {"found", "signal", "grace"}
  BY <1>1 DEF Killing, KillMark, KillSignal, KillGrace, KillState
<1> HIDE DEF s, ss
<1> QED BY <1>1, <1>2, <1>3, <1>4, OwnStep

-----------------------------------------------------------------------------
(* Steps that end what a session and its client have to do with each other *)

\* Telling a client something and closing its connection keeps its type, and
\* touches no other.
LEMMA ClosedConn ==
  ASSUME NEW cs \in [Client -> ConnState], NEW c \in Client,
         NEW reasons \in Seq({"attached"} \cup Reason)
  PROVE  /\ Closed(cs, c, reasons) \in [Client -> ConnState]
         /\ ~ Closed(cs, c, reasons)[c].open
         /\ \A d \in Client : d # c => Closed(cs, c, reasons)[d] = cs[d]
         /\ \A d \in Client : /\ Closed(cs, c, reasons)[d].pc = cs[d].pc
                              /\ Closed(cs, c, reasons)[d].on = cs[d].on
<1> DEFINE new == [cs[c] EXCEPT !.told = @ \o reasons, !.open = FALSE]
<1>1. cs[c] \in ConnState /\ cs[c].told \in Seq({"attached"} \cup Reason)
  BY DEF ConnState
<1>2. cs[c].told \o reasons \in Seq({"attached"} \cup Reason)
  BY <1>1, ConcatProperties
<1>3. new \in ConnState /\ ~ new.open /\ new.pc = cs[c].pc /\ new.on = cs[c].on
  BY <1>1, <1>2 DEF ConnState
<1>4. Closed(cs, c, reasons) = [cs EXCEPT ![c] = new]
  BY <1>1 DEF Closed
<1> HIDE DEF new
<1> QED BY <1>3, <1>4

\* One reason is a sequence of what a client may be told.
LEMMA OneReason ==
  ASSUME NEW r \in {"attached"} \cup Reason
  PROVE  <<r>> \in Seq({"attached"} \cup Reason)
OBVIOUS

\* A session lets go of its client, which was told something or nothing.
LEMMA DetachStep ==
  ASSUME IInv, NEW s \in Session, NEW ss \in SessionState,
         session' = [session EXCEPT ![s] = ss],
         ss.name = session[s].name, ss.attached = None, ss.process = session[s].process,
         ss.phase # session[s].phase => session[s].phase = "none" /\ ss.phase = "told",
         NEW reasons \in Seq({"attached"} \cup Reason),
         conn' = IF session[s].attached = None THEN conn
                 ELSE Closed(conn, session[s].attached, reasons),
         UNCHANGED <<registry, kill>>,
         closing' \in [called : BOOLEAN, left : SUBSET Session]
  PROVE  IInv'
<1> USE DEF IInv
<1> DEFINE a == session[s].attached
<1>1. /\ session' \in [Session -> SessionState]
      /\ session'[s] = ss
      /\ \A t \in Session : t # s => session'[t] = session[t]
      /\ a \in Client \cup {None} /\ conn \in [Client -> ConnState]
  BY DEF TypeOK, SessionState
<1>2. /\ conn' \in [Client -> ConnState]
      /\ a # None => ~ conn'[a].open
      /\ \A d \in Client : /\ d # a => conn'[d] = conn[d]
                           /\ conn'[d].pc = conn[d].pc /\ conn'[d].on = conn[d].on
  BY <1>1, ClosedConn
<1>3. \A t \in Session :
        /\ session'[t].name = session[t].name
        /\ session'[t].process = session[t].process
        /\ session'[t].phase = "removed" <=> session[t].phase = "removed"
        /\ session'[t].phase = "reclaimed" => session[t].phase = "reclaimed"
  BY <1>1
<1>4. TypeOK'
  BY <1>1, <1>2 DEF TypeOK
<1>5. Bound'
  BY <1>2, <1>3 DEF Bound, Spawned
<1>6. RegistrySound'
  BY <1>3 DEF RegistrySound, TypeOK
<1>7. AttachedSound'
  <2> SUFFICES ASSUME NEW t \in Session, session'[t].attached # None
               PROVE  LET d == session'[t].attached
                      IN  conn'[d].pc = "stream" /\ conn'[d].on = t
    BY DEF AttachedSound
  <2>1. t # s /\ session'[t] = session[t]
    BY <1>1
  <2>2. session[t].attached \in Client
    BY <2>1 DEF TypeOK, SessionState
  <2> QED BY <1>2, <2>1, <2>2 DEF AttachedSound
<1>8. WaitedFirst' /\ RegisteredUntilReclaimed'
  BY <1>3 DEF WaitedFirst, RegisteredUntilReclaimed, Spawned
<1>9. ListensAttached'
  <2> SUFFICES ASSUME NEW d \in Client, conn'[d].pc = "stream", conn'[d].open
               PROVE  session'[conn'[d].on].attached = d
    BY DEF ListensAttached
  <2>1. d # a /\ conn'[d] = conn[d]
    BY <1>2, ServiceAssumption
  <2>2. session[conn[d].on].attached = d /\ conn[d].on \in Session
    BY <2>1 DEF ListensAttached, Bound
  <2>3. conn[d].on # s
    BY <2>1, <2>2
  <2> QED BY <1>1, <2>1, <2>2, <2>3
<1> QED BY <1>4, <1>5, <1>6, <1>7, <1>8, <1>9

\* A frame that fails lets go of the client.
LEMMA FrameIInv ==
  ASSUME IInv, NEW s \in Session, FrameFails(s)
  PROVE  IInv'
<1> DEFINE ss == [session[s] EXCEPT !.attached = None]
<1>1. session \in [Session -> SessionState] /\ session[s] \in SessionState
      /\ closing \in [called : BOOLEAN, left : SUBSET Session]
  BY DEF IInv, TypeOK
<1>2. /\ ss \in SessionState /\ session' = [session EXCEPT ![s] = ss]
      /\ ss.name = session[s].name /\ ss.attached = None
      /\ ss.process = session[s].process /\ ss.phase = session[s].phase
  BY <1>1 DEF FrameFails, SessionState
<1>3. << >> \in Seq({"attached"} \cup Reason)
  BY EmptySeq
<1>4. /\ conn' = IF session[s].attached = None THEN conn
                 ELSE Closed(conn, session[s].attached, << >>)
      /\ UNCHANGED <<registry, kill, closing>>
  BY DEF FrameFails
<1> HIDE DEF ss
<1> QED BY <1>1, <1>2, <1>3, <1>4, DetachStep

\* So does the first section of finish, whoever calls it.
LEMMA TellIInv ==
  ASSUME IInv, NEW s \in Session, NEW who \in {"pump", "close"}, Tell(s, who),
         UNCHANGED <<registry, kill>>,
         closing' \in [called : BOOLEAN, left : SUBSET Session]
  PROVE  IInv'
<1> DEFINE ss == [session[s] EXCEPT !.phase = "told", !.finisher = who, !.attached = None,
                                    !.pump = IF who = "pump" THEN "ended" ELSE @]
           reason == IF who = "close" THEN "service_stopped"
                     ELSE IF session[s].killed THEN "killed" ELSE session[s].code
<1>1. session \in [Session -> SessionState] /\ session[s] \in SessionState
  BY DEF IInv, TypeOK
<1>2. /\ ss \in SessionState /\ session' = [session EXCEPT ![s] = ss]
      /\ ss.name = session[s].name /\ ss.attached = None
      /\ ss.process = session[s].process
      /\ session[s].phase = "none" /\ ss.phase = "told"
  BY <1>1 DEF Tell, Done, SessionState, Phase
<1>3. <<reason>> \in Seq({"attached"} \cup Reason)
  <2>1. reason \in Reason
    BY <1>1 DEF Reason, SessionState, ExitCode
  <2> QED BY <2>1, OneReason
<1>4. conn' = IF session[s].attached = None THEN conn
              ELSE Closed(conn, session[s].attached, <<reason>>)
  BY DEF Tell, Let
<1> HIDE DEF ss, reason
<1> QED BY <1>2, <1>3, <1>4, DetachStep

\* The pump ends in finish or finds the session finished.
LEMMA PumpFinishIInv ==
  ASSUME IInv, NEW s \in Session, PumpFinish(s)
  PROVE  IInv'
<1>1. session \in [Session -> SessionState] /\ session[s] \in SessionState
      /\ kill \in [Killer -> KillState]
      /\ closing \in [called : BOOLEAN, left : SUBSET Session]
  BY DEF IInv, TypeOK
<1>2. CASE Tell(s, "pump")
  BY <1>1, <1>2, TellIInv DEF PumpFinish
<1>3. CASE session' = [session EXCEPT ![s].pump = "ended"] /\ UNCHANGED conn
  <2> DEFINE ss == [session[s] EXCEPT !.pump = "ended"]
  <2>1. /\ ss \in SessionState /\ session' = [session EXCEPT ![s] = ss]
        /\ ss.name = session[s].name /\ ss.attached = session[s].attached
        /\ ss.process = session[s].process /\ ss.phase = session[s].phase
    BY <1>1, <1>3 DEF SessionState
  <2>2. UNCHANGED <<registry, conn, kill, closing>>
    BY <1>3 DEF PumpFinish
  <2> HIDE DEF ss
  <2> QED BY <1>1, <2>1, <2>2, OwnStep
<1> QED BY <1>2, <1>3 DEF PumpFinish

\* Close takes a session of its snapshot, and finishes it where that is not done.
LEMMA CloseIInv ==
  ASSUME IInv, CloseStarts \/ \E s \in Session : CloseFinishes(s)
  PROVE  IInv'
<1>1. closing \in [called : BOOLEAN, left : SUBSET Session]
      /\ registry \in [Name -> Session \cup {None}]
  BY DEF IInv, TypeOK
<1>2. closing' \in [called : BOOLEAN, left : SUBSET Session]
  <2>1. CASE CloseStarts
    <3>1. {registry[n] : n \in Registered} \subseteq Session
      BY <1>1 DEF Registered
    <3> QED BY <2>1, <3>1 DEF CloseStarts
  <2>2. ASSUME NEW s \in Session, CloseFinishes(s)
        PROVE  closing' \in [called : BOOLEAN, left : SUBSET Session]
    BY <1>1, <2>2 DEF CloseFinishes
  <2> QED BY <2>1, <2>2
<1>3. ASSUME NEW s \in Session, CloseFinishes(s), Tell(s, "close") PROVE IInv'
  BY <1>2, <1>3, TellIInv DEF CloseFinishes
<1>4. CASE UNCHANGED <<registry, session, conn, kill>>
  BY <1>2, <1>4 DEF IInv, TypeOK, Bound, RegistrySound, AttachedSound, WaitedFirst,
       RegisteredUntilReclaimed, ListensAttached, Spawned
<1> QED BY <1>3, <1>4 DEF CloseStarts, CloseFinishes

-----------------------------------------------------------------------------
(* Steps of a connection *)

\* A connection finds its session, ends without one, or leaves stream.
LEMMA ConnIInv ==
  ASSUME IInv, NEW c \in Client,
         \/ \E n \in Name : HelloFinds(c, n) \/ HelloRefused(c, n)
         \/ StreamEnds(c)
  PROVE  IInv'
<1> USE DEF IInv
<1>1. /\ conn \in [Client -> ConnState] /\ conn[c] \in ConnState
      /\ session \in [Session -> SessionState]
      /\ registry \in [Name -> Session \cup {None}]
  BY DEF TypeOK
<1>2. CASE \E n \in Name : HelloFinds(c, n) \/ HelloRefused(c, n)
  <2>0. UNCHANGED <<registry, session, kill, closing>> /\ conn[c].pc = "idle"
    BY <1>2 DEF HelloFinds, HelloRefused
  <2>7. \E new \in ConnState :
          /\ conn' = [conn EXCEPT ![c] = new]
          /\ new.pc \in {"found", "gone"}
          /\ new.pc = "found" => new.on \in Session /\ Spawned(new.on)
    <3>1. CASE \E n \in Name : HelloFinds(c, n)
      <4>1. PICK n \in Name : HelloFinds(c, n)
        BY <3>1
      <4> DEFINE new == [conn[c] EXCEPT !.pc = "found", !.on = registry[n]]
      <4>2. registry[n] \in Session /\ Spawned(registry[n])
        BY <1>1, <4>1, ServiceAssumption DEF HelloFinds, RegistrySound, Spawned
      <4>3. new \in ConnState /\ new.pc = "found" /\ new.on = registry[n]
        BY <1>1, <4>2 DEF ConnState
      <4>4. conn' = [conn EXCEPT ![c] = new]
        BY <1>1, <4>1 DEF HelloFinds, Found
      <4> HIDE DEF new
      <4> QED BY <4>2, <4>3, <4>4
    <3>2. CASE \E n \in Name : HelloRefused(c, n)
      <4> DEFINE new == [conn[c] EXCEPT !.pc = "gone", !.open = FALSE]
      <4>1. new \in ConnState /\ new.pc = "gone"
        BY <1>1 DEF ConnState
      <4>2. conn' = [conn EXCEPT ![c] = new]
        BY <1>1, <3>2 DEF HelloRefused
      <4> HIDE DEF new
      <4> QED BY <4>1, <4>2
    <3> QED BY <1>2, <3>1, <3>2
  <2>1. /\ conn' \in [Client -> ConnState]
        /\ \A d \in Client : d # c => conn'[d] = conn[d]
        /\ conn'[c].pc \in {"found", "gone"}
        /\ conn'[c].pc = "found" => conn'[c].on \in Session /\ Spawned(conn'[c].on)
    BY <1>1, <2>7
  <2>2. \A s \in Session : session[s].attached # c
    BY <2>0, ServiceAssumption DEF AttachedSound
  <2>3. TypeOK' /\ Bound'
    BY <2>0, <2>1 DEF TypeOK, Bound, Spawned
  <2>4. AttachedSound'
    <3> SUFFICES ASSUME NEW s \in Session, session[s].attached # None
                 PROVE  LET d == session[s].attached
                        IN  conn'[d].pc = "stream" /\ conn'[d].on = s
      BY <2>0 DEF AttachedSound
    <3>1. session[s].attached \in Client
      BY <1>1 DEF SessionState
    <3> QED BY <2>0, <2>1, <2>2, <3>1 DEF AttachedSound
  <2>5. ListensAttached'
    BY <2>0, <2>1 DEF ListensAttached
  <2>6. RegistrySound' /\ WaitedFirst' /\ RegisteredUntilReclaimed'
    BY <2>0 DEF RegistrySound, WaitedFirst, RegisteredUntilReclaimed, Spawned
  <2> QED BY <2>3, <2>4, <2>5, <2>6
<1>3. CASE StreamEnds(c)
  <2> DEFINE s  == conn[c].on
             ss == [session[s] EXCEPT !.attached = IF @ = c THEN None ELSE @]
  <2>1. s \in Session /\ session[s] \in SessionState
    BY <1>1, <1>3 DEF StreamEnds, Bound
  <2>2. /\ session' = [session EXCEPT ![s] = ss]
        /\ ss \in SessionState /\ ss.name = session[s].name
        /\ ss.phase = session[s].phase /\ ss.process = session[s].process
        /\ ss.attached = IF session[s].attached = c THEN None ELSE session[s].attached
    BY <1>3, <2>1 DEF StreamEnds, SessionState
  <2>3. /\ UNCHANGED <<registry, kill, closing>>
        /\ conn' \in [Client -> ConnState]
        /\ \A d \in Client : d # c => conn'[d] = conn[d]
        /\ conn'[c].pc = "gone"
        /\ conn[c].pc = "stream"
    BY <1>1, <1>3 DEF StreamEnds, ConnState
  <2> HIDE DEF ss
  <2>4. /\ session' \in [Session -> SessionState]
        /\ session'[s] = ss
        /\ \A t \in Session : t # s => session'[t] = session[t]
    BY <1>1, <2>1, <2>2
  <2>5. \A t \in Session : session'[t].name = session[t].name
          /\ session'[t].phase = session[t].phase /\ session'[t].process = session[t].process
    BY <2>2, <2>4
  <2>6. TypeOK' /\ Bound'
    BY <2>3, <2>4, <2>5 DEF TypeOK, Bound, Spawned
  <2>7. AttachedSound'
    <3> SUFFICES ASSUME NEW t \in Session, session'[t].attached # None
                 PROVE  LET d == session'[t].attached
                        IN  conn'[d].pc = "stream" /\ conn'[d].on = t
      BY DEF AttachedSound
    <3>1. session'[t].attached = session[t].attached /\ session[t].attached \in Client
      BY <1>1, <2>2, <2>4 DEF SessionState
    <3>2. session[t].attached # c
      BY <2>2, <2>4, <3>1, ServiceAssumption DEF AttachedSound
    <3> QED BY <2>3, <3>1, <3>2 DEF AttachedSound
  <2>8. ListensAttached'
    <3> SUFFICES ASSUME NEW d \in Client, conn'[d].pc = "stream", conn'[d].open
                 PROVE  session'[conn'[d].on].attached = d
      BY DEF ListensAttached
    <3>1. d # c /\ conn'[d] = conn[d]
      BY <2>3
    <3>2. session[conn[d].on].attached = d /\ conn[d].on \in Session
      BY <3>1 DEF ListensAttached, Bound
    <3> QED BY <2>2, <2>4, <3>1, <3>2
  <2>9. RegistrySound' /\ WaitedFirst' /\ RegisteredUntilReclaimed'
    BY <2>3, <2>5 DEF RegistrySound, WaitedFirst, RegisteredUntilReclaimed, Spawned, TypeOK
  <2> QED BY <2>6, <2>7, <2>8, <2>9
<1> QED BY <1>2, <1>3

\* attachLocked replaces the client attached until now, by another or by none.
LEMMA AttachIInv ==
  ASSUME IInv, NEW c \in Client, Attach(c) \/ AttachFails(c)
  PROVE  IInv'
<1> USE DEF IInv
<1> DEFINE s == conn[c].on
           a == session[s].attached
           let == Let(s, "replaced")
<1>1. /\ conn \in [Client -> ConnState] /\ conn[c] \in ConnState
      /\ session \in [Session -> SessionState]
      /\ conn[c].pc = "found" /\ s \in Session /\ session[s] \in SessionState
      /\ a \in Client \cup {None}
      /\ UNCHANGED <<registry, kill, closing>>
  BY DEF TypeOK, Bound, Attach, AttachFails, SessionState
<1>2. a # c /\ \A t \in Session : session[t].attached # c
  BY <1>1, ServiceAssumption DEF AttachedSound
<1>3. <<"replaced">> \in Seq({"attached"} \cup Reason)
  BY OneReason DEF Reason
<1>4. /\ let \in [Client -> ConnState]
      /\ a # None => ~ let[a].open
      /\ \A d \in Client : d # a => let[d] = conn[d]
      /\ \A d \in Client : let[d].pc = conn[d].pc /\ let[d].on = conn[d].on
  <2>1. CASE a = None
    <3>1. let = conn
      BY <2>1 DEF Let
    <3> HIDE DEF let
    <3> QED BY <1>1, <2>1, <3>1, ServiceAssumption
  <2>2. CASE a # None
    <3>1. let = Closed(conn, a, <<"replaced">>)
      BY <2>2 DEF Let
    <3>2. a \in Client
      BY <1>1, <2>2
    <3> DEFINE closed == Closed(conn, a, <<"replaced">>)
    <3> HIDE DEF let, a
    <3>3. /\ closed \in [Client -> ConnState] /\ ~ closed[a].open
          /\ \A d \in Client : d # a => closed[d] = conn[d]
          /\ \A d \in Client : closed[d].pc = conn[d].pc /\ closed[d].on = conn[d].on
      BY <1>1, <1>3, <3>2, ClosedConn
    <3> HIDE DEF closed
    <3>4. let = closed
      BY <3>1 DEF closed
    <3> QED BY <3>3, <3>4
  <2> QED BY <2>1, <2>2
<1> HIDE DEF let
<1>5. \E x \in {c, None} :
        /\ session' = [session EXCEPT ![s].attached = x]
        /\ conn' \in [Client -> ConnState]
        /\ \A d \in Client : d # c => conn'[d] = let[d]
        /\ x = c => conn'[c].pc = "stream" /\ conn'[c].on = s
        /\ x = None => conn'[c].pc = "gone"
  <2>1. CASE Attach(c)
    <3>1. <<"attached">> \in Seq({"attached"} \cup Reason)
      BY OneReason
    <3>2. conn' = [let EXCEPT ![c].pc = "stream", ![c].told = <<"attached">>]
          /\ session' = [session EXCEPT ![s].attached = c]
      BY <2>1 DEF Attach, let
    <3>3. let[c] \in ConnState /\ let[c].on = s
      BY <1>1, <1>4
    <3>4. /\ conn' \in [Client -> ConnState]
          /\ \A d \in Client : d # c => conn'[d] = let[d]
          /\ conn'[c].pc = "stream" /\ conn'[c].on = s
      BY <1>4, <3>1, <3>2, <3>3 DEF ConnState
    <3> QED BY <3>2, <3>4, ServiceAssumption
  <2>2. CASE AttachFails(c)
    <3>1. conn' = [let EXCEPT ![c].pc = "gone", ![c].open = FALSE]
          /\ session' = [session EXCEPT ![s].attached = None]
      BY <2>2 DEF AttachFails, let
    <3>2. /\ conn' \in [Client -> ConnState]
          /\ \A d \in Client : d # c => conn'[d] = let[d]
          /\ conn'[c].pc = "gone"
      BY ZenonT(30), <1>4, <3>1 DEF ConnState
    <3> QED BY <3>1, <3>2, ServiceAssumption
  <2> QED BY <2>1, <2>2
<1>6. PICK x \in {c, None} :
        /\ session' = [session EXCEPT ![s].attached = x]
        /\ conn' \in [Client -> ConnState]
        /\ \A d \in Client : d # c => conn'[d] = let[d]
        /\ x = c => conn'[c].pc = "stream" /\ conn'[c].on = s
        /\ x = None => conn'[c].pc = "gone"
  BY <1>5
<1>7. /\ session' \in [Session -> SessionState]
      /\ session'[s].attached = x
      /\ \A t \in Session : t # s => session'[t] = session[t]
      /\ \A t \in Session : session'[t].name = session[t].name
           /\ session'[t].phase = session[t].phase /\ session'[t].process = session[t].process
  BY <1>1, <1>6 DEF SessionState
<1>8. c # None
  BY ServiceAssumption
<1>9. TypeOK'
  BY <1>1, <1>6, <1>7 DEF TypeOK
<1>10. Bound'
  BY <1>1, <1>4, <1>6, <1>7, <1>8 DEF Bound, Spawned
<1>11. AttachedSound'
  <2> SUFFICES ASSUME NEW t \in Session, session'[t].attached # None
               PROVE  LET d == session'[t].attached
                      IN  conn'[d].pc = "stream" /\ conn'[d].on = t
    BY DEF AttachedSound
  <2>1. CASE t = s
    BY <1>6, <1>7, <2>1
  <2>2. CASE t # s
    <3>1. session'[t] = session[t] /\ session[t].attached \in Client
      BY <1>1, <1>7, <2>2 DEF SessionState
    <3>2. session[t].attached # c
      BY <1>2
    <3> QED BY <1>4, <1>6, <3>1, <3>2 DEF AttachedSound
  <2> QED BY <2>1, <2>2
<1>12. ListensAttached'
  <2> SUFFICES ASSUME NEW d \in Client, conn'[d].pc = "stream", conn'[d].open
               PROVE  session'[conn'[d].on].attached = d
    BY DEF ListensAttached
  <2>1. CASE d = c
    BY <1>6, <1>7, <1>8, <2>1
  <2>2. CASE d # c
    <3>1. conn'[d] = let[d] /\ d # a
      BY <1>4, <1>6, <1>8, <2>2, ServiceAssumption
    <3>2. conn'[d] = conn[d]
      BY <1>4, <3>1
    <3>3. session[conn[d].on].attached = d /\ conn[d].on \in Session
      BY <3>2 DEF ListensAttached, Bound
    <3>4. conn[d].on # s
      BY <3>1, <3>3
    <3> QED BY <1>7, <3>2, <3>3, <3>4
  <2> QED BY <2>1, <2>2
<1>13. RegistrySound' /\ WaitedFirst' /\ RegisteredUntilReclaimed'
  BY <1>1, <1>7 DEF RegistrySound, WaitedFirst, RegisteredUntilReclaimed, Spawned, TypeOK
<1> QED BY <1>9, <1>10, <1>11, <1>12, <1>13

-----------------------------------------------------------------------------
(* Steps that change the registry *)

\* A name that is free gets a session that was never spawned.
LEMMA CreateIInv ==
  ASSUME IInv, NEW c \in Client, NEW n \in Name, HelloCreates(c, n)
  PROVE  IInv'
<1> USE DEF IInv
<1>1. PICK s \in Session :
        /\ session[s].name = None
        /\ registry' = [registry EXCEPT ![n] = s]
        /\ session' = [session EXCEPT ![s] = Started(n)]
        /\ Found(c, s)
  BY DEF HelloCreates, Spawned
<1>2. conn[c].pc = "idle" /\ registry[n] = None /\ UNCHANGED <<kill, closing>>
  BY DEF HelloCreates
<1>3. /\ conn \in [Client -> ConnState] /\ conn[c] \in ConnState
      /\ session \in [Session -> SessionState]
      /\ registry \in [Name -> Session \cup {None}]
  BY DEF TypeOK
<1>4. /\ Started(n) \in SessionState /\ Started(n).name = n /\ Started(n).attached = None
      /\ Started(n).phase = "none"
  BY DEF Started, SessionState, Phase, ExitCode
<1>5. /\ session' \in [Session -> SessionState]
      /\ session'[s].name = n /\ session'[s].attached = None /\ session'[s].phase = "none"
      /\ \A t \in Session : t # s => session'[t] = session[t]
  BY <1>1, <1>3, <1>4
<1>6. /\ registry' \in [Name -> Session \cup {None}]
      /\ registry'[n] = s
      /\ \A m \in Name : m # n => registry'[m] = registry[m]
  BY <1>1, <1>3
<1>7. /\ conn' \in [Client -> ConnState]
      /\ conn'[c].pc = "found" /\ conn'[c].on = s
      /\ \A d \in Client : d # c => conn'[d] = conn[d]
  <2> DEFINE new == [conn[c] EXCEPT !.pc = "found", !.on = s]
  <2>1. new \in ConnState /\ new.pc = "found" /\ new.on = s
    BY <1>3 DEF ConnState
  <2>2. conn' = [conn EXCEPT ![c] = new]
    BY <1>1, <1>3 DEF Found
  <2> HIDE DEF new
  <2> QED BY <1>3, <2>1, <2>2
\* No name had this session, and no client was attached to it.
<1>8. \A m \in Name : registry[m] # s
  BY <1>1, ServiceAssumption DEF RegistrySound
<1>9. \A t \in Session : session[t].attached # c
  BY <1>2, ServiceAssumption DEF AttachedSound
<1>10. TypeOK'
  BY <1>2, <1>5, <1>6, <1>7 DEF TypeOK
<1>11. Bound'
  <2>1. \A t \in Session : Spawned(t) => Spawned(t)'
    BY <1>1, <1>5 DEF Spawned
  <2>2. Spawned(s)'
    BY <1>5, ServiceAssumption DEF Spawned
  <2> QED BY <1>2, <1>7, <2>1, <2>2 DEF Bound
<1>12. RegistrySound'
  <2> SUFFICES ASSUME NEW m \in Name, registry'[m] # None
               PROVE  /\ session'[registry'[m]].name = m
                      /\ session'[registry'[m]].phase # "removed"
    BY DEF RegistrySound
  <2>1. CASE m = n
    BY <1>5, <1>6, <2>1
  <2>2. CASE m # n
    <3>1. registry'[m] = registry[m] /\ registry[m] \in Session /\ registry[m] # s
      BY <1>3, <1>6, <1>8, <2>2
    <3>2. session[registry[m]].name = m /\ session[registry[m]].phase # "removed"
      BY <3>1 DEF RegistrySound
    <3> QED BY <1>5, <3>1, <3>2
  <2> QED BY <2>1, <2>2
<1>13. AttachedSound'
  <2> SUFFICES ASSUME NEW t \in Session, session'[t].attached # None
               PROVE  LET d == session'[t].attached
                      IN  conn'[d].pc = "stream" /\ conn'[d].on = t
    BY DEF AttachedSound
  <2>1. session'[t] = session[t]
    BY <1>5
  <2>2. session[t].attached \in Client /\ session[t].attached # c
    BY <1>3, <1>9, <2>1 DEF SessionState
  <2> QED BY <1>7, <2>1, <2>2 DEF AttachedSound
<1>14. WaitedFirst'
  BY <1>5 DEF WaitedFirst
<1>15. RegisteredUntilReclaimed'
  <2> SUFFICES ASSUME NEW t \in Session, session'[t].name # None
               PROVE  \/ session'[t].phase # "removed" /\ registry'[session'[t].name] = t
                      \/ session'[t].phase = "removed" /\ session'[t].process = "reaped"
    BY DEF RegisteredUntilReclaimed, Spawned
  <2>1. CASE t = s
    BY <1>5, <1>6, <2>1
  <2>2. CASE t # s
    <3>1. session'[t] = session[t]
      BY <1>5, <2>2
    <3>2. \/ session[t].phase # "removed" /\ registry[session[t].name] = t
          \/ session[t].phase = "removed" /\ session[t].process = "reaped"
      BY <3>1 DEF RegisteredUntilReclaimed, Spawned
    <3>3. CASE session[t].phase # "removed"
      <4>1. registry[session[t].name] = t /\ session[t].name \in Name
        BY <1>3, <3>1, <3>2, <3>3 DEF SessionState
      <4>2. session[t].name # n
        BY <1>2, <4>1, ServiceAssumption
      <4> QED BY <1>6, <3>1, <3>3, <4>1, <4>2
    <3> QED BY <3>1, <3>2, <3>3
  <2> QED BY <2>1, <2>2
<1>16. ListensAttached'
  <2> SUFFICES ASSUME NEW d \in Client, conn'[d].pc = "stream", conn'[d].open
               PROVE  session'[conn'[d].on].attached = d
    BY DEF ListensAttached
  <2>1. conn'[d] = conn[d]
    BY <1>7
  <2>2. session[conn[d].on].attached = d /\ conn[d].on \in Session
    BY <2>1 DEF ListensAttached, Bound
  <2>3. conn[d].on # s
    BY <1>1, <2>1 DEF Bound, Spawned
  <2> QED BY <1>5, <2>1, <2>2, <2>3
<1> QED BY <1>10, <1>11, <1>12, <1>13, <1>14, <1>15, <1>16

\* A session that is reclaimed is taken out of the registry.
LEMMA RemoveIInv ==
  ASSUME IInv, NEW s \in Session, Remove(s)
  PROVE  IInv'
<1> USE DEF IInv
<1> DEFINE ss == [session[s] EXCEPT !.phase = "removed"]
<1>1. /\ session \in [Session -> SessionState] /\ session[s] \in SessionState
      /\ registry \in [Name -> Session \cup {None}]
      /\ UNCHANGED <<conn, kill, closing>>
      /\ session[s].process = "reaped"
  BY DEF TypeOK, Remove, WaitedFirst
<1>2. /\ ss \in SessionState /\ session' = [session EXCEPT ![s] = ss]
      /\ ss.name = session[s].name /\ ss.attached = session[s].attached
      /\ ss.process = "reaped" /\ ss.phase = "removed"
  BY <1>1 DEF Remove, SessionState, Phase
<1> HIDE DEF ss
<1>3. /\ session' \in [Session -> SessionState]
      /\ session'[s].process = "reaped" /\ session'[s].phase = "removed"
      /\ \A t \in Session : t # s => session'[t] = session[t]
      /\ \A t \in Session : session'[t].name = session[t].name
                          /\ session'[t].attached = session[t].attached
  BY <1>1, <1>2
<1>4. /\ registry' \in [Name -> Session \cup {None}]
      /\ \A n \in Name : registry'[n] = IF n = session[s].name /\ registry[n] = s
                                       THEN None ELSE registry[n]
  BY <1>1 DEF Remove
<1>5. TypeOK' /\ Bound' /\ AttachedSound' /\ ListensAttached'
  BY <1>1, <1>3, <1>4 DEF TypeOK, Bound, AttachedSound, ListensAttached, Spawned
<1>6. RegistrySound'
  <2> SUFFICES ASSUME NEW n \in Name, registry'[n] # None
               PROVE  /\ session'[registry'[n]].name = n
                      /\ session'[registry'[n]].phase # "removed"
    BY DEF RegistrySound
  <2>1. /\ registry'[n] = registry[n] /\ registry[n] \in Session
        /\ session[registry[n]].name = n /\ session[registry[n]].phase # "removed"
    BY <1>1, <1>4 DEF RegistrySound
  <2>2. registry[n] # s
    BY <1>4, <2>1
  <2> QED BY <1>3, <2>1, <2>2
<1>7. WaitedFirst'
  BY <1>3 DEF WaitedFirst
<1>8. RegisteredUntilReclaimed'
  <2> SUFFICES ASSUME NEW t \in Session, session'[t].name # None
               PROVE  \/ session'[t].phase # "removed" /\ registry'[session'[t].name] = t
                      \/ session'[t].phase = "removed" /\ session'[t].process = "reaped"
    BY DEF RegisteredUntilReclaimed, Spawned
  <2>1. CASE t = s
    BY <1>3, <2>1
  <2>2. CASE t # s
    <3>1. session'[t] = session[t] /\ session[t].name \in Name
      BY <1>1, <1>3, <2>2 DEF SessionState
    <3>2. \/ session[t].phase # "removed" /\ registry[session[t].name] = t
          \/ session[t].phase = "removed" /\ session[t].process = "reaped"
      BY <3>1 DEF RegisteredUntilReclaimed, Spawned
    <3> QED BY <1>4, <2>2, <3>1, <3>2
  <2> QED BY <2>1, <2>2
<1> QED BY <1>5, <1>6, <1>7, <1>8

\* The lookup of a KILL.
LEMMA LookupIInv ==
  ASSUME IInv, NEW k \in Killer, NEW n \in Name, KillLookup(k, n)
  PROVE  IInv'
<1> USE DEF IInv
<1>1. /\ kill' \in [Killer -> KillState]
      /\ \A j \in Killer :
           \/ kill'[j] = kill[j]
           \/ kill'[j].pc = "refused"
           \/ kill'[j].pc = "found" /\ kill'[j].on \in Session
      /\ UNCHANGED <<registry, session, conn, closing>>
  BY ZenonT(30) DEF KillLookup, TypeOK, KillState
<1>2. TypeOK' /\ Bound'
  BY <1>1 DEF TypeOK, Bound, Spawned
<1> QED
  BY <1>1, <1>2 DEF RegistrySound, AttachedSound, WaitedFirst, RegisteredUntilReclaimed,
                    ListensAttached, Spawned

-----------------------------------------------------------------------------
(* The theorems *)

LEMMA NextIInv == IInv /\ [Next]_vars => IInv'
<1> SUFFICES ASSUME IInv, [Next]_vars PROVE IInv'
  OBVIOUS
<1>1. CASE UNCHANGED vars
  BY <1>1 DEF vars, IInv, TypeOK, Bound, RegistrySound, AttachedSound, WaitedFirst,
       RegisteredUntilReclaimed, ListensAttached, Spawned
<1>2. ASSUME NEW c \in Client, NEW n \in Name,
             HelloFinds(c, n) \/ HelloCreates(c, n) \/ HelloRefused(c, n)
      PROVE  IInv'
  BY <1>2, ConnIInv, CreateIInv
<1>3. ASSUME NEW c \in Client, Attach(c) \/ AttachFails(c) \/ StreamEnds(c)
      PROVE  IInv'
  BY <1>3, AttachIInv, ConnIInv
<1>4. ASSUME NEW s \in Session,
             FrameFails(s) \/ Exit(s) \/ LetGo(s) \/ Pumping(s) \/ Finishing(s)
             \/ CloseFinishes(s)
      PROVE  IInv'
  BY <1>4, FrameIInv, SessionIInv, PumpFinishIInv, RemoveIInv, CloseIInv
     DEF Pumping, Finishing
<1>5. ASSUME NEW k \in Killer, Killing(k) \/ \E n \in Name : KillLookup(k, n)
      PROVE  IInv'
  BY <1>5, KillingIInv, LookupIInv
<1>6. CASE CloseStarts
  BY <1>6, CloseIInv
<1> QED BY <1>1, <1>2, <1>3, <1>4, <1>5, <1>6 DEF Next

\* The strengthened invariant holds of every state.
THEOREM Invariance == Spec => []IInv
BY InitIInv, NextIInv, PTL DEF Spec

\* Every variable keeps its type.
THEOREM TypeCorrect == Spec => []TypeOK
<1>1. IInv => TypeOK
  BY DEF IInv
<1> QED BY Invariance, <1>1, PTL

\* A session that still owns a process, a master or a ring is in the registry,
\* whoever finishes it and whatever takes its name afterwards.
THEOREM OwnersRegistered == Spec => []RegisteredUntilReclaimed
<1>1. IInv => RegisteredUntilReclaimed
  BY DEF IInv
<1> QED BY Invariance, <1>1, PTL

\* Only the first section of finish makes a session done, and it lets go of the client.
LEMMA DoneLetsGo ==
  ASSUME IInv, [Next]_vars, NEW t \in Session, ~ Done(t), Done(t)'
  PROVE  session'[t].attached = None
<1>0. session \in [Session -> SessionState] /\ session[t] \in SessionState
      /\ session[t].phase = "none" /\ session'[t].phase # "none"
  BY DEF IInv, TypeOK, Done
<1>1. CASE UNCHANGED session
  BY <1>0, <1>1
<1>2. CASE \E c \in Client : Attach(c) \/ AttachFails(c) \/ StreamEnds(c)
  <2>1. \E s \in Session, x \in Client \cup {None} : session' = [session EXCEPT ![s].attached = x]
    BY <1>2 DEF Attach, AttachFails, StreamEnds, IInv, TypeOK, Bound, SessionState
  <2> QED BY <1>0, <2>1 DEF SessionState
<1>3. CASE \E k \in Killer : Killing(k)
  <2>1. PICK k \in Killer : Killing(k)
    BY <1>3
  <2>2. kill[k].on \in Session
    BY <2>1 DEF IInv, Bound, Killing, KillMark, KillSignal, KillGrace
  <2>3. CASE KillMark(k)
    BY <1>0, <2>2, <2>3 DEF KillMark, SessionState
  <2>4. CASE KillSignal(k)
    BY <1>0, <2>2, <2>4 DEF KillSignal, Signalled, SessionState
  <2>5. CASE KillGrace(k)
    BY <1>0, <2>2, <2>5 DEF KillGrace, Signalled, SessionState
  <2> QED BY <2>1, <2>3, <2>4, <2>5 DEF Killing
<1>4. CASE \E s \in Session : \/ FrameFails(s) \/ Exit(s) \/ LetGo(s)
                              \/ PumpReadFails(s) \/ PumpWait(s)
  BY <1>0, <1>4 DEF FrameFails, Exit, LetGo, PumpReadFails, PumpWait, SessionState
<1>5. CASE \E s \in Session : FinishWait(s) \/ Remove(s) \/ CloseMaster(s)
  BY <1>0, <1>5 DEF FinishWait, Remove, CloseMaster, Signalled, SessionState
<1>6. CASE \E s \in Session : PumpFinish(s) \/ CloseFinishes(s)
  BY <1>0, <1>6 DEF PumpFinish, CloseFinishes, Tell, Done, SessionState
<1>7. CASE \E c \in Client, n \in Name : HelloFinds(c, n) \/ HelloRefused(c, n)
  BY <1>1, <1>7 DEF HelloFinds, HelloRefused
<1>8. CASE CloseStarts \/ \E k \in Killer, n \in Name : KillLookup(k, n)
  BY <1>1, <1>8 DEF CloseStarts, KillLookup
<1>9. CASE \E c \in Client, n \in Name : HelloCreates(c, n)
  <2>1. PICK s \in Session, n \in Name : session' = [session EXCEPT ![s] = Started(n)]
    BY <1>9 DEF HelloCreates
  <2> QED BY <1>0, <2>1 DEF Started
<1> QED BY <1>1, <1>2, <1>3, <1>4, <1>5, <1>6, <1>7, <1>8, <1>9
        DEF Next, Pumping, Finishing, vars

\* No step leaves a client connected that its session does not write to, or whose
\* session it ends: who is replaced and who was there at the end is closed.
THEOREM NobodySilent == Spec => NoSilentClient
<1>1. ASSUME IInv, IInv', [Next]_vars, NEW c \in Client, NEW s \in Session, ListensTo(c, s)'
      PROVE  session'[s].attached = c /\ (Done(s)' => Done(s))
  <2>1. session'[s].attached = c
    BY <1>1 DEF ListensTo, IInv, ListensAttached
  <2>2. Done(s)' => Done(s)
    BY <1>1, <2>1, DoneLetsGo, ServiceAssumption
  <2> QED BY <2>1, <2>2
<1>2. IInv /\ IInv' /\ [Next]_vars =>
        \A c \in Client, s \in Session :
          ListensTo(c, s)' => session'[s].attached = c /\ (Done(s)' => Done(s))
  BY <1>1
<1> QED BY <1>2, Invariance, PTL DEF Spec, NoSilentClient

-----------------------------------------------------------------------------
(* The limit on the sessions *)

Live == {s \in Session : Spawned(s) /\ session[s].phase # "removed"}

\* The registry counts the sessions that own something, one name for each.
LEMMA RegistryCounts ==
  ASSUME IInv
  PROVE  /\ IsFiniteSet(Live)
         /\ Cardinality(Registered) = Cardinality(Live)
<1> USE DEF IInv
<1> DEFINE name == [s \in Live |-> session[s].name]
<1>1. IsFiniteSet(Live)
  BY ServiceAssumption, FS_Subset DEF Live
<1>2. \A s \in Live : session[s].name \in Name /\ registry[session[s].name] = s
  BY DEF TypeOK, SessionState, Live, Spawned, RegisteredUntilReclaimed
<1>3. name \in [Live -> Registered]
  BY <1>2, ServiceAssumption DEF Registered, Live
<1>4. name \in Injection(Live, Registered)
  BY <1>2, <1>3 DEF Injection, IsInjective
<1>5. ASSUME NEW n \in Registered PROVE \E s \in Live : name[s] = n
  <2>1. registry[n] \in Session /\ session[registry[n]].name = n
        /\ session[registry[n]].phase # "removed"
    BY DEF Registered, RegistrySound, TypeOK
  <2>2. registry[n] \in Live
    BY <2>1, ServiceAssumption DEF Live, Spawned, Registered
  <2> QED BY <2>1, <2>2
<1>6. name \in Surjection(Live, Registered)
  BY <1>3, <1>5 DEF Surjection
<1>7. ExistsBijection(Live, Registered)
  BY <1>4, <1>6 DEF ExistsBijection, Bijection
<1> QED BY <1>1, <1>7, FS_Bijection

\* No step but a HELLO makes a session one that owns something.
LEMMA NoneRevived ==
  ASSUME IInv, [Next]_vars, ~ \E c \in Client, n \in Name : HelloCreates(c, n)
  PROVE  Live' \subseteq Live
<1> SUFFICES ASSUME NEW t \in Session
             PROVE  /\ session'[t].name = session[t].name
                    /\ session[t].phase = "removed" => session'[t].phase = "removed"
  BY DEF Live, Spawned
<1>0. session \in [Session -> SessionState] /\ session[t] \in SessionState
  BY DEF IInv, TypeOK
<1>1. CASE UNCHANGED session
  BY <1>1
<1>2. CASE \E c \in Client : Attach(c) \/ AttachFails(c) \/ StreamEnds(c)
  <2>1. \E s \in Session, x \in Client \cup {None} : session' = [session EXCEPT ![s].attached = x]
    BY <1>2 DEF Attach, AttachFails, StreamEnds, IInv, TypeOK, Bound, SessionState
  <2> QED BY <1>0, <2>1 DEF SessionState
<1>3. CASE \E k \in Killer : Killing(k)
  <2>1. PICK k \in Killer : Killing(k)
    BY <1>3
  <2>2. kill[k].on \in Session
    BY <2>1 DEF IInv, Bound, Killing, KillMark, KillSignal, KillGrace
  <2>3. CASE KillMark(k)
    BY <1>0, <2>2, <2>3 DEF KillMark, SessionState
  <2>4. CASE KillSignal(k)
    BY <1>0, <2>2, <2>4 DEF KillSignal, Signalled, SessionState
  <2>5. CASE KillGrace(k)
    BY <1>0, <2>2, <2>5 DEF KillGrace, Signalled, SessionState
  <2> QED BY <2>1, <2>3, <2>4, <2>5 DEF Killing
<1>4. CASE \E s \in Session : \/ FrameFails(s) \/ Exit(s) \/ LetGo(s)
                              \/ PumpReadFails(s) \/ PumpWait(s)
  BY <1>0, <1>4 DEF FrameFails, Exit, LetGo, PumpReadFails, PumpWait, SessionState
<1>5. CASE \E s \in Session : FinishWait(s) \/ Remove(s) \/ CloseMaster(s)
  BY <1>0, <1>5 DEF FinishWait, Remove, CloseMaster, Signalled, SessionState
<1>6. CASE \E s \in Session : PumpFinish(s) \/ CloseFinishes(s)
  BY <1>0, <1>6 DEF PumpFinish, CloseFinishes, Tell, Done, SessionState
<1>7. CASE \E c \in Client, n \in Name : HelloFinds(c, n) \/ HelloRefused(c, n)
  BY <1>1, <1>7 DEF HelloFinds, HelloRefused
<1>8. CASE CloseStarts \/ \E k \in Killer, n \in Name : KillLookup(k, n)
  BY <1>1, <1>8 DEF CloseStarts, KillLookup
<1> QED BY <1>1, <1>2, <1>3, <1>4, <1>5, <1>6, <1>7, <1>8 DEF Next, Pumping, Finishing, vars

\* One more session only where the registry counted fewer than the limit.
LEMMA BoundStep ==
  IInv /\ BoundedSessions /\ [Next]_vars => BoundedSessions'
<1> SUFFICES ASSUME IInv, BoundedSessions, [Next]_vars PROVE BoundedSessions'
  OBVIOUS
<1>1. IsFiniteSet(Live) /\ Cardinality(Registered) = Cardinality(Live)
  BY RegistryCounts
<1>2. BoundedSessions <=> Cardinality(Live) <= MaxSessions
  BY DEF BoundedSessions, Live
<1>3. BoundedSessions' <=> Cardinality(Live') <= MaxSessions
  BY DEF BoundedSessions, Live
<1>4. Cardinality(Live) \in Nat /\ MaxSessions \in Nat
  BY <1>1, FS_CardinalityType, ServiceAssumption
<1>5. CASE \E c \in Client, n \in Name : HelloCreates(c, n)
  <2>1. PICK c \in Client, n \in Name : HelloCreates(c, n)
    BY <1>5
  <2>2. PICK s \in Session : session' = [session EXCEPT ![s] = Started(n)]
    BY <2>1 DEF HelloCreates
  <2>3. Cardinality(Live) < MaxSessions
    BY <1>1, <2>1 DEF HelloCreates
  <2>4. Live' \subseteq Live \cup {s}
    BY <2>2 DEF Live, Spawned, IInv, TypeOK
  <2>5. IsFiniteSet(Live \cup {s}) /\ Cardinality(Live \cup {s}) <= Cardinality(Live) + 1
    <3>1. IsFiniteSet(Live \cup {s})
          /\ Cardinality(Live \cup {s}) = IF s \in Live THEN Cardinality(Live)
                                         ELSE Cardinality(Live) + 1
      BY <1>1, FS_AddElement
    <3> QED BY <1>4, <3>1
  <2>6. Cardinality(Live') <= Cardinality(Live \cup {s})
    BY <2>4, <2>5, FS_Subset
  <2>7. Cardinality(Live') \in Nat /\ Cardinality(Live \cup {s}) \in Nat
    BY <2>4, <2>5, FS_Subset, FS_CardinalityType
  <2> QED BY <1>3, <1>4, <2>3, <2>5, <2>6, <2>7
<1>6. CASE ~ \E c \in Client, n \in Name : HelloCreates(c, n)
  <2>1. Live' \subseteq Live
    BY <1>6, NoneRevived
  <2>2. IsFiniteSet(Live') /\ Cardinality(Live') <= Cardinality(Live)
    BY <1>1, <2>1, FS_Subset
  <2>3. Cardinality(Live') \in Nat
    BY <2>2, FS_CardinalityType
  <2> QED BY <1>2, <1>3, <1>4, <2>2, <2>3
<1> QED BY <1>5, <1>6

\* The sessions that own something stay within the limit, those being finished
\* included, because the registry has each until it is reclaimed.
THEOREM SessionsBounded == Spec => []BoundedSessions
<1>1. Init => BoundedSessions
  <2> SUFFICES ASSUME Init PROVE BoundedSessions
    OBVIOUS
  <2>1. {s \in Session : Spawned(s) /\ session[s].phase # "removed"} = {}
    BY DEF Init, NotSpawned, Started, Spawned
  <2> QED BY <2>1, FS_EmptySet, ServiceAssumption DEF BoundedSessions
<1> QED BY <1>1, Invariance, BoundStep, PTL DEF Spec
====
