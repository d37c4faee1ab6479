---- MODULE TermServiceRefinesProofs ----
(***************************************************************************)
(* What a client of the terminal service is told, for every value of the   *)
(* constants: the reason it was given last is true of its session, and the *)
(* service as a whole implements TerminalContract.                         *)
(***************************************************************************)
EXTENDS TermServiceRefines, TermServiceProofs

-----------------------------------------------------------------------------
(* The inductive invariant, on top of IInv *)

\* A KILL past its lookup has a session that was spawned, and one past its mark
\* has marked it.
KillsFound ==
  \A k \in Killer :
    /\ kill[k].on # None => kill[k].on \in Session /\ Spawned(kill[k].on)
    /\ kill[k].pc = "idle" => kill[k].on = None
    /\ kill[k].pc \in {"signal", "grace", "accepted"} =>
         kill[k].on # None /\ session[kill[k].on].killed

\* The pump calls finish only after it has waited for the process.
PumpWaited == \A s \in Session : session[s].pump = "finish" => session[s].process = "reaped"

\* Close finishes sessions that were spawned, and only once it is called.
CloseCalled == \A s \in closing.left : closing.called /\ Spawned(s)

\* A session that was not spawned has nothing to finish.
NeverStarted ==
  \A s \in Session : ~ Spawned(s) => session[s].phase = "none" /\ session[s].pump = "ended"

\* The process of s was waited for, and no KILL was accepted on s: a session that is
\* done refuses every later one.
Over(s, code) ==
  /\ Done(s) /\ session[s].process = "reaped" /\ session[s].code = code
  /\ \A k \in Killer : kill[k].on = s => kill[k].pc \in {"found", "refused"}

\* What a reason that c is given says of its session s, and what must keep it true.
TrueWord(word, s, c) ==
  /\ word = "exited" => Over(s, "exited")
  /\ word = "replaced" => Over(s, "replaced") \/ \E d \in Client : CameToo(d, c)
  /\ word = "killed" => Done(s) /\ session[s].killed /\ session[s].finisher = "pump"
  /\ word = "service_stopped" => Done(s) /\ closing.called /\ session[s].finisher = "close"

\* A client is told nothing, or that it is attached, or that and one true reason.
ToldInOrder(c) ==
  \/ conn[c].told = << >>
  \/ /\ conn[c].pc \in {"stream", "gone"}
     /\ conn[c].on \in Session /\ Spawned(conn[c].on)
     /\ \/ conn[c].told = <<"attached">>
        \/ \E word \in Reason : /\ conn[c].told = <<"attached", word>>
                                /\ ~ conn[c].open
                                /\ TrueWord(word, conn[c].on, c)

\* The client a session is attached to was not given a reason yet.
AttachedTold ==
  \A s \in Session :
    session[s].attached # None => conn[session[s].attached].told = <<"attached">>

EndInv ==
  /\ KillsFound
  /\ PumpWaited
  /\ CloseCalled
  /\ NeverStarted
  /\ \A c \in Client : ToldInOrder(c)
  /\ AttachedTold

LEMMA InitEndInv == Init => EndInv
<1> SUFFICES ASSUME Init PROVE EndInv
  OBVIOUS
<1>1. \A s \in Session : ~ Spawned(s) /\ session[s] = NotSpawned
  BY DEF Init, Spawned, NotSpawned, Started
<1>2. NotSpawned.phase = "none" /\ NotSpawned.pump = "ended" /\ NotSpawned.attached = None
  BY DEF NotSpawned, Started
<1> QED
  BY <1>1, <1>2 DEF Init, EndInv, KillsFound, PumpWaited, CloseCalled, NeverStarted,
                    ToldInOrder, AttachedTold

-----------------------------------------------------------------------------
(* What no step takes back *)

\* A spawned session keeps its name, an exit status that was collected, the mark
\* of a KILL, its end and who brought it; its pump finishes only after its wait.
Onward(t) ==
  /\ session'[t].name = session[t].name
  /\ session[t].process = "reaped" => /\ session'[t].process = "reaped"
                                      /\ session'[t].code = session[t].code
  /\ session[t].killed => session'[t].killed
  /\ Done(t) => session'[t].phase # "none" /\ session'[t].finisher = session[t].finisher
  /\ session'[t].pump = "finish" => session[t].pump = "finish" \/ session'[t].process = "reaped"

LEMMA SessionsGoOn ==
  ASSUME IInv, EndInv, [Next]_vars, NEW t \in Session, Spawned(t)
  PROVE  Onward(t)
<1>0. session \in [Session -> SessionState] /\ session[t] \in SessionState
  BY DEF IInv, TypeOK
<1>1. CASE UNCHANGED session
  BY <1>1 DEF Onward, Done
<1>2. CASE \E c \in Client : Attach(c) \/ AttachFails(c) \/ StreamEnds(c)
  <2>1. \E s \in Session, x \in Client \cup {None} : session' = [session EXCEPT ![s].attached = x]
    BY <1>2 DEF Attach, AttachFails, StreamEnds, IInv, TypeOK, Bound, SessionState
  <2> QED BY <1>0, <2>1 DEF SessionState, Onward, Done
<1>3. CASE \E k \in Killer : Killing(k)
  <2>1. PICK k \in Killer : Killing(k)
    BY <1>3
  <2>2. kill[k].on \in Session
    BY <2>1 DEF IInv, Bound, Killing, KillMark, KillSignal, KillGrace
  <2>3. CASE KillMark(k)
    BY <1>0, <2>2, <2>3 DEF KillMark, SessionState, Onward, Done
  <2>4. CASE KillSignal(k)
    BY <1>0, <2>2, <2>4 DEF KillSignal, Signalled, SessionState, Onward, Done
  <2>5. CASE KillGrace(k)
    BY <1>0, <2>2, <2>5 DEF KillGrace, Signalled, SessionState, Onward, Done
  <2> QED BY <2>1, <2>3, <2>4, <2>5 DEF Killing
<1>4. CASE \E s \in Session : \/ FrameFails(s) \/ LetGo(s)
                              \/ PumpReadFails(s) \/ PumpWait(s)
  BY <1>0, <1>4 DEF FrameFails, LetGo, PumpReadFails, PumpWait, SessionState, Onward, Done
<1>10. CASE \E s \in Session : Exit(s)
  <2>1. PICK s \in Session : Exit(s)
    BY <1>10
  <2>2. PICK code \in ExitCode :
          session' = [session EXCEPT ![s].process = "exited", ![s].code = code]
    BY <2>1 DEF Exit
  <2> QED BY <1>0, <2>1, <2>2 DEF Exit, SessionState, Onward, Done
<1>5. CASE \E s \in Session : FinishWait(s) \/ Remove(s) \/ CloseMaster(s)
  BY <1>0, <1>5 DEF FinishWait, Remove, CloseMaster, Signalled, SessionState, Onward, Done
<1>6. CASE \E s \in Session : PumpFinish(s) \/ CloseFinishes(s)
  BY <1>0, <1>6 DEF PumpFinish, CloseFinishes, Tell, SessionState, Onward, Done
<1>7. CASE \E c \in Client, n \in Name : HelloFinds(c, n) \/ HelloRefused(c, n)
  BY <1>1, <1>7 DEF HelloFinds, HelloRefused
<1>8. CASE CloseStarts \/ \E k \in Killer, n \in Name : KillLookup(k, n)
  BY <1>1, <1>8 DEF CloseStarts, KillLookup
<1>9. CASE \E c \in Client, n \in Name : HelloCreates(c, n)
  <2>1. PICK s \in Session, n \in Name : ~ Spawned(s) /\ session' = [session EXCEPT ![s] = Started(n)]
    BY <1>9 DEF HelloCreates
  <2>2. session'[t] = session[t]
    BY <1>0, <2>1
  <2> QED BY <2>2 DEF Onward, Done
<1> QED BY <1>1, <1>2, <1>3, <1>4, <1>5, <1>6, <1>7, <1>8, <1>9, <1>10
        DEF Next, Pumping, Finishing, vars

\* A session that was not spawned is left alone, or spawned.
LEMMA UnspawnedGoOn ==
  ASSUME IInv, EndInv, [Next]_vars, NEW t \in Session, ~ Spawned(t)
  PROVE  \/ session'[t] = session[t]
         \/ session'[t].name # None /\ session'[t].pump = "read"
<1> USE DEF IInv, EndInv
<1>0. /\ session \in [Session -> SessionState]
      /\ session[t].phase = "none" /\ session[t].pump = "ended"
  BY DEF TypeOK, NeverStarted
<1>1. CASE UNCHANGED session
  BY <1>1
<1>2. CASE \E c \in Client : Attach(c) \/ AttachFails(c) \/ StreamEnds(c)
  <2>1. \E s \in Session : /\ Spawned(s)
                           /\ \E x : session' = [session EXCEPT ![s].attached = x]
    BY <1>2 DEF Attach, AttachFails, StreamEnds, Bound
  <2> QED BY <1>0, <2>1
<1>3. CASE \E k \in Killer : Killing(k)
  <2>1. PICK k \in Killer : Killing(k)
    BY <1>3
  <2>2. kill[k].on \in Session
    BY <2>1 DEF Bound, Killing, KillMark, KillSignal, KillGrace
  <2>3. kill[k].on # t
    BY <2>2, ServiceAssumption DEF KillsFound
  <2> QED BY <1>0, <2>1, <2>3 DEF Killing, KillMark, KillSignal, KillGrace
<1>4. CASE \E s \in Session : \/ FrameFails(s) \/ Exit(s) \/ LetGo(s)
                              \/ PumpReadFails(s) \/ PumpWait(s)
  BY <1>0, <1>4 DEF FrameFails, Exit, LetGo, PumpReadFails, PumpWait
<1>5. CASE \E s \in Session : FinishWait(s) \/ Remove(s) \/ CloseMaster(s)
  BY <1>0, <1>5 DEF FinishWait, Remove, CloseMaster
<1>6. CASE \E s \in Session : PumpFinish(s)
  BY <1>0, <1>6 DEF PumpFinish, Tell
<1>10. CASE \E s \in Session : CloseFinishes(s)
  <2>1. PICK s \in Session : CloseFinishes(s)
    BY <1>10
  <2>2. s # t
    BY <2>1 DEF CloseFinishes, CloseCalled
  <2> QED BY <1>0, <2>1, <2>2 DEF CloseFinishes, Tell
<1>7. CASE \E c \in Client, n \in Name : HelloFinds(c, n) \/ HelloRefused(c, n)
  BY <1>1, <1>7 DEF HelloFinds, HelloRefused
<1>8. CASE CloseStarts \/ \E k \in Killer, n \in Name : KillLookup(k, n)
  BY <1>1, <1>8 DEF CloseStarts, KillLookup
<1>9. CASE \E c \in Client, n \in Name : HelloCreates(c, n)
  <2>1. PICK s \in Session, n \in Name : session' = [session EXCEPT ![s] = Started(n)]
    BY <1>9 DEF HelloCreates
  <2>2. Started(n).name # None /\ Started(n).pump = "read"
    BY ServiceAssumption DEF Started
  <2> QED BY <1>0, <2>1, <2>2
<1> QED BY <1>1, <1>2, <1>3, <1>4, <1>5, <1>6, <1>7, <1>8, <1>9, <1>10
        DEF Next, Pumping, Finishing, vars

\* Close stays called, and takes only sessions of the registry.
LEMMA CloseGoesOn ==
  ASSUME IInv, EndInv, [Next]_vars
  PROVE  /\ closing.called => closing'.called
         /\ \A s \in closing'.left : closing'.called /\ Spawned(s)
<1> USE DEF IInv, EndInv
<1>1. /\ closing \in [called : BOOLEAN, left : SUBSET Session]
      /\ \A s \in closing.left : closing.called /\ Spawned(s)
  BY DEF TypeOK, CloseCalled
<1>2. CASE UNCHANGED closing
  BY <1>1, <1>2
<1>3. CASE CloseStarts
  <2>1. \A n \in Registered : Spawned(registry[n])
    BY ServiceAssumption DEF Registered, RegistrySound, Spawned
  <2> QED BY <1>3, <2>1 DEF CloseStarts
<1>4. CASE \E s \in Session : CloseFinishes(s)
  BY <1>1, <1>4 DEF CloseFinishes
<1> QED BY <1>2, <1>3, <1>4 DEF Next, vars, HelloFinds, HelloCreates, HelloRefused, Attach,
     AttachFails, StreamEnds, FrameFails, Exit, LetGo, Pumping, PumpReadFails, PumpWait,
     PumpFinish, Finishing, CloseMaster, FinishWait, Remove, Killing, KillMark, KillSignal,
     KillGrace, KillLookup

\* A KILL has marked its session before it acts on it; one that looks a session
\* up, and one that finds it done, does nothing to it.
LEMMA KillsGoOn ==
  ASSUME IInv, EndInv, [Next]_vars
  PROVE  /\ KillsFound'
         /\ \A t \in Session, k \in Killer :
              Done(t) /\ kill'[k].on = t /\ kill'[k].pc \notin {"found", "refused"} =>
                kill[k].on = t /\ kill[k].pc \notin {"found", "refused"}
<1> USE DEF IInv, EndInv
<1>1. /\ kill \in [Killer -> KillState] /\ session \in [Session -> SessionState]
      /\ \A k \in Killer : kill[k] \in KillState
      /\ registry \in [Name -> Session \cup {None}]
  BY DEF TypeOK
<1>2. \A t \in Session : Spawned(t) => Spawned(t)' /\ (session[t].killed => session'[t].killed)
  BY SessionsGoOn DEF Onward, Spawned
<1>3. CASE UNCHANGED kill
  <2>1. KillsFound'
    BY <1>2, <1>3, ServiceAssumption DEF KillsFound
  <2> QED BY <1>3, <2>1
<1>4. ASSUME NEW k \in Killer, NEW n \in Name, KillLookup(k, n)
      PROVE  /\ KillsFound'
             /\ \A t \in Session, j \in Killer :
                  Done(t) /\ kill'[j].on = t /\ kill'[j].pc \notin {"found", "refused"} =>
                    kill[j].on = t /\ kill[j].pc \notin {"found", "refused"}
  <2>1. /\ kill'[k].pc \in {"found", "refused"} /\ kill'[k].on = registry[n]
        /\ \A j \in Killer : j # k => kill'[j] = kill[j]
        /\ UNCHANGED session
    BY <1>1, <1>4 DEF KillLookup, KillState
  <2>2. registry[n] # None => registry[n] \in Session /\ Spawned(registry[n])
    BY <1>1, ServiceAssumption DEF RegistrySound, Spawned
  <2>3. KillsFound'
    BY <2>1, <2>2 DEF KillsFound, Spawned
  <2> QED BY <2>1, <2>3
<1>5. ASSUME NEW k \in Killer, Killing(k)
      PROVE  /\ KillsFound'
             /\ \A t \in Session, j \in Killer :
                  Done(t) /\ kill'[j].on = t /\ kill'[j].pc \notin {"found", "refused"} =>
                    kill[j].on = t /\ kill[j].pc \notin {"found", "refused"}
  <2>1. kill[k].on \in Session
    BY <1>5 DEF Bound, Killing, KillMark, KillSignal, KillGrace
  <2>2. /\ kill'[k].on = kill[k].on
        /\ \A j \in Killer : j # k => kill'[j] = kill[j]
        /\ \/ /\ kill[k].pc = "found" /\ session'[kill[k].on].killed
              /\ kill'[k].pc = IF Done(kill[k].on) THEN "refused" ELSE "signal"
           \/ kill[k].pc \in {"signal", "grace"} /\ kill'[k].pc \in {"grace", "accepted"}
    BY <1>1, <1>5, <2>1 DEF Killing, KillMark, KillSignal, KillGrace, KillState, SessionState
  <2>3. KillsFound'
    BY <1>2, <2>1, <2>2, ServiceAssumption DEF KillsFound
  <2> QED BY <2>2, <2>3
<1> QED BY <1>3, <1>4, <1>5 DEF Next, vars, HelloFinds, HelloCreates, HelloRefused, Attach,
     AttachFails, StreamEnds, FrameFails, Exit, LetGo, Pumping, PumpReadFails, PumpWait,
     PumpFinish, Finishing, CloseMaster, FinishWait, Remove, CloseFinishes, CloseStarts

\* A client that was attached, or was to be, or is gone, stays so, with its session.
LEMMA CameStays ==
  ASSUME IInv, [Next]_vars, NEW d \in Client, conn[d].pc \in {"stream", "gone"}
  PROVE  conn'[d].on = conn[d].on /\ conn'[d].pc \in {"stream", "gone"}
<1> DEFINE Kept == conn'[d].on = conn[d].on /\ conn'[d].pc = conn[d].pc
<1>0. conn \in [Client -> ConnState] /\ session \in [Session -> SessionState]
  BY DEF IInv, TypeOK
<1>1. \A s \in Session, word \in Reason :
        /\ Let(s, word) \in [Client -> ConnState]
        /\ Let(s, word)[d].on = conn[d].on /\ Let(s, word)[d].pc = conn[d].pc
  <2> SUFFICES ASSUME NEW s \in Session, NEW word \in Reason
               PROVE  /\ Let(s, word) \in [Client -> ConnState]
                      /\ Let(s, word)[d].on = conn[d].on /\ Let(s, word)[d].pc = conn[d].pc
    OBVIOUS
  <2>1. CASE session[s].attached = None
    BY <1>0, <2>1 DEF Let
  <2>2. CASE session[s].attached # None
    <3>1. session[s].attached \in Client
      BY <1>0, <2>2 DEF SessionState
    <3>2. <<word>> \in Seq({"attached"} \cup Reason)
      BY OneReason
    <3> QED BY <1>0, <2>2, <3>1, <3>2, ClosedConn DEF Let
  <2> QED BY <2>1, <2>2
<1>2. CASE conn'[d] = conn[d]
  BY <1>2
<1>3. CASE \E c \in Client, n \in Name : \/ HelloFinds(c, n) \/ HelloCreates(c, n)
                                          \/ HelloRefused(c, n)
  <2>1. PICK c \in Client, n \in Name : \/ HelloFinds(c, n) \/ HelloCreates(c, n)
                                        \/ HelloRefused(c, n)
    BY <1>3
  <2>2. conn[c].pc = "idle" /\ \A e \in Client : e # c => conn'[e] = conn[e]
    BY <1>0, <2>1 DEF HelloFinds, HelloCreates, HelloRefused, Found
  <2> QED BY <1>2, <2>2
<1>4. CASE \E c \in Client : Attach(c) \/ AttachFails(c)
  <2>1. PICK c \in Client : Attach(c) \/ AttachFails(c)
    BY <1>4
  <2>2. conn[c].on \in Session /\ "replaced" \in Reason /\ c # d
    BY <2>1 DEF IInv, Bound, Attach, AttachFails, Reason
  <2>3. PICK cs : cs = Let(conn[c].on, "replaced")
    OBVIOUS
  <2>4. cs[d].on = conn[d].on /\ cs[d].pc = conn[d].pc /\ cs \in [Client -> ConnState]
    BY <1>1, <2>2, <2>3
  <2>5. \/ conn' = [cs EXCEPT ![c].pc = "stream", ![c].told = <<"attached">>]
        \/ conn' = [cs EXCEPT ![c].pc = "gone", ![c].open = FALSE]
    BY <2>1, <2>3 DEF Attach, AttachFails
  <2> QED BY <2>2, <2>4, <2>5
<1>5. CASE \E c \in Client : StreamEnds(c)
  BY <1>0, <1>5 DEF StreamEnds, ConnState
<1>6. CASE \E s \in Session : FrameFails(s)
  <2>1. PICK s \in Session : FrameFails(s)
    BY <1>6
  <2>2. session[s].attached \in Client
    BY <1>0, <2>1 DEF FrameFails, SessionState
  <2>3. << >> \in Seq({"attached"} \cup Reason)
    BY EmptySeq
  <2>4. conn' = Closed(conn, session[s].attached, << >>)
    BY <2>1 DEF FrameFails
  <2>5. Kept
    BY <1>0, <2>2, <2>3, <2>4, ClosedConn
  <2> QED BY <2>5
<1>7. CASE \E s \in Session : PumpFinish(s) \/ CloseFinishes(s)
  <2>1. \A s \in Session : session[s].code \in Reason
    BY <1>0 DEF SessionState, ExitCode, Reason
  <2>2. conn' = conn \/ \E s \in Session, word \in Reason : conn' = Let(s, word)
    BY <1>7, <2>1 DEF PumpFinish, CloseFinishes, Tell, Reason
  <2> QED BY <1>1, <2>2
<1> QED BY <1>2, <1>3, <1>4, <1>5, <1>6, <1>7
        DEF Next, Pumping, Finishing, Killing, vars, Exit, LetGo, PumpReadFails, PumpWait,
            CloseMaster, FinishWait, Remove, KillMark, KillSignal, KillGrace, KillLookup,
            CloseStarts

\* A reason stays true.
LEMMA TruthStays ==
  ASSUME IInv, EndInv, [Next]_vars, NEW s \in Session, Spawned(s), NEW c \in Client,
         conn[c].on = s, conn[c].pc \in {"stream", "gone"},
         NEW word, TrueWord(word, s, c)
  PROVE  TrueWord(word, s, c)'
<1>1. Onward(s)
  BY SessionsGoOn
<1>2. closing.called => closing'.called
  BY CloseGoesOn
<1>3. \A k \in Killer : Done(s) /\ kill'[k].on = s /\ kill'[k].pc \notin {"found", "refused"} =>
                          kill[k].on = s /\ kill[k].pc \notin {"found", "refused"}
  BY KillsGoOn
<1>4. \A d \in Client : CameToo(d, c) => CameToo(d, c)'
  BY CameStays DEF CameToo
<1>5. \A code : Over(s, code) => Over(s, code)'
  BY <1>1, <1>3 DEF Over, Onward, Done
<1> QED BY <1>1, <1>2, <1>4, <1>5 DEF TrueWord, Onward, Done

-----------------------------------------------------------------------------
(* What a step tells a client *)

\* Nothing; that it is attached; or, to one that was told just that, a true reason.
TellsNothing(c) ==
  /\ conn'[c].told = conn[c].told
  /\ conn[c].told # << >> => /\ conn'[c].on = conn[c].on
                             /\ conn'[c].pc \in {"stream", "gone"}
                             /\ conn'[c].open => conn[c].open
TellsAttached(c, s) ==
  /\ conn[c].pc = "found" /\ conn[c].on = s
  /\ conn'[c].told = <<"attached">> /\ conn'[c].pc = "stream" /\ conn'[c].on = s
TellsReason(c, s, word) ==
  /\ conn[c].told = <<"attached">> /\ conn[c].pc = "stream" /\ conn[c].on = s
  /\ conn'[c].told = <<"attached", word>> /\ ~ conn'[c].open
  /\ conn'[c].pc = "stream" /\ conn'[c].on = s

\* A client that is idle or has only found its session was told nothing.
LEMMA NotToldYet ==
  ASSUME EndInv, NEW c \in Client, conn[c].pc \in {"idle", "found"}
  PROVE  conn[c].told = << >>
BY DEF EndInv, ToldInOrder

LEMMA TwoWords ==
  ASSUME NEW word \in Reason
  PROVE  <<"attached">> \o <<word>> = <<"attached", word>>
<1> DEFINE W == {"attached"} \cup Reason
           both == <<"attached">> \o <<word>>
<1>1. <<"attached">> \in Seq(W) /\ <<word>> \in Seq(W) /\ <<"attached", word>> \in Seq(W)
  OBVIOUS
<1>2. both \in Seq(W) /\ Len(both) = 2 /\ both[1] = "attached" /\ both[2] = word
  <2> HIDE DEF W
  <2>1. /\ both \in Seq(W) /\ Len(both) = Len(<<"attached">>) + Len(<<word>>)
        /\ \A i \in 1 .. Len(<<"attached">>) + Len(<<word>>) :
             both[i] = IF i <= Len(<<"attached">>) THEN <<"attached">>[i]
                       ELSE <<word>>[i - Len(<<"attached">>)]
    BY <1>1, ConcatProperties
  <2>2. Len(<<"attached">>) = 1 /\ Len(<<word>>) = 1
    OBVIOUS
  <2> QED BY <2>1, <2>2
<1> DEFINE pair == <<"attached", word>>
<1>3. Len(pair) = 2 /\ pair[1] = "attached" /\ pair[2] = word
  OBVIOUS
<1>4. both = pair
  <2> HIDE DEF both, pair, W
  <2>1. \A i \in 1 .. Len(both) : both[i] = pair[i]
    BY <1>2, <1>3
  <2>2. pair \in Seq(W)
    BY <1>1 DEF pair
  <2> QED BY <1>2, <1>3, <2>1, <2>2, SeqEqual
<1> QED BY <1>4

\* What Let does to the clients: the one attached to s is given the reason.
LEMMA LetTells ==
  ASSUME IInv, EndInv, NEW s \in Session, NEW word \in Reason
  PROVE  /\ Let(s, word) \in [Client -> ConnState]
         /\ \A d \in Client : d # session[s].attached => Let(s, word)[d] = conn[d]
         /\ LET a == session[s].attached
            IN  a # None =>
                  /\ a \in Client /\ conn[a].told = <<"attached">>
                  /\ conn[a].pc = "stream" /\ conn[a].on = s
                  /\ Let(s, word)[a].told = <<"attached", word>>
                  /\ ~ Let(s, word)[a].open
                  /\ Let(s, word)[a].pc = "stream" /\ Let(s, word)[a].on = s
<1> DEFINE a == session[s].attached
<1>1. /\ conn \in [Client -> ConnState] /\ session[s] \in SessionState
      /\ a \in Client \cup {None}
  BY DEF IInv, TypeOK, SessionState
<1>2. CASE a = None
  BY <1>1, <1>2, ServiceAssumption DEF Let
<1>3. CASE a # None
  <2>1. /\ a \in Client /\ conn[a].told = <<"attached">>
        /\ conn[a].pc = "stream" /\ conn[a].on = s
    BY <1>1, <1>3 DEF IInv, AttachedSound, EndInv, AttachedTold
  <2>2. <<word>> \in Seq({"attached"} \cup Reason)
    BY OneReason
  <2>3. Let(s, word) = Closed(conn, a, <<word>>)
    BY <1>3 DEF Let
  <2>4. Closed(conn, a, <<word>>)[a].told = <<"attached", word>>
    <3>1. conn[a] \in ConnState /\ conn[a].told \o <<word>> = <<"attached", word>>
      BY <1>1, <2>1, TwoWords
    <3>2. Closed(conn, a, <<word>>)[a].told = conn[a].told \o <<word>>
      BY <1>1, <2>1, <3>1 DEF Closed, ConnState
    <3> QED BY <3>1, <3>2
  <2> HIDE DEF a
  <2>5. /\ Closed(conn, a, <<word>>) \in [Client -> ConnState]
        /\ ~ Closed(conn, a, <<word>>)[a].open
        /\ \A d \in Client : d # a => Closed(conn, a, <<word>>)[d] = conn[d]
        /\ \A d \in Client : /\ Closed(conn, a, <<word>>)[d].pc = conn[d].pc
                             /\ Closed(conn, a, <<word>>)[d].on = conn[d].on
    BY <1>1, <2>1, <2>2, ClosedConn
  <2> USE DEF a
  <2> QED BY <2>1, <2>3, <2>4, <2>5
<1> QED BY <1>2, <1>3

\* Attach and AttachFails give the client attached until now "replaced".
LEMMA AttachTells ==
  ASSUME IInv, EndInv, NEW c \in Client, Attach(c) \/ AttachFails(c)
  PROVE  LET s == conn[c].on
             a == session[s].attached
         IN  /\ s \in Session /\ Spawned(s) /\ a # c /\ conn[c].pc = "found"
             /\ a # None => a \in Client /\ TellsReason(a, s, "replaced")
             /\ \A d \in Client : d # a /\ d # c => conn'[d] = conn[d]
             /\ Attach(c) => TellsAttached(c, s)
             /\ AttachFails(c) => TellsNothing(c)
<1> DEFINE s == conn[c].on
           a == session[s].attached
           let == Let(s, "replaced")
<1>1. /\ conn[c].pc = "found" /\ s \in Session /\ Spawned(s)
      /\ conn \in [Client -> ConnState]
  BY DEF IInv, TypeOK, Bound, Attach, AttachFails
<1>2. a # c
  BY <1>1, ServiceAssumption DEF IInv, AttachedSound
<1>3. /\ let \in [Client -> ConnState]
      /\ \A d \in Client : d # a => let[d] = conn[d]
      /\ a # None => /\ a \in Client /\ conn[a].told = <<"attached">>
                     /\ conn[a].pc = "stream" /\ conn[a].on = s
                     /\ let[a].told = <<"attached", "replaced">> /\ ~ let[a].open
                     /\ let[a].pc = "stream" /\ let[a].on = s
  <2>1. "replaced" \in Reason
    BY DEF Reason
  <2> QED BY <1>1, <2>1, LetTells
<1>4. \/ Attach(c) /\ conn' = [let EXCEPT ![c].pc = "stream", ![c].told = <<"attached">>]
      \/ AttachFails(c) /\ conn' = [let EXCEPT ![c].pc = "gone", ![c].open = FALSE]
  BY DEF Attach, AttachFails
<1>5. conn[c].told = << >>
  BY <1>1, NotToldYet
<1> HIDE DEF let
<1>6. /\ \A d \in Client : d # c => conn'[d] = let[d]
      /\ let[c] = conn[c] /\ let[c] \in ConnState
  BY <1>2, <1>3, <1>4
<1>7. a # None => a \in Client /\ TellsReason(a, s, "replaced")
  BY <1>2, <1>3, <1>6 DEF TellsReason
<1>8. \A d \in Client : d # a /\ d # c => conn'[d] = conn[d]
  BY <1>3, <1>6
<1>9. Attach(c) => TellsAttached(c, s)
  <2> SUFFICES ASSUME Attach(c) PROVE TellsAttached(c, s)
    OBVIOUS
  <2>1. conn' = [let EXCEPT ![c].pc = "stream", ![c].told = <<"attached">>]
    BY DEF Attach, let
  <2> QED BY <1>1, <1>3, <1>6, <2>1 DEF TellsAttached, ConnState
<1>10. AttachFails(c) => TellsNothing(c)
  <2> SUFFICES ASSUME AttachFails(c) PROVE TellsNothing(c)
    OBVIOUS
  <2>1. conn' = [let EXCEPT ![c].pc = "gone", ![c].open = FALSE]
    BY DEF AttachFails, let
  <2> QED BY <1>3, <1>5, <1>6, <2>1 DEF TellsNothing, ConnState
<1> QED BY <1>1, <1>2, <1>7, <1>8, <1>9, <1>10

\* A client that was attached, or failed to be, is in stream or gone, on its session.
LEMMA AttachedOn ==
  ASSUME IInv, EndInv, NEW c \in Client, Attach(c) \/ AttachFails(c)
  PROVE  conn'[c].on = conn[c].on /\ conn'[c].pc \in {"stream", "gone"}
<1>1. PICK let : let = Let(conn[c].on, "replaced")
  OBVIOUS
<1>2. conn[c].on \in Session /\ conn[c].pc = "found" /\ "replaced" \in Reason
  BY DEF IInv, Bound, Attach, AttachFails, Reason
<1>3. /\ let \in [Client -> ConnState]
      /\ session[conn[c].on].attached # c
      /\ let[c] = conn[c]
  BY <1>1, <1>2, LetTells, AttachTells
<1>4. \/ conn' = [let EXCEPT ![c].pc = "stream", ![c].told = <<"attached">>]
      \/ conn' = [let EXCEPT ![c].pc = "gone", ![c].open = FALSE]
  BY <1>1 DEF Attach, AttachFails
<1> QED BY <1>3, <1>4 DEF ConnState

\* A frame that fails and a stream that ends tell nothing.
LEMMA LetGoTells ==
  ASSUME IInv, EndInv,
         \/ \E c \in Client : StreamEnds(c)
         \/ \E s \in Session : FrameFails(s)
  PROVE  \A d \in Client : TellsNothing(d)
<1>0. conn \in [Client -> ConnState] /\ \A d \in Client : conn[d] \in ConnState
  BY DEF IInv, TypeOK
<1>1. ASSUME NEW c \in Client, StreamEnds(c), NEW d \in Client
      PROVE  TellsNothing(d)
  <2>1. conn' = [conn EXCEPT ![c].pc = "gone", ![c].open = FALSE]
    BY <1>1 DEF StreamEnds
  <2>2. conn[d].told # << >> => conn[d].pc \in {"stream", "gone"}
    BY DEF EndInv, ToldInOrder
  <2> QED BY <1>0, <2>1, <2>2 DEF TellsNothing, ConnState
<1>2. ASSUME NEW s \in Session, FrameFails(s), NEW d \in Client
      PROVE  TellsNothing(d)
  <2> DEFINE a == session[s].attached
  <2>1. a \in Client /\ conn[a].told = <<"attached">> /\ conn[a].pc = "stream"
    BY <1>2 DEF FrameFails, IInv, TypeOK, SessionState, AttachedSound, EndInv, AttachedTold
  <2>2. conn' = [conn EXCEPT ![a].told = @ \o << >>, ![a].open = FALSE]
    BY <1>2 DEF FrameFails, Closed
  <2>3. <<"attached">> \o << >> = <<"attached">>
    OBVIOUS
  <2>4. conn[d].told # << >> => conn[d].pc \in {"stream", "gone"}
    BY DEF EndInv, ToldInOrder
  <2> HIDE DEF a
  <2> QED BY <1>0, <2>1, <2>2, <2>3, <2>4 DEF TellsNothing, ConnState
<1> QED BY <1>1, <1>2

\* The reason finish gives is true: of the pump, whose process was waited for, or
\* of Close.
FinishReason(s, who) ==
  IF who = "close" THEN "service_stopped"
  ELSE IF session[s].killed THEN "killed" ELSE session[s].code

LEMMA ReasonIsReason ==
  ASSUME IInv, NEW s \in Session, NEW who
  PROVE  FinishReason(s, who) \in Reason
BY DEF FinishReason, Reason, IInv, TypeOK, SessionState, ExitCode

LEMMA FinishTells ==
  ASSUME IInv, EndInv, [Next]_vars, NEW s \in Session,
         NEW who \in {"pump", "close"}, Tell(s, who),
         who = "pump" => session[s].process = "reaped",
         who = "close" => closing.called,
         NEW word, word = FinishReason(s, who),
         UNCHANGED kill
  PROVE  LET a == session[s].attached
         IN  /\ a # None => a \in Client /\ TellsReason(a, s, word)
             /\ \A d \in Client : d # a => conn'[d] = conn[d]
             /\ \A c \in Client : TrueWord(word, s, c)'
<1> DEFINE a == session[s].attached
<1>1. word \in Reason
  BY ReasonIsReason
<1>2. conn' = Let(s, word)
  BY DEF Tell, FinishReason
<1>3. /\ Let(s, word) \in [Client -> ConnState]
      /\ \A d \in Client : d # a => Let(s, word)[d] = conn[d]
      /\ a # None => /\ a \in Client /\ conn[a].told = <<"attached">>
                     /\ conn[a].pc = "stream" /\ conn[a].on = s
                     /\ Let(s, word)[a].told = <<"attached", word>>
                     /\ ~ Let(s, word)[a].open
                     /\ Let(s, word)[a].pc = "stream" /\ Let(s, word)[a].on = s
  BY <1>1, LetTells
<1>4. a # None => a \in Client /\ TellsReason(a, s, word)
  BY <1>2, <1>3 DEF TellsReason
<1>5. \A c \in Client : TrueWord(word, s, c)'
  <2>1. session' = [session EXCEPT ![s].phase = "told", ![s].finisher = who,
                                   ![s].attached = None,
                                   ![s].pump = IF who = "pump" THEN "ended" ELSE @]
        /\ session[s] \in SessionState /\ session \in [Session -> SessionState]
    BY DEF Tell, IInv, TypeOK
  <2>2. /\ session'[s].phase = "told" /\ session'[s].finisher = who
        /\ session'[s].process = session[s].process /\ session'[s].killed = session[s].killed
        /\ session'[s].code = session[s].code
    BY <2>1 DEF SessionState
  <2>3. closing.called => closing'.called
    BY CloseGoesOn
  <2>4. ~ session[s].killed =>
          \A k \in Killer : kill[k].on = s => kill[k].pc \in {"found", "refused"}
    <3> SUFFICES ASSUME ~ session[s].killed, NEW k \in Killer, kill[k].on = s
                 PROVE  kill[k].pc \in {"found", "refused"}
      OBVIOUS
    <3>1. s # None
      BY ServiceAssumption
    <3>2. kill[k].pc \in {"idle", "found", "signal", "grace", "accepted", "refused"}
      BY DEF IInv, TypeOK, KillState
    <3> QED BY <3>1, <3>2 DEF EndInv, KillsFound
  <2>5. CASE who = "close"
    <3>1. word = "service_stopped"
      BY <2>5 DEF FinishReason
    <3> QED BY <2>2, <2>3, <2>5, <3>1 DEF TrueWord, Done
  <2>6. CASE who = "pump" /\ session[s].killed
    <3>1. word = "killed"
      BY <2>6 DEF FinishReason
    <3> QED BY <2>2, <2>6, <3>1 DEF TrueWord, Done
  <2>7. CASE who = "pump" /\ ~ session[s].killed
    <3>1. word = session[s].code /\ word \in {"exited", "replaced"}
      BY <2>1, <2>7 DEF FinishReason, SessionState, ExitCode
    <3>2. /\ session'[s].phase = "told" /\ session'[s].process = "reaped"
          /\ session'[s].code = word
      BY <2>2, <2>7, <3>1
    <3>3. \A k \in Killer : kill'[k].on = s => kill'[k].pc \in {"found", "refused"}
      BY <2>4, <2>7
    <3>4. /\ word = "exited" => Over(s, "exited")'
          /\ word = "replaced" => Over(s, "replaced")'
      BY <3>2, <3>3 DEF Over, Done
    <3> QED BY <3>1, <3>4 DEF TrueWord
  <2> QED BY <2>5, <2>6, <2>7
<1> QED BY <1>2, <1>3, <1>4, <1>5

\* Every step tells every client nothing, that it is attached, or a true reason.
LEMMA StepTells ==
  ASSUME IInv, EndInv, [Next]_vars, NEW d \in Client
  PROVE  \/ TellsNothing(d)
         \/ \E s \in Session : Spawned(s)' /\ TellsAttached(d, s)
         \/ \E s \in Session, word \in Reason :
              Spawned(s)' /\ TellsReason(d, s, word) /\ TrueWord(word, s, d)'
<1>0. conn \in [Client -> ConnState] /\ \A c \in Client : conn[c] \in ConnState
  BY DEF IInv, TypeOK
<1>1. conn[d].told # << >> => conn[d].pc \in {"stream", "gone"}
  BY DEF EndInv, ToldInOrder
<1>2. \A s \in Session : Spawned(s) => Spawned(s)'
  BY SessionsGoOn DEF Onward, Spawned
<1>3. CASE conn'[d] = conn[d]
  BY <1>1, <1>3 DEF TellsNothing
<1>4. CASE \E c \in Client, n \in Name : HelloFinds(c, n) \/ HelloCreates(c, n) \/ HelloRefused(c, n)
  <2>1. PICK c \in Client : /\ conn[c].pc = "idle"
                            /\ \/ \E s \in Session \cup {None} : Found(c, s)
                               \/ conn' = [conn EXCEPT ![c].pc = "gone", ![c].open = FALSE]
    BY <1>4 DEF HelloFinds, HelloCreates, HelloRefused, IInv, TypeOK
  <2>2. conn'[c].told = conn[c].told /\ \A e \in Client : e # c => conn'[e] = conn[e]
    BY <1>0, <2>1 DEF Found, ConnState
  <2>3. conn[c].told = << >>
    BY <2>1, NotToldYet
  <2> QED BY <1>3, <2>2, <2>3 DEF TellsNothing
<1>5. CASE \E c \in Client : Attach(c) \/ AttachFails(c)
  <2>1. PICK c \in Client : Attach(c) \/ AttachFails(c)
    BY <1>5
  <2>9. conn[c].on \in Session
    BY <2>1, AttachTells
  <2>10. PICK s \in Session : s = conn[c].on
    BY <2>9
  <2> DEFINE a == session[s].attached
  <2>2. /\ Spawned(s)
        /\ a # None => TellsReason(a, s, "replaced")
        /\ \A e \in Client : e # a /\ e # c => conn'[e] = conn[e]
        /\ TellsAttached(c, s) \/ TellsNothing(c)
    BY <2>1, <2>10, AttachTells
  <2>3. "replaced" \in Reason /\ (d = a => TrueWord("replaced", s, d)')
    <3>1. ASSUME d = a PROVE TrueWord("replaced", s, d)'
      <4>1. d # None /\ d # c
        BY <2>10, <2>1, <3>1, AttachTells, ServiceAssumption
      <4>2. TellsReason(d, s, "replaced") /\ conn'[d].on = s
        BY <2>2, <3>1, <4>1 DEF TellsReason
      <4>3. conn'[c].on = s /\ conn'[c].pc \in {"stream", "gone"}
        <5>1. conn'[c].on = conn[c].on
          BY <1>0, <2>1, <2>10, AttachTells, AttachedOn
        <5>2. conn'[c].pc \in {"stream", "gone"}
          BY <2>1, AttachedOn
        <5> QED BY <2>10, <5>1, <5>2
      <4>4. CameToo(c, d)'
        BY <4>1, <4>2, <4>3 DEF CameToo
      <4> QED BY <4>4 DEF TrueWord
    <3> QED BY <3>1 DEF Reason
  <2>4. d # None
    BY ServiceAssumption
  <2>5. Spawned(s)'
    BY <1>2, <2>2
  <2> HIDE DEF a
  <2>6. CASE d = c
    BY <2>2, <2>5, <2>6
  <2>7. CASE d = a
    BY <2>2, <2>3, <2>4, <2>5, <2>7
  <2> QED BY <1>3, <2>2, <2>6, <2>7
<1>6. CASE \/ \E c \in Client : StreamEnds(c)
           \/ \E s \in Session : FrameFails(s)
  BY <1>6, LetGoTells
<1>7. ASSUME NEW s \in Session, NEW who \in {"pump", "close"}, Tell(s, who),
             who = "pump" => session[s].process = "reaped",
             who = "close" => closing.called,
             Spawned(s), UNCHANGED kill
      PROVE  \/ TellsNothing(d)
             \/ \E t \in Session : Spawned(t)' /\ TellsAttached(d, t)
             \/ \E t \in Session, word \in Reason :
                  Spawned(t)' /\ TellsReason(d, t, word) /\ TrueWord(word, t, d)'
  <2> DEFINE a == session[s].attached
  <2>5. FinishReason(s, who) \in Reason
    BY ReasonIsReason
  <2>6. PICK word \in Reason : word = FinishReason(s, who)
    BY <2>5
  <2>1. /\ a # None => TellsReason(a, s, word)
        /\ \A e \in Client : e # a => conn'[e] = conn[e]
        /\ TrueWord(word, s, d)'
    BY <1>7, <2>6, FinishTells
  <2>2. d # None
    BY ServiceAssumption
  <2>3. Spawned(s)'
    BY <1>2, <1>7
  <2> HIDE DEF a
  <2>4. CASE d = a
    BY <2>1, <2>2, <2>3, <2>4
  <2> QED BY <1>3, <2>1, <2>4
<1>8. CASE \E s \in Session : PumpFinish(s)
  <2>1. PICK s \in Session : PumpFinish(s)
    BY <1>8
  <2>2. session[s].process = "reaped" /\ Spawned(s) /\ UNCHANGED kill
    BY <2>1 DEF PumpFinish, EndInv, PumpWaited, NeverStarted
  <2> QED BY <1>3, <1>7, <2>1, <2>2 DEF PumpFinish
<1>9. CASE \E s \in Session : CloseFinishes(s)
  <2>1. PICK s \in Session : CloseFinishes(s)
    BY <1>9
  <2>2. closing.called /\ Spawned(s) /\ UNCHANGED kill
    BY <2>1 DEF CloseFinishes, EndInv, CloseCalled
  <2> QED BY <1>3, <1>7, <2>1, <2>2 DEF CloseFinishes
<1>10. CASE UNCHANGED conn
  BY <1>3, <1>10
<1> QED BY <1>4, <1>5, <1>6, <1>8, <1>9, <1>10
        DEF Next, vars, Exit, LetGo, Pumping, PumpReadFails, PumpWait, Finishing, CloseMaster,
            FinishWait, Remove, Killing, KillMark, KillSignal, KillGrace, KillLookup, CloseStarts

-----------------------------------------------------------------------------
(* The reasons are true *)

\* A session that has a client afterwards has a new one, which was told that it is
\* attached, or the one it had, which was told nothing.
LEMMA AudienceTold ==
  ASSUME IInv, EndInv, [Next]_vars, NEW t \in Session, session'[t].attached # None
  PROVE  conn'[session'[t].attached].told = <<"attached">>
<1> DEFINE d == session[t].attached
<1>0. /\ session \in [Session -> SessionState] /\ conn \in [Client -> ConnState]
      /\ d \in Client \cup {None}
      /\ d # None => conn[d].told = <<"attached">> /\ conn[d].pc = "stream" /\ conn[d].on = t
  BY DEF IInv, TypeOK, SessionState, EndInv, AttachedTold, AttachedSound
<1>1. CASE session'[t].attached = d /\ conn'[d].told = conn[d].told
  BY <1>0, <1>1
<1>2. CASE UNCHANGED <<session, conn>>
  BY <1>1, <1>2
<1>3. CASE \E c \in Client : Attach(c) \/ AttachFails(c)
  <2>1. PICK c \in Client : Attach(c) \/ AttachFails(c)
    BY <1>3
  <2>2. /\ conn[c].on \in Session /\ conn[c].pc = "found"
        /\ session[conn[c].on].attached # None =>
             conn[session[conn[c].on].attached].on = conn[c].on
        /\ \A e \in Client : e # session[conn[c].on].attached /\ e # c => conn'[e] = conn[e]
        /\ Attach(c) => conn'[c].told = <<"attached">>
    BY <2>1, AttachTells DEF TellsAttached, TellsReason
  <2>3. session' = [session EXCEPT ![conn[c].on].attached = IF Attach(c) THEN c ELSE None]
    BY <2>1, <2>2 DEF Attach, AttachFails
  <2>4. CASE t = conn[c].on
    BY <1>0, <2>2, <2>3, <2>4 DEF SessionState
  <2>5. CASE t # conn[c].on
    <3>1. session'[t] = session[t] /\ d \in Client
      BY <1>0, <2>3, <2>5
    <3>2. d # c /\ d # session[conn[c].on].attached
      BY <1>0, <2>2, <2>5, <3>1, ServiceAssumption
    <3> QED BY <1>1, <2>2, <3>1, <3>2
  <2> QED BY <2>4, <2>5
<1>4. CASE (\E c \in Client : StreamEnds(c)) \/ (\E s \in Session : FrameFails(s))
  <2>1. PICK s \in Session : \E x \in {None, session[s].attached} :
             session' = [session EXCEPT ![s].attached = x]
    BY <1>4 DEF StreamEnds, FrameFails, IInv, Bound
  <2>2. session'[t].attached = d
    BY <1>0, <2>1 DEF SessionState
  <2>3. d \in Client
    BY <1>0, <2>2
  <2> QED BY <1>1, <1>4, <2>2, <2>3, LetGoTells DEF TellsNothing
<1>5. CASE \E s \in Session, word \in Reason :
             /\ conn' = Let(s, word)
             /\ \E ss : session' = [session EXCEPT ![s] = ss] /\ ss.attached = None
  <2>1. PICK s \in Session, word \in Reason :
             /\ conn' = Let(s, word)
             /\ \E ss : session' = [session EXCEPT ![s] = ss] /\ ss.attached = None
    BY <1>5
  <2>2. t # s /\ session'[t] = session[t]
    BY <1>0, <2>1
  <2>3. /\ \A e \in Client : e # session[s].attached => conn'[e] = conn[e]
        /\ session[s].attached # None => conn[session[s].attached].on = s
    BY <2>1, LetTells
  <2> QED BY <1>0, <1>1, <2>2, <2>3
<1>6. CASE \E s \in Session : PumpFinish(s) \/ CloseFinishes(s)
  <2>1. PICK s \in Session : PumpFinish(s) \/ CloseFinishes(s)
    BY <1>6
  <2>2. ASSUME NEW who \in {"pump", "close"}, Tell(s, who)
        PROVE  conn'[session'[t].attached].told = <<"attached">>
    <3>1. FinishReason(s, who) \in Reason /\ conn' = Let(s, FinishReason(s, who))
      BY <2>2, ReasonIsReason DEF FinishReason, Tell
    <3>2. \E ss : session' = [session EXCEPT ![s] = ss] /\ ss.attached = None
      <4> DEFINE ss == [session[s] EXCEPT !.phase = "told", !.finisher = who, !.attached = None,
                                          !.pump = IF who = "pump" THEN "ended" ELSE @]
      <4>1. session[s] \in SessionState
        BY <1>0
      <4>2. session' = [session EXCEPT ![s] = ss]
        BY <1>0, <2>2 DEF Tell
      <4>3. ss.attached = None
        BY <4>1 DEF SessionState
      <4> QED BY <4>2, <4>3
    <3> QED BY <1>5, <3>1, <3>2
  <2>3. CASE session'[t].attached = d /\ UNCHANGED conn
    BY <1>1, <2>3
  <2> QED BY <1>0, <2>1, <2>2, <2>3 DEF PumpFinish, CloseFinishes, SessionState
<1>7. CASE \E c \in Client, n \in Name : HelloFinds(c, n) \/ HelloCreates(c, n) \/ HelloRefused(c, n)
  <2>1. PICK c \in Client, n \in Name : HelloFinds(c, n) \/ HelloCreates(c, n) \/ HelloRefused(c, n)
    BY <1>7
  <2>2. session'[t].attached = d
    <3>1. CASE UNCHANGED session
      BY <3>1
    <3>2. CASE \E s \in Session : session' = [session EXCEPT ![s] = Started(n)]
      BY <1>0, <3>2 DEF Started
    <3> QED BY <2>1, <3>1, <3>2 DEF HelloFinds, HelloCreates, HelloRefused
  <2>3. d # c
    BY <1>0, <2>1, <2>2, ServiceAssumption DEF HelloFinds, HelloCreates, HelloRefused
  <2>4. conn'[d] = conn[d]
    BY <1>0, <2>1, <2>2, <2>3 DEF HelloFinds, HelloCreates, HelloRefused, Found
  <2> QED BY <1>1, <2>2, <2>4
<1>8. CASE \E s \in Session : \/ Exit(s) \/ LetGo(s) \/ PumpReadFails(s) \/ PumpWait(s)
                              \/ Finishing(s)
  BY <1>0, <1>1, <1>8 DEF Exit, LetGo, PumpReadFails, PumpWait, Finishing, CloseMaster,
                          FinishWait, Remove, Signalled, SessionState
<1>9. CASE \E k \in Killer : Killing(k)
  <2>1. PICK k \in Killer : Killing(k)
    BY <1>9
  <2>2. kill[k].on \in Session /\ UNCHANGED conn
    BY <2>1 DEF IInv, Bound, Killing, KillMark, KillSignal, KillGrace
  <2>3. session'[t].attached = d
    BY <1>0, <2>1, <2>2 DEF Killing, KillMark, KillSignal, KillGrace, Signalled, SessionState
  <2> QED BY <1>1, <2>2, <2>3
<1> QED BY <1>2, <1>3, <1>4, <1>6, <1>7, <1>8, <1>9
        DEF Next, vars, Pumping, KillLookup, CloseStarts

LEMMA EndInvStep == IInv /\ EndInv /\ [Next]_vars => EndInv'
<1> SUFFICES ASSUME IInv, EndInv, [Next]_vars PROVE EndInv'
  OBVIOUS
<1>1. \A s \in Session : Spawned(s) => Onward(s) /\ Spawned(s)'
  BY SessionsGoOn DEF Onward, Spawned
<1>2. KillsFound'
  BY KillsGoOn
<1>3. CloseCalled'
  <2>1. \A s \in closing'.left : closing'.called /\ Spawned(s)
    BY CloseGoesOn
  <2>2. closing'.left \subseteq Session
    BY NextIInv DEF IInv, TypeOK
  <2> QED BY <1>1, <2>1, <2>2 DEF CloseCalled
<1>4. PumpWaited' /\ NeverStarted'
  <2> SUFFICES ASSUME NEW s \in Session
               PROVE  /\ session'[s].pump = "finish" => session'[s].process = "reaped"
                      /\ session'[s].name = None =>
                           session'[s].phase = "none" /\ session'[s].pump = "ended"
    BY DEF PumpWaited, NeverStarted, Spawned
  <2>1. CASE Spawned(s)
    BY <1>1, <2>1 DEF Onward, EndInv, PumpWaited, Spawned
  <2>2. CASE ~ Spawned(s)
    BY <2>2, UnspawnedGoOn DEF EndInv, PumpWaited, NeverStarted
  <2> QED BY <2>1, <2>2
<1>5. ASSUME NEW c \in Client PROVE ToldInOrder(c)'
  <2>1. CASE TellsNothing(c)
    <3>1. CASE conn[c].told = << >>
      BY <2>1, <3>1 DEF TellsNothing, ToldInOrder
    <3>2. CASE conn[c].told # << >>
      <4>1. PICK s \in Session : /\ conn[c].on = s /\ Spawned(s)
                                 /\ \/ conn[c].told = <<"attached">>
                                    \/ \E word \in Reason : /\ conn[c].told = <<"attached", word>>
                                                            /\ ~ conn[c].open
                                                            /\ TrueWord(word, s, c)
        BY <3>2 DEF EndInv, ToldInOrder
      <4>2. \A word \in Reason : TrueWord(word, s, c) => TrueWord(word, s, c)'
        BY <3>2, <4>1, TruthStays DEF EndInv, ToldInOrder
      <4>3. Spawned(s)' /\ conn'[c].on = s /\ conn'[c].pc \in {"stream", "gone"}
            /\ conn'[c].told = conn[c].told /\ (conn'[c].open => conn[c].open)
        BY <1>1, <2>1, <3>2, <4>1 DEF TellsNothing
      <4>4. conn[c].open \in BOOLEAN /\ conn'[c].open \in BOOLEAN
        BY NextIInv DEF IInv, TypeOK, ConnState
      <4> QED BY <4>1, <4>2, <4>3, <4>4 DEF ToldInOrder
    <3> QED BY <3>1, <3>2
  <2>2. CASE \E s \in Session : Spawned(s)' /\ TellsAttached(c, s)
    BY <2>2 DEF TellsAttached, ToldInOrder
  <2>3. CASE \E s \in Session, word \in Reason :
               Spawned(s)' /\ TellsReason(c, s, word) /\ TrueWord(word, s, c)'
    BY <2>3 DEF TellsReason, ToldInOrder
  <2> QED BY <2>1, <2>2, <2>3, StepTells
<1>6. AttachedTold'
  BY AudienceTold DEF AttachedTold
<1> QED BY <1>2, <1>3, <1>4, <1>5, <1>6 DEF EndInv

LEMMA EndInvTruthful == EndInv => TruthfulEnd
<1> SUFFICES ASSUME EndInv, NEW c \in Client, NEW i \in DOMAIN conn[c].told \ {1}
             PROVE  /\ i = Len(conn[c].told) /\ ~ conn[c].open
                    /\ conn[c].told[i] = "exited" => Over(conn[c].on, "exited")
                    /\ conn[c].told[i] = "replaced" =>
                         Over(conn[c].on, "replaced") \/ \E d \in Client : CameToo(d, c)
                    /\ conn[c].told[i] = "killed" =>
                         session[conn[c].on].killed /\ session[conn[c].on].finisher = "pump"
                    /\ conn[c].told[i] = "service_stopped" =>
                         closing.called /\ session[conn[c].on].finisher = "close"
  BY DEF TruthfulEnd, Over
<1>1. conn[c].told # << >> /\ conn[c].told # <<"attached">>
  OBVIOUS
<1>2. PICK word \in Reason : /\ conn[c].told = <<"attached", word>>
                             /\ ~ conn[c].open
                             /\ TrueWord(word, conn[c].on, c)
  BY <1>1 DEF EndInv, ToldInOrder
<1>3. i = 2 /\ Len(conn[c].told) = 2 /\ conn[c].told[2] = word
  BY <1>2
<1> QED BY <1>2, <1>3 DEF TrueWord

\* The strengthened invariant holds of every state.
THEOREM EndInvariance == Spec => [](IInv /\ EndInv)
BY InitIInv, NextIInv, InitEndInv, EndInvStep, PTL DEF Spec

\* The last code a client was given is true of its session: no client reads of
\* an exit of a session a KILL was accepted on, nor of a KILL nobody asked for, nor -1
\* but where another client came or the process died of a signal.
THEOREM WordsAreTrue == Spec => []TruthfulEnd
BY EndInvariance, EndInvTruthful, PTL

-----------------------------------------------------------------------------
(* The service implements its contract *)

\* A step that changes nothing the contract speaks of.
SeenSame ==
  /\ UNCHANGED registry
  /\ \A s \in Session : /\ Life(s)' = Life(s) /\ Done(s)' = Done(s)
                         /\ session'[s].attached = session[s].attached
  /\ \A c \in Client : conn'[c].told = conn[c].told

LEMMA SeenSameStutters == SeenSame => UNCHANGED Contract!vars
BY DEF SeenSame, Contract!vars, LastWord

LEMMA SameCardinality ==
  ASSUME NEW S
  PROVE  Contract!Cardinality(S) = Cardinality(S)
BY DEF Contract!Cardinality, Cardinality

LEMMA RefinesInit == Init => Contract!Init
<1> SUFFICES ASSUME Init PROVE Contract!Init
  OBVIOUS
<1>1. \A s \in Session : /\ session[s].name = None /\ session[s].phase = "none"
                         /\ session[s].attached = None
  BY DEF Init, NotSpawned, Started
<1>2. \A c \in Client : conn[c].told = << >>
  BY DEF Init
<1> QED BY <1>1, <1>2 DEF Init, Contract!Init, Life, Done, Spawned, LastWord

LEMMA RefinesHello ==
  ASSUME IInv, EndInv, NEW c \in Client, NEW n \in Name,
         HelloFinds(c, n) \/ HelloCreates(c, n) \/ HelloRefused(c, n)
  PROVE  Contract!Next \/ UNCHANGED Contract!vars
<1>0. conn \in [Client -> ConnState] /\ session \in [Session -> SessionState]
  BY DEF IInv, TypeOK
<1>1. CASE HelloFinds(c, n) \/ HelloRefused(c, n)
  <2>1. UNCHANGED <<registry, session>> /\ \A d \in Client : conn'[d].told = conn[d].told
    <3>1. CASE HelloFinds(c, n)
      BY <1>0, <3>1 DEF HelloFinds, Found, ConnState
    <3>2. CASE HelloRefused(c, n)
      BY <1>0, <3>2 DEF HelloRefused, ConnState
    <3> QED BY <1>1, <3>1, <3>2
  <2>2. SeenSame
    BY <2>1 DEF SeenSame, Life, Done, Spawned
  <2> QED BY <2>2, SeenSameStutters
<1>2. CASE HelloCreates(c, n)
  <2>1. PICK s \in Session : /\ ~ Spawned(s)
                             /\ registry' = [registry EXCEPT ![n] = s]
                             /\ session' = [session EXCEPT ![s] = Started(n)]
                             /\ Found(c, s)
    BY <1>2 DEF HelloCreates
  <2>2. registry[n] = None /\ Cardinality(Registered) < MaxSessions
    BY <1>2 DEF HelloCreates
  <2>3. session[s].phase = "none" /\ session[s].attached = None
    BY <2>1, ServiceAssumption
       DEF EndInv, NeverStarted, IInv, AttachedSound, Bound, Spawned, TypeOK, SessionState
  <2>4. /\ Started(n).name # None /\ Started(n).phase = "none" /\ Started(n).attached = None
        /\ Started(n).process = "running"
    BY ServiceAssumption DEF Started
  <2>5. \A t \in Session : /\ Life(t)' = IF t = s THEN "alive" ELSE Life(t)
                           /\ Done(t)' = Done(t)
                           /\ session'[t].attached = session[t].attached
    BY <1>0, <2>1, <2>3, <2>4 DEF Life, Spawned, Done
  <2>6. \A d \in Client : conn'[d].told = conn[d].told
    BY <1>0, <2>1 DEF Found, ConnState
  <2>7. Life(s) = "unborn"
    BY <2>1 DEF Life
  <2>8. Contract!Cardinality({m \in Name : registry[m] # None}) < MaxSessions
    BY <2>2, SameCardinality DEF Registered
  <2>9. /\ [t \in Session |-> Life(t)]' = [[t \in Session |-> Life(t)] EXCEPT ![s] = "alive"]
        /\ UNCHANGED <<[t \in Session |-> Done(t)], [t \in Session |-> session[t].attached],
                       [d \in Client |-> LastWord(d)]>>
    BY <2>5, <2>6 DEF LastWord
  <2>10. Contract!Spawn(n, s)
    BY <2>1, <2>2, <2>7, <2>8, <2>9 DEF Contract!Spawn
  <2> QED BY <2>10 DEF Contract!Next
<1> QED BY <1>1, <1>2

\* The process, the pump while it reads and waits, and finish after its first section.
LEMMA RefinesSession ==
  ASSUME IInv, EndInv, NEW s \in Session,
         \/ Exit(s) \/ LetGo(s) \/ CloseMaster(s) \/ FinishWait(s)
         \/ PumpReadFails(s) \/ PumpWait(s)
  PROVE  Contract!Next \/ UNCHANGED Contract!vars
<1>0. session \in [Session -> SessionState] /\ session[s] \in SessionState
  BY DEF IInv, TypeOK
<1>1. /\ UNCHANGED <<registry, conn>>
      /\ \A t \in Session : t # s => session'[t] = session[t]
      /\ session'[s].attached = session[s].attached
      /\ session'[s].name = session[s].name
      /\ Done(s)' = Done(s)
      /\ session'[s].phase = "removed" <=> session[s].phase = "removed"
      /\ session[s].process = "reaped" => /\ session'[s].process = "reaped"
                                          /\ session'[s].code = session[s].code
  <2>1. CASE Exit(s)
    <3>1. PICK code \in ExitCode :
            session' = [session EXCEPT ![s].process = "exited", ![s].code = code]
      BY <2>1 DEF Exit
    <3> QED BY <1>0, <2>1, <3>1 DEF Exit, SessionState, Done
  <2>2. CASE LetGo(s) \/ CloseMaster(s) \/ FinishWait(s) \/ PumpReadFails(s) \/ PumpWait(s)
    BY <1>0, <2>2 DEF LetGo, CloseMaster, FinishWait, PumpReadFails, PumpWait, Signalled,
                      SessionState, Done
  <2> QED BY <2>1, <2>2
<1>2. \A t \in Session : /\ t # s => Life(t)' = Life(t)
                         /\ Done(t)' = Done(t)
                         /\ session'[t].attached = session[t].attached
  BY <1>1 DEF Life, Spawned, Done
<1>3. CASE Life(s)' = Life(s)
  BY <1>1, <1>2, <1>3, SeenSameStutters DEF SeenSame
<1>4. CASE Life(s)' # Life(s)
  <2>1. Life(s) = "alive" /\ Life(s)' \in {"dead", "slain"}
    BY <1>1, <1>4 DEF Life, Spawned
  <2>2. Contract!Dies(s)
    BY <1>1, <1>2, <2>1 DEF Contract!Dies, LastWord
  <2> QED BY <2>2 DEF Contract!Next
<1> QED BY <1>3, <1>4

\* A KILL, and Close when it is called, do nothing the contract speaks of.
LEMMA RefinesKilling ==
  ASSUME IInv, EndInv,
         \/ \E k \in Killer : Killing(k) \/ \E n \in Name : KillLookup(k, n)
         \/ CloseStarts
  PROVE  UNCHANGED Contract!vars
<1>0. session \in [Session -> SessionState]
  BY DEF IInv, TypeOK
<1>1. CASE UNCHANGED <<registry, session, conn>>
  <2>1. SeenSame
    BY <1>1 DEF SeenSame, Life, Done, Spawned
  <2> QED BY <2>1, SeenSameStutters
<1>2. ASSUME NEW k \in Killer, Killing(k) PROVE UNCHANGED Contract!vars
  <2>1. kill[k].on \in Session /\ UNCHANGED <<registry, conn>>
    BY <1>2 DEF IInv, Bound, Killing, KillMark, KillSignal, KillGrace
  <2>2. \A t \in Session : /\ session'[t].attached = session[t].attached
                           /\ session'[t].name = session[t].name
                           /\ session'[t].phase = session[t].phase
                           /\ session'[t].process = session[t].process
                           /\ session'[t].code = session[t].code
    <3>1. CASE KillMark(k)
      BY <1>0, <2>1, <3>1 DEF KillMark, SessionState
    <3>2. CASE KillSignal(k)
      BY <1>0, <2>1, <3>2 DEF KillSignal, Signalled, SessionState
    <3>3. CASE KillGrace(k)
      BY <1>0, <2>1, <3>3 DEF KillGrace, Signalled, SessionState
    <3> QED BY <1>2, <3>1, <3>2, <3>3 DEF Killing
  <2>3. SeenSame
    BY <2>1, <2>2 DEF SeenSame, Life, Done, Spawned
  <2> QED BY <2>3, SeenSameStutters
<1> QED BY <1>1, <1>2 DEF KillLookup, CloseStarts

\* What a client heard last, of what it was told.
LEMMA HeardLast ==
  ASSUME NEW d \in Client
  PROVE  /\ TellsNothing(d) => LastWord(d)' = LastWord(d)
         /\ \A s : TellsAttached(d, s) => LastWord(d)' = "attached"
         /\ \A s, word : TellsReason(d, s, word) => LastWord(d)' = word
<1>1. TellsNothing(d) => LastWord(d)' = LastWord(d)
  BY DEF TellsNothing, LastWord
<1>2. ASSUME NEW s, TellsAttached(d, s) PROVE LastWord(d)' = "attached"
  BY <1>2 DEF TellsAttached, LastWord
<1>3. ASSUME NEW s, NEW word, TellsReason(d, s, word) PROVE LastWord(d)' = word
  <2>1. conn'[d].told = <<"attached", word>>
    BY <1>3 DEF TellsReason
  <2>2. <<"attached", word>> # << >> /\ Len(<<"attached", word>>) = 2
        /\ <<"attached", word>>[2] = word
    OBVIOUS
  <2> QED BY <2>1, <2>2 DEF LastWord
<1> QED BY <1>1, <1>2, <1>3

\* Only the client of a session hears what is said in it.
LEMMA HearsReason ==
  ASSUME IInv, NEW s \in Session, NEW word,
         session[s].attached # None => TellsReason(session[s].attached, s, word),
         \A d \in Client : d # session[s].attached => conn'[d].told = conn[d].told
  PROVE  Contract!Hears(s, word)
<1> DEFINE a == session[s].attached
<1>1. a \in Client \cup {None}
  BY DEF IInv, TypeOK, SessionState
<1>2. CASE a = None
  <2>1. \A d \in Client : conn'[d].told = conn[d].told
    BY <1>2, ServiceAssumption
  <2> QED BY <1>2, <2>1 DEF Contract!Hears, LastWord
<1>3. CASE a # None
  <2>1. PICK d \in Client : d = a
    BY <1>1, <1>3
  <2>2. LastWord(d)' = word
    BY <1>3, <2>1, HeardLast
  <2>3. \A e \in Client : e # d => LastWord(e)' = LastWord(e)
    BY <2>1 DEF LastWord
  <2>4. [e \in Client |-> LastWord(e)]' = [[e \in Client |-> LastWord(e)] EXCEPT ![d] = word]
    BY <2>2, <2>3
  <2> QED BY <1>3, <2>1, <2>4 DEF Contract!Hears
<1> QED BY <1>1, <1>2, <1>3

\* attachLocked: a client joins, in the place of another, or parts with it.
LEMMA RefinesAttach ==
  ASSUME IInv, EndInv, NEW c \in Client, Attach(c) \/ AttachFails(c)
  PROVE  Contract!Next \/ UNCHANGED Contract!vars
<1>0. session \in [Session -> SessionState] /\ conn[c].on \in Session
  BY AttachTells DEF IInv, TypeOK
<1>1. PICK s \in Session : s = conn[c].on
  BY <1>0
<1> DEFINE a == session[s].attached
<1>2. /\ Spawned(s) /\ a # c /\ conn[c].pc = "found"
      /\ a # None => a \in Client /\ TellsReason(a, s, "replaced")
      /\ \A d \in Client : d # a /\ d # c => conn'[d] = conn[d]
      /\ Attach(c) => TellsAttached(c, s)
      /\ AttachFails(c) => TellsNothing(c)
  BY <1>1, AttachTells
<1>3. \E x : session' = [session EXCEPT ![s].attached = x]
  BY <1>1 DEF Attach, AttachFails
<1>4. \A t \in Session : /\ Life(t)' = Life(t) /\ Done(t)' = Done(t)
                         /\ t # s => session'[t] = session[t]
  BY <1>0, <1>3 DEF Life, Done, Spawned, SessionState
<1>5. UNCHANGED registry
  BY DEF Attach, AttachFails
<1>6. CASE Attach(c)
  <2>1. session'[s].attached = c
    BY <1>0, <1>1, <1>6 DEF Attach, SessionState
  <2>2. [t \in Session |-> session[t].attached]'
          = [[t \in Session |-> session[t].attached] EXCEPT ![s] = c]
    BY <1>4, <2>1
  <2>3. LastWord(c) = None
    BY <1>2, NotToldYet DEF LastWord
  <2>4. LastWord(c)' = "attached"
    BY <1>2, <1>6, HeardLast
  <2>5. ASSUME NEW d \in Client
        PROVE  LastWord(d)' = IF d = c THEN "attached"
                              ELSE IF d = a THEN "replaced" ELSE LastWord(d)
    <3>1. CASE d = a
      <4>1. TellsReason(d, s, "replaced")
        BY <1>2, <3>1, ServiceAssumption
      <4> QED BY <1>2, <3>1, <4>1, HeardLast
    <3>2. CASE d # a /\ d # c
      <4>1. conn'[d] = conn[d]
        BY <1>2, <3>2
      <4> QED BY <3>2, <4>1 DEF LastWord
    <3> QED BY <2>4, <3>1, <3>2
  <2>6. Life(s) # "unborn"
    BY <1>2 DEF Life
  <2>7. Contract!Joins(c, s)
    BY <1>4, <1>5, <2>2, <2>3, <2>5, <2>6 DEF Contract!Joins
  <2> QED BY <2>7 DEF Contract!Next
<1>7. CASE AttachFails(c)
  <2>1. session'[s].attached = None
    BY <1>0, <1>1, <1>7 DEF AttachFails, SessionState
  <2>2. \A d \in Client : d # a => conn'[d].told = conn[d].told
    BY <1>2, <1>7 DEF TellsNothing
  <2>3. CASE a = None
    <3>1. \A d \in Client : conn'[d].told = conn[d].told
      BY <2>2, <2>3, ServiceAssumption
    <3>2. SeenSame
      BY <1>4, <1>5, <2>1, <2>3, <3>1 DEF SeenSame
    <3> QED BY <3>2, SeenSameStutters
  <2>4. CASE a # None
    <3>1. Contract!Hears(s, "replaced")
      BY <1>2, <2>2, HearsReason
    <3>2. [t \in Session |-> session[t].attached]'
            = [[t \in Session |-> session[t].attached] EXCEPT ![s] = None]
      BY <1>4, <2>1
    <3>3. Contract!Parts(s)
      BY <1>4, <1>5, <2>4, <3>1, <3>2 DEF Contract!Parts
    <3> QED BY <3>3 DEF Contract!Next
  <2> QED BY <2>3, <2>4
<1> QED BY <1>6, <1>7

\* A stream that ends and a frame that fails let go of the client.
LEMMA RefinesLetGo ==
  ASSUME IInv, EndInv,
         \/ \E c \in Client : StreamEnds(c)
         \/ \E s \in Session : FrameFails(s)
  PROVE  Contract!Next \/ UNCHANGED Contract!vars
<1>0. session \in [Session -> SessionState]
  BY DEF IInv, TypeOK
<1>1. \A d \in Client : conn'[d].told = conn[d].told
  BY LetGoTells DEF TellsNothing
<1>2. UNCHANGED registry
  BY DEF StreamEnds, FrameFails
<1>3. PICK s \in Session : \E x \in {None, session[s].attached} :
             session' = [session EXCEPT ![s].attached = x]
  BY DEF StreamEnds, FrameFails, IInv, Bound
<1>4. \A t \in Session : /\ Life(t)' = Life(t) /\ Done(t)' = Done(t)
                         /\ t # s => session'[t] = session[t]
  BY <1>0, <1>3 DEF Life, Done, Spawned, SessionState
<1>5. session'[s].attached \in {None, session[s].attached}
  BY <1>0, <1>3 DEF SessionState
<1>6. CASE session'[s].attached = session[s].attached
  <2>1. SeenSame
    BY <1>1, <1>2, <1>4, <1>6 DEF SeenSame
  <2> QED BY <2>1, SeenSameStutters
<1>7. CASE session[s].attached # None /\ session'[s].attached = None
  <2>1. [t \in Session |-> session[t].attached]'
          = [[t \in Session |-> session[t].attached] EXCEPT ![s] = None]
    BY <1>4, <1>7
  <2>2. Contract!Parts(s)
    BY <1>1, <1>2, <1>4, <1>7, <2>1 DEF Contract!Parts, LastWord
  <2> QED BY <2>2 DEF Contract!Next
<1> QED BY <1>5, <1>6, <1>7

\* The first section of finish ends the session; later ones find it ended.
LEMMA RefinesFinish ==
  ASSUME IInv, EndInv, [Next]_vars, NEW s \in Session, PumpFinish(s) \/ CloseFinishes(s)
  PROVE  Contract!Next \/ UNCHANGED Contract!vars
<1>0. session \in [Session -> SessionState] /\ session[s] \in SessionState
      /\ UNCHANGED <<registry, kill>>
  BY DEF IInv, TypeOK, PumpFinish, CloseFinishes
<1>1. ASSUME NEW who \in {"pump", "close"}, Tell(s, who), Spawned(s),
             who = "pump" => session[s].process = "reaped",
             who = "close" => closing.called
      PROVE  Contract!Next
  <2>1. PICK word \in Reason : word = FinishReason(s, who)
    BY ReasonIsReason
  <2>2. /\ session[s].attached # None => TellsReason(session[s].attached, s, word)
        /\ \A d \in Client : d # session[s].attached => conn'[d] = conn[d]
    BY <1>0, <1>1, <2>1, FinishTells
  <2>3. Contract!Hears(s, word)
    BY <2>2, HearsReason
  <2>4. /\ session[s].phase = "none" /\ session'[s].phase = "told"
        /\ session'[s].attached = None /\ session'[s].name = session[s].name
        /\ session'[s].process = session[s].process /\ session'[s].code = session[s].code
        /\ \A t \in Session : t # s => session'[t] = session[t]
    BY <1>0, <1>1 DEF Tell, Done, SessionState
  <2>5. \A t \in Session : /\ Life(t)' = Life(t)
                           /\ Done(t)' = IF t = s THEN TRUE ELSE Done(t)
    BY <2>4 DEF Life, Done, Spawned
  <2>6. [t \in Session |-> session[t].attached]'
          = [[t \in Session |-> session[t].attached] EXCEPT ![s] = None]
    BY <2>4
  <2>7. [t \in Session |-> Done(t)]' = [[t \in Session |-> Done(t)] EXCEPT ![s] = TRUE]
    BY <2>5
  <2>8. /\ word \in Contract!Ending
        /\ word = "exited" => Life(s) = "dead"
        /\ word = "replaced" => Life(s) = "slain"
    BY <1>0, <1>1, <2>1, <2>4 DEF FinishReason, Contract!Ending, Reason, Life, SessionState, ExitCode
  <2>9. Life(s) \in {"alive", "dead", "slain"} /\ ~ Done(s)
    BY <1>1, <2>4 DEF Life, Done
  <2>10. Contract!Ends(s)
    BY <1>0, <2>3, <2>5, <2>6, <2>7, <2>8, <2>9 DEF Contract!Ends
  <2> QED BY <2>10 DEF Contract!Next
<1>2. CASE UNCHANGED conn /\ Done(s)
  <2>1. \A t \in Session : /\ session'[t].attached = session[t].attached
                           /\ session'[t].name = session[t].name
                           /\ session'[t].phase = session[t].phase
                           /\ session'[t].process = session[t].process
                           /\ session'[t].code = session[t].code
    BY <1>0, <1>2 DEF PumpFinish, CloseFinishes, Tell, Done, SessionState
  <2>2. SeenSame
    BY <1>0, <1>2, <2>1 DEF SeenSame, Life, Done, Spawned
  <2> QED BY <2>2, SeenSameStutters
<1>3. CASE PumpFinish(s)
  <2>1. session[s].process = "reaped" /\ Spawned(s)
    BY <1>3 DEF PumpFinish, EndInv, PumpWaited, NeverStarted
  <2> QED BY <1>1, <1>2, <1>3, <2>1 DEF PumpFinish
<1>4. CASE CloseFinishes(s)
  <2>1. closing.called /\ Spawned(s)
    BY <1>4 DEF CloseFinishes, EndInv, CloseCalled
  <2> QED BY <1>1, <1>2, <1>4, <2>1 DEF CloseFinishes
<1> QED BY <1>3, <1>4

\* A session that is reclaimed gives its name back.
LEMMA RefinesRemove ==
  ASSUME IInv, EndInv, NEW s \in Session, Remove(s)
  PROVE  Contract!Next
<1>0. session \in [Session -> SessionState] /\ session[s] \in SessionState
      /\ registry \in [Name -> Session \cup {None}] /\ UNCHANGED conn
  BY DEF IInv, TypeOK, Remove
<1>1. /\ Spawned(s) /\ session[s].process = "reaped" /\ session[s].phase = "reclaimed"
      /\ session' = [session EXCEPT ![s].phase = "removed"]
  BY DEF Remove, IInv, WaitedFirst, EndInv, NeverStarted
<1>2. PICK n \in Name : n = session[s].name
  BY <1>0, <1>1 DEF SessionState, Spawned
<1>3. registry[n] = s /\ s # None
  BY <1>1, <1>2, ServiceAssumption DEF IInv, RegisteredUntilReclaimed
<1>4. registry' = [registry EXCEPT ![n] = None]
  BY <1>0, <1>2, <1>3 DEF Remove
<1>5. /\ session'[s].phase = "removed" /\ session'[s].name = session[s].name
      /\ session'[s].attached = session[s].attached
      /\ \A t \in Session : t # s => session'[t] = session[t]
  BY <1>0, <1>1 DEF SessionState
<1>6. \A t \in Session : /\ Life(t)' = IF t = s THEN "gone" ELSE Life(t)
                         /\ Done(t)' = Done(t)
                         /\ session'[t].attached = session[t].attached
  BY <1>1, <1>5 DEF Life, Done, Spawned
<1>7. [t \in Session |-> Life(t)]' = [[t \in Session |-> Life(t)] EXCEPT ![s] = "gone"]
  BY <1>6
<1>8. Life(s) \in {"dead", "slain"} /\ Done(s)
  BY <1>1 DEF Life, Done
<1>9. Contract!Reclaims(n)
  BY <1>0, <1>3, <1>4, <1>6, <1>7, <1>8 DEF Contract!Reclaims, LastWord
<1> QED BY <1>9 DEF Contract!Next

\* Every step of the service is a step of the contract, or none that it speaks of.
LEMMA RefinesNext ==
  IInv /\ EndInv /\ [Next]_vars => [Contract!Next]_Contract!vars
<1> SUFFICES ASSUME IInv, EndInv, [Next]_vars
             PROVE  Contract!Next \/ UNCHANGED Contract!vars
  OBVIOUS
<1>1. CASE UNCHANGED vars
  <2>1. SeenSame
    BY <1>1 DEF vars, SeenSame, Life, Done, Spawned
  <2> QED BY <2>1, SeenSameStutters
<1>2. ASSUME NEW c \in Client,
             \/ \E n \in Name : HelloFinds(c, n) \/ HelloCreates(c, n) \/ HelloRefused(c, n)
             \/ Attach(c) \/ AttachFails(c) \/ StreamEnds(c)
      PROVE  Contract!Next \/ UNCHANGED Contract!vars
  BY <1>2, RefinesHello, RefinesAttach, RefinesLetGo
<1>3. ASSUME NEW s \in Session,
             FrameFails(s) \/ Exit(s) \/ LetGo(s) \/ Pumping(s) \/ Finishing(s)
             \/ CloseFinishes(s)
      PROVE  Contract!Next \/ UNCHANGED Contract!vars
  BY <1>3, RefinesLetGo, RefinesSession, RefinesFinish, RefinesRemove DEF Pumping, Finishing
<1>4. CASE \/ \E k \in Killer : Killing(k) \/ \E n \in Name : KillLookup(k, n)
           \/ CloseStarts
  BY <1>4, RefinesKilling
<1> QED BY <1>1, <1>2, <1>3, <1>4 DEF Next

\* Whatever the pump, a KILL, Close and the connections do to each other, for any
\* number of each: every critical section is one step of the contract or none.
THEOREM Refinement == Spec => ServesNames
BY RefinesInit, RefinesNext, EndInvariance, PTL DEF Spec, ServesNames, Contract!Spec
====
