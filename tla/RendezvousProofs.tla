---- MODULE RendezvousProofs ----
(***************************************************************************)
(* What holds of the rendezvous for every set of clients, every size of    *)
(* the index of unregistered peers and every number of restarts.           *)
(***************************************************************************)
EXTENDS Rendezvous, SequenceTheorems, TLAPS

-----------------------------------------------------------------------------
(* The index *)

\* What is left of an index without its oldest entries is an index.
LEMMA FreshIsIndex ==
  ASSUME NEW index \in Seq(Client), NEW n \in 0 .. Len(index)
  PROVE  /\ SubSeq(index, n + 1, Len(index)) \in Seq(Client)
         /\ Len(SubSeq(index, n + 1, Len(index))) \in Nat
BY SubSeqProperties, LenProperties

\* Taking a key out of an index does not make it longer.
LEMMA WithoutIsIndex ==
  ASSUME NEW index \in Seq(Client), NEW k \in Client
  PROVE  /\ Without(index, k) \in Seq(Client)
         /\ Len(Without(index, k)) <= Len(index)
<1>1. CASE \E i \in DOMAIN index : index[i] = k
  <2> DEFINE i == CHOOSE j \in DOMAIN index : index[j] = k
             front == SubSeq(index, 1, i - 1)
             back  == SubSeq(index, i + 1, Len(index))
  <2>1. i \in 1 .. Len(index) /\ Len(index) \in Nat
    BY <1>1, LenProperties
  <2>2. Without(index, k) = front \o back
    BY <1>1 DEF Without, RemoveAt
  <2> HIDE DEF i
  <2>3. front \in Seq(Client) /\ Len(front) = i - 1
    BY <2>1, SubSeqProperties
  <2>4. back \in Seq(Client) /\ Len(back) = Len(index) - i
    BY <2>1, SubSeqProperties
  <2> HIDE DEF front, back
  <2>5. front \o back \in Seq(Client) /\ Len(front \o back) = Len(front) + Len(back)
    BY <2>3, <2>4, ConcatProperties
  <2> QED BY <2>1, <2>2, <2>3, <2>4, <2>5
<1>2. CASE ~ \E i \in DOMAIN index : index[i] = k
  BY <1>2, LenProperties DEF Without
<1> QED BY <1>1, <1>2

\* Noting a key leaves an index within its limit within it.
LEMMA NotedIsBounded ==
  ASSUME NEW index \in Seq(Client), NEW n \in 0 .. Len(index), NEW k \in Client,
         Len(index) <= LazyMax
  PROVE  Noted(index, n, k) \in Seq(Client) /\ Len(Noted(index, n, k)) <= LazyMax
<1> DEFINE fresh == SubSeq(index, n + 1, Len(index))
           kept  == IF Len(fresh) >= LazyMax THEN Tail(fresh) ELSE fresh
<1>1. fresh \in Seq(Client) /\ Len(fresh) \in Nat /\ Len(fresh) <= LazyMax
  BY SubSeqProperties, LenProperties, RendezvousAssumption
<1>2. Noted(index, n, k) = Append(Without(kept, k), k)
  BY DEF Noted
<1> HIDE DEF fresh
<1>3. kept \in Seq(Client) /\ Len(kept) \in Nat /\ Len(kept) < LazyMax
  <2>1. CASE Len(fresh) >= LazyMax
    <3>1. fresh # << >>
      BY <1>1, <2>1, RendezvousAssumption
    <3>2. Tail(fresh) \in Seq(Client) /\ Len(Tail(fresh)) = Len(fresh) - 1
      BY <1>1, <3>1, HeadTailProperties
    <3> QED BY <1>1, <2>1, <3>2, RendezvousAssumption
  <2>2. CASE ~ (Len(fresh) >= LazyMax)
    BY <1>1, <2>2, RendezvousAssumption
  <2> QED BY <2>1, <2>2
<1> HIDE DEF kept
<1>4. /\ Without(kept, k) \in Seq(Client) /\ Len(Without(kept, k)) \in Nat
      /\ Len(Without(kept, k)) <= Len(kept)
  BY <1>3, WithoutIsIndex, LenProperties
<1>5. /\ Append(Without(kept, k), k) \in Seq(Client)
      /\ Len(Append(Without(kept, k), k)) = Len(Without(kept, k)) + 1
  BY <1>4, AppendProperties
<1> QED BY <1>2, <1>3, <1>4, <1>5, RendezvousAssumption

-----------------------------------------------------------------------------
(* The inductive invariant *)

\* Nothing that a server with a list has answered, or will, is for a client that
\* was never put on it.
OutsidersUnheard ==
  restricted =>
    /\ allowed # {}
    /\ \A c \in Client \ allowed : ~ node[c].wait /\ c \notin acks

IInv ==
  /\ TypeOK
  /\ AckMeansRegistered
  /\ ReadyMeansAdmitted
  /\ OutsidersUnheard
  /\ OutsidersStayOut
  /\ LazyBounded

LEMMA InitIInv == Init => IInv
<1> SUFFICES ASSUME Init PROVE IInv
  OBVIOUS
<1>1. TypeOK
  <2>1. lazy \in Seq(Client)
    BY EmptySeq DEF Init
  <2>2. New \in NodeState
    BY DEF New, NodeState
  <2> QED BY <2>1, <2>2 DEF Init, TypeOK
<1>2. Len(lazy) = 0
  BY EmptySeq DEF Init
<1>3. LazyBounded
  BY <1>2, RendezvousAssumption DEF LazyBounded
<1>4. \A c \in Client : ~ node[c].wait /\ ~ node[c].up
  BY DEF Init, New
<1> QED
  BY <1>1, <1>3, <1>4
     DEF Init, IInv, AckMeansRegistered, ReadyMeansAdmitted, OutsidersUnheard,
         OutsidersStayOut

\* A step of one client that is not told anything new, and takes itself for
\* ready only where it is.
LEMMA SetIInv ==
  ASSUME IInv, NEW c \in Client, NEW new \in NodeState, Set(c, new),
         new.wait => node[c].wait,
         new.up => \/ node[c].up
                   \/ /\ server.run = 1 => c \in clients \cup session
                      /\ restricted => c \in allowed
  PROVE  IInv'
<1> USE DEF IInv, Set, serverVars
<1>1. node \in [Client -> NodeState] /\ node' = [node EXCEPT ![c] = new]
  BY DEF TypeOK
<1>2. /\ \A d \in Client : d # c => node'[d] = node[d]
      /\ node'[c] = new
      /\ node' \in [Client -> NodeState]
  BY <1>1
<1>3. TypeOK'
  BY <1>2 DEF TypeOK
<1>4. AckMeansRegistered' /\ OutsidersUnheard'
  BY <1>2 DEF AckMeansRegistered, OutsidersUnheard
<1>5. ReadyMeansAdmitted' /\ OutsidersStayOut'
  BY <1>2 DEF ReadyMeansAdmitted, OutsidersStayOut
<1> QED BY <1>3, <1>4, <1>5 DEF LazyBounded

\* The steps of a client that are of that kind.
LEMMA ClientIInv ==
  ASSUME IInv, NEW c \in Client,
         \/ Call(c) \/ CallSucceeds(c) \/ CallTimesOut(c)
         \/ Background(c) \/ BackgroundTimesOut(c)
         \/ Close(c) \/ Replace(c)
  PROVE  IInv'
<1>1. node[c] \in NodeState
  BY DEF IInv, TypeOK
<1>2. node[c].wait => /\ server.run = 1 => c \in clients \cup session
                      /\ restricted => c \in allowed
  BY DEF IInv, AckMeansRegistered, OutsidersUnheard
<1>3. c \in session /\ restricted => c \in allowed
  BY DEF IInv, OutsidersStayOut
<1>4. CASE Call(c)
  <2> DEFINE pinging == [node[c] EXCEPT !.pc = "open", !.call = "ping"]
             racing  == [node[c] EXCEPT !.pc = "open", !.call = "race",
                           !.bg = IF ~ node[c].meowed /\ @ = "none" THEN "ping" ELSE @]
  <2>1. /\ pinging \in NodeState /\ pinging.wait = node[c].wait /\ pinging.up = node[c].up
        /\ racing \in NodeState /\ racing.wait = node[c].wait /\ racing.up = node[c].up
    BY <1>1 DEF NodeState
  <2>2. Set(c, pinging) \/ Set(c, racing)
    BY <1>4 DEF Call
  <2> HIDE DEF pinging, racing
  <2> QED BY <2>1, <2>2, SetIInv
<1>5. CASE CallSucceeds(c)
  <2> DEFINE new == [node[c] EXCEPT !.call = "none", !.up = TRUE]
  <2>1. new \in NodeState /\ new.wait = node[c].wait
    BY <1>1 DEF NodeState
  <2>2. Set(c, new) /\ (node[c].wait \/ c \in session)
    BY <1>5 DEF CallSucceeds
  <2> HIDE DEF new
  <2> QED BY <1>2, <1>3, <2>1, <2>2, SetIInv
<1>6. CASE BackgroundSucceeds(c)
  <2> DEFINE new == [node[c] EXCEPT !.bg = "none", !.meowed = TRUE, !.up = TRUE]
  <2>1. new \in NodeState /\ new.wait = node[c].wait
    BY <1>1 DEF NodeState
  <2>2. Set(c, new) /\ node[c].wait
    BY <1>6 DEF BackgroundSucceeds
  <2> HIDE DEF new
  <2> QED BY <1>2, <2>1, <2>2, SetIInv
<1>7. CASE CallTimesOut(c)
  <2> DEFINE new == [node[c] EXCEPT !.call = "none"]
  <2>1. new \in NodeState /\ new.wait = node[c].wait /\ new.up = node[c].up
    BY <1>1 DEF NodeState
  <2>2. Set(c, new)
    BY <1>7 DEF CallTimesOut
  <2> HIDE DEF new
  <2> QED BY <2>1, <2>2, SetIInv
<1>8. CASE BackgroundTimesOut(c) \/ BackgroundRetries(c) \/ BackgroundStops(c)
  <2> DEFINE new(bg) == [node[c] EXCEPT !.bg = bg]
  <2>1. \A bg \in {"none", "ping", "sleep"} :
          new(bg) \in NodeState /\ new(bg).wait = node[c].wait /\ new(bg).up = node[c].up
    BY <1>1 DEF NodeState
  <2>2. \E bg \in {"none", "ping", "sleep"} : Set(c, new(bg))
    BY <1>8 DEF BackgroundTimesOut, BackgroundRetries, BackgroundStops
  <2> HIDE DEF new
  <2> QED BY <2>1, <2>2, SetIInv
<1>9. CASE Close(c)
  <2> DEFINE new == [node[c] EXCEPT !.pc = "closed"]
  <2>1. new \in NodeState /\ new.wait = node[c].wait /\ new.up = node[c].up
    BY <1>1 DEF NodeState
  <2>2. Set(c, new)
    BY <1>9 DEF Close
  <2> HIDE DEF new
  <2> QED BY <2>1, <2>2, SetIInv
<1>10. CASE Replace(c)
  <2>1. New \in NodeState /\ ~ New.wait /\ ~ New.up
    BY DEF New, NodeState
  <2>2. Set(c, New)
    BY <1>10 DEF Replace
  <2> QED BY <2>1, <2>2, SetIInv
<1> QED BY <1>4, <1>5, <1>6, <1>7, <1>8, <1>9, <1>10 DEF Background

\* The steps of the relay: packets come in, are sent again and are lost.
LEMMA RelayIInv ==
  ASSUME IInv, NEW c \in Client, SendPing(c) \/ OnMeowed(c) \/ Lose(c)
  PROVE  IInv'
<1> USE DEF IInv, serverVars
<1>1. /\ node \in [Client -> NodeState]
      /\ pings' \subseteq Client /\ acks' \subseteq acks
      /\ UNCHANGED serverVars
  BY DEF TypeOK, SendPing, OnMeowed, Lose
<1>2. /\ node' \in [Client -> NodeState]
      /\ \A d \in Client : /\ node'[d].up = node[d].up
                           /\ node'[d].wait => node[d].wait \/ d \in acks
  <2>1. CASE SendPing(c) \/ Lose(c)
    BY <1>1, <2>1 DEF SendPing, Lose
  <2>2. CASE OnMeowed(c)
    <3>1. node[c] \in NodeState /\ [node[c] EXCEPT !.wait = TRUE] \in NodeState
      BY <1>1 DEF NodeState
    <3>2. [node[c] EXCEPT !.wait = TRUE].up = node[c].up
      BY <3>1 DEF NodeState
    <3>3. node' = [node EXCEPT ![c] = [node[c] EXCEPT !.wait = TRUE]] /\ c \in acks
      BY <2>2 DEF OnMeowed
    <3>4. \A d \in Client : d # c => node'[d] = node[d]
      BY <1>1, <3>3
    <3>5. node'[c] = [node[c] EXCEPT !.wait = TRUE] /\ node' \in [Client -> NodeState]
      BY <1>1, <3>1, <3>3
    <3> QED BY <3>2, <3>3, <3>4, <3>5
  <2> QED BY <2>1, <2>2
<1>3. TypeOK'
  BY <1>1, <1>2 DEF TypeOK
<1>4. AckMeansRegistered' /\ OutsidersUnheard'
  BY <1>1, <1>2 DEF AckMeansRegistered, OutsidersUnheard
<1>5. ReadyMeansAdmitted' /\ OutsidersStayOut' /\ LazyBounded'
  BY <1>1, <1>2 DEF ReadyMeansAdmitted, OutsidersStayOut, LazyBounded
<1> QED BY <1>3, <1>4, <1>5

\* The steps of the server as a whole.
LEMMA ServerIInv ==
  ASSUME IInv, Starting \/ ServerStops \/ \E c \in Client : AddAllowedClient(c)
  PROVE  IInv'
<1> USE DEF IInv
<1>1. CASE Starting
  BY <1>1 DEF Starting, ServerStarts, ServerInstalls, ServerIsUp, TypeOK,
       AckMeansRegistered, ReadyMeansAdmitted, OutsidersUnheard, OutsidersStayOut,
       LazyBounded
<1>2. CASE ServerStops
  <2>1. server.run \in Nat \ {0} /\ server'.run = server.run + 1
    BY <1>2 DEF ServerStops, TypeOK
  <2>2. server'.run # 1 /\ server'.run \in Nat \ {0}
    BY <2>1
  <2>3. Len(lazy') = 0 /\ lazy' \in Seq(Client)
    BY <1>2, EmptySeq DEF ServerStops
  <2>4. TypeOK'
    BY <1>2, <2>2, <2>3 DEF ServerStops, TypeOK
  <2>5. LazyBounded'
    BY <2>3, RendezvousAssumption DEF LazyBounded
  <2> QED
    BY <1>2, <2>2, <2>4, <2>5
       DEF ServerStops, AckMeansRegistered, ReadyMeansAdmitted, OutsidersUnheard,
           OutsidersStayOut
<1>3. CASE \E c \in Client : AddAllowedClient(c)
  BY <1>3 DEF AddAllowedClient, TypeOK, AckMeansRegistered, ReadyMeansAdmitted,
       OutsidersUnheard, OutsidersStayOut, LazyBounded
<1> QED BY <1>1, <1>2, <1>3

\* onMeow registers whom it answers, and only those who are allowed.
LEMMA OnMeowIInv ==
  ASSUME IInv, NEW c \in Client, OnMeow(c)
  PROVE  IInv'
<1> USE DEF IInv
<1>1. /\ UNCHANGED <<server, restricted, allowed, lazy, session, node>>
      /\ pings' \subseteq pings
      /\ \/ Permitted(c) /\ clients' = clients \cup {c} /\ acks' = acks \cup {c}
         \/ clients' = clients /\ acks' = acks
      /\ nm' \in {nm, clients'} /\ magic' \in {magic, clients'}
  BY DEF OnMeow
<1>2. TypeOK'
  BY <1>1 DEF TypeOK
<1>3. AckMeansRegistered' /\ ReadyMeansAdmitted'
  BY <1>1 DEF AckMeansRegistered, ReadyMeansAdmitted
<1>4. OutsidersUnheard' /\ OutsidersStayOut'
  BY <1>1 DEF OutsidersUnheard, OutsidersStayOut, Permitted
<1> QED BY <1>1, <1>2, <1>3, <1>4 DEF LazyBounded

\* A handshake of a key the server does not know goes through the index.
LEMMA HandshakeIInv ==
  ASSUME IInv, NEW c \in Client, Handshake(c)
  PROVE  IInv'
<1> USE DEF IInv
<1>1. /\ UNCHANGED <<server, restricted, allowed, clients, nm, magic, node, pings, acks>>
      /\ session' = session \cup {c}
      /\ c \in clients \/ Permitted(c)
      /\ lazy' = lazy \/ \E n \in 0 .. Len(lazy) : lazy' = Noted(lazy, n, c)
  BY DEF Handshake, Admits
<1>2. lazy' \in Seq(Client) /\ Len(lazy') <= LazyMax
  BY <1>1, NotedIsBounded DEF TypeOK, LazyBounded
<1>3. TypeOK'
  BY <1>1, <1>2 DEF TypeOK
<1>4. AckMeansRegistered' /\ ReadyMeansAdmitted' /\ OutsidersUnheard'
  BY <1>1 DEF AckMeansRegistered, ReadyMeansAdmitted, OutsidersUnheard
<1>5. OutsidersStayOut'
  BY <1>1 DEF OutsidersStayOut, OutsidersUnheard, Permitted
<1> QED BY <1>2, <1>3, <1>4, <1>5 DEF LazyBounded

LEMMA NextIInv == IInv /\ [Next]_vars => IInv'
<1> SUFFICES ASSUME IInv, [Next]_vars PROVE IInv'
  OBVIOUS
<1>1. CASE UNCHANGED vars
  BY <1>1 DEF vars, serverVars, IInv, TypeOK, AckMeansRegistered, ReadyMeansAdmitted,
       OutsidersUnheard, OutsidersStayOut, LazyBounded
<1>2. CASE Next
  BY <1>2, ServerIInv, ClientIInv, RelayIInv, OnMeowIInv, HandshakeIInv DEF Next
<1> QED BY <1>1, <1>2

THEOREM Invariance == Spec => []IInv
BY InitIInv, NextIInv, PTL DEF Spec

-----------------------------------------------------------------------------
(* The theorems *)

\* Every variable keeps its type, and the network maps only have registered clients.
THEOREM TypeCorrect == Spec => []TypeOK
<1>1. IInv => TypeOK
  BY DEF IInv
<1> QED BY Invariance, <1>1, PTL

\* A meowed means that the server has registered the client, however the relay
\* delays, reorders, repeats and loses packets.
THEOREM AckIsTrue == Spec => []AckMeansRegistered
<1>1. IInv => AckMeansRegistered
  BY DEF IInv
<1> QED BY Invariance, <1>1, PTL

\* A client that takes itself for ready has been let in, whichever of the meow,
\* the probe and the background registration was first.
THEOREM ReadyIsTrue == Spec => []ReadyMeansAdmitted
<1>1. IInv => ReadyMeansAdmitted
  BY DEF IInv
<1> QED BY Invariance, <1>1, PTL

\* A client that was never allowed is not let in by any way, whatever restarts
\* and however many keys are added to the list meanwhile.
THEOREM OutsidersOut == Spec => []OutsidersStayOut
<1>1. IInv => OutsidersStayOut
  BY DEF IInv
<1> QED BY Invariance, <1>1, PTL

\* The index of unregistered peers stays within its limit.
THEOREM IndexBounded == Spec => []LazyBounded
<1>1. IInv => LazyBounded
  BY DEF IInv
<1> QED BY Invariance, <1>1, PTL

\* A complete network map stays complete.
THEOREM MapComplete == Spec => MapStaysComplete
<1>1. [Next]_vars =>
        [server.phase = "up" /\ nm = clients /\ magic = clients /\ server'.phase = "up"
           => nm' = clients' /\ magic' = clients']_vars
  BY DEF Next, vars, serverVars, Starting, ServerStarts, ServerInstalls, ServerIsUp,
       ServerStops, AddAllowedClient, OnMeow, Handshake, Call, SendPing, OnMeowed, Lose,
       CallSucceeds, CallTimesOut, Background, BackgroundSucceeds, BackgroundRetries,
       BackgroundStops, BackgroundTimesOut, Close, Replace, Set
<1> QED BY <1>1, PTL DEF Spec, MapStaysComplete
====
