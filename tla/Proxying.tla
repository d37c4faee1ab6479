---- MODULE Proxying ----
(***************************************************************************)
(* One connection carried between two peers: ProxyConns and                *)
(* ProxyPacketConns (src/tailcat.go), the forward command                  *)
(* (src/cmd/tailcat/forward.go), and the client and the one-shot server    *)
(* that exit after their connection (src/cmd/tailcat/tailcat.go).  The     *)
(* tunnel's TCP stack lives in the process: what it has not sent when its  *)
(* connection is torn down, or when the process exits, is lost.            *)
(***************************************************************************)
EXTENDS Naturals

CONSTANTS
  Role,    \* a subset of "forward", "serve", "udp", "client", "oneshot"
  Via,     \* how a server reaches its target: a subset of "direct", "proxy"
  MaxSent  \* bound: units a peer sends

VARIABLES
  role, via,
  main,   \* "dials", "copies", "closes", "drains" or "ended"
  peer,   \* at each end: what its peer has sent and has got, and its side's state
  conn,   \* at each end: the connection, "open" or "closed"
  copy,   \* from each end: what was read of it, and whether the copy runs
  fin,    \* to each end: our FIN, "none", "sent", "come" or "lost"
  stop,   \* the process was told to stop
  late    \* a wait for the peer's acknowledgement was given up when its time was up

vars == <<role, via, main, peer, conn, copy, fin, stop, late>>

-----------------------------------------------------------------------------

End == {"a", "b"}
Other(e) == IF e = "a" THEN "b" ELSE "a"

\* The end that is in the process's own stack.  The other is the system's: a local
\* connection, or the standard streams.
Tunnel == IF role \in {"serve", "oneshot"} THEN "a" ELSE "b"

Streams == role \in {"client", "oneshot"}

\* What dialForward gives for a proxied target wraps the connection, without CloseWrite.
Wrapped(e) == role = "serve" /\ via = "proxy" /\ e = "b"

Gone(e) == peer[e].state = "gone"

\* A client or a one-shot server is a process of its own, whose end is that of its copies.
Alive == ~ (Streams /\ main = "ended")

\* The copies there are, from their source: a one-shot server sends nothing back.
Copies == IF role = "oneshot" THEN {"a"} ELSE End

\* How many copies must end before both sides are closed: a datagram has no half-close,
\* and a client ends with what the server sends.
Needs == CASE role = "udp" -> \E e \in End : copy[e].state = "done"
           [] role = "client" -> copy["b"].state = "done"
           [] OTHER -> \A e \in Copies : copy[e].state = "done"

\* CLOSING or LAST-ACK: both sides have sent their FIN, and ours is not acknowledged.
LastAck(e) == e = Tunnel /\ fin[e] = "sent" /\ peer[e].state # "open"

-----------------------------------------------------------------------------
(* The peers, and the network *)

Sends(e) ==
  /\ main # "ended" /\ peer[e].state = "open" /\ peer[e].sent < MaxSent
  /\ peer' = [peer EXCEPT ![e].sent = @ + 1]
  /\ UNCHANGED <<role, via, main, conn, copy, fin, stop, late>>

Shuts(e) ==
  /\ main # "ended" /\ peer[e].state = "open" /\ role # "udp"
  /\ peer' = [peer EXCEPT ![e].state = "eof"]
  /\ UNCHANGED <<role, via, main, conn, copy, fin, stop, late>>

Leaves(e) ==
  /\ main # "ended" /\ ~ Gone(e)
  /\ peer' = [peer EXCEPT ![e].state = "gone"]
  /\ UNCHANGED <<role, via, main, conn, copy, fin, stop, late>>

\* What was written into the tunnel comes, and then the FIN, and is acknowledged; the stack
\* sends it again until then, for as long as the connection or the process is there.
Comes(e) == e = Tunnel /\ fin[e] # "lost" /\ ~ Gone(e) /\ main # "ended"

Arrives(e) ==
  /\ Comes(e) /\ peer[e].got < copy[Other(e)].moved
  /\ peer' = [peer EXCEPT ![e].got = @ + 1]
  /\ UNCHANGED <<role, via, main, conn, copy, fin, stop, late>>

FinComes(e) ==
  /\ Comes(e) /\ fin[e] = "sent" /\ peer[e].got = copy[Other(e)].moved
  /\ fin' = [fin EXCEPT ![e] = "come"]
  /\ UNCHANGED <<role, via, main, peer, conn, copy, stop, late>>

-----------------------------------------------------------------------------
(* ProxyConns, ProxyPacketConns *)

Dials ==
  /\ main = "dials"
  /\ \/ /\ main' = "copies"
        /\ copy' = [e \in End |-> IF e \in Copies THEN [copy[e] EXCEPT !.state = "runs"] ELSE copy[e]]
        /\ UNCHANGED <<conn, fin>>
     \/ /\ main' = "ended"
        /\ conn' = [e \in End |-> "closed"]
        /\ fin' = [e \in End |-> IF e = Tunnel THEN "lost" ELSE "come"]
        /\ UNCHANGED copy
  /\ UNCHANGED <<role, via, peer, stop, late>>

\* The copy from e is over: its destination is told that no more comes, by CloseWrite,
\* or by Close if it has none.
CopyDone(e) ==
  /\ copy' = [copy EXCEPT ![e].state = "done"]
  /\ fin' = IF role = "udp" \/ conn[Other(e)] = "closed" \/ fin[Other(e)] # "none" THEN fin
            ELSE [fin EXCEPT ![Other(e)] = IF Other(e) = Tunnel THEN "sent" ELSE "come"]
  /\ conn' = IF Wrapped(Other(e)) THEN [conn EXCEPT ![Other(e)] = "closed"] ELSE conn
  /\ UNCHANGED <<role, via, main, peer, stop, late>>

\* log.Fatal, on a standard stream or of one.
Fatal ==
  /\ main' = "ended"
  /\ fin' = [e \in End |-> IF fin[e] = "sent" THEN "lost" ELSE fin[e]]
  /\ UNCHANGED <<role, via, peer, conn, copy, stop, late>>

\* io.Copy: a unit is read and written, or the write fails and ends the copy.  The system
\* delivers what a local connection was given.
CopyMoves(e) ==
  /\ Alive /\ copy[e].state = "runs" /\ conn[e] = "open" /\ copy[e].moved < peer[e].sent
  /\ IF conn[Other(e)] = "closed" \/ Gone(Other(e))
     THEN IF Streams THEN Fatal ELSE CopyDone(e)
     ELSE /\ copy' = [copy EXCEPT ![e].moved = @ + 1]
          /\ peer' = IF Other(e) = Tunnel THEN peer ELSE [peer EXCEPT ![Other(e)].got = @ + 1]
          /\ UNCHANGED <<role, via, main, conn, fin, stop, late>>

CopyEnds(e) ==
  /\ Alive /\ copy[e].state = "runs"
  /\ \/ conn[e] = "closed"
     \/ peer[e].state = "eof" /\ copy[e].moved = peer[e].sent
     \/ Gone(e)
  /\ CopyDone(e)

CopiesEnd ==
  /\ main = "copies" /\ Needs
  /\ main' = IF role = "client" THEN "drains" ELSE "closes"
  /\ UNCHANGED <<role, via, peer, conn, copy, fin, stop, late>>

\* Mutant: the connection is closed at once.
MayCloseNow(e) == TRUE

\* closeProxyConn: not while our FIN is unacknowledged.  The one-shot server closes at once
\* and waits it out before it exits.
MayClose(e) == ~ LastAck(e) \/ role = "oneshot" \/ Gone(e)

Closes(e) ==
  /\ main = "closes" /\ conn[e] = "open" /\ MayClose(e)
  /\ conn' = [conn EXCEPT ![e] = "closed"]
  /\ fin' = IF e # Tunnel THEN [fin EXCEPT ![e] = "come"]
            ELSE IF LastAck(e) /\ role # "oneshot" THEN [fin EXCEPT ![e] = "lost"]
            ELSE IF fin[e] = "none" THEN [fin EXCEPT ![e] = "sent"] ELSE fin
  /\ UNCHANGED <<role, via, main, peer, copy, stop, late>>

\* Its timer: the connection is closed all the same, which may lose what is under way.
ClosesLate(e) ==
  /\ main = "closes" /\ conn[e] = "open" /\ LastAck(e) /\ role # "oneshot"
  /\ conn' = [conn EXCEPT ![e] = "closed"]
  /\ \E f \in {"sent", "lost"} : fin' = [fin EXCEPT ![e] = f]
  /\ late' = TRUE
  /\ UNCHANGED <<role, via, main, peer, copy, stop>>

Closed ==
  /\ main = "closes" /\ \A e \in End : conn[e] = "closed"
  /\ main' = IF role = "oneshot" THEN "drains" ELSE "ended"
  /\ UNCHANGED <<role, via, peer, conn, copy, fin, stop, late>>

-----------------------------------------------------------------------------
(* Before the process exits *)

\* DrainTCP: the server waits until its connections are fully closed, the client until
\* nothing is left to send again.
Drained == fin[Tunnel] = "come" \/ Gone(Tunnel)

\* What is under way is lost with the process.
Ends ==
  /\ main = "drains" /\ main' = "ended"
  /\ fin' = [e \in End |-> IF fin[e] = "sent" THEN "lost" ELSE fin[e]]
  /\ UNCHANGED <<role, via, peer, conn, copy, stop>>

Exits == Drained /\ Ends /\ UNCHANGED late

\* The cap of the callers on it.  It is also what ends the wait of a client whose input has
\* not ended, and who never shuts its own side.
ExitsLate == ~ Drained /\ Ends /\ late' = TRUE

\* A forward that is interrupted closes what it accepted, and waits for the copies.
Interrupts ==
  /\ role = "forward" /\ ~ stop /\ main # "ended"
  /\ stop' = TRUE
  /\ conn' = [conn EXCEPT !["a"] = "closed"]
  /\ UNCHANGED <<role, via, main, peer, copy, fin, late>>

Init ==
  /\ role \in Role
  /\ via \in IF role = "serve" THEN Via ELSE {"direct"}
  /\ main = "dials"
  /\ peer = [e \in End |-> [sent |-> 0, got |-> 0, state |-> "open"]]
  /\ conn = [e \in End |-> "open"]
  /\ copy = [e \in End |-> [moved |-> 0, state |-> "none"]]
  /\ fin = [e \in End |-> "none"]
  /\ stop = FALSE /\ late = FALSE

Next ==
  \/ Dials \/ CopiesEnd \/ Closed \/ Exits \/ ExitsLate \/ Interrupts
  \/ \E e \in End : Sends(e) \/ Shuts(e) \/ Leaves(e) \/ Arrives(e) \/ FinComes(e)
                    \/ CopyMoves(e) \/ CopyEnds(e) \/ Closes(e) \/ ClosesLate(e)

Spec == Init /\ [][Next]_vars

-----------------------------------------------------------------------------
(* Properties *)

\* Every variable has its type.
TypeOK ==
  /\ role \in Role /\ via \in {"direct", "proxy"} /\ stop \in BOOLEAN /\ late \in BOOLEAN
  /\ main \in {"dials", "copies", "closes", "drains", "ended"}
  /\ peer \in [End -> [sent : 0 .. MaxSent, got : 0 .. MaxSent, state : {"open", "eof", "gone"}]]
  /\ conn \in [End -> {"open", "closed"}]
  /\ copy \in [End -> [moved : 0 .. MaxSent, state : {"none", "runs", "done"}]]
  /\ fin \in [End -> {"none", "sent", "come", "lost"}]

\* Over, with both peers still there and nobody interrupting it.
OverInPeace ==
  main = "ended" /\ ~ stop /\ ~ Gone("a") /\ ~ Gone("b") /\ \E e \in End : copy[e].state # "none"

\* When a connection is over, what the tunnel's peer sent is all with the other; and unless
\* the wait for an acknowledgement was given up when its time was up (closeProxyConn's, or
\* the cap on DrainTCP, five seconds each), the tunnel's peer has all that the other sent
\* and is told that no more comes.  So a half-close ends one direction alone, and as long as
\* those waits last neither the closing of the connection nor the exit of the process takes
\* data or a FIN with it (tailcat.go:2855-2929, 1057-1138).
WholeBothWays ==
  OverInPeace /\ role # "udp" /\ via = "direct" =>
    /\ peer[Other(Tunnel)].got = peer[Tunnel].sent
    /\ ~ late => /\ \A e \in Copies : peer[Other(e)].got = peer[e].sent
                 /\ fin[Tunnel] = "come"

\* Both peers are there, nobody interrupts, and each side can be half-closed.
Peace == ~ stop /\ ~ Gone("a") /\ ~ Gone("b") /\ role # "udp" /\ via = "direct"

Dialed == \E e \in End : copy[e].state # "none"

\* What keeps WholeBothWays.  A local peer has what its copy moved, the tunnel's what came
\* of it, and all when the FIN has come.  In peace a copy ends only with what it copies, and
\* each connection is open while a copy runs; what comes after the copies comes when enough
\* of them are done; and their FIN is on its way, or come, and come before the connection is
\* let go of, but for a wait that was given up.
Carried ==
  /\ \A e \in End :
       /\ copy[e].moved <= peer[e].sent
       /\ copy[e].state # "none" => e \in Copies
  /\ peer[Other(Tunnel)].got = copy[Tunnel].moved
  /\ peer[Tunnel].got <= copy[Other(Tunnel)].moved

CopiedWhole ==
  \A e \in End : copy[e].state = "done" => peer[e].state = "eof" /\ copy[e].moved = peer[e].sent

OpenWhileCopied ==
  main \in {"dials", "copies"} \/ (\E e \in End : copy[e].state = "runs")
    => \A e \in End : conn[e] = "open"

EndsAfterCopies ==
  /\ main = "dials" => ~ Dialed
  /\ main \notin {"dials", "copies"} /\ Dialed => Needs
  /\ main = "closes" => role # "client"
  /\ main = "drains" => Streams
  /\ main \in {"drains", "ended"} /\ Dialed /\ role # "client" => conn[Tunnel] = "closed"

FinFollows ==
  /\ main = "dials" => fin[Tunnel] = "none"
  /\ ~ Streams /\ Dialed /\ (conn[Tunnel] = "open" \/ ~ late) =>
       /\ fin[Tunnel] # "lost"
       /\ copy[Other(Tunnel)].state = "done" => fin[Tunnel] \in {"sent", "come"}
       /\ conn[Tunnel] = "closed" => fin[Tunnel] = "come"
  /\ Streams /\ main = "ended" /\ Dialed /\ ~ late => fin[Tunnel] = "come"
  /\ fin[Tunnel] = "come" /\ Dialed => peer[Tunnel].got = copy[Other(Tunnel)].moved
  /\ fin[Tunnel] # "none" /\ Dialed /\ Other(Tunnel) \in Copies =>
       copy[Other(Tunnel)].state = "done"

WholeInv ==
  /\ TypeOK /\ Carried
  /\ Peace => CopiedWhole /\ OpenWhileCopied /\ EndsAfterCopies /\ FinFollows

\* tailcat.go:2859-2863: a half-close is propagated instead of tearing down the whole
\* connection, so that one side may end its request and then read the response.
HalfCloseIsCarried ==
  OverInPeace /\ role = "serve" /\ ~ late =>
    \A e \in End : peer[Other(e)].got = peer[e].sent

=============================================================================
