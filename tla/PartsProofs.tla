---- MODULE PartsProofs ----
(***************************************************************************)
(* What holds of a connection carried between two peers, of the output of  *)
(* a command, of UDP over a proxy, the bind to an interface, the map of    *)
(* relays, the file service and the address of a server: for every set of  *)
(* flows, interfaces, fetchers and sessions, and every bound; and of what  *)
(* a session's scanner makes of any output.  With PartsListProofs these    *)
(* are all the parts, so that it ends with the types of them all.          *)
(***************************************************************************)
EXTENDS PartsListProofs

-----------------------------------------------------------------------------
(* Carried connections.  WholeInv says of a connection that nobody cut that what   *)
(* one peer sent is on its way to the other; there is a lemma for each action, and  *)
(* in it a step for each part of WholeInv.                                          *)

\* A peer sends, while the exit copies.
LEMMA WholeSends ==
  ASSUME NEW e \in Proxy!End, Proxy!WholeInv, Proxy!Sends(e)
  PROVE  Proxy!WholeInv'
<1>1. Proxy!TypeOK' /\ Proxy!Carried'
  BY ProxyConstants
     DEF Proxy!TypeOK, Proxy!Carried, Proxy!Sends, Proxy!WholeInv, Proxy!Copies,
     Proxy!Tunnel, Proxy!Other, Proxy!End
<1>2. ASSUME Proxy!Peace' PROVE Proxy!Peace
  BY <1>2 DEF Proxy!Sends, Proxy!Peace, Proxy!Gone
<1>3. ASSUME Proxy!Peace' PROVE Proxy!CopiedWhole'
  BY <1>2, <1>3 DEF Proxy!CopiedWhole, Proxy!Sends, Proxy!WholeInv
<1>4. ASSUME Proxy!Peace' PROVE Proxy!OpenWhileCopied'
  BY <1>2, <1>4 DEF Proxy!OpenWhileCopied, Proxy!Sends, Proxy!WholeInv
<1>5. ASSUME Proxy!Peace' PROVE Proxy!EndsAfterCopies'
  BY <1>2, <1>5
     DEF Proxy!EndsAfterCopies, Proxy!Sends, Proxy!WholeInv, Proxy!Dialed, Proxy!Tunnel,
       Proxy!Copies, Proxy!Needs, Proxy!Streams
<1>6. ASSUME Proxy!Peace' PROVE Proxy!FinFollows'
  BY <1>2, <1>6
     DEF Proxy!FinFollows, Proxy!Sends, Proxy!WholeInv, Proxy!Dialed, Proxy!Tunnel,
       Proxy!Streams, Proxy!Copies, Proxy!Other, Proxy!End
<1> QED
  BY <1>1, <1>3, <1>4, <1>5, <1>6 DEF Proxy!WholeInv

\* A peer ends its side.
LEMMA WholeShuts ==
  ASSUME NEW e \in Proxy!End, Proxy!WholeInv, Proxy!Shuts(e)
  PROVE  Proxy!WholeInv'
<1>1. Proxy!TypeOK' /\ Proxy!Carried'
  BY DEF Proxy!TypeOK, Proxy!Carried, Proxy!Shuts, Proxy!WholeInv, Proxy!Copies,
     Proxy!Tunnel, Proxy!Other, Proxy!End
<1>2. ASSUME Proxy!Peace' PROVE Proxy!Peace
  BY <1>2 DEF Proxy!Shuts, Proxy!Peace, Proxy!Gone
<1>3. ASSUME Proxy!Peace' PROVE Proxy!CopiedWhole'
  BY <1>2, <1>3 DEF Proxy!CopiedWhole, Proxy!Shuts, Proxy!WholeInv
<1>4. ASSUME Proxy!Peace' PROVE Proxy!OpenWhileCopied'
  BY <1>2, <1>4 DEF Proxy!OpenWhileCopied, Proxy!Shuts, Proxy!WholeInv
<1>5. ASSUME Proxy!Peace' PROVE Proxy!EndsAfterCopies'
  BY <1>2, <1>5
     DEF Proxy!EndsAfterCopies, Proxy!Shuts, Proxy!WholeInv, Proxy!Dialed, Proxy!Tunnel,
       Proxy!Copies, Proxy!Needs, Proxy!Streams
<1>6. ASSUME Proxy!Peace' PROVE Proxy!FinFollows'
  BY <1>2, <1>6
     DEF Proxy!FinFollows, Proxy!Shuts, Proxy!WholeInv, Proxy!Dialed, Proxy!Tunnel,
       Proxy!Streams, Proxy!Copies, Proxy!Other, Proxy!End
<1> QED
  BY <1>1, <1>3, <1>4, <1>5, <1>6 DEF Proxy!WholeInv

\* A peer goes: what is still under way need not arrive.
LEMMA WholeLeaves ==
  ASSUME NEW e \in Proxy!End, Proxy!WholeInv, Proxy!Leaves(e)
  PROVE  Proxy!WholeInv'
<1>1. Proxy!TypeOK' /\ Proxy!Carried'
  BY DEF Proxy!TypeOK, Proxy!Carried, Proxy!Leaves, Proxy!WholeInv, Proxy!Copies,
     Proxy!Tunnel, Proxy!Other, Proxy!End
<1>2. ASSUME Proxy!Peace' PROVE Proxy!Peace
  BY <1>2 DEF Proxy!Leaves, Proxy!Peace, Proxy!Gone
<1>3. ASSUME Proxy!Peace' PROVE Proxy!CopiedWhole'
  BY <1>3
     DEF Proxy!CopiedWhole, Proxy!Leaves, Proxy!WholeInv, Proxy!Peace, Proxy!Gone, Proxy!End
<1>4. ASSUME Proxy!Peace' PROVE Proxy!OpenWhileCopied'
  BY <1>2, <1>4 DEF Proxy!OpenWhileCopied, Proxy!Leaves, Proxy!WholeInv
<1>5. ASSUME Proxy!Peace' PROVE Proxy!EndsAfterCopies'
  BY <1>2, <1>5
     DEF Proxy!EndsAfterCopies, Proxy!Leaves, Proxy!WholeInv, Proxy!Dialed, Proxy!Tunnel,
       Proxy!Copies, Proxy!Needs, Proxy!Streams
<1>6. ASSUME Proxy!Peace' PROVE Proxy!FinFollows'
  BY <1>2, <1>6
     DEF Proxy!FinFollows, Proxy!Leaves, Proxy!WholeInv, Proxy!Dialed, Proxy!Tunnel,
       Proxy!Streams, Proxy!Copies, Proxy!Other, Proxy!End
<1> QED
  BY <1>1, <1>3, <1>4, <1>5, <1>6 DEF Proxy!WholeInv

\* What was written comes, while the FIN does not.
LEMMA WholeArrives ==
  ASSUME NEW e \in Proxy!End, Proxy!WholeInv, Proxy!Arrives(e)
  PROVE  Proxy!WholeInv'
<1>1. Proxy!TypeOK' /\ Proxy!Carried'
  BY ProxyConstants
     DEF Proxy!TypeOK, Proxy!Carried, Proxy!Comes, Proxy!Arrives, Proxy!WholeInv, Proxy!Copies,
     Proxy!Tunnel, Proxy!Other, Proxy!End
<1>2. ASSUME Proxy!Peace' PROVE Proxy!Peace
  BY <1>2 DEF Proxy!Arrives, Proxy!Peace, Proxy!Gone
<1>3. ASSUME Proxy!Peace' PROVE Proxy!CopiedWhole'
  BY <1>2, <1>3 DEF Proxy!CopiedWhole, Proxy!Arrives, Proxy!WholeInv
<1>4. ASSUME Proxy!Peace' PROVE Proxy!OpenWhileCopied'
  BY <1>2, <1>4 DEF Proxy!OpenWhileCopied, Proxy!Arrives, Proxy!WholeInv
<1>5. ASSUME Proxy!Peace' PROVE Proxy!EndsAfterCopies'
  BY <1>2, <1>5
     DEF Proxy!EndsAfterCopies, Proxy!Arrives, Proxy!WholeInv, Proxy!Dialed, Proxy!Tunnel,
       Proxy!Copies, Proxy!Needs, Proxy!Streams
<1>6. ASSUME Proxy!Peace' PROVE Proxy!FinFollows'
  <2>1. x7[Proxy!Tunnel] # "come" \/ ~ Proxy!Dialed
    BY <1>2, <1>6, ProxyConstants
       DEF Proxy!FinFollows, Proxy!Comes, Proxy!Arrives, Proxy!WholeInv, Proxy!TypeOK,
         Proxy!Tunnel, Proxy!Other, Proxy!End
  <2>2. UNCHANGED <<x1, x3, x5, x6, x7, x9>>
    BY DEF Proxy!Arrives
  <2> QED
    BY <1>2, <1>6, <2>1, <2>2
       DEF Proxy!FinFollows, Proxy!WholeInv, Proxy!Dialed, Proxy!Tunnel, Proxy!Streams,
         Proxy!Copies, Proxy!Other, Proxy!End
<1> QED
  BY <1>1, <1>3, <1>4, <1>5, <1>6 DEF Proxy!WholeInv

\* A FIN arrives.
LEMMA WholeFinComes ==
  ASSUME NEW e \in Proxy!End, Proxy!WholeInv, Proxy!FinComes(e)
  PROVE  Proxy!WholeInv'
<1>1. Proxy!TypeOK' /\ Proxy!Carried'
  BY DEF Proxy!TypeOK, Proxy!Carried, Proxy!Comes, Proxy!FinComes, Proxy!WholeInv, Proxy!Copies,
     Proxy!Tunnel, Proxy!Other, Proxy!End
<1>2. ASSUME Proxy!Peace' PROVE Proxy!Peace
  BY <1>2 DEF Proxy!FinComes, Proxy!Peace, Proxy!Gone
<1>3. ASSUME Proxy!Peace' PROVE Proxy!CopiedWhole'
  BY <1>2, <1>3 DEF Proxy!CopiedWhole, Proxy!FinComes, Proxy!WholeInv
<1>4. ASSUME Proxy!Peace' PROVE Proxy!OpenWhileCopied'
  BY <1>2, <1>4 DEF Proxy!OpenWhileCopied, Proxy!FinComes, Proxy!WholeInv
<1>5. ASSUME Proxy!Peace' PROVE Proxy!EndsAfterCopies'
  BY <1>2, <1>5
     DEF Proxy!EndsAfterCopies, Proxy!FinComes, Proxy!WholeInv, Proxy!Dialed, Proxy!Tunnel,
       Proxy!Copies, Proxy!Needs, Proxy!Streams
<1>6. ASSUME Proxy!Peace' PROVE Proxy!FinFollows'
  <2>1. /\ x7[Proxy!Tunnel] = "sent" /\ x7' = [x7 EXCEPT ![Proxy!Tunnel] = "come"]
        /\ x4[Proxy!Tunnel].got = x6[Proxy!Other(Proxy!Tunnel)].moved
        /\ UNCHANGED <<x1, x3, x4, x5, x6, x9>>
    BY DEF Proxy!FinComes, Proxy!Comes
  <2>2. x7'[Proxy!Tunnel] = "come" /\ Proxy!Tunnel' = Proxy!Tunnel
    BY <2>1 DEF Proxy!WholeInv, Proxy!TypeOK, Proxy!Tunnel, Proxy!End
  <2> QED
    BY <1>2, <1>6, <2>1, <2>2
       DEF Proxy!FinFollows, Proxy!WholeInv, Proxy!Dialed, Proxy!Streams,
         Proxy!Copies, Proxy!Other, Proxy!End
<1> QED
  BY <1>1, <1>3, <1>4, <1>5, <1>6 DEF Proxy!WholeInv

\* The other peer is dialed, or that fails.
LEMMA WholeDials ==
  ASSUME Proxy!WholeInv, Proxy!Dials
  PROVE  Proxy!WholeInv'
<1>1. Proxy!TypeOK' /\ Proxy!Carried'
  BY DEF Proxy!TypeOK, Proxy!Carried, Proxy!Dials, Proxy!WholeInv, Proxy!Copies,
     Proxy!Tunnel, Proxy!Other, Proxy!End
<1>2. ASSUME Proxy!Peace' PROVE Proxy!Peace
  BY <1>2 DEF Proxy!Dials, Proxy!Peace, Proxy!Gone
<1>3. ASSUME Proxy!Peace' PROVE Proxy!CopiedWhole'
  BY <1>2, <1>3 DEF Proxy!TypeOK, Proxy!CopiedWhole, Proxy!Dials, Proxy!WholeInv, Proxy!End
<1>4. ASSUME Proxy!Peace' PROVE Proxy!OpenWhileCopied'
  BY <1>2, <1>4
     DEF Proxy!OpenWhileCopied, Proxy!EndsAfterCopies, Proxy!Dials, Proxy!WholeInv,
       Proxy!Dialed
<1>5. ASSUME Proxy!Peace' PROVE Proxy!EndsAfterCopies'
  BY <1>2, <1>5 DEF Proxy!EndsAfterCopies, Proxy!Dials, Proxy!WholeInv, Proxy!Dialed
<1>6. ASSUME Proxy!Peace' PROVE Proxy!FinFollows'
  BY <1>2, <1>6
     DEF Proxy!TypeOK, Proxy!OpenWhileCopied, Proxy!EndsAfterCopies, Proxy!FinFollows,
       Proxy!Dials, Proxy!WholeInv, Proxy!Dialed, Proxy!Tunnel, Proxy!Other, Proxy!End, Proxy!Streams, Proxy!Copies
<1> QED
  BY <1>1, <1>3, <1>4, <1>5, <1>6 DEF Proxy!WholeInv

\* A copy that is over has carried all its peer sent, if nobody cut the connection.
LEMMA WholeCopyDone ==
  ASSUME NEW e \in Proxy!End, Proxy!WholeInv,
         x6[e].state = "runs", Proxy!Peace => x4[e].state = "eof" /\ x6[e].moved = x4[e].sent,
         Proxy!CopyDone(e)
  PROVE  Proxy!WholeInv'
<1>1. Proxy!TypeOK' /\ Proxy!Carried'
  BY DEF Proxy!TypeOK, Proxy!Carried, Proxy!CopyDone, Proxy!WholeInv, Proxy!Copies,
     Proxy!Tunnel, Proxy!Other, Proxy!End
<1>2. ASSUME Proxy!Peace' PROVE Proxy!Peace
  BY <1>2 DEF Proxy!CopyDone, Proxy!Peace, Proxy!Gone
<1>3. ASSUME Proxy!Peace' PROVE Proxy!CopiedWhole'
  BY <1>2, <1>3 DEF Proxy!CopiedWhole, Proxy!CopyDone, Proxy!WholeInv
<1>4. ASSUME Proxy!Peace' PROVE Proxy!OpenWhileCopied'
  BY <1>2, <1>4
     DEF Proxy!OpenWhileCopied, Proxy!CopyDone, Proxy!Wrapped, Proxy!WholeInv, Proxy!Peace
<1>5. ASSUME Proxy!Peace' PROVE Proxy!EndsAfterCopies'
  BY <1>2, <1>5
     DEF Proxy!EndsAfterCopies, Proxy!CopyDone, Proxy!WholeInv, Proxy!Dialed, Proxy!Tunnel,
       Proxy!Copies, Proxy!Needs, Proxy!Streams
<1>6. ASSUME Proxy!Peace' PROVE Proxy!FinFollows'
  BY <1>2, <1>6
     DEF Proxy!TypeOK, Proxy!EndsAfterCopies, Proxy!FinFollows, Proxy!CopyDone,
       Proxy!Wrapped, Proxy!WholeInv, Proxy!Peace, Proxy!Dialed, Proxy!Tunnel,
       Proxy!Streams, Proxy!Other, Proxy!End, Proxy!Copies
<1> QED
  BY <1>1, <1>3, <1>4, <1>5, <1>6 DEF Proxy!WholeInv

\* The copies that are waited for are over.
LEMMA WholeCopiesEnd ==
  ASSUME Proxy!WholeInv, Proxy!CopiesEnd
  PROVE  Proxy!WholeInv'
<1>1. Proxy!TypeOK' /\ Proxy!Carried'
  BY DEF Proxy!TypeOK, Proxy!Carried, Proxy!CopiesEnd, Proxy!WholeInv, Proxy!Copies,
     Proxy!Tunnel, Proxy!Other, Proxy!End
<1>2. ASSUME Proxy!Peace' PROVE Proxy!Peace
  BY <1>2 DEF Proxy!CopiesEnd, Proxy!Peace, Proxy!Gone
<1>3. ASSUME Proxy!Peace' PROVE Proxy!CopiedWhole'
  BY <1>2, <1>3 DEF Proxy!CopiedWhole, Proxy!CopiesEnd, Proxy!WholeInv
<1>4. ASSUME Proxy!Peace' PROVE Proxy!OpenWhileCopied'
  BY <1>2, <1>4 DEF Proxy!OpenWhileCopied, Proxy!CopiesEnd, Proxy!WholeInv
<1>5. ASSUME Proxy!Peace' PROVE Proxy!EndsAfterCopies'
  BY DEF Proxy!EndsAfterCopies, Proxy!CopiesEnd, Proxy!Copies, Proxy!Needs, Proxy!Streams
<1>6. ASSUME Proxy!Peace' PROVE Proxy!FinFollows'
  BY <1>2, <1>6
     DEF Proxy!FinFollows, Proxy!CopiesEnd, Proxy!WholeInv, Proxy!Dialed, Proxy!Tunnel,
       Proxy!Streams, Proxy!Copies, Proxy!Other, Proxy!End
<1> QED
  BY <1>1, <1>3, <1>4, <1>5, <1>6 DEF Proxy!WholeInv

\* A connection is closed when its last FIN has arrived.
LEMMA WholeCloses ==
  ASSUME NEW e \in Proxy!End, Proxy!WholeInv, Proxy!Closes(e)
  PROVE  Proxy!WholeInv'
<1>1. Proxy!TypeOK' /\ Proxy!Carried'
  BY DEF Proxy!TypeOK, Proxy!Carried, Proxy!Closes, Proxy!WholeInv, Proxy!Copies,
     Proxy!Tunnel, Proxy!Other, Proxy!End
<1>2. ASSUME Proxy!Peace' PROVE Proxy!Peace
  BY <1>2 DEF Proxy!Closes, Proxy!Peace, Proxy!Gone
<1>3. ASSUME Proxy!Peace' PROVE Proxy!CopiedWhole'
  BY <1>2, <1>3 DEF Proxy!CopiedWhole, Proxy!Closes, Proxy!WholeInv
<1>4. ASSUME Proxy!Peace' PROVE Proxy!OpenWhileCopied'
  BY <1>2, <1>4
     DEF Proxy!Carried, Proxy!OpenWhileCopied, Proxy!EndsAfterCopies, Proxy!Closes,
       Proxy!WholeInv, Proxy!Peace, Proxy!Dialed, Proxy!Needs
<1>5. ASSUME Proxy!Peace' PROVE Proxy!EndsAfterCopies'
  BY <1>2, <1>5
     DEF Proxy!EndsAfterCopies, Proxy!Closes, Proxy!WholeInv, Proxy!Dialed, Proxy!Copies,
       Proxy!Needs
<1>6. ASSUME Proxy!Peace' PROVE Proxy!FinFollows'
  BY <1>2, <1>6
     DEF Proxy!CopiedWhole, Proxy!EndsAfterCopies, Proxy!FinFollows, Proxy!Closes,
       Proxy!MayClose, Proxy!LastAck, Proxy!WholeInv, Proxy!Peace, Proxy!Dialed,
       Proxy!Tunnel, Proxy!Copies, Proxy!Needs, Proxy!Streams, Proxy!Other, Proxy!End
<1> QED
  BY <1>1, <1>3, <1>4, <1>5, <1>6 DEF Proxy!WholeInv

\* A connection is closed although its last FIN has not arrived: its time is up.
LEMMA WholeClosesLate ==
  ASSUME NEW e \in Proxy!End, Proxy!WholeInv, Proxy!ClosesLate(e)
  PROVE  Proxy!WholeInv'
<1>1. Proxy!TypeOK' /\ Proxy!Carried'
  BY DEF Proxy!TypeOK, Proxy!Carried, Proxy!ClosesLate, Proxy!WholeInv, Proxy!Copies,
     Proxy!Tunnel, Proxy!Other, Proxy!End
<1>2. ASSUME Proxy!Peace' PROVE Proxy!Peace
  BY <1>2 DEF Proxy!ClosesLate, Proxy!Peace, Proxy!Gone
<1>3. ASSUME Proxy!Peace' PROVE Proxy!CopiedWhole'
  BY <1>2, <1>3 DEF Proxy!CopiedWhole, Proxy!ClosesLate, Proxy!WholeInv
<1>4. ASSUME Proxy!Peace' PROVE Proxy!OpenWhileCopied'
  BY <1>2, <1>4
     DEF Proxy!Carried, Proxy!OpenWhileCopied, Proxy!EndsAfterCopies, Proxy!ClosesLate,
       Proxy!WholeInv, Proxy!Peace, Proxy!Dialed, Proxy!Needs
<1>5. ASSUME Proxy!Peace' PROVE Proxy!EndsAfterCopies'
  BY <1>2, <1>5
     DEF Proxy!EndsAfterCopies, Proxy!ClosesLate, Proxy!WholeInv, Proxy!Dialed, Proxy!Copies,
       Proxy!Needs
<1>6. ASSUME Proxy!Peace' PROVE Proxy!FinFollows'
  <2>1. /\ x7[Proxy!Tunnel] = "sent" /\ x3 = "closes" /\ x9' = TRUE
        /\ x5' = [x5 EXCEPT ![Proxy!Tunnel] = "closed"]
        /\ \E f \in {"sent", "lost"} : x7' = [x7 EXCEPT ![Proxy!Tunnel] = f]
        /\ UNCHANGED <<x1, x3, x4, x6>>
    BY DEF Proxy!ClosesLate, Proxy!LastAck
  <2>2. /\ x7'[Proxy!Tunnel] \in {"sent", "lost"} /\ x5'[Proxy!Tunnel] = "closed"
        /\ Proxy!Tunnel' = Proxy!Tunnel
    BY <2>1 DEF Proxy!WholeInv, Proxy!TypeOK, Proxy!Tunnel, Proxy!End
  <2> QED
    BY <1>2, <1>6, <2>1, <2>2
       DEF Proxy!FinFollows, Proxy!WholeInv, Proxy!Dialed, Proxy!Copies, Proxy!Other,
         Proxy!End
<1> QED
  BY <1>1, <1>3, <1>4, <1>5, <1>6 DEF Proxy!WholeInv

\* Both connections are closed.
LEMMA WholeClosed ==
  ASSUME Proxy!WholeInv, Proxy!Closed
  PROVE  Proxy!WholeInv'
<1>1. Proxy!TypeOK' /\ Proxy!Carried'
  BY DEF Proxy!TypeOK, Proxy!Carried, Proxy!Closed, Proxy!WholeInv, Proxy!Copies,
     Proxy!Tunnel, Proxy!Other, Proxy!End
<1>2. ASSUME Proxy!Peace' PROVE Proxy!Peace
  BY <1>2 DEF Proxy!Closed, Proxy!Peace, Proxy!Gone
<1>3. ASSUME Proxy!Peace' PROVE Proxy!CopiedWhole'
  BY <1>2, <1>3 DEF Proxy!CopiedWhole, Proxy!Closed, Proxy!WholeInv
<1>4. ASSUME Proxy!Peace' PROVE Proxy!OpenWhileCopied'
  BY <1>2, <1>4 DEF Proxy!OpenWhileCopied, Proxy!Closed, Proxy!WholeInv
<1>5. ASSUME Proxy!Peace' PROVE Proxy!EndsAfterCopies'
  BY <1>2, <1>5
     DEF Proxy!EndsAfterCopies, Proxy!Closed, Proxy!WholeInv, Proxy!Dialed, Proxy!Tunnel,
       Proxy!Copies, Proxy!Needs, Proxy!Streams, Proxy!End
<1>6. ASSUME Proxy!Peace' PROVE Proxy!FinFollows'
  BY <1>2, <1>6
     DEF Proxy!EndsAfterCopies, Proxy!FinFollows, Proxy!Closed, Proxy!WholeInv, Proxy!Dialed, Proxy!Tunnel,
       Proxy!Streams, Proxy!Copies, Proxy!Other, Proxy!End
<1> QED
  BY <1>1, <1>3, <1>4, <1>5, <1>6 DEF Proxy!WholeInv

\* The process ends when what it sent is drained, or its time is up.
LEMMA WholeExits ==
  ASSUME Proxy!WholeInv, Proxy!Exits \/ Proxy!ExitsLate
  PROVE  Proxy!WholeInv'
<1>0. /\ x3 = "drains" /\ x3' = "ended" /\ UNCHANGED <<x1, x2, x4, x5, x6, x8>>
      /\ x7' = [e \in Proxy!End |-> IF x7[e] = "sent" THEN "lost" ELSE x7[e]]
      /\ \/ Proxy!Drained /\ x9' = x9
         \/ ~ Proxy!Drained /\ x9' = TRUE
  BY DEF Proxy!Exits, Proxy!ExitsLate, Proxy!Ends
<1>1. Proxy!TypeOK'
  <2>1. x7' \in [Proxy!End -> {"none", "sent", "come", "lost"}]
    BY <1>0 DEF Proxy!TypeOK, Proxy!WholeInv
  <2>2. x9' \in BOOLEAN
    BY <1>0 DEF Proxy!TypeOK, Proxy!WholeInv
  <2> QED
    BY <1>0, <2>1, <2>2 DEF Proxy!TypeOK, Proxy!WholeInv
<1>2. Proxy!Carried'
  BY <1>0 DEF Proxy!Carried, Proxy!WholeInv, Proxy!Copies, Proxy!Tunnel, Proxy!Other
<1>3. ASSUME Proxy!Peace' PROVE Proxy!Peace
  BY <1>0, <1>3 DEF Proxy!Peace, Proxy!Gone
<1>4. ASSUME Proxy!Peace' PROVE Proxy!CopiedWhole'
  BY <1>0, <1>3, <1>4 DEF Proxy!CopiedWhole, Proxy!WholeInv
<1>5. ASSUME Proxy!Peace' PROVE Proxy!OpenWhileCopied'
  BY <1>0, <1>3, <1>5 DEF Proxy!OpenWhileCopied, Proxy!WholeInv
<1>6. ASSUME Proxy!Peace' PROVE Proxy!EndsAfterCopies' /\ Proxy!Streams'
  BY <1>0, <1>3, <1>6
     DEF Proxy!EndsAfterCopies, Proxy!WholeInv, Proxy!Dialed, Proxy!Tunnel, Proxy!Copies,
       Proxy!Needs, Proxy!Streams
<1>7. ASSUME Proxy!Peace' PROVE Proxy!FinFollows'
  <2>1. Proxy!Tunnel' = Proxy!Tunnel /\ Proxy!Tunnel \in Proxy!End
    BY <1>0 DEF Proxy!Tunnel, Proxy!End
  <2>2. x7'[Proxy!Tunnel] = IF x7[Proxy!Tunnel] = "sent" THEN "lost" ELSE x7[Proxy!Tunnel]
    BY <1>0, <2>1
  <2>3. ~ x9' => x7'[Proxy!Tunnel] = "come"
    BY <1>0, <1>3, <1>7, <2>2 DEF Proxy!Drained, Proxy!Peace, Proxy!Tunnel
  <2> QED
    BY <1>0, <1>3, <1>6, <1>7, <2>1, <2>2, <2>3
       DEF Proxy!FinFollows, Proxy!WholeInv, Proxy!Dialed, Proxy!Copies, Proxy!Other
<1> QED
  BY <1>1, <1>2, <1>4, <1>5, <1>6, <1>7 DEF Proxy!WholeInv

\* The forward command is interrupted.
LEMMA WholeInterrupts ==
  ASSUME Proxy!WholeInv, Proxy!Interrupts
  PROVE  Proxy!WholeInv'
<1>1. Proxy!TypeOK' /\ Proxy!Carried'
  BY DEF Proxy!TypeOK, Proxy!Carried, Proxy!Interrupts, Proxy!WholeInv, Proxy!Copies,
     Proxy!Tunnel, Proxy!Other, Proxy!End
<1>2. ASSUME Proxy!Peace' PROVE Proxy!Peace
  BY <1>2 DEF Proxy!Interrupts, Proxy!Peace
<1>3. ASSUME Proxy!Peace' PROVE Proxy!CopiedWhole'
  BY <1>3 DEF Proxy!Interrupts, Proxy!Peace
<1>4. ASSUME Proxy!Peace' PROVE Proxy!OpenWhileCopied'
  BY <1>4 DEF Proxy!Interrupts, Proxy!Peace
<1>5. ASSUME Proxy!Peace' PROVE Proxy!EndsAfterCopies'
  BY <1>5 DEF Proxy!Interrupts, Proxy!Peace
<1>6. ASSUME Proxy!Peace' PROVE Proxy!FinFollows'
  BY <1>6 DEF Proxy!Interrupts, Proxy!Peace, Proxy!Tunnel, Proxy!Streams, Proxy!Copies, Proxy!Other, Proxy!End
<1> QED
  BY <1>1, <1>3, <1>4, <1>5, <1>6 DEF Proxy!WholeInv

\* At first nothing was sent and nothing is copied.
LEMMA WholeInit == Proxy!Init => Proxy!WholeInv
<1> SUFFICES ASSUME Proxy!Init PROVE Proxy!WholeInv
  OBVIOUS
<1>1. Proxy!TypeOK
  <2>1. x1 \in Role /\ x2 \in {"direct", "proxy"} /\ x8 \in BOOLEAN /\ x9 \in BOOLEAN
    BY ProxyConstants DEF Proxy!Init
  <2>2. x3 = "dials" /\ x5 \in [Proxy!End -> {"open", "closed"}]
        /\ x7 \in [Proxy!End -> {"none", "sent", "come", "lost"}]
    BY DEF Proxy!Init
  <2>3. 0 \in 0 .. MaxSent
    BY ProxyConstants
  <2>4. x4 \in [Proxy!End -> [sent : 0 .. MaxSent, got : 0 .. MaxSent, state : {"open", "eof", "gone"}]]
    BY <2>3 DEF Proxy!Init
  <2>5. x6 \in [Proxy!End -> [moved : 0 .. MaxSent, state : {"none", "runs", "done"}]]
    BY <2>3 DEF Proxy!Init
  <2> QED
    BY <2>1, <2>2, <2>4, <2>5 DEF Proxy!TypeOK
<1>2. Proxy!Carried
  BY ProxyConstants DEF Proxy!Carried, Proxy!Tunnel, Proxy!End, Proxy!Other, Proxy!Init
<1>3. ~ Proxy!Dialed
  BY DEF Proxy!Dialed, Proxy!Init
<1>4. Proxy!CopiedWhole /\ Proxy!OpenWhileCopied /\ Proxy!EndsAfterCopies
  BY <1>3 DEF Proxy!CopiedWhole, Proxy!OpenWhileCopied, Proxy!EndsAfterCopies, Proxy!Init
<1>5. Proxy!FinFollows
  BY <1>3 DEF Proxy!FinFollows, Proxy!Tunnel, Proxy!End, Proxy!Init
<1> QED
  BY <1>1, <1>2, <1>4, <1>5 DEF Proxy!WholeInv

\* A one-shot server that cannot write ends at once.
LEMMA WholeFatal ==
  ASSUME Proxy!WholeInv, Proxy!Fatal, ~ Proxy!Peace, Proxy!Streams
  PROVE  Proxy!WholeInv'
  BY DEF Proxy!Fatal, Proxy!WholeInv, Proxy!TypeOK, Proxy!Carried, Proxy!Peace, Proxy!Gone,
     Proxy!Copies, Proxy!Tunnel, Proxy!Other, Proxy!End

\* A byte is copied, or the copy fails because its target is gone.
LEMMA WholeMoves ==
  ASSUME NEW e \in Proxy!End, Proxy!WholeInv, Proxy!CopyMoves(e)
  PROVE  Proxy!WholeInv'
<1>1. CASE x5[Proxy!Other(e)] = "closed" \/ Proxy!Gone(Proxy!Other(e))
  <2>1. ~ Proxy!Peace
    BY <1>1
       DEF Proxy!CopyMoves, Proxy!WholeInv, Proxy!Peace, Proxy!OpenWhileCopied, Proxy!End,
         Proxy!Other
  <2>2. CASE Proxy!Streams
    BY <1>1, <2>1, <2>2, WholeFatal DEF Proxy!CopyMoves
  <2>3. CASE ~ Proxy!Streams
    BY <1>1, <2>1, <2>3, WholeCopyDone DEF Proxy!CopyMoves
  <2> QED
    BY <2>2, <2>3
<1>2. CASE ~ (x5[Proxy!Other(e)] = "closed" \/ Proxy!Gone(Proxy!Other(e)))
  <2>1. /\ x6' = [x6 EXCEPT ![e].moved = @ + 1]
        /\ x4' = IF Proxy!Other(e) = Proxy!Tunnel THEN x4
                 ELSE [x4 EXCEPT ![Proxy!Other(e)].got = @ + 1]
        /\ UNCHANGED <<x1, x2, x3, x5, x7, x8, x9>>
    BY <1>2 DEF Proxy!CopyMoves
  <2>2. x6[e].moved < x4[e].sent /\ x6[e].state = "runs"
    BY DEF Proxy!CopyMoves
  <2>3. Proxy!TypeOK' /\ Proxy!Carried'
    BY <2>1, <2>2, ProxyConstants
       DEF Proxy!WholeInv, Proxy!TypeOK, Proxy!Carried, Proxy!Copies, Proxy!Tunnel, Proxy!End,
         Proxy!Other
  <2>4. \A i \in Proxy!End : x4'[i].state = x4[i].state /\ x4'[i].sent = x4[i].sent /\ x6'[i].state = x6[i].state
                              /\ (i # e => x6'[i].moved = x6[i].moved)
    BY <2>1
  <2>5. ASSUME Proxy!Peace' PROVE Proxy!Peace
    BY <2>1, <2>4, <2>5 DEF Proxy!Peace, Proxy!Gone, Proxy!End
  <2>6. ASSUME Proxy!Peace'
        PROVE  Proxy!CopiedWhole' /\ Proxy!OpenWhileCopied' /\ Proxy!EndsAfterCopies'
    BY <2>1, <2>2, <2>4, <2>5, <2>6
       DEF Proxy!WholeInv, Proxy!CopiedWhole, Proxy!OpenWhileCopied, Proxy!EndsAfterCopies,
         Proxy!Dialed, Proxy!Needs, Proxy!Tunnel, Proxy!Copies, Proxy!Streams
  <2>7. ASSUME Proxy!Peace' PROVE Proxy!FinFollows'
    <3>1. CASE e = Proxy!Tunnel
      <4>1. /\ x4'[Proxy!Tunnel].got = x4[Proxy!Tunnel].got
            /\ x6'[Proxy!Other(Proxy!Tunnel)].moved = x6[Proxy!Other(Proxy!Tunnel)].moved
        BY <2>1, <3>1 DEF Proxy!Tunnel, Proxy!Other
      <4> QED
        BY <2>1, <2>4, <2>5, <2>7, <4>1
           DEF Proxy!WholeInv, Proxy!FinFollows, Proxy!Dialed, Proxy!Tunnel, Proxy!Copies,
             Proxy!Streams, Proxy!Other, Proxy!End
    <3>2. CASE e # Proxy!Tunnel
      <4>1. e = Proxy!Other(Proxy!Tunnel) /\ e \in Proxy!Copies /\ Proxy!Dialed
        BY <2>2, <3>2
           DEF Proxy!WholeInv, Proxy!Carried, Proxy!Dialed, Proxy!Tunnel, Proxy!Other, Proxy!End
      <4>2. x7[Proxy!Tunnel] = "none"
        BY <2>2, <2>5, <2>7, <4>1 DEF Proxy!WholeInv, Proxy!FinFollows
      <4> QED
        BY <2>1, <2>2, <2>4, <2>5, <2>7, <4>1, <4>2
           DEF Proxy!WholeInv, Proxy!FinFollows, Proxy!Dialed, Proxy!Tunnel, Proxy!Copies,
             Proxy!Streams, Proxy!Other, Proxy!End
    <3> QED
      BY <3>1, <3>2
  <2> QED
    BY <2>3, <2>6, <2>7 DEF Proxy!WholeInv
<1> QED
  BY <1>1, <1>2

\* A copy reads the end of what its peer sends.
LEMMA WholeCopyEnds ==
  ASSUME NEW e \in Proxy!End, Proxy!WholeInv, Proxy!CopyEnds(e)
  PROVE  Proxy!WholeInv'
  BY WholeCopyDone
     DEF Proxy!CopyEnds, Proxy!WholeInv, Proxy!Peace, Proxy!OpenWhileCopied, Proxy!End

\* WholeInv says enough.
LEMMA WholeImplies == Proxy!WholeInv => Proxy!WholeBothWays
<1> SUFFICES ASSUME Proxy!WholeInv, Proxy!OverInPeace, x1 # "udp", x2 = "direct"
             PROVE  /\ x4[Proxy!Other(Proxy!Tunnel)].got = x4[Proxy!Tunnel].sent
                    /\ ~ x9 => /\ \A e \in Proxy!Copies : x4[Proxy!Other(e)].got = x4[e].sent
                               /\ x7[Proxy!Tunnel] = "come"
  BY DEF Proxy!WholeBothWays
<1>1. Proxy!Peace /\ Proxy!Dialed /\ x3 = "ended" /\ Proxy!Needs
  BY DEF Proxy!WholeInv, Proxy!OverInPeace, Proxy!Peace, Proxy!Dialed, Proxy!EndsAfterCopies
<1>2. x6[Proxy!Tunnel].state = "done" /\ Proxy!Tunnel \in Proxy!End
  BY <1>1 DEF Proxy!Needs, Proxy!Tunnel, Proxy!Copies, Proxy!End
<1>3. x4[Proxy!Other(Proxy!Tunnel)].got = x4[Proxy!Tunnel].sent
  BY <1>1, <1>2 DEF Proxy!WholeInv, Proxy!Carried, Proxy!CopiedWhole
<1>4. ASSUME ~ x9 PROVE x7[Proxy!Tunnel] = "come"
  BY <1>1, <1>4
     DEF Proxy!WholeInv, Proxy!EndsAfterCopies, Proxy!FinFollows, Proxy!Streams
<1>5. ASSUME ~ x9, NEW e \in Proxy!Copies, e # Proxy!Tunnel
      PROVE  x4[Proxy!Other(e)].got = x4[e].sent
  <2>1. e = Proxy!Other(Proxy!Tunnel) /\ Proxy!Tunnel = Proxy!Other(e) /\ e \in Proxy!End
    BY <1>5 DEF Proxy!Copies, Proxy!Tunnel, Proxy!Other, Proxy!End
  <2>2. x4[Proxy!Tunnel].got = x6[e].moved /\ x6[e].state = "done"
    BY <1>1, <1>4, <1>5, <2>1 DEF Proxy!WholeInv, Proxy!FinFollows
  <2> QED
    BY <1>1, <2>1, <2>2 DEF Proxy!WholeInv, Proxy!CopiedWhole
<1> QED
  BY <1>3, <1>4, <1>5

\* Every step of a carried connection keeps WholeInv.
LEMMA WholeStep ==
  ASSUME Proxy!WholeInv, Proxy!Next \/ UNCHANGED xs
  PROVE  Proxy!WholeInv'
<1>1. CASE UNCHANGED xs
  BY <1>1
     DEF xs, Proxy!WholeInv, Proxy!TypeOK, Proxy!Carried, Proxy!Peace, Proxy!CopiedWhole,
       Proxy!OpenWhileCopied, Proxy!EndsAfterCopies, Proxy!FinFollows, Proxy!Dialed,
       Proxy!Needs, Proxy!Gone, Proxy!Tunnel, Proxy!Copies, Proxy!Streams
<1> QED
  BY <1>1, WholeSends, WholeShuts, WholeLeaves, WholeFinComes, WholeDials, WholeCopiesEnd,
     WholeArrives, WholeCloses, WholeClosesLate, WholeClosed, WholeExits, WholeInterrupts,
     WholeMoves, WholeCopyEnds
     DEF Proxy!Next

-----------------------------------------------------------------------------
(* A command run for a client.  OutputInv relates what the command wrote to what    *)
(* waits in the pipe and what was sent, and the handles that are open to how far    *)
(* the start, and the end, have come.                                               *)

\* The order of the end: a ConPTY is closed after the wait and before the drain.
LEMMA CommandAfter ==
  /\ x1 = "conpty" => /\ Command!After("waits") = "closes" /\ Command!After("closes") = "drains"
                      /\ Command!After("drains") = "ended"
  /\ x1 # "conpty" => Command!After("drains") = "waits" /\ Command!After("waits") = "ended"
<1>1. CASE x1 = "conpty"
  <2>1. DOMAIN Command!Order = 1 .. 4
    BY <1>1 DEF Command!Order, Command!Phases
  <2>2. (CHOOSE i \in DOMAIN Command!Order : Command!Order[i] = "waits") = 1
    BY <1>1 DEF Command!Order, Command!Phases
  <2>3. (CHOOSE i \in DOMAIN Command!Order : Command!Order[i] = "closes") = 2
    BY DEF Command!Order, Command!Phases
  <2>4. (CHOOSE i \in DOMAIN Command!Order : Command!Order[i] = "drains") = 3
    BY <1>1 DEF Command!Order, Command!Phases
  <2> QED
    BY DEF Command!After, Command!Order, Command!Phases
<1>2. CASE x1 # "conpty"
  <2>2. (CHOOSE i \in DOMAIN Command!Order : Command!Order[i] = "drains") = 1
    BY <1>2 DEF Command!Order, Command!Phases
  <2>3. (CHOOSE i \in DOMAIN Command!Order : Command!Order[i] = "waits") = 2
    BY <1>2 DEF Command!Order, Command!Phases
  <2> QED
    BY DEF Command!After, Command!Order, Command!Phases
<1> QED
  BY <1>1, <1>2

\* What the steps of a start leave open, by the kind of the session.
LEMMA CommandStep ==
  ASSUME NEW i \in 1 .. 4, i <= Len(Command!Steps), x3 = Command!OpenBefore[i]
  PROVE  /\ Len(Command!Steps) \in 1 .. 4 /\ "winch" \notin x3
         /\ x3 \ Command!Steps[i].undoes = {}
         /\ i < Len(Command!Steps) =>
              (x3 \cup Command!Steps[i].opens) \ Command!Steps[i].closes = Command!OpenBefore[i + 1]
         /\ i = Len(Command!Steps) /\ x1 = "conpty" =>
              "hpc" \in (x3 \cup Command!Steps[i].opens) \ Command!Steps[i].closes
         /\ (x3 \cup Command!Steps[i].opens) \ Command!Steps[i].closes
              \subseteq {"ptmx", "tty", "winch", "inRead", "inWrite", "outRead", "outWrite", "hpc", "proc"}
<1>1. CASE x1 = "conpty"
  <2>1. i = 1 \/ i = 2 \/ i = 3 \/ i = 4
    OBVIOUS
  <2> QED
    BY <1>1 DEF Command!Steps, Command!ConPTY, Command!Step, Command!OpenBefore
<1>2. CASE x1 = "pty"
  <2>1. i = 1 \/ i = 2
    BY <1>2 DEF Command!Steps, Command!PTY
  <2> QED
    BY <1>2 DEF Command!Steps, Command!PTY, Command!Step, Command!OpenBefore
<1>3. CASE x1 \notin {"conpty", "pty"}
  <2>1. i = 1
    BY <1>3 DEF Command!Steps, Command!Pipes
  <2> QED
    BY <1>3 DEF Command!Steps, Command!Pipes, Command!Step, Command!OpenBefore
<1> QED
  BY <1>1, <1>2, <1>3

\* A step of the start is taken, is the last, or fails and undoes what was done.
LEMMA OutputStarts ==
  ASSUME NEW i \in 1 .. 4, Command!OutputInv, Command!Starts(i)
  PROVE  Command!OutputInv'
<1>1. /\ i <= Len(Command!Steps) /\ x3 = Command!OpenBefore[i]
      /\ x4 = {} /\ x6 = {} /\ x5.queued = 0 /\ x2 = <<"starts", i>>
      /\ UNCHANGED <<x1, x5, x7, x8>>
  BY DEF Command!Starts, Command!Starting, Command!OutputInv
<1>2. Command!Counted'
  BY <1>1 DEF Command!Counted, Command!OutputInv
<1>3. Command!Steps' = Command!Steps /\ Command!OpenBefore' = Command!OpenBefore /\ Command!Order[1] \in {"drains", "waits"}
      /\ (Command!Order[1] = "drains" <=> x1 # "conpty")
  BY <1>1 DEF Command!Steps, Command!OpenBefore, Command!Order, Command!Phases
<1>4. CASE i < Len(Command!Steps) /\ x2' = <<"starts", i + 1>> /\ UNCHANGED <<x4, x6>>
           /\ x3' = (x3 \cup Command!Steps[i].opens) \ Command!Steps[i].closes
  <2>4. \A n \in 1 .. 4 : i < n => i + 1 \in 1 .. 4
    OBVIOUS
  <2>1. i + 1 \in 1 .. 4
    BY <1>1, <1>4, <2>4, CommandStep
  <2>3. Command!TypeOK'
    BY <1>1, <1>4, <2>1, CommandStep DEF Command!TypeOK, Command!OutputInv
  <2>2. Command!Starting'
    BY <1>1, <1>3, <1>4, CommandStep DEF Command!Starting
  <2> QED
    BY <1>1, <1>2, <1>4, <2>2, <2>3
       DEF Command!CopiedToTheEnd, Command!Ordered, Command!OutputInv
<1>5. CASE i >= Len(Command!Steps) /\ x2' = <<Command!Order[1], 0>> /\ x4' = {"proc"} /\ x6' = {"in", "out"}
           /\ x3' = (x3 \cup Command!Steps[i].opens) \ Command!Steps[i].closes
  <2>1. Command!TypeOK'
    BY <1>1, <1>3, <1>5, CommandStep DEF Command!TypeOK, Command!OutputInv
  <2>2. Command!Starting'
    BY <1>3, <1>5 DEF Command!Starting
  <2>3. i = Len(Command!Steps)
    BY <1>1, <1>5
  <2>4. x1 = "conpty" => "hpc" \in x3'
    BY <1>1, <1>5, <2>3, CommandStep
  <2>5. Command!CopiedToTheEnd' /\ Command!Ordered'
    BY <1>1, <1>3, <1>5, <2>4 DEF Command!CopiedToTheEnd, Command!Ordered
  <2> QED
    BY <1>2, <2>1, <2>2, <2>5 DEF Command!OutputInv
<1>6. CASE x2' = <<"ended", 0>> /\ UNCHANGED <<x4, x6>> /\ x3' = x3 \ Command!Steps[i].undoes
  <2>1. Command!TypeOK'
    BY <1>1, <1>6 DEF Command!TypeOK, Command!OutputInv
  <2> QED
    BY <1>1, <1>2, <1>6, <2>1, CommandStep
       DEF Command!Starting, Command!CopiedToTheEnd, Command!Ordered, Command!OutputInv
<1> QED
  BY <1>4, <1>5, <1>6 DEF Command!Starts

\* At first nothing is open and nothing was written.
LEMMA OutputInit == Command!Init => Command!OutputInv
  BY CommandConstants
     DEF Command!Init, Command!OutputInv, Command!TypeOK, Command!Counted, Command!Starting,
       Command!CopiedToTheEnd, Command!Ordered, Command!OpenBefore, Command!Steps,
       Command!ConPTY, Command!PTY, Command!Pipes

\* The command writes into what has room.
LEMMA OutputWrites ==
  ASSUME Command!OutputInv, Command!Writes
  PROVE  Command!OutputInv'
<1>1. /\ x5' = [wrote |-> x5.wrote + 1, queued |-> x5.queued + 1, sent |-> x5.sent]
      /\ x5.queued < CommandRoom /\ x5.wrote < MaxOut /\ x4 # {}
      /\ UNCHANGED <<x1, x2, x3, x4, x6, x7, x8>>
  BY DEF Command!Writes, Command!TypeOK, Command!OutputInv
<1>2. Command!TypeOK'
  BY <1>1, CommandConstants DEF Command!TypeOK, Command!OutputInv
<1>3. Command!Counted'
  BY <1>1 DEF Command!TypeOK, Command!Counted, Command!OutputInv
<1> QED
  BY <1>1, <1>2, <1>3
     DEF Command!Starting, Command!CopiedToTheEnd, Command!Ordered, Command!OutputInv

\* Output goes to the client, or is lost because the client is gone.
LEMMA OutputCopiesOut ==
  ASSUME Command!OutputInv, Command!CopiesOut
  PROVE  Command!OutputInv'
<1>1. "out" \in x6 /\ x5.queued > 0 /\ UNCHANGED <<x1, x2, x3, x4, x7, x8>>
  BY DEF Command!CopiesOut
<1>2. x2[1] # "starts"
  BY <1>1 DEF Command!Starting, Command!OutputInv
<1>3. CASE x7 = "gone"
  <2>1. x5' = [wrote |-> x5.wrote, queued |-> x5.queued - 1, sent |-> x5.sent] /\ x6' = x6 \ {"out"}
    BY <1>3 DEF Command!CopiesOut, Command!TypeOK, Command!OutputInv
  <2>2. Command!TypeOK' /\ Command!Counted'
    BY <1>1, <1>3, <2>1, CommandConstants
       DEF Command!TypeOK, Command!Counted, Command!OutputInv
  <2> QED
    BY <1>1, <1>3, <2>2
       DEF Command!Starting, Command!CopiedToTheEnd, Command!Ordered, Command!OutputInv
<1>4. CASE x7 # "gone"
  <2>1. x5' = [wrote |-> x5.wrote, queued |-> x5.queued - 1, sent |-> x5.sent + 1] /\ x6' = x6
    BY <1>4 DEF Command!CopiesOut, Command!TypeOK, Command!OutputInv
  <2>2. Command!TypeOK' /\ Command!Counted'
    BY <1>1, <2>1, CommandConstants DEF Command!TypeOK, Command!Counted, Command!OutputInv
  <2> QED
    BY <1>1, <2>1, <2>2
       DEF Command!Starting, Command!CopiedToTheEnd, Command!Ordered, Command!OutputInv
<1> QED
  BY <1>3, <1>4

\* The command leaves a process behind that keeps its output open.
LEMMA OutputForks ==
  ASSUME Command!OutputInv, Command!Forks
  PROVE  Command!OutputInv'
<1>1. Command!Counted'
  BY DEF Command!Counted, Command!Forks, Command!OutputInv
<1>2. Command!TypeOK'
  BY DEF Command!TypeOK, Command!Forks, Command!OutputInv
<1>3. Command!Starting'
  BY DEF Command!Starting, Command!Forks, Command!OutputInv
<1>4. Command!CopiedToTheEnd'
  BY DEF Command!CopiedToTheEnd, Command!Forks, Command!OutputInv
<1>5. Command!Ordered'
  BY DEF Command!Ordered, Command!Forks, Command!OutputInv
<1> QED
  BY <1>1, <1>2, <1>3, <1>4, <1>5 DEF Command!OutputInv

\* A process exits.
LEMMA OutputExits ==
  ASSUME NEW w \in {"proc", "heir"}, Command!OutputInv, Command!Exits(w)
  PROVE  Command!OutputInv'
<1>1. Command!Counted'
  BY DEF Command!Counted, Command!Exits, Command!OutputInv
<1>2. Command!TypeOK'
  BY DEF Command!TypeOK, Command!Exits, Command!OutputInv
<1>3. Command!Starting'
  BY DEF Command!Starting, Command!Exits, Command!OutputInv
<1>4. Command!CopiedToTheEnd'
  BY DEF Command!CopiedToTheEnd, Command!Exits, Command!OutputInv
<1>5. Command!Ordered'
  BY DEF Command!Ordered, Command!Exits, Command!OutputInv
<1> QED
  BY <1>1, <1>2, <1>3, <1>4, <1>5 DEF Command!OutputInv

\* The client ends its input, or goes.
LEMMA OutputLeaves ==
  ASSUME NEW how \in {"eof", "gone"}, Command!OutputInv, Command!Leaves(how)
  PROVE  Command!OutputInv'
<1>1. Command!Counted'
  BY DEF Command!Counted, Command!Leaves, Command!OutputInv
<1>2. Command!TypeOK'
  BY DEF Command!TypeOK, Command!Leaves, Command!OutputInv
<1>3. Command!Starting'
  BY DEF Command!Starting, Command!Steps, Command!OpenBefore, Command!Leaves,
     Command!OutputInv
<1>4. Command!CopiedToTheEnd'
  BY DEF Command!CopiedToTheEnd, Command!Leaves, Command!OutputInv
<1>5. Command!Ordered'
  BY DEF Command!Ordered, Command!Leaves, Command!OutputInv
<1> QED
  BY <1>1, <1>2, <1>3, <1>4, <1>5 DEF Command!OutputInv

\* The client sends.
LEMMA OutputSends ==
  ASSUME Command!OutputInv, Command!Sends
  PROVE  Command!OutputInv'
<1>1. Command!Counted'
  BY DEF Command!Counted, Command!Sends, Command!InputEnds, Command!OutputInv
<1>2. Command!TypeOK'
  BY DEF Command!TypeOK, Command!Sends, Command!InputEnds, Command!OutputInv
<1>3. Command!Starting'
  BY DEF Command!Starting, Command!Sends, Command!InputEnds, Command!OutputInv
<1>4. Command!CopiedToTheEnd'
  BY DEF Command!CopiedToTheEnd, Command!Sends, Command!InputEnds, Command!OutputInv
<1>5. Command!Ordered'
  BY DEF Command!Ordered, Command!Sends, Command!InputEnds, Command!OutputInv
<1> QED
  BY <1>1, <1>2, <1>3, <1>4, <1>5 DEF Command!OutputInv

\* Input goes to the command, or there is no more.
LEMMA OutputCopiesIn ==
  ASSUME Command!OutputInv, Command!CopiesIn
  PROVE  Command!OutputInv'
<1>1. Command!Counted'
  BY DEF Command!Counted, Command!CopiesIn, Command!InputEnds, Command!OutputInv
<1>2. Command!TypeOK'
  BY DEF Command!TypeOK, Command!CopiesIn, Command!InputEnds, Command!OutputInv
<1>3. Command!Starting'
  BY DEF Command!Starting, Command!CopiesIn, Command!InputEnds, Command!OutputInv
<1>4. Command!CopiedToTheEnd'
  BY DEF Command!CopiedToTheEnd, Command!CopiesIn, Command!InputEnds, Command!OutputInv
<1>5. Command!Ordered'
  BY DEF Command!Ordered, Command!CopiesIn, Command!InputEnds, Command!OutputInv
<1> QED
  BY <1>1, <1>2, <1>3, <1>4, <1>5 DEF Command!OutputInv

\* The copy of the output ends when nobody can write any more and nothing is left.
LEMMA OutputOutputEnds ==
  ASSUME Command!OutputInv, Command!OutputEnds
  PROVE  Command!OutputInv'
<1>1. Command!Counted'
  BY DEF Command!Counted, Command!OutputEnds, Command!OutputInv
<1>2. Command!TypeOK'
  BY DEF Command!TypeOK, Command!OutputEnds, Command!OutputInv
<1>3. Command!Starting'
  BY DEF Command!Starting, Command!OutputEnds, Command!OutputInv
<1>4. Command!CopiedToTheEnd'
  BY DEF Command!TypeOK, Command!Starting, Command!CopiedToTheEnd, Command!Ordered,
     Command!OutputEnds, Command!OutputInv
<1>5. Command!Ordered'
  BY DEF Command!Ordered, Command!OutputEnds, Command!OutputInv
<1> QED
  BY <1>1, <1>2, <1>3, <1>4, <1>5 DEF Command!OutputInv

\* The handler has the whole output.
LEMMA OutputDrains ==
  ASSUME Command!OutputInv, Command!Drains
  PROVE  Command!OutputInv'
<1>1. Command!Counted'
  BY DEF Command!Counted, Command!Drains, Command!OutputInv
<1>2. Command!TypeOK'
  BY CommandAfter DEF Command!TypeOK, Command!Drains, Command!PhaseEnds, Command!OutputInv
<1>3. Command!Starting'
  BY CommandAfter DEF Command!Starting, Command!Drains, Command!PhaseEnds
<1>4. Command!CopiedToTheEnd'
  BY DEF Command!CopiedToTheEnd, Command!Drains, Command!OutputInv
<1>5. Command!Ordered'
  BY CommandAfter DEF Command!Ordered, Command!Drains, Command!Drained, Command!PhaseEnds
<1> QED
  BY <1>1, <1>2, <1>3, <1>4, <1>5 DEF Command!OutputInv

\* The handler has waited for the command.
LEMMA OutputWaits ==
  ASSUME Command!OutputInv, Command!Waits
  PROVE  Command!OutputInv'
<1>1. Command!Counted'
  BY DEF Command!TypeOK, Command!Counted, Command!Ordered, Command!CopiedToTheEnd,
     Command!Waits, Command!OutputInv
<1>2. Command!TypeOK'
  BY CommandConstants, CommandAfter
     DEF Command!TypeOK, Command!Waits, Command!PhaseEnds, Command!OutputInv
<1>3. Command!Starting'
  BY CommandAfter DEF Command!Starting, Command!Waits, Command!PhaseEnds
<1>4. Command!CopiedToTheEnd'
  BY DEF Command!TypeOK, Command!CopiedToTheEnd, Command!Ordered, Command!Waits,
     Command!OutputInv
<1>5. Command!Ordered'
  BY CommandAfter DEF Command!Ordered, Command!Waits, Command!PhaseEnds, Command!OutputInv
<1> QED
  BY <1>1, <1>2, <1>3, <1>4, <1>5 DEF Command!OutputInv

\* The pseudoconsole is closed.
LEMMA OutputClosesConsole ==
  ASSUME Command!OutputInv, Command!ClosesConsole
  PROVE  Command!OutputInv'
<1>1. Command!Counted'
  BY DEF Command!Counted, Command!ClosesConsole, Command!OutputInv
<1>2. Command!TypeOK'
  BY CommandAfter
     DEF Command!TypeOK, Command!Ordered, Command!ClosesConsole, Command!PhaseEnds,
       Command!OutputInv
<1>3. Command!Starting'
  BY CommandAfter
     DEF Command!Starting, Command!Ordered, Command!ClosesConsole, Command!PhaseEnds,
       Command!OutputInv
<1>4. Command!CopiedToTheEnd'
  BY DEF Command!CopiedToTheEnd, Command!ClosesConsole
<1>5. Command!Ordered'
  BY CommandAfter
     DEF Command!Ordered, Command!ClosesConsole, Command!PhaseEnds, Command!OutputInv
<1> QED
  BY <1>1, <1>2, <1>3, <1>4, <1>5 DEF Command!OutputInv

\* No more window sizes come.
LEMMA OutputWindowEnds ==
  ASSUME Command!OutputInv, Command!WindowEnds
  PROVE  Command!OutputInv'
<1>1. Command!Counted'
  BY DEF Command!Counted, Command!WindowEnds, Command!OutputInv
<1>2. Command!TypeOK'
  BY DEF Command!TypeOK, Command!WindowEnds, Command!OutputInv
<1>3. Command!Starting'
  BY DEF Command!Starting, Command!Steps, Command!OpenBefore, Command!WindowEnds,
     Command!OutputInv
<1>4. Command!CopiedToTheEnd'
  BY DEF Command!CopiedToTheEnd, Command!WindowEnds, Command!OutputInv
<1>5. Command!Ordered'
  BY DEF Command!Ordered, Command!WindowEnds, Command!OutputInv
<1> QED
  BY <1>1, <1>2, <1>3, <1>4, <1>5 DEF Command!OutputInv

\* Who sets window sizes returns.
LEMMA OutputWindowReturns ==
  ASSUME Command!OutputInv, Command!WindowReturns
  PROVE  Command!OutputInv'
<1>1. Command!Counted'
  BY DEF Command!Counted, Command!WindowReturns, Command!OutputInv
<1>2. Command!TypeOK'
  BY DEF Command!TypeOK, Command!WindowReturns, Command!OutputInv
<1>3. Command!Starting'
  BY CommandStep
     DEF Command!TypeOK, Command!Starting, Command!WindowReturns, Command!OutputInv
<1>4. Command!CopiedToTheEnd'
  BY DEF Command!CopiedToTheEnd, Command!WindowReturns, Command!OutputInv
<1>5. Command!Ordered'
  BY DEF Command!Ordered, Command!WindowReturns, Command!OutputInv
<1> QED
  BY <1>1, <1>2, <1>3, <1>4, <1>5 DEF Command!OutputInv

\* Every step of a served command keeps OutputInv.
LEMMA OutputStep ==
  ASSUME Command!OutputInv, Command!Next \/ UNCHANGED xs
  PROVE  Command!OutputInv'
<1>1. CASE UNCHANGED xs
  BY <1>1
     DEF xs, Command!OutputInv, Command!TypeOK, Command!Counted, Command!Starting,
       Command!Steps, Command!CopiedToTheEnd, Command!Ordered, Command!OpenBefore
<1> QED
  BY <1>1, OutputStarts, OutputWrites, OutputForks, OutputExits, OutputLeaves, OutputSends,
     OutputCopiesIn, OutputCopiesOut, OutputOutputEnds, OutputDrains, OutputWaits,
     OutputClosesConsole, OutputWindowEnds, OutputWindowReturns
     DEF Command!Next, Command!Copier, Command!Handler

\* OutputInv says enough.
LEMMA OutputImplies == Command!OutputInv => Command!WholeOutput
  BY DEF Command!OutputInv, Command!WholeOutput, Command!Ordered, Command!CopiedToTheEnd,
     Command!Counted, Command!TypeOK

-----------------------------------------------------------------------------
(* UDP over a proxy.  That flows share one probe is inductive with their types. *)

\* Where dialForwardUDP goes with a verdict.
LEMMA UdpFollows ==
  ASSUME NEW state
  PROVE  Udp!Follow(state) \in {"dials", "failed", "direct"}
  BY DEF Udp!Follow

\* A flow that goes somewhere else keeps the type of its record.
LEMMA UdpGoesTyped ==
  ASSUME Udp!TypeOK, NEW f \in UdpFlow,
         NEW pc \in {"new", "asks", "waits", "probes", "stuns", "dials",
                     "carried", "direct", "failed", "ended"},
         NEW c \in BOOLEAN
  PROVE  /\ [x5 EXCEPT ![f].pc = pc] \in [UdpFlow -> Udp!FlowState]
         /\ [x5 EXCEPT ![f].pc = pc, ![f].control = c] \in [UdpFlow -> Udp!FlowState]
<1>1. [x5[f] EXCEPT !.pc = pc] \in Udp!FlowState
  BY DEF Udp!TypeOK, Udp!FlowState
<1>2. ASSUME NEW r \in Udp!FlowState PROVE [r EXCEPT !.control = c] \in Udp!FlowState
  BY DEF Udp!FlowState
<1> DEFINE gone == [x5 EXCEPT ![f].pc = pc]
<1>3. gone \in [UdpFlow -> Udp!FlowState]
  BY <1>1 DEF Udp!TypeOK
<1>4. [gone EXCEPT ![f].control = c] \in [UdpFlow -> Udp!FlowState]
  BY <1>2, <1>3
<1>5. [x5 EXCEPT ![f].pc = pc, ![f].control = c] = [gone EXCEPT ![f].control = c]
  OBVIOUS
<1> QED
  BY <1>3, <1>4

\* The proxy is another.
LEMMA UdpProxyChanges ==
  ASSUME Udp!TypeOK, Udp!ProbeIsShared, Udp!ProxyChanges
  PROVE  Udp!TypeOK' /\ Udp!ProbeIsShared'
<1>1. x2' \in [kind : UdpKind, changes : 0 .. UdpChanges]
  BY UdpConstants DEF Udp!TypeOK, Udp!ProxyChanges
<1> QED
  BY <1>1 DEF Udp!TypeOK, Udp!ProbeIsShared, Udp!ProxyChanges, Udp!At

\* A flow starts.
LEMMA UdpStarts ==
  ASSUME NEW f \in UdpFlow, Udp!TypeOK, Udp!ProbeIsShared, Udp!Starts(f)
  PROVE  Udp!TypeOK' /\ Udp!ProbeIsShared'
<1>1. PICK pc \in {"asks", "direct", "dials", "failed"} : x5' = [x5 EXCEPT ![f].pc = pc]
  BY UdpFollows DEF Udp!Starts, Udp!Goes
<1>2. Udp!TypeOK'
  BY <1>1, UdpGoesTyped DEF Udp!TypeOK, Udp!Starts
<1> QED
  BY <1>1, <1>2 DEF Udp!ProbeIsShared, Udp!Starts, Udp!At

\* A flow that finds no verdict and no probe runs one.
LEMMA UdpAsks ==
  ASSUME NEW f \in UdpFlow, Udp!TypeOK, Udp!ProbeIsShared, Udp!Asks(f)
  PROVE  Udp!TypeOK' /\ Udp!ProbeIsShared'
<1>1. PICK pc \in {"waits", "probes", "direct", "dials", "failed"} :
        /\ x5' = [x5 EXCEPT ![f].pc = pc]
        /\ pc = "probes" => x4 = None /\ x4' = f
        /\ pc # "probes" => x4' = x4
        /\ pc = "waits" => x4 # None
  BY UdpFollows DEF Udp!Asks, Udp!Goes
<1>2. Udp!TypeOK'
  BY <1>1, UdpGoesTyped DEF Udp!TypeOK, Udp!Asks
<1>3. /\ x5[f].pc = "asks" /\ x5'[f].pc = pc
      /\ \A g \in UdpFlow \ {f} : x5'[g] = x5[g]
  BY <1>1 DEF Udp!TypeOK, Udp!Asks, Udp!At
<1>4. CASE pc = "probes"
  BY <1>1, <1>2, <1>3, <1>4, UdpConstants DEF Udp!ProbeIsShared
<1>5. CASE pc # "probes"
  BY <1>1, <1>2, <1>3, UdpConstants DEF Udp!ProbeIsShared, Udp!At
<1> QED
  BY <1>4, <1>5

\* A flow that waits gives up.
LEMMA UdpGivesUp ==
  ASSUME NEW f \in UdpFlow, Udp!TypeOK, Udp!ProbeIsShared, Udp!GivesUp(f)
  PROVE  Udp!TypeOK' /\ Udp!ProbeIsShared'
<1>1. PICK pc \in {"direct", "dials", "failed"} : x5' = [x5 EXCEPT ![f].pc = pc]
  BY UdpFollows DEF Udp!GivesUp, Udp!Goes
<1>2. Udp!TypeOK'
  BY <1>1, UdpGoesTyped DEF Udp!TypeOK, Udp!GivesUp
<1> QED
  BY <1>1, <1>2 DEF Udp!ProbeIsShared, Udp!GivesUp, Udp!At

\* The flow that runs the probe ends it: who waits asks again.
LEMMA UdpPublishes ==
  ASSUME NEW f \in UdpFlow, Udp!TypeOK, Udp!ProbeIsShared,
         NEW state \in {"unknown", "supported", "unsupported", "unavailable"},
         x5[f].pc \in {"probes", "stuns"}, Udp!Publishes(f, state)
  PROVE  Udp!TypeOK' /\ Udp!ProbeIsShared'
<1>1. PICK pc \in {"direct", "dials", "failed"} : pc = Udp!Follow(state)
  BY UdpFollows
<1>2. \A g \in UdpFlow :
        /\ [x5[f] EXCEPT !.pc = pc, !.control = FALSE] \in Udp!FlowState
        /\ [x5[g] EXCEPT !.pc = "asks"] \in Udp!FlowState /\ x5[g] \in Udp!FlowState
  <2> SUFFICES ASSUME NEW g \in UdpFlow
               PROVE  /\ [x5[f] EXCEPT !.pc = pc, !.control = FALSE] \in Udp!FlowState
                      /\ [x5[g] EXCEPT !.pc = "asks"] \in Udp!FlowState /\ x5[g] \in Udp!FlowState
    OBVIOUS
  <2>1. x5[f] \in Udp!FlowState /\ x5[g] \in Udp!FlowState
    BY DEF Udp!TypeOK
  <2> QED
    BY <2>1 DEF Udp!FlowState
<1>3. x5' \in [UdpFlow -> Udp!FlowState]
  BY <1>1, <1>2 DEF Udp!Publishes
<1>4. x3' \in [state : {"unknown", "supported", "unsupported", "unavailable"}, fails : 0 .. UdpThreshold - 1]
  BY UdpConstants DEF Udp!Publishes, Udp!Verdict
<1>5. Udp!TypeOK'
  BY <1>3, <1>4 DEF Udp!TypeOK, Udp!Publishes
<1>6. \A g \in UdpFlow : x5'[g].pc \notin {"probes", "stuns", "waits"}
  <2> SUFFICES ASSUME NEW g \in UdpFlow PROVE x5'[g].pc \notin {"probes", "stuns", "waits"}
    OBVIOUS
  <2>1. x5[f] \in Udp!FlowState /\ x5[g] \in Udp!FlowState
    BY DEF Udp!TypeOK
  <2>2. CASE g = f
    BY <1>1, <2>1, <2>2 DEF Udp!Publishes, Udp!FlowState
  <2>3. CASE g # f
    BY <2>3 DEF Udp!Publishes, Udp!At, Udp!ProbeIsShared
  <2> QED
    BY <2>2, <2>3
<1> QED
  BY <1>5, <1>6, UdpConstants DEF Udp!Publishes, Udp!ProbeIsShared, Udp!At

\* The probe goes on, or ends.
LEMMA UdpProbes ==
  ASSUME NEW f \in UdpFlow, Udp!TypeOK, Udp!ProbeIsShared, Udp!Probes(f)
  PROVE  Udp!TypeOK' /\ Udp!ProbeIsShared'
<1>1. CASE \E state \in {"unknown", "unsupported", "unavailable"} : Udp!Publishes(f, state)
  BY <1>1, UdpPublishes DEF Udp!Probes, Udp!At
<1>2. CASE /\ x5' = [x5 EXCEPT ![f].pc = "stuns", ![f].control = TRUE]
           /\ UNCHANGED <<x1, x2, x3, x4>>
  <2>1. Udp!TypeOK'
    BY <1>2, UdpGoesTyped DEF Udp!TypeOK
  <2> QED
    BY <1>2, <2>1 DEF Udp!TypeOK, Udp!ProbeIsShared, Udp!Probes, Udp!At
<1> QED
  BY <1>1, <1>2 DEF Udp!Probes

\* The probe ends.
LEMMA UdpStuns ==
  ASSUME NEW f \in UdpFlow, Udp!TypeOK, Udp!ProbeIsShared, Udp!Stuns(f)
  PROVE  Udp!TypeOK' /\ Udp!ProbeIsShared'
  BY UdpPublishes DEF Udp!Stuns, Udp!At

\* A flow dials, and its failure is noted.
LEMMA UdpDials ==
  ASSUME NEW f \in UdpFlow, Udp!TypeOK, Udp!ProbeIsShared, Udp!Dials(f)
  PROVE  Udp!TypeOK' /\ Udp!ProbeIsShared'
<1>1. PICK pc \in {"carried", "failed"}, c \in BOOLEAN :
        x5' = [x5 EXCEPT ![f].pc = pc, ![f].control = c]
  <2>1. PICK relayed \in BOOLEAN :
          LET outcome == Udp!Associate(x2.kind, f)
              carried == outcome = "associated" /\ relayed
          IN x5' = [x5 EXCEPT ![f].pc = IF carried THEN "carried" ELSE "failed",
                              ![f].control = carried \/ outcome \in {"refused", "failed"}]
    BY DEF Udp!Dials
  <2>2. PICK c \in BOOLEAN : c = ((Udp!Associate(x2.kind, f) = "associated" /\ relayed)
                                  \/ Udp!Associate(x2.kind, f) \in {"refused", "failed"})
    OBVIOUS
  <2> QED
    BY <2>1
<1>2. x3' \in [state : {"unknown", "supported", "unsupported", "unavailable"}, fails : 0 .. UdpThreshold - 1]
  <2>1. Udp!Noted \in [state : {"unknown", "supported", "unsupported", "unavailable"}, fails : 0 .. UdpThreshold - 1]
    BY UdpConstants DEF Udp!TypeOK, Udp!Noted, Udp!Verdict
  <2> QED
    BY <2>1 DEF Udp!Dials, Udp!TypeOK
<1>3. Udp!TypeOK'
  BY <1>1, <1>2, UdpGoesTyped DEF Udp!TypeOK, Udp!Dials
<1> QED
  BY <1>3 DEF Udp!TypeOK, Udp!ProbeIsShared, Udp!Dials, Udp!At

\* A datagram that was handed over is whole.
LEMMA UdpReads ==
  ASSUME NEW f \in UdpFlow, Udp!TypeOK, Udp!ProbeIsShared, Udp!Reads(f)
  PROVE  Udp!TypeOK' /\ Udp!ProbeIsShared'
<1>1. PICK d \in Udp!Datagram : /\ Udp!Takes(d)
        /\ x5' = [x5 EXCEPT ![f].read = IF d.frag THEN "cut" ELSE Udp!Taken(d)]
  BY DEF Udp!Reads
<1>2. Udp!LengthOf(d) \in Nat
  BY DEF Udp!LengthOf, Udp!HeaderLength, Udp!Datagram
<1>3. x5' = [x5 EXCEPT ![f].read = "whole"]
  <2>1. ~ d.frag /\ Udp!LengthOf(d) <= UdpRoom
    BY <1>1, <1>2, UdpConstants DEF Udp!Takes
  <2>2. (IF d.frag THEN "cut" ELSE Udp!Taken(d)) = "whole"
    BY <2>1 DEF Udp!Taken
  <2> QED
    BY <1>1, <2>2
<1>4. [x5[f] EXCEPT !.read = "whole"] \in Udp!FlowState
  BY DEF Udp!TypeOK, Udp!FlowState
<1>5. Udp!TypeOK'
  BY <1>3, <1>4 DEF Udp!TypeOK, Udp!Reads
<1> QED
  BY <1>5 DEF Udp!ProbeIsShared, Udp!Reads, Udp!At

\* A flow ends.
LEMMA UdpEnds ==
  ASSUME NEW f \in UdpFlow, Udp!TypeOK, Udp!ProbeIsShared, Udp!Ends(f)
  PROVE  Udp!TypeOK' /\ Udp!ProbeIsShared'
<1>1. Udp!TypeOK'
  BY UdpGoesTyped DEF Udp!TypeOK, Udp!Ends
<1> QED
  BY <1>1 DEF Udp!TypeOK, Udp!ProbeIsShared, Udp!Ends, Udp!At

\* At first nobody probes.
LEMMA UdpInit == Udp!Init => Udp!TypeOK /\ Udp!ProbeIsShared
<1> SUFFICES ASSUME Udp!Init PROVE Udp!TypeOK /\ Udp!ProbeIsShared
  OBVIOUS
<1>1. x3 \in [state : {"unknown", "supported", "unsupported", "unavailable"}, fails : 0 .. UdpThreshold - 1]
  BY UdpConstants DEF Udp!Init, Udp!Verdict
<1>2. x2 \in [kind : UdpKind, changes : 0 .. UdpChanges]
  BY UdpConstants DEF Udp!Init
<1>3. x5 \in [UdpFlow -> Udp!FlowState] /\ \A f \in UdpFlow : x5[f].pc = "new"
  BY DEF Udp!Init, Udp!FlowState
<1>4. Udp!TypeOK
  BY <1>1, <1>2, <1>3 DEF Udp!Init, Udp!TypeOK
<1> QED
  BY <1>4, UdpConstants DEF Udp!Init, Udp!ProbeIsShared, Udp!At

\* Every step keeps the types and the one probe.
LEMMA UdpStep ==
  ASSUME Udp!TypeOK, Udp!ProbeIsShared, Udp!Next \/ UNCHANGED xs
  PROVE  Udp!TypeOK' /\ Udp!ProbeIsShared'
<1>1. CASE UNCHANGED xs
  BY <1>1 DEF xs, Udp!TypeOK, Udp!ProbeIsShared, Udp!At
<1> QED
  BY <1>1, UdpProxyChanges, UdpStarts, UdpAsks, UdpGivesUp, UdpProbes, UdpStuns, UdpDials,
     UdpReads, UdpEnds
     DEF Udp!Next

-----------------------------------------------------------------------------
(* The bind to an interface.  GivenUpInv has the failures of the probe counted. *)

\* What is chosen is an interface, or none.
LEMMA EgressWinners == Egress!TypeOK /\ x1 # "off" => Egress!Winners \subseteq Iface \cup {None}
  BY EgressConstants DEF Egress!TypeOK, Egress!Winners, Egress!Candidates, Egress!Physical

\* The start of the engine leaves the binding as it is, or makes one.
LEMMA GivenUpAsks ==
  ASSUME Egress!GivenUpInv, Egress!Asks
  PROVE  Egress!GivenUpInv'
  BY DEF Egress!GivenUpInv, Egress!TypeOK, Egress!Asks

LEMMA GivenUpDisables ==
  ASSUME Egress!GivenUpInv, Egress!Disables
  PROVE  Egress!GivenUpInv'
  BY DEF Egress!GivenUpInv, Egress!TypeOK, Egress!Disables

LEMMA GivenUpMakes ==
  ASSUME Egress!GivenUpInv, Egress!Makes
  PROVE  Egress!GivenUpInv'
  BY DEF Egress!GivenUpInv, Egress!TypeOK, Egress!Makes, Egress!Bind

\* A probe that is answered, and one that is not.
LEMMA GivenUpConfirms ==
  ASSUME Egress!GivenUpInv, Egress!Confirms
  PROVE  Egress!GivenUpInv'
  BY EgressConstants DEF Egress!GivenUpInv, Egress!TypeOK, Egress!Confirms, Egress!Bound

LEMMA GivenUpDoubts ==
  ASSUME Egress!GivenUpInv, Egress!Doubts
  PROVE  Egress!GivenUpInv'
  BY EgressConstants DEF Egress!GivenUpInv, Egress!TypeOK, Egress!Doubts

LEMMA GivenUpRetries ==
  ASSUME Egress!GivenUpInv, Egress!Retries
  PROVE  Egress!GivenUpInv'
  BY DEF Egress!GivenUpInv, Egress!TypeOK, Egress!Retries

\* The monitor switches.
LEMMA GivenUpSwitches ==
  ASSUME Egress!GivenUpInv, Egress!Switches
  PROVE  Egress!GivenUpInv'
  BY DEF Egress!GivenUpInv, Egress!TypeOK, Egress!Switches, Egress!Switch, Egress!Rebind,
     Egress!Bind

LEMMA GivenUpDwellEnds ==
  ASSUME Egress!GivenUpInv, Egress!DwellEnds
  PROVE  Egress!GivenUpInv'
  BY DEF Egress!GivenUpInv, Egress!TypeOK, Egress!DwellEnds

LEMMA GivenUpNetworkChanges ==
  ASSUME Egress!GivenUpInv, Egress!NetworkChanges
  PROVE  Egress!GivenUpInv'
  BY EgressConstants DEF Egress!GivenUpInv, Egress!TypeOK, Egress!NetworkChanges

\* The first choice.
LEMMA GivenUpEvaluates ==
  ASSUME Egress!GivenUpInv, Egress!Evaluates
  PROVE  Egress!GivenUpInv'
<1>1. CASE x1 = "off"
  BY <1>1 DEF Egress!Evaluates, Egress!TypeOK, Egress!GivenUpInv
<1>2. CASE x1 # "off"
  <2>1. PICK w \in Egress!Winners :
          /\ x4' = IF w = None THEN x4 ELSE Egress!Bound(w)
          /\ x5' = IF w = None THEN x5 ELSE [enabled |-> TRUE, pin |-> w]
          /\ x7' = "asks" /\ x8' = "waits" /\ UNCHANGED <<x1, x2, x3, x6, x9>>
    BY <1>2 DEF Egress!Evaluates
  <2>2. w \in Iface \cup {None}
    BY <1>2, EgressWinners DEF Egress!GivenUpInv
  <2> QED
    BY <1>2, <2>1, <2>2, EgressConstants DEF Egress!TypeOK, Egress!Bound, Egress!GivenUpInv
<1> QED
  BY <1>1, <1>2

\* A later choice: an interface is given up only after its failures were counted.
LEMMA GivenUpChooses ==
  ASSUME Egress!GivenUpInv, Egress!Chooses
  PROVE  Egress!GivenUpInv'
<1>1. PICK w \in Egress!Winners :
        /\ Egress!Decide(w)
        /\ x8' = IF w = x4.ifc THEN "waits" ELSE "switches"
        /\ x9' = IF w = x4.ifc THEN x9 ELSE 0
        /\ UNCHANGED <<x1, x2, x3, x6, x7>>
  BY DEF Egress!Chooses
<1>2. x8 = "evaluates" /\ x1 # "off" /\ w \in Iface \cup {None}
  BY EgressWinners DEF Egress!Chooses, Egress!GivenUpInv
<1>3. CASE w = x4.ifc
  BY <1>1, <1>2, <1>3 DEF Egress!TypeOK, Egress!Decide, Egress!GivenUpInv
<1>4. CASE w # x4.ifc
  <2>1. /\ x4' = [ifc |-> w, sticky |-> TRUE, fails |-> 0]
        /\ x5' = IF w = None THEN x5 ELSE [x5 EXCEPT !.pin = w]
    BY <1>1, <1>4 DEF Egress!Decide, Egress!Bound
  <2>2. x5' \in [enabled : BOOLEAN, pin : Iface \cup {None}]
    BY <1>2, <2>1 DEF Egress!TypeOK, Egress!GivenUpInv
  <2> QED
    BY <1>1, <1>2, <2>1, EgressConstants DEF Egress!TypeOK, Egress!GivenUpInv
<1> QED
  BY <1>3, <1>4

\* At first nothing is bound.
LEMMA GivenUpInit == Egress!Init => Egress!GivenUpInv
  BY EgressConstants DEF Egress!Init, Egress!GivenUpInv, Egress!TypeOK

\* Every step keeps GivenUpInv.
LEMMA GivenUpStep ==
  ASSUME Egress!GivenUpInv, Egress!Next \/ UNCHANGED xs
  PROVE  Egress!GivenUpInv'
<1>1. CASE UNCHANGED xs
  BY <1>1 DEF xs, Egress!GivenUpInv, Egress!TypeOK
<1> QED
  BY <1>1, GivenUpEvaluates, GivenUpAsks, GivenUpDisables, GivenUpMakes, GivenUpConfirms,
     GivenUpDoubts, GivenUpRetries, GivenUpChooses, GivenUpSwitches, GivenUpDwellEnds,
     GivenUpNetworkChanges
     DEF Egress!Next

\* No step gives up a binding before its probes failed.
LEMMA GivenUpOnly ==
  ASSUME Egress!GivenUpInv, Egress!Next \/ UNCHANGED xs
  PROVE  Egress!GivenUpOnlyAfter
<1>1. CASE Egress!Evaluates
  BY <1>1 DEF Egress!Evaluates, Egress!GivenUpInv, Egress!GivenUpOnlyAfter
<1>2. CASE Egress!Chooses
  BY <1>2, EgressConstants
     DEF Egress!Chooses, Egress!GivenUpInv, Egress!TypeOK, Egress!GivenUpOnlyAfter
<1>3. CASE ~ Egress!Evaluates /\ ~ Egress!Chooses
  <2>1. x4'.ifc = x4.ifc
    BY <1>3
       DEF Egress!Next, xs, Egress!Asks, Egress!Disables, Egress!Makes, Egress!Confirms,
         Egress!Doubts, Egress!Retries, Egress!Switches, Egress!DwellEnds,
         Egress!NetworkChanges, Egress!Bound, Egress!GivenUpInv, Egress!TypeOK
  <2> QED
    BY <2>1 DEF Egress!GivenUpOnlyAfter
<1> QED
  BY <1>1, <1>2, <1>3

-----------------------------------------------------------------------------
(* The map of relays.  MapInv says that what fetchers ask with and store is whole, *)
(* and that in memory a copy and its ETag are one.                                *)

\* A fetcher has read a copy.
LEMMA MapReads ==
  ASSUME NEW f \in MapFetcher, Map!TypeOK,
         NEW d \in Map!Version \cup {Map!Torn, None}
  PROVE  [x5 EXCEPT ![f].pc = "tags", ![f].data = d] \in [MapFetcher -> Map!Fetch]
<1>1. [x5[f] EXCEPT !.pc = "tags", !.data = d] \in Map!Fetch
  BY DEF Map!TypeOK, Map!Fetch
<1> QED
  BY <1>1 DEF Map!TypeOK

\* A fetch returns.
LEMMA MapReturns ==
  ASSUME NEW f \in MapFetcher, Map!TypeOK,
         NEW r \in Map!Version \cup {None}
  PROVE  [x5 EXCEPT ![f].pc = "done", ![f].result = r] \in [MapFetcher -> Map!Fetch]
<1>1. [x5[f] EXCEPT !.pc = "done", !.result = r] \in Map!Fetch
  BY DEF Map!TypeOK, Map!Fetch
<1> QED
  BY <1>1 DEF Map!TypeOK

LEMMA MapsGets ==
  ASSUME NEW f \in MapFetcher, Map!MapInv, Map!Gets(f)
  PROVE  Map!MapInv'
<1>1. x1' \in MapBackend /\ x2' \in Map!Version /\ x4' \in 0 .. MaxAges
  BY DEF Map!TypeOK, Map!Gets, Map!MapInv
<1>2. x3' \in [data : Map!Version \cup {Map!Torn, None}, etag : Map!Version \cup {None},
              fresh : BOOLEAN]
  BY DEF Map!TypeOK, Map!Gets, Map!MapInv
<1>3. x5' \in [MapFetcher -> Map!Fetch]
  BY DEF Map!TypeOK, Map!Gets, Map!With, Map!Returns, Map!MapInv, Map!Fetch
<1>4. Map!WholeCopies'
  BY MapConstants
     DEF Map!TypeOK, Map!WholeCopies, Map!Gets, Map!With, Map!Returns, Map!Decodes,
       Map!MapInv, Map!Version, Map!Fetch
<1>5. x1 = "memory" => Map!OneInMemory'
  BY DEF Map!TypeOK, Map!OneInMemory, Map!Gets, Map!With, Map!Returns, Map!MapInv, Map!Fetch
<1>6. x1 = "memory" => Map!ConfirmedIsCurrent'
  BY DEF Map!TypeOK, Map!OneInMemory, Map!ConfirmedIsCurrent, Map!Gets, Map!With,
     Map!Returns, Map!MapInv, Map!Fetch
<1>7. x1' = x1
  BY DEF Map!Gets
<1> QED
  BY <1>1, <1>2, <1>3, <1>4, <1>5, <1>6, <1>7 DEF Map!TypeOK, Map!MapInv

LEMMA MapsStats ==
  ASSUME NEW f \in MapFetcher, Map!MapInv, Map!Stats(f)
  PROVE  Map!MapInv'
<1>1. x1' \in MapBackend /\ x2' \in Map!Version /\ x4' \in 0 .. MaxAges
  BY DEF Map!TypeOK, Map!Stats, Map!MapInv
<1>2. x3' \in [data : Map!Version \cup {Map!Torn, None}, etag : Map!Version \cup {None},
              fresh : BOOLEAN]
  BY DEF Map!TypeOK, Map!Stats, Map!MapInv
<1>3. x5' \in [MapFetcher -> Map!Fetch]
  BY DEF Map!TypeOK, Map!Stats, Map!With, Map!MapInv, Map!Fetch
<1>4. Map!WholeCopies'
  BY DEF Map!TypeOK, Map!WholeCopies, Map!Stats, Map!With, Map!MapInv, Map!Fetch
<1>5. x1 = "memory" => Map!OneInMemory'
  BY DEF Map!Stats
<1>6. x1 = "memory" => Map!ConfirmedIsCurrent'
  BY DEF Map!Stats
<1>7. x1' = x1
  BY DEF Map!Stats
<1> QED
  BY <1>1, <1>2, <1>3, <1>4, <1>5, <1>6, <1>7 DEF Map!TypeOK, Map!MapInv

LEMMA MapsReads ==
  ASSUME NEW f \in MapFetcher, Map!MapInv, Map!Reads(f)
  PROVE  Map!MapInv'
<1>1. x1' \in MapBackend /\ x2' \in Map!Version /\ x4' \in 0 .. MaxAges
  BY DEF Map!TypeOK, Map!Reads, Map!MapInv
<1>2. x3' \in [data : Map!Version \cup {Map!Torn, None}, etag : Map!Version \cup {None},
              fresh : BOOLEAN]
  BY DEF Map!TypeOK, Map!Reads, Map!MapInv
<1>3. x5' \in [MapFetcher -> Map!Fetch]
  BY MapReads DEF Map!TypeOK, Map!Reads, Map!MapInv
<1>4. Map!WholeCopies'
  BY DEF Map!TypeOK, Map!WholeCopies, Map!Reads, Map!MapInv
<1>5. x1 = "memory" => Map!OneInMemory'
  BY DEF Map!OneInMemory, Map!Reads, Map!MapInv
<1>6. x1 = "memory" => Map!ConfirmedIsCurrent'
  BY DEF Map!OneInMemory, Map!Reads, Map!MapInv
<1>7. x1' = x1
  BY DEF Map!Reads
<1> QED
  BY <1>1, <1>2, <1>3, <1>4, <1>5, <1>6, <1>7 DEF Map!TypeOK, Map!MapInv

LEMMA MapsReadsTag ==
  ASSUME NEW f \in MapFetcher, Map!MapInv, Map!ReadsTag(f)
  PROVE  Map!MapInv'
<1>1. x1' \in MapBackend /\ x2' \in Map!Version /\ x4' \in 0 .. MaxAges
  BY DEF Map!TypeOK, Map!ReadsTag, Map!MapInv
<1>2. x3' \in [data : Map!Version \cup {Map!Torn, None}, etag : Map!Version \cup {None},
              fresh : BOOLEAN]
  BY DEF Map!TypeOK, Map!ReadsTag, Map!MapInv
<1>3. x5' \in [MapFetcher -> Map!Fetch]
  BY DEF Map!TypeOK, Map!ReadsTag, Map!With, Map!Returns, Map!Decodes, Map!MapInv, Map!Fetch
<1>4. Map!WholeCopies'
  BY MapConstants
     DEF Map!TypeOK, Map!WholeCopies, Map!ReadsTag, Map!With, Map!Returns, Map!Decodes,
       Map!MapInv, Map!Version, Map!Fetch
<1>5. x1 = "memory" => Map!OneInMemory'
  BY DEF Map!OneInMemory, Map!ReadsTag, Map!MapInv
<1>6. x1 = "memory" => Map!ConfirmedIsCurrent'
  BY DEF Map!OneInMemory, Map!ReadsTag, Map!MapInv
<1>7. x1' = x1
  BY DEF Map!ReadsTag
<1> QED
  BY <1>1, <1>2, <1>3, <1>4, <1>5, <1>6, <1>7 DEF Map!TypeOK, Map!MapInv

LEMMA MapsAnswers ==
  ASSUME NEW f \in MapFetcher, Map!MapInv, Map!Answers(f)
  PROVE  Map!MapInv'
<1>1. x1' \in MapBackend /\ x2' \in Map!Version /\ x4' \in 0 .. MaxAges
  BY DEF Map!TypeOK, Map!Answers, Map!MapInv
<1>2. x3' \in [data : Map!Version \cup {Map!Torn, None}, etag : Map!Version \cup {None},
              fresh : BOOLEAN]
  BY DEF Map!TypeOK, Map!Answers, Map!MapInv
<1>3. x5' \in [MapFetcher -> Map!Fetch]
  BY DEF Map!TypeOK, Map!Answers, Map!Returns, Map!MapInv, Map!Fetch
<1>4. Map!WholeCopies'
  BY DEF Map!TypeOK, Map!WholeCopies, Map!Answers, Map!Returns, Map!MapInv, Map!Fetch
<1>5. x1 = "memory" => Map!OneInMemory'
  BY DEF Map!TypeOK, Map!OneInMemory, Map!Answers, Map!Returns, Map!MapInv, Map!Fetch
<1>6. x1 = "memory" => Map!ConfirmedIsCurrent'
  BY DEF Map!TypeOK, Map!OneInMemory, Map!ConfirmedIsCurrent, Map!Answers, Map!Returns,
     Map!MapInv, Map!Fetch
<1>7. x1' = x1
  BY DEF Map!Answers
<1> QED
  BY <1>1, <1>2, <1>3, <1>4, <1>5, <1>6, <1>7 DEF Map!TypeOK, Map!MapInv

LEMMA MapsPuts ==
  ASSUME NEW f \in MapFetcher, Map!MapInv, Map!Puts(f)
  PROVE  Map!MapInv'
<1>1. x1' \in MapBackend /\ x2' \in Map!Version /\ x4' \in 0 .. MaxAges
  BY DEF Map!TypeOK, Map!Puts, Map!MapInv
<1>2. x3' \in [data : Map!Version \cup {Map!Torn, None}, etag : Map!Version \cup {None},
              fresh : BOOLEAN]
  BY DEF Map!TypeOK, Map!Puts, Map!MapInv, Map!Fetch
<1>3. x5' \in [MapFetcher -> Map!Fetch]
  BY MapReturns DEF Map!WholeCopies, Map!Puts, Map!Returns, Map!MapInv
<1>4. Map!WholeCopies'
  BY DEF Map!TypeOK, Map!WholeCopies, Map!Puts, Map!Returns, Map!MapInv, Map!Fetch
<1>5. x1 = "memory" => Map!OneInMemory'
  BY DEF Map!TypeOK, Map!OneInMemory, Map!Puts, Map!Returns, Map!MapInv
<1>6. x1 = "memory" => Map!ConfirmedIsCurrent'
  BY DEF Map!TypeOK, Map!OneInMemory, Map!ConfirmedIsCurrent, Map!Puts, Map!Returns,
     Map!MapInv
<1>7. x1' = x1
  BY DEF Map!Puts
<1> QED
  BY <1>1, <1>2, <1>3, <1>4, <1>5, <1>6, <1>7 DEF Map!TypeOK, Map!MapInv

LEMMA MapsCuts ==
  ASSUME NEW f \in MapFetcher, Map!MapInv, Map!Cuts(f)
  PROVE  Map!MapInv'
<1>1. x1' \in MapBackend /\ x2' \in Map!Version /\ x4' \in 0 .. MaxAges
  BY DEF Map!TypeOK, Map!Cuts, Map!MapInv
<1>2. x3' \in [data : Map!Version \cup {Map!Torn, None}, etag : Map!Version \cup {None},
              fresh : BOOLEAN]
  BY DEF Map!TypeOK, Map!Cuts, Map!MapInv
<1>3. x5' \in [MapFetcher -> Map!Fetch]
  BY DEF Map!TypeOK, Map!Cuts, Map!Returns, Map!Stays, Map!MapInv, Map!Fetch
<1>4. Map!WholeCopies'
  BY DEF Map!TypeOK, Map!WholeCopies, Map!Cuts, Map!Returns, Map!Stays, Map!MapInv,
     Map!Fetch
<1>5. x1 = "memory" => Map!OneInMemory'
  BY DEF Map!Cuts
<1>6. x1 = "memory" => Map!ConfirmedIsCurrent'
  BY DEF Map!Cuts
<1>7. x1' = x1
  BY DEF Map!Cuts
<1> QED
  BY <1>1, <1>2, <1>3, <1>4, <1>5, <1>6, <1>7 DEF Map!TypeOK, Map!MapInv

LEMMA MapsWrites ==
  ASSUME NEW f \in MapFetcher, Map!MapInv, Map!Writes(f)
  PROVE  Map!MapInv'
<1>1. x1' \in MapBackend /\ x2' \in Map!Version /\ x4' \in 0 .. MaxAges
  BY DEF Map!TypeOK, Map!Writes, Map!MapInv
<1>2. x3' \in [data : Map!Version \cup {Map!Torn, None}, etag : Map!Version \cup {None},
              fresh : BOOLEAN]
  BY DEF Map!TypeOK, Map!Writes, Map!MapInv, Map!Fetch
<1>3. x5' \in [MapFetcher -> Map!Fetch]
  BY DEF Map!TypeOK, Map!Writes, Map!Returns, Map!Stays, Map!MapInv, Map!Fetch
<1>4. Map!WholeCopies'
  BY DEF Map!TypeOK, Map!WholeCopies, Map!Writes, Map!Returns, Map!Stays, Map!MapInv,
     Map!Fetch
<1>5. x1 = "memory" => Map!OneInMemory'
  BY DEF Map!OneInMemory, Map!Writes, Map!MapInv
<1>6. x1 = "memory" => Map!ConfirmedIsCurrent'
  BY DEF Map!OneInMemory, Map!Writes, Map!MapInv
<1>7. x1' = x1
  BY DEF Map!Writes
<1> QED
  BY <1>1, <1>2, <1>3, <1>4, <1>5, <1>6, <1>7 DEF Map!TypeOK, Map!MapInv

LEMMA MapsWritesTag ==
  ASSUME NEW f \in MapFetcher, Map!MapInv, Map!WritesTag(f)
  PROVE  Map!MapInv'
<1>1. x1' \in MapBackend /\ x2' \in Map!Version /\ x4' \in 0 .. MaxAges
  BY DEF Map!TypeOK, Map!WritesTag, Map!MapInv
<1>2. x3' \in [data : Map!Version \cup {Map!Torn, None}, etag : Map!Version \cup {None},
              fresh : BOOLEAN]
  BY DEF Map!TypeOK, Map!WritesTag, Map!MapInv, Map!Fetch
<1>3. x5' \in [MapFetcher -> Map!Fetch]
  BY MapReturns DEF Map!WholeCopies, Map!WritesTag, Map!Returns, Map!MapInv
<1>4. Map!WholeCopies'
  BY DEF Map!TypeOK, Map!WholeCopies, Map!WritesTag, Map!Returns, Map!MapInv, Map!Fetch
<1>5. x1 = "memory" => Map!OneInMemory'
  BY DEF Map!OneInMemory, Map!WritesTag, Map!MapInv
<1>6. x1 = "memory" => Map!ConfirmedIsCurrent'
  BY DEF Map!OneInMemory, Map!WritesTag, Map!MapInv
<1>7. x1' = x1
  BY DEF Map!WritesTag
<1> QED
  BY <1>1, <1>2, <1>3, <1>4, <1>5, <1>6, <1>7 DEF Map!TypeOK, Map!MapInv

LEMMA MapsDies ==
  ASSUME NEW f \in MapFetcher, Map!MapInv, Map!Dies(f)
  PROVE  Map!MapInv'
<1>1. x1' \in MapBackend /\ x2' \in Map!Version /\ x4' \in 0 .. MaxAges
  BY DEF Map!TypeOK, Map!Dies, Map!MapInv
<1>2. x3' \in [data : Map!Version \cup {Map!Torn, None}, etag : Map!Version \cup {None},
              fresh : BOOLEAN]
  BY DEF Map!TypeOK, Map!Dies, Map!MapInv
<1>3. x5' \in [MapFetcher -> Map!Fetch]
  BY MapReturns DEF Map!Dies, Map!Returns, Map!MapInv
<1>4. Map!WholeCopies'
  BY DEF Map!TypeOK, Map!WholeCopies, Map!Dies, Map!Returns, Map!MapInv, Map!Fetch
<1>5. x1 = "memory" => Map!OneInMemory'
  BY DEF Map!Dies
<1>6. x1 = "memory" => Map!ConfirmedIsCurrent'
  BY DEF Map!Dies
<1>7. x1' = x1
  BY DEF Map!Dies
<1> QED
  BY <1>1, <1>2, <1>3, <1>4, <1>5, <1>6, <1>7 DEF Map!TypeOK, Map!MapInv

LEMMA MapsPublishes ==
  ASSUME Map!MapInv, Map!Publishes
  PROVE  Map!MapInv'
<1>1. x1' \in MapBackend /\ x2' \in Map!Version /\ x4' \in 0 .. MaxAges
  BY MapConstants DEF Map!TypeOK, Map!Publishes, Map!MapInv, Map!Version
<1>2. x3' \in [data : Map!Version \cup {Map!Torn, None}, etag : Map!Version \cup {None},
              fresh : BOOLEAN]
  BY DEF Map!TypeOK, Map!Publishes, Map!MapInv
<1>3. x5' \in [MapFetcher -> Map!Fetch]
  BY DEF Map!TypeOK, Map!Publishes, Map!MapInv
<1>4. Map!WholeCopies'
  BY DEF Map!WholeCopies, Map!Publishes, Map!MapInv
<1>5. x1 = "memory" => Map!OneInMemory'
  BY DEF Map!OneInMemory, Map!Publishes, Map!MapInv
<1>6. x1 = "memory" => Map!ConfirmedIsCurrent'
  BY DEF Map!ConfirmedIsCurrent, Map!Publishes, Map!MapInv
<1>7. x1' = x1
  BY DEF Map!Publishes
<1> QED
  BY <1>1, <1>2, <1>3, <1>4, <1>5, <1>6, <1>7 DEF Map!TypeOK, Map!MapInv

LEMMA MapsGrowsOld ==
  ASSUME Map!MapInv, Map!GrowsOld
  PROVE  Map!MapInv'
<1>1. x1' \in MapBackend /\ x2' \in Map!Version /\ x4' \in 0 .. MaxAges
  BY MapConstants DEF Map!TypeOK, Map!GrowsOld, Map!MapInv
<1>2. x3' \in [data : Map!Version \cup {Map!Torn, None}, etag : Map!Version \cup {None},
              fresh : BOOLEAN]
  BY DEF Map!TypeOK, Map!GrowsOld, Map!MapInv
<1>3. x5' \in [MapFetcher -> Map!Fetch]
  BY DEF Map!TypeOK, Map!GrowsOld, Map!MapInv
<1>4. Map!WholeCopies'
  BY DEF Map!WholeCopies, Map!GrowsOld, Map!MapInv
<1>5. x1 = "memory" => Map!OneInMemory'
  BY DEF Map!OneInMemory, Map!GrowsOld, Map!MapInv
<1>6. x1 = "memory" => Map!ConfirmedIsCurrent'
  BY DEF Map!ConfirmedIsCurrent, Map!GrowsOld, Map!MapInv
<1>7. x1' = x1
  BY DEF Map!GrowsOld
<1> QED
  BY <1>1, <1>2, <1>3, <1>4, <1>5, <1>6, <1>7 DEF Map!TypeOK, Map!MapInv

\* The cache is empty, or has the first map.
LEMMA MapsInit == Map!Init => Map!MapInv
<1> SUFFICES ASSUME Map!Init PROVE Map!MapInv
  OBVIOUS
<1>1. 1 \in Map!Version /\ 0 \in 0 .. MaxAges
  BY MapConstants DEF Map!Version
<1>2. x3 \in [data : Map!Version \cup {Map!Torn, None}, etag : Map!Version \cup {None}, fresh : BOOLEAN]
  <2>1. CASE x3 = [data |-> None, etag |-> None, fresh |-> FALSE]
    BY <2>1
  <2>2. CASE x3 = [data |-> 1, etag |-> 1, fresh |-> TRUE]
    BY <1>1, <2>2
  <2> QED
    BY <2>1, <2>2 DEF Map!Init
<1>3. x5 \in [MapFetcher -> Map!Fetch]
  BY DEF Map!Fetch, Map!Init
<1>4. Map!TypeOK
  BY <1>1, <1>2, <1>3 DEF Map!TypeOK, Map!Init
<1>5. Map!WholeCopies
  BY MapConstants DEF Map!WholeCopies, Map!Init, Map!Torn
<1>6. Map!OneInMemory /\ Map!ConfirmedIsCurrent
  BY DEF Map!OneInMemory, Map!ConfirmedIsCurrent, Map!Init
<1> QED
  BY <1>4, <1>5, <1>6 DEF Map!MapInv

\* Every step keeps MapInv.
LEMMA MapsStep ==
  ASSUME Map!MapInv, Map!Next \/ UNCHANGED xs
  PROVE  Map!MapInv'
<1>1. CASE UNCHANGED xs
  BY <1>1
     DEF xs, Map!MapInv, Map!TypeOK, Map!WholeCopies, Map!OneInMemory,
       Map!ConfirmedIsCurrent
<1> QED
  BY <1>1, MapsGets, MapsStats, MapsReads, MapsReadsTag, MapsAnswers, MapsPuts, MapsCuts,
     MapsWrites, MapsWritesTag, MapsDies, MapsPublishes, MapsGrowsOld
     DEF Map!Next

\* MapInv says enough.
LEMMA MapsImplies == Map!MapInv => Map!MapsAreWhole
  BY DEF Map!MapInv, Map!WholeCopies, Map!MapsAreWhole

-----------------------------------------------------------------------------
(* The file service.  BoxInv says that in a drop box a session writes only where    *)
(* it made the file, and that where a flat one remembers a file there is that or     *)
(* none.                                                                             *)

\* Who touches its own file marks nothing.
LEMMA BoxTouchedBy ==
  ASSUME NEW s, NEW o \in DOMAIN x3, x3 \in Seq(Box!Object)
  PROVE  /\ Box!TouchedBy(s, o) \in Seq(Box!Object)
         /\ Len(Box!TouchedBy(s, o)) = Len(x3)
         /\ \A i \in DOMAIN x3 : /\ Box!TouchedBy(s, o)[i].by = x3[i].by
                                /\ Box!TouchedBy(s, o)[i].kind = x3[i].kind
         /\ x3[o].by = s =>
              \A i \in DOMAIN x3 : Box!TouchedBy(s, o)[i].touched = x3[i].touched
<1>1. x3[o] \in Box!Object
  OBVIOUS
<1>2. PICK b \in BOOLEAN : b = (x3[o].touched \/ x3[o].by # s)
  OBVIOUS
<1>3. x3[o].by = s => b = x3[o].touched
  BY <1>1, <1>2 DEF Box!Object
<1>4. Box!TouchedBy(s, o) = [x3 EXCEPT ![o] = [x3[o] EXCEPT !.touched = b]]
  BY <1>2 DEF Box!TouchedBy
<1>5. /\ [x3[o] EXCEPT !.touched = b] \in Box!Object
      /\ [x3[o] EXCEPT !.touched = b].by = x3[o].by
      /\ [x3[o] EXCEPT !.touched = b].kind = x3[o].kind
      /\ [x3[o] EXCEPT !.touched = b].touched = b
  BY <1>1 DEF Box!Object
<1> QED
  BY <1>3, <1>4, <1>5

\* No path a client asks for is that of the root, nor is one the server picks.
LEMMA BoxPaths ==
  /\ Box!Asked \subseteq Box!Path /\ Box!Root \in Box!Path /\ Box!Root \notin Box!Asked
  /\ \A p \in Box!Asked : x3 \in Seq(Box!Object) => [p EXCEPT ![3] = Box!Made] # Box!Root
  /\ Box!Room => \A p \in Box!Asked : [p EXCEPT ![3] = Box!Made] \in Box!Path
  BY BoxConstants DEF Box!Asked, Box!Path, Box!Root, Box!X, Box!D, Box!Made, Box!Room

LEMMA BoxTakes ==
  ASSUME NEW p \in Box!Asked, Box!BoxInv, Box!Takes(p)
  PROVE  Box!BoxInv'
<1>1. Box!TypeOK'
  BY DEF Box!BoxInv, Box!TypeOK, Box!Takes
<1>2. Box!BoxInv'
  <2>1. /\ x2' = [x2 EXCEPT ![p] = None] /\ p # Box!Root /\ p \in Box!Path
        /\ UNCHANGED <<x1, x3, x4, x5, x6>>
    BY BoxPaths DEF Box!Takes, Box!Same
  <2>2. Box!FlatOwn'
    BY <2>1 DEF Box!BoxInv, Box!TypeOK, Box!FlatOwn, Box!Exists
  <2> QED
    BY <1>1, <2>1, <2>2 DEF Box!BoxInv, Box!BoxHolds, Box!WriteOnly
<1> QED
  BY <1>2

LEMMA BoxReads ==
  ASSUME NEW s \in BoxSession, NEW p \in Box!Asked, Box!BoxInv, Box!Reads(s, p)
  PROVE  Box!BoxInv'
<1>1. Box!TypeOK'
  BY DEF Box!BoxInv, Box!TypeOK, Box!Reads
<1>2. Box!BoxInv'
  BY <1>1 DEF Box!BoxInv, Box!BoxHolds, Box!FlatOwn, Box!Exists, Box!WriteOnly, Box!Reads, Box!Says
<1> QED
  BY <1>2

LEMMA BoxStats ==
  ASSUME NEW s \in BoxSession, NEW p \in Box!Asked, Box!BoxInv, Box!Stats(s, p)
  PROVE  Box!BoxInv'
<1>1. Box!TypeOK'
  BY DEF Box!BoxInv, Box!TypeOK, Box!Stats
<1>2. Box!BoxInv'
  BY <1>1, BoxPaths
     DEF Box!BoxInv, Box!BoxHolds, Box!FlatOwn, Box!Exists, Box!WriteOnly, Box!Stats,
       Box!Says, Box!Stat
<1> QED
  BY <1>2

LEMMA BoxRemoves ==
  ASSUME NEW s \in BoxSession, NEW p \in Box!Asked, Box!BoxInv, Box!Removes(s, p)
  PROVE  Box!BoxInv'
<1>1. Box!TypeOK'
  BY DEF Box!BoxInv, Box!TypeOK, Box!Removes
<1>2. Box!BoxInv'
  BY <1>1, BoxPaths DEF Box!BoxInv, Box!BoxHolds, Box!FlatOwn, Box!WriteOnly, Box!Removes
<1> QED
  BY <1>2

LEMMA BoxRenames ==
  ASSUME NEW s \in BoxSession, NEW p \in Box!Asked, NEW q \in Box!Asked, Box!BoxInv, Box!Renames(s, p, q)
  PROVE  Box!BoxInv'
<1>1. Box!TypeOK'
  BY BoxPaths DEF Box!BoxInv, Box!TypeOK, Box!Renames
<1>2. Box!BoxInv'
  BY BoxPaths DEF Box!BoxInv, Box!TypeOK, Box!BoxHolds, Box!FlatOwn, Box!WriteOnly, Box!Renames
<1> QED
  BY <1>2

\* A session touches a file, which in a flat box is its own.
LEMMA BoxTouches ==
  ASSUME Box!BoxInv, NEW s, NEW o \in DOMAIN x3, x3' = Box!TouchedBy(s, o),
         x1 # "ro", x1 = "wo" => x3[o].by = s, UNCHANGED <<x1, x2, x4, x5, x6>>
  PROVE  Box!BoxInv'
<1>1. Box!TypeOK'
  BY BoxTouchedBy DEF Box!TypeOK, Box!BoxInv
<1>2. /\ DOMAIN x3' = DOMAIN x3 /\ Len(x3') = Len(x3)
      /\ \A i \in DOMAIN x3 : x3'[i].by = x3[i].by /\ x3'[i].kind = x3[i].kind
      /\ x1 = "wo" => \A i \in DOMAIN x3 : x3'[i].touched = x3[i].touched
  BY BoxTouchedBy DEF Box!TypeOK, Box!BoxInv
<1>3. Box!BoxHolds'
  BY <1>2 DEF Box!TypeOK, Box!BoxHolds, Box!WriteOnly, Box!BoxInv
<1>4. Box!FlatOwn'
  BY <1>2 DEF Box!TypeOK, Box!FlatOwn, Box!Exists, Box!BoxInv
<1>5. x2'[Box!Root] = 1 /\ Len(x3') > 0 /\ x3'[1].kind = "dir"
  BY <1>2 DEF Box!BoxInv
<1> QED
  BY <1>1, <1>3, <1>4, <1>5 DEF Box!BoxInv

\* A session writes where it has a file open.
LEMMA BoxWritesAt ==
  ASSUME NEW s \in BoxSession, Box!BoxInv, Box!WritesAt(s)
  PROVE  Box!BoxInv'
<1>1. x5[s] \in DOMAIN x3 /\ x3' = Box!TouchedBy(s, x5[s]) /\ UNCHANGED <<x1, x2, x4, x5, x6>>
  BY DEF Box!TypeOK, Box!BoxInv, Box!WritesAt
<1>2. Box!WriteOnly => x3[x5[s]].by = s
  BY DEF Box!BoxInv, Box!BoxHolds, Box!WritesAt
<1>3. x1 # "ro"
  BY DEF Box!WritesAt, Box!BoxInv
<1> QED
  BY <1>1, <1>2, <1>3, BoxTouches DEF Box!WriteOnly

\* A session ends: what it left is nobody's.
LEMMA BoxLeaves ==
  ASSUME NEW s \in BoxSession, Box!BoxInv, Box!Leaves(s)
  PROVE  Box!BoxInv'
<1>1. \A o \in DOMAIN x3 : [x3[o] EXCEPT !.by = None] \in Box!Object
  <2> SUFFICES ASSUME NEW o \in DOMAIN x3 PROVE [x3[o] EXCEPT !.by = None] \in Box!Object
    OBVIOUS
  <2>1. x3[o] \in Box!Object
    BY DEF Box!TypeOK, Box!BoxInv
  <2> QED
    BY <2>1 DEF Box!Object
<1>2. x3' \in Seq(Box!Object) /\ Len(x3') = Len(x3)
  BY <1>1 DEF Box!TypeOK, Box!BoxInv, Box!Leaves
<1>3. \A o \in DOMAIN x3 :
        /\ x3'[o].kind = x3[o].kind /\ x3'[o].touched = x3[o].touched
        /\ x3'[o].by = IF x3[o].by = s THEN None ELSE x3[o].by
  BY DEF Box!Leaves
<1>4. Box!TypeOK'
  BY <1>2 DEF Box!TypeOK, Box!BoxInv, Box!Leaves
<1>5. /\ x4' = [x4 EXCEPT ![s] = <<>>] /\ x5' = [x5 EXCEPT ![s] = None]
      /\ UNCHANGED <<x1, x2, x6>>
  BY DEF Box!Leaves, Box!Same
<1>6. Box!BoxHolds'
  <2>1. x5'[s] = None /\ \A t \in BoxSession \ {s} : x5'[t] = x5[t]
    BY <1>5 DEF Box!TypeOK, Box!BoxInv
  <2>2. x1 \in {"wo", "wo+"} => \A t \in BoxSession : x5'[t] # None => x3'[x5'[t]].by = t
    BY <1>3, <2>1 DEF Box!TypeOK, Box!BoxHolds, Box!WriteOnly, Box!BoxInv
  <2>3. x1 \in {"ro", "wo"} => \A o \in DOMAIN x3' : ~ x3'[o].touched
    BY <1>2, <1>3 DEF Box!TypeOK, Box!BoxHolds, Box!BoxInv
  <2>4. x1 = "ro" => \A o \in DOMAIN x3' : x3'[o].by = None
    BY <1>2, <1>3 DEF Box!TypeOK, Box!BoxHolds, Box!BoxInv
  <2> QED
    BY <1>5, <2>2, <2>3, <2>4 DEF Box!BoxHolds, Box!WriteOnly, Box!BoxInv
<1>7. Box!FlatOwn'
  <2>1. x4'[s] = <<>> /\ \A t \in BoxSession \ {s} : x4'[t] = x4[t]
    BY <1>5 DEF Box!TypeOK, Box!BoxInv
  <2>2. DOMAIN x4'[s] = {}
    BY <2>1
  <2> QED
    BY <1>2, <1>3, <1>5, <2>1, <2>2 DEF Box!TypeOK, Box!FlatOwn, Box!Exists, Box!BoxInv
<1>8. x2'[Box!Root] = 1 /\ Len(x3') > 0 /\ x3'[1].kind = "dir"
  BY <1>2, <1>3, <1>5 DEF Box!BoxInv
<1> QED
  BY <1>4, <1>5, <1>6, <1>7, <1>8 DEF Box!TypeOK, Box!BoxInv

\* A session adjusts a file.
LEMMA BoxSetstats ==
  ASSUME NEW s \in BoxSession, NEW p \in Box!Asked, Box!BoxInv, Box!Setstats(s, p)
  PROVE  Box!BoxInv'
<1> DEFINE own == p \in DOMAIN x4[s]
           at == IF Box!WriteOnly /\ own THEN x4[s][p] ELSE p
<1>1. at \in Box!Path
  BY BoxPaths DEF Box!TypeOK, Box!BoxInv
<1>2. UNCHANGED <<x1, x2, x4, x5, x6>>
  BY DEF Box!Setstats, Box!Same
<1>3. CASE x3' = x3
  BY <1>2, <1>3
     DEF Box!TypeOK, Box!BoxHolds, Box!FlatOwn, Box!Exists, Box!WriteOnly, Box!BoxInv
<1>4. CASE /\ x1 # "ro" /\ (Box!WriteOnly => own) /\ Box!Exists(at)
           /\ x3' = Box!TouchedBy(s, x2[at])
  <2>1. x2[at] \in DOMAIN x3
    BY <1>1, <1>4 DEF Box!Exists, Box!TypeOK, Box!BoxInv
  <2>2. x1 = "wo" => x3[x2[at]].by = s
    BY <1>4 DEF Box!FlatOwn, Box!WriteOnly, Box!BoxInv
  <2> QED
    BY <1>2, <1>4, <2>1, <2>2, BoxTouches
<1> QED
  BY <1>3, <1>4 DEF Box!Setstats

\* A session makes a directory.
LEMMA BoxMkdirs ==
  ASSUME NEW s \in BoxSession, NEW p \in Box!Asked, Box!BoxInv, Box!Mkdirs(s, p)
  PROVE  Box!BoxInv'
<1>1. x3' = Append(x3, Box!New("dir", s)) /\ Box!New("dir", s) \in Box!Object
  BY DEF Box!New, Box!Object, Box!Mkdirs
<1>2. x3' \in Seq(Box!Object) /\ Len(x3') = Len(x3) + 1 /\ \A i \in DOMAIN x3 : x3'[i] = x3[i]
  BY <1>1 DEF Box!TypeOK, Box!BoxInv
<1>3. p \in Box!Path /\ p # Box!Root
  BY BoxPaths
<1>4. DOMAIN x4' = BoxSession
      /\ \A t \in BoxSession :
           DOMAIN x4'[t] \subseteq Box!Asked /\ \A q \in DOMAIN x4'[t] : x4'[t][q] \in Box!Path
  <2>1. CASE UNCHANGED x4
    BY <2>1 DEF Box!TypeOK, Box!BoxInv
  <2>2. CASE Box!Remembers(s, p, p)
    <3>1. x4' = [x4 EXCEPT ![s] = [q \in DOMAIN x4[s] \cup {p} |-> IF q = p THEN p ELSE x4[s][q]]]
      BY <2>2 DEF Box!Remembers
    <3>2. DOMAIN x4' = BoxSession /\ \A t \in BoxSession \ {s} : x4'[t] = x4[t]
      BY <3>1 DEF Box!TypeOK, Box!BoxInv
    <3>3. x4'[s] = [q \in DOMAIN x4[s] \cup {p} |-> IF q = p THEN p ELSE x4[s][q]]
      BY <3>1 DEF Box!TypeOK, Box!BoxInv
    <3> QED
      BY <1>3, <3>2, <3>3 DEF Box!TypeOK, Box!BoxInv
  <2> QED
    BY <2>1, <2>2 DEF Box!Mkdirs
<1>5. Box!TypeOK'
  BY <1>2, <1>3, <1>4 DEF Box!TypeOK, Box!Made, Box!BoxInv, Box!Mkdirs
<1>6. x2'[Box!Root] = 1 /\ Len(x3') > 0 /\ x3'[1].kind = "dir"
  BY <1>3 DEF Box!BoxInv, Box!Mkdirs
<1>7. x1 # "ro" /\ UNCHANGED <<x1, x5, x6>>
  BY DEF Box!Mkdirs, Box!Same
<1>8. \A i \in DOMAIN x3' : i \in DOMAIN x3 \/ x3'[i] = Box!New("dir", s)
  BY <1>1
<1>9. Box!BoxHolds'
  BY <1>2, <1>7, <1>8
     DEF Box!BoxHolds, Box!WriteOnly, Box!New, Box!Mkdirs, Box!TypeOK, Box!BoxInv
<1>10. Box!FlatOwn'
  BY DEF Box!FlatOwn, Box!Mkdirs
<1> QED
  BY <1>5, <1>6, <1>7, <1>9, <1>10 DEF Box!BoxInv

\* A file is made under a name that is free.
LEMMA BoxCreates ==
  ASSUME NEW s \in BoxSession, NEW p \in Box!Asked, NEW at \in Box!Path \ {Box!Root}, Box!BoxInv,
         Box!Creates(s, p, at), UNCHANGED x1, x1 # "ro",
         x1 = "wo" => at[3] = Box!Made /\ x6'.result = x6'.blind
  PROVE  Box!BoxInv'
<1>1. x3' = Append(x3, Box!New("file", s)) /\ Box!New("file", s) \in Box!Object
  BY DEF Box!Creates, Box!New, Box!Object
<1>2. Box!TypeOK'
  BY <1>1 DEF Box!TypeOK, Box!Creates, Box!Opens, Box!Remembers, Box!Made, Box!BoxInv
<1>3. Box!FlatOwn'
  <2> SUFFICES ASSUME x1 = "wo", NEW t \in BoxSession, NEW q \in DOMAIN x4'[t]
               PROVE  /\ x4'[t][q][3] \in 1 .. Len(x3')
                      /\ x2'[x4'[t][q]] # None => x3'[x2'[x4'[t][q]]].by = t
    BY DEF Box!FlatOwn, Box!Exists
  <2>1. /\ x2' = [x2 EXCEPT ![at] = Box!Made] /\ at[3] = Box!Made /\ Box!Made = Len(x3) + 1
        /\ x4' = [x4 EXCEPT ![s] = [r \in DOMAIN x4[s] \cup {p} |-> IF r = p THEN at ELSE x4[s][r]]]
    BY DEF Box!Creates, Box!Opens, Box!Remembers, Box!Made
  <2>2. /\ x3 \in Seq(Box!Object) /\ x2 \in [Box!Path -> (DOMAIN x3) \cup {None}]
        /\ DOMAIN x4 = BoxSession
    BY DEF Box!TypeOK, Box!BoxInv
  <2>3. /\ Len(x3') = Len(x3) + 1 /\ x3'[Box!Made].by = s
        /\ \A i \in DOMAIN x3 : x3'[i] = x3[i]
    BY <1>1, <2>1, <2>2 DEF Box!New
  <2>4. CASE t = s /\ q = p
    BY <2>1, <2>2, <2>3, <2>4
  <2>5. CASE ~ (t = s /\ q = p)
    <3>1. q \in DOMAIN x4[t] /\ x4'[t][q] = x4[t][q]
      BY <2>1, <2>2, <2>5
    <3>2. /\ x4[t][q][3] \in 1 .. Len(x3) /\ x4[t][q] \in Box!Path
          /\ x2[x4[t][q]] # None => x3[x2[x4[t][q]]].by = t
      BY <3>1 DEF Box!FlatOwn, Box!Exists, Box!TypeOK, Box!BoxInv
    <3>3. x4[t][q] # at
      BY <2>1, <2>2, <3>2
    <3>4. x2'[x4[t][q]] = x2[x4[t][q]]
      BY <2>1, <2>2, <3>3
    <3> QED
      BY <2>2, <2>3, <3>1, <3>2, <3>4
  <2> QED
    BY <2>4, <2>5
<1>4. Box!BoxHolds'
  BY DEF Box!TypeOK, Box!Creates, Box!Opens, Box!Made, Box!New, Box!BoxHolds, Box!WriteOnly,
     Box!BoxInv
<1> QED
  BY <1>2, <1>3, <1>4
     DEF Box!TypeOK, Box!Creates, Box!Opens, Box!Made, Box!New, Box!BoxInv

\* A session opens a file of a drop box: it is new, or there is none.
LEMMA BoxDrops ==
  ASSUME NEW s \in BoxSession, NEW p \in Box!Asked, NEW flags \in Box!Flags, Box!BoxInv, Box!Drops(s, p, flags)
  PROVE  Box!BoxInv'
<1> DEFINE denied == "read" \in flags \/ "creat" \notin flags \/ (x1 = "wo" /\ Box!Nested(p))
           at == IF x1 = "wo" THEN Box!UniqueUploadPath(p) ELSE p
<1>1. Box!WriteOnly /\ Box!Room /\ UNCHANGED x1
  BY DEF Box!Drops
<1>2. CASE denied
  BY <1>2
     DEF Box!Drops, Box!Refuses, Box!Says, Box!TypeOK, Box!BoxHolds, Box!FlatOwn, Box!Exists,
       Box!WriteOnly, Box!BoxInv
<1>3. CASE ~ denied /\ ~ Box!IsDir(Box!Dir(p))
  <2>1. x1 # "wo"
    BY <1>3, BoxConstants DEF Box!Nested, Box!IsDir, Box!Exists, Box!BoxInv
  <2> QED
    BY <1>3, <2>1
       DEF Box!Drops, Box!Refuses, Box!TypeOK, Box!BoxHolds, Box!FlatOwn, Box!WriteOnly,
         Box!BoxInv
<1>4. CASE ~ denied /\ Box!IsDir(Box!Dir(p))
  <2>1. PICK a \in {at, Box!UniqueUploadPath(p)} : Box!Creates(s, p, a) /\ Box!Says("ok", "ok")
    BY <1>4 DEF Box!Drops
  <2>2. a \in Box!Path \ {Box!Root}
    BY <1>1, BoxPaths DEF Box!UniqueUploadPath, Box!TypeOK, Box!BoxInv
  <2>3. x1 = "wo" => a[3] = Box!Made
    <3>1. Box!UniqueUploadPath(p)[3] = Box!Made
      BY DEF Box!UniqueUploadPath, Box!Asked, Box!X, Box!D
    <3> QED
      BY <3>1
  <2> QED
    BY <1>1, <2>1, <2>2, <2>3, BoxCreates DEF Box!Says, Box!WriteOnly
<1> QED
  BY <1>2, <1>3, <1>4

\* A session opens a file of a box that is not one.
LEMMA BoxPuts ==
  ASSUME NEW s \in BoxSession, NEW p \in Box!Asked, NEW flags \in Box!Flags, Box!BoxInv, Box!Puts(s, p, flags)
  PROVE  Box!BoxInv'
<1>1. ~ Box!WriteOnly /\ UNCHANGED <<x1, x6>>
  BY DEF Box!Puts, Box!Same
<1>2. CASE Box!Refuses
  BY <1>1, <1>2 DEF Box!Refuses, Box!TypeOK, Box!BoxHolds, Box!FlatOwn, Box!WriteOnly, Box!BoxInv
<1>3. CASE x1 # "ro" /\ Box!Exists(p) /\ x5' = [x5 EXCEPT ![s] = x2[p]] /\ UNCHANGED <<x2, x4>>
           /\ x3' = IF "trunc" \in flags THEN Box!TouchedBy(s, x2[p]) ELSE x3
  <2>1. PICK o \in DOMAIN x3 : x2[p] = o
    BY <1>3, BoxPaths DEF Box!Exists, Box!TypeOK, Box!BoxInv
  <2>3. CASE "trunc" \notin flags
    BY <1>1, <1>3, <2>1, <2>3 DEF Box!TypeOK, Box!BoxHolds, Box!FlatOwn, Box!WriteOnly, Box!BoxInv
  <2>4. CASE "trunc" \in flags
    <3>1. x3' = Box!TouchedBy(s, o)
      BY <1>3, <2>1, <2>4
    <3>2. x3' \in Seq(Box!Object) /\ Len(x3') = Len(x3) /\ DOMAIN x3' = DOMAIN x3
          /\ x3'[1].kind = x3[1].kind
      BY <3>1, BoxTouchedBy DEF Box!TypeOK, Box!BoxInv
    <3>3. Box!TypeOK'
      BY <1>1, <1>3, <2>1, <3>2 DEF Box!TypeOK, Box!BoxInv
    <3> QED
      BY <1>1, <1>3, <3>2, <3>3 DEF Box!BoxHolds, Box!FlatOwn, Box!WriteOnly, Box!BoxInv
  <2> QED
    BY <2>3, <2>4
<1>4. CASE x1 # "ro" /\ Box!Opens(s, p, Box!Made) /\ x3' = Append(x3, Box!New("file", s)) /\ UNCHANGED x4
  <2>1. Box!New("file", s) \in Box!Object
    BY DEF Box!New, Box!Object
  <2>2. Box!TypeOK'
    BY <1>1, <1>4, <2>1, BoxPaths DEF Box!TypeOK, Box!Opens, Box!Made, Box!BoxInv
  <2> QED
    BY <1>1, <1>4, <2>2, BoxPaths DEF Box!Opens, Box!BoxHolds, Box!FlatOwn, Box!WriteOnly, Box!BoxInv
<1> QED
  BY <1>2, <1>3, <1>4 DEF Box!Puts

\* The root is there, and perhaps a file or a directory.
LEMMA BoxInit == Box!Init => Box!BoxInv
<1> SUFFICES ASSUME Box!Init PROVE Box!BoxInv
  OBVIOUS
<1>0. x2[Box!Root] = 1
  BY BoxPaths DEF Box!Init
<1>1. ASSUME x3 \in Seq(Box!Object), Len(x3) > 0, x3[1].kind = "dir",
             \A o \in DOMAIN x3 : x3[o].by = None /\ ~ x3[o].touched,
             x2 \in [Box!Path -> (DOMAIN x3) \cup {None}]
      PROVE  Box!BoxInv
  <2>1. Box!TypeOK
    <3>1. x4 = [s \in BoxSession |-> <<>>] /\ x5 = [s \in BoxSession |-> None] /\ x1 \in BoxMode
      BY DEF Box!Init
    <3>2. DOMAIN x4 = BoxSession /\ \A s \in BoxSession : DOMAIN x4[s] = {}
      BY <3>1
    <3> QED
      BY <1>1, <3>1 DEF Box!TypeOK
  <2> QED
    <3>1. x4 = [s \in BoxSession |-> <<>>] /\ x5 = [s \in BoxSession |-> None]
      BY DEF Box!Init
    <3>2. \A s \in BoxSession : DOMAIN x4[s] = {} /\ x5[s] = None
      BY <3>1
    <3>3. Box!FlatOwn
      BY <3>2 DEF Box!FlatOwn
    <3> QED
      BY <1>0, <1>1, <2>1, <3>2, <3>3 DEF Box!Init, Box!BoxInv, Box!BoxHolds
<1>2. PICK there \in {<<>>, <<Box!X>>, <<Box!D>>} :
        /\ x3 = <<Box!New("dir", None)>> \o [i \in DOMAIN there |-> Box!New(IF there[i] = Box!D THEN "dir" ELSE "file", None)]
        /\ x2 = [p \in Box!Path |-> IF p = Box!Root THEN 1 ELSE IF <<p>> = there THEN 2 ELSE None]
  BY DEF Box!Init
<1>3. Box!New("dir", None) \in Box!Object /\ Box!New("file", None) \in Box!Object
  BY DEF Box!New, Box!Object
<1> DEFINE dir == Box!New("dir", None)
<1>6. dir.kind = "dir" /\ \A k \in {"dir", "file"} :
        Box!New(k, None).by = None /\ ~ Box!New(k, None).touched
  BY DEF Box!New
<1> HIDE DEF dir
<1>4. CASE there = <<>>
  <2>1. x3 = <<dir>>
    BY <1>2, <1>4 DEF dir
  <2>2. x2 \in [Box!Path -> {1, None}]
    BY <1>2, <1>4
  <2>3. x3 \in Seq(Box!Object) /\ DOMAIN x3 = {1} /\ Len(x3) = 1 /\ x3[1] = dir
    BY <1>3, <2>1 DEF dir
  <2>4. x2 \in [Box!Path -> (DOMAIN x3) \cup {None}]
    BY <2>2, <2>3
  <2> QED
    BY <1>1, <1>6, <2>3, <2>4 DEF dir
<1>5. CASE there \in {<<Box!X>>, <<Box!D>>}
  <2>1. PICK k \in {"dir", "file"} : x3 = <<Box!New("dir", None)>> \o <<Box!New(k, None)>>
    <3>1. DOMAIN there = {1}
      BY <1>5
    <3>2. PICK k \in {"dir", "file"} : k = IF there[1] = Box!D THEN "dir" ELSE "file"
      OBVIOUS
    <3>3. [i \in DOMAIN there |-> Box!New(IF there[i] = Box!D THEN "dir" ELSE "file", None)]
            = [i \in 1 .. 1 |-> Box!New(k, None)]
      BY <3>1, <3>2
    <3>4. [i \in 1 .. 1 |-> Box!New(k, None)] = <<Box!New(k, None)>>
      OBVIOUS
    <3> QED
      BY <1>2, <3>3, <3>4
  <2>2. x2 \in [Box!Path -> {1, 2, None}]
    BY <1>2
  <2> DEFINE more == Box!New(k, None)
  <2>3. more \in Box!Object /\ x3 = <<dir>> \o <<more>>
    BY <1>3, <2>1 DEF dir
  <2> HIDE DEF more
  <2>4. x3 \in Seq(Box!Object) /\ DOMAIN x3 = {1, 2} /\ Len(x3) = 2 /\ x3[1] = dir /\ x3[2] = more
    <3>1. <<dir>> \in Seq(Box!Object) /\ <<more>> \in Seq(Box!Object)
      BY <1>3, <2>3 DEF dir
    <3> QED
      BY <2>3, <3>1
  <2>5. x2 \in [Box!Path -> (DOMAIN x3) \cup {None}]
    BY <2>2, <2>4
  <2> QED
    BY <1>1, <1>6, <2>4, <2>5 DEF dir, more
<1> QED
  BY <1>4, <1>5

\* Every step keeps BoxInv.
LEMMA BoxStep ==
  ASSUME Box!BoxInv, Box!Next \/ UNCHANGED xs
  PROVE  Box!BoxInv'
<1>1. CASE UNCHANGED xs
  BY <1>1 DEF xs, Box!BoxInv, Box!TypeOK, Box!BoxHolds, Box!FlatOwn, Box!Exists, Box!WriteOnly
<1> QED
  BY <1>1, BoxTakes, BoxReads, BoxStats, BoxMkdirs, BoxRemoves, BoxRenames, BoxWritesAt,
     BoxLeaves, BoxSetstats, BoxDrops, BoxPuts
     DEF Box!Next

-----------------------------------------------------------------------------
(* The address of a server.  That it is enough is inductive: it is written once. *)

\* The address is written with the key and the relays the server then runs with.
LEMMA ServeStep ==
  ASSUME Server!AddressIsEnough, Server!Next \/ UNCHANGED xs
  PROVE  Server!AddressIsEnough'
<1>1. CASE Server!ReadsWord
  BY <1>1 DEF Server!ReadsWord, Server!Reads, Server!AddressIsEnough
<1>2. ASSUME NEW f \in Server!Flags, Server!Decides(f) PROVE Server!AddressIsEnough'
  BY <1>2 DEF Server!Decides, Server!AddressIsEnough
<1>3. ASSUME NEW k \in Server!Kinds, NEW flag \in {"on", "off", "unset"}, Server!Keys(k, flag)
      PROVE  Server!AddressIsEnough'
  <2>1. CASE Server!LacksPsk(k, flag)
    BY <1>3, <2>1 DEF Server!Keys, Server!AddressIsEnough
  <2>2. CASE ~ Server!LacksPsk(k, flag)
    <3>1. Server!Started(k, flag) = IF Server!UsesPsk(k, flag) /\ k.psk THEN "key's" ELSE "none"
      BY <2>2 DEF Server!LacksPsk, Server!Started
    <3>2. PICK dev, full \in BOOLEAN :
            /\ x5' = [psk |-> Server!Started(k, flag),
                      relay |-> IF dev THEN "dev" ELSE IF k.custom THEN "own" ELSE "map"]
            /\ x6' = [psk |-> IF Server!UsesPsk(k, flag) /\ k.psk THEN "key's" ELSE "none",
                      relay |-> IF Server!Embeds(k, dev, full) THEN "embedded" ELSE "number"]
      BY <1>3, <2>2 DEF Server!Keys
    <3> QED
      BY <3>1, <3>2 DEF Server!AddressIsEnough, Server!Embeds
  <2> QED
    BY <2>1, <2>2
<1>4. CASE UNCHANGED xs
  BY <1>4 DEF xs, Server!AddressIsEnough
<1> QED
  BY <1>1, <1>2, <1>3, <1>4 DEF Server!Next

-----------------------------------------------------------------------------
(* A session's modes and title.  ToldInv says that a client that is attached was     *)
(* told the title that the scanner has, or is told next.                            *)

\* The greatest number of a set that has it.
LEMMA MaxOfTop ==
  ASSUME NEW k \in Nat, NEW s \in SUBSET (1 .. k), k \in s
  PROVE  Scan!Max(s) = k
<1>1. \A x \in s : x >= k => x = k
  OBVIOUS
<1>2. \A y \in s : k >= y
  OBVIOUS
<1> QED
  BY <1>1, <1>2 DEF Scan!Max

\* What the scanner makes of the bytes whose places are in each set: FoldLeft's own
\* recursive function, which exists.
Scanned(f, s0, bytes, k) ==
  f = [s \in SUBSET (1 .. k) |->
         IF s = {} THEN s0
         ELSE Scan!ByteIn(f[s \ {Scan!Max(s)}], bytes[Scan!Max(s)])]

\* There is such a function.
LEMMA ScanExists ==
  ASSUME NEW s0, NEW bytes, NEW n \in Nat
  PROVE  \E f : Scanned(f, s0, bytes, n)
<1> DEFINE T == {k \in Nat : \E f : Scanned(f, s0, bytes, k)}
<1>1. 0 \in T
  <2> DEFINE f == [s \in SUBSET (1 .. 0) |-> s0]
  <2>1. \A s \in SUBSET (1 .. 0) : s = {}
    OBVIOUS
  <2>2. f = [s \in SUBSET (1 .. 0) |->
         IF s = {} THEN s0
         ELSE Scan!ByteIn(f[s \ {Scan!Max(s)}], bytes[Scan!Max(s)])]
    OBVIOUS
  <2> HIDE DEF f
  <2>3. Scanned(f, s0, bytes, 0)
    BY <2>2 DEF Scanned
  <2> QED
    BY <2>3
<1>2. ASSUME NEW k \in 0 .. n - 1, k \in T PROVE k + 1 \in T
  <2>1. PICK f : Scanned(f, s0, bytes, k)
    BY <1>2
  <2> DEFINE m(s) == Scan!Max(s)
             g == [s \in SUBSET (1 .. k + 1) |->
                    IF k + 1 \in s THEN Scan!ByteIn(f[s \ {k + 1}], bytes[k + 1]) ELSE f[s]]
  <2>2. ASSUME NEW s \in SUBSET (1 .. k + 1), k + 1 \in s
        PROVE  s # {} /\ m(s) = k + 1 /\ s \ {m(s)} \in SUBSET (1 .. k)
    <3>1. Scan!Max(s) = k + 1
      BY <2>2, MaxOfTop
    <3>2. s # {} /\ s \ {k + 1} \in SUBSET (1 .. k)
      BY <2>2
    <3> QED
      BY <3>1, <3>2
  <2>3. ASSUME NEW s \in SUBSET (1 .. k + 1), k + 1 \notin s
        PROVE  s \in SUBSET (1 .. k)
    BY <2>3
  <2>4. ASSUME NEW s \in SUBSET (1 .. k)
        PROVE  s \in SUBSET (1 .. k + 1) /\ k + 1 \notin s /\ g[s] = f[s]
    OBVIOUS
  <2>5. ASSUME NEW s \in SUBSET (1 .. k + 1)
        PROVE  g[s] = IF s = {} THEN s0 ELSE Scan!ByteIn(g[s \ {m(s)}], bytes[m(s)])
    <3>1. CASE k + 1 \in s
      <4>1. g[s] = Scan!ByteIn(f[s \ {k + 1}], bytes[k + 1])
        BY <3>1
      <4>2. g[s \ {k + 1}] = f[s \ {k + 1}]
        OBVIOUS
      <4> QED
        BY <2>2, <3>1
    <3>2. CASE k + 1 \notin s
      <4>1. g[s] = f[s] /\ s \in SUBSET (1 .. k)
        BY <3>2
      <4>2. f[s] = IF s = {} THEN s0 ELSE Scan!ByteIn(f[s \ {m(s)}], bytes[m(s)])
        BY <4>1, <2>1 DEF Scanned
      <4>3. g[s \ {m(s)}] = f[s \ {m(s)}]
        BY <4>1, <2>4
      <4> QED
        BY <4>1, <4>2, <4>3
    <3> QED
      BY <3>1, <3>2
  <2>6. g = [s \in SUBSET (1 .. k + 1) |->
         IF s = {} THEN s0
         ELSE Scan!ByteIn(g[s \ {Scan!Max(s)}], bytes[Scan!Max(s)])]
    <3> DEFINE h == [s \in SUBSET (1 .. k + 1) |->
         IF s = {} THEN s0
         ELSE Scan!ByteIn(g[s \ {Scan!Max(s)}], bytes[Scan!Max(s)])]
    <3>1. DOMAIN g = SUBSET (1 .. k + 1) /\ DOMAIN h = SUBSET (1 .. k + 1)
      OBVIOUS
    <3>2. \A s \in SUBSET (1 .. k + 1) : g[s] = h[s]
      BY <2>5
    <3> QED
      BY <3>2
  <2> HIDE DEF g
  <2>7. Scanned(g, s0, bytes, k + 1)
    BY <2>6 DEF Scanned
  <2> QED
    BY <2>7
<1> HIDE DEF T
<1>3. n \in T
  BY <1>1, <1>2, Induction
<1> QED
  BY <1>3 DEF T

\* FoldLeft is what its recursive function says of all places.
LEMMA FoldIsScanned ==
  ASSUME NEW s0, NEW bytes, NEW n \in Nat, DOMAIN bytes = 1 .. n
  PROVE  \E f : /\ Scanned(f, s0, bytes, n)
                /\ Scan!FoldLeft(Scan!ByteIn, s0, bytes) = f[1 .. n]
<1> DEFINE f == CHOOSE f : f = [s \in SUBSET (1 .. n) |->
         IF s = {} THEN s0
         ELSE Scan!ByteIn(f[s \ {Scan!Max(s)}], bytes[Scan!Max(s)])]
<1>1. Scanned(f, s0, bytes, n)
  <2>1. \E g : g = [s \in SUBSET (1 .. n) |->
         IF s = {} THEN s0
         ELSE Scan!ByteIn(g[s \ {Scan!Max(s)}], bytes[Scan!Max(s)])]
    <3>1. PICK g : Scanned(g, s0, bytes, n)
      BY ScanExists
    <3> QED
      BY <3>1 DEF Scanned
  <2>2. f = [s \in SUBSET (1 .. n) |->
         IF s = {} THEN s0
         ELSE Scan!ByteIn(f[s \ {Scan!Max(s)}], bytes[Scan!Max(s)])]
    BY <2>1, Zenon
  <2> HIDE DEF f
  <2> QED
    BY <2>2 DEF Scanned
<1>2. Scan!FoldLeft(Scan!ByteIn, s0, bytes) = f[1 .. n]
  BY DEF Scan!FoldLeft, Scan!MapThenFoldSet
<1> QED
  BY <1>1, <1>2

\* The parts of the scanner's record.
IsScan(s) ==
  /\ s = [st |-> s.st, buf |-> s.buf, tooLong |-> s.tooLong, modes |-> s.modes,
          title |-> s.title, changed |-> s.changed]
  /\ s.changed \in BOOLEAN

\* A byte changes the title only with a note that it did.
LEMMA ByteNotes ==
  ASSUME NEW s, IsScan(s), NEW b
  PROVE  /\ IsScan(Scan!ByteIn(s, b))
         /\ ~ Scan!ByteIn(s, b).changed => ~ s.changed /\ Scan!ByteIn(s, b).title = s.title
<1> DEFINE Notes(t) == IsScan(t) /\ (~ t.changed => ~ s.changed /\ t.title = s.title)
<1>1. Notes(s)
  OBVIOUS
<1>2. ASSUME NEW max PROVE Notes(Scan!Push(s, b, max))
  BY DEF Scan!Push, IsScan
<1>3. Notes(Scan!FinishCSI(s, b))
  BY DEF Scan!FinishCSI, IsScan
<1>4. Notes(Scan!FinishOSC(s))
  BY DEF Scan!FinishOSC, IsScan
<1>5. ASSUME NEW st PROVE Notes(Scan!Begins(s, st))
  <2>1. Scan!Begins(s, st) = [st |-> st, buf |-> << >>, tooLong |-> FALSE, modes |-> s.modes,
                              title |-> s.title, changed |-> s.changed]
    <3> DEFINE t == [s EXCEPT !.st = st]
               u == [t EXCEPT !.buf = << >>]
    <3>1. t = [st |-> st, buf |-> s.buf, tooLong |-> s.tooLong, modes |-> s.modes,
               title |-> s.title, changed |-> s.changed]
      BY DEF IsScan
    <3> HIDE DEF t
    <3>2. u = [st |-> st, buf |-> << >>, tooLong |-> s.tooLong, modes |-> s.modes,
               title |-> s.title, changed |-> s.changed]
      BY <3>1
    <3>3. Scan!Begins(s, st) = [u EXCEPT !.tooLong = FALSE]
      BY DEF Scan!Begins, t
    <3> HIDE DEF u
    <3> QED
      BY <3>2, <3>3
  <2> QED
    BY <2>1 DEF IsScan
<1>6. ASSUME NEW t, Notes(t) PROVE Notes(Scan!Ended(t))
  BY <1>6 DEF Scan!Ended, IsScan
<1>7. ASSUME NEW st PROVE Notes([s EXCEPT !.st = st])
  BY DEF IsScan
<1> HIDE DEF Notes
<1>8. Notes(Scan!ByteIn(s, b))
  BY <1>1, <1>2, <1>3, <1>4, <1>5, <1>6, <1>7 DEF Scan!ByteIn
<1> QED
  BY <1>8 DEF Notes

\* Nor do any number of bytes, whatever they are.
LEMMA BytesNote ==
  ASSUME NEW s0, IsScan(s0), NEW bytes, NEW n \in Nat, DOMAIN bytes = 1 .. n,
         NEW s, s = Scan!FoldLeft(Scan!ByteIn, s0, bytes)
  PROVE  IsScan(s) /\ (~ s.changed => s.title = s0.title)
<1> DEFINE Notes(t) == IsScan(t) /\ (~ t.changed => t.title = s0.title)
<1>1. PICK f : Scanned(f, s0, bytes, n) /\ s = f[1 .. n]
  BY FoldIsScanned
<1> DEFINE T == {k \in 0 .. n : Notes(f[1 .. k])}
<1>2. 0 \in T
  <2>1. 1 .. 0 = {} /\ {} \in SUBSET (1 .. n)
    OBVIOUS
  <2>2. f[{}] = s0
    BY <1>1 DEF Scanned
  <2> QED
    BY <2>2
<1>3. ASSUME NEW k \in 0 .. n - 1, k \in T PROVE k + 1 \in T
  <2> DEFINE r == 1 .. k + 1
  <2>0. k \in Nat /\ k + 1 \in Nat /\ k + 1 <= n
    OBVIOUS
  <2>1. r \in SUBSET (1 .. n) /\ r # {} /\ r \in SUBSET (1 .. k + 1) /\ k + 1 \in r
    <3>1. \A i \in 1 .. k + 1 : i \in 1 .. n
      OBVIOUS
    <3>2. k + 1 \in 1 .. k + 1
      OBVIOUS
    <3> QED
      BY <3>1, <3>2
  <2>2. Scan!Max(r) = k + 1
    BY MaxOfTop
  <2>3. r \ {k + 1} = 1 .. k
    OBVIOUS
  <2> HIDE DEF r
  <2>4. f[r] = Scan!ByteIn(f[1 .. k], bytes[k + 1])
    BY <1>1, <2>1, <2>2, <2>3 DEF Scanned
  <2>5. Notes(f[r])
    BY <1>3, <2>4, ByteNotes
  <2> QED
    BY <2>5 DEF r
<1> HIDE DEF T
<1>4. n \in T
  BY <1>2, <1>3, Induction
<1> QED
  BY <1>1, <1>4 DEF T

\* The client that is attached was told all, and the scanner has no note open.
ToldInv ==
  /\ IsScan(x1) /\ x1.changed = FALSE
  /\ x5 # None => x6 \in {Scan!Told(x1, x4), Scan!Greeted(x1, x4)}

\* At first nobody is attached.
LEMMA ToldInit ==
  ASSUME Scan!Init PROVE ToldInv
  BY DEF Scan!Init, ToldInv, IsScan

\* What pumpPTY sends of a change brings a client up to date.
LEMMA PumpTells ==
  ASSUME ToldInv, Scan!Pump PROVE ToldInv'
<1>1. PICK n \in 1 .. Len(x2.rest) :
        LET s == Scan!FoldLeft(Scan!ByteIn, x1, SubSeq(x2.rest, 1, n)) IN
        /\ x1' = [s EXCEPT !.changed = FALSE]
        /\ Scan!Pushes(s, x4, s.changed)
  BY DEF Scan!Pump
<1> DEFINE bytes == SubSeq(x2.rest, 1, n)
           s == Scan!FoldLeft(Scan!ByteIn, x1, bytes)
<1>2. n \in Nat /\ DOMAIN bytes = 1 .. n
  OBVIOUS
<1>3. x1' = [s EXCEPT !.changed = FALSE] /\ Scan!Pushes(s, x4, s.changed) /\ x4' = x4
  BY <1>1 DEF Scan!Pump
<1> HIDE DEF bytes
<1>4. IsScan(s) /\ (~ s.changed => s.title = x1.title)
  BY <1>2, BytesNote DEF ToldInv
<1> HIDE DEF s
<1>5. IsScan(x1') /\ x1'.changed = FALSE /\ x1'.title = s.title
  BY <1>3, <1>4 DEF IsScan
<1>6. x5' # None => x6' \in {Scan!Told(s, x4), Scan!Greeted(s, x4)}
  BY <1>3, <1>4 DEF ToldInv, Scan!Pushes, Scan!Detach, Scan!Told, Scan!Greeted
<1> QED
  BY <1>3, <1>5, <1>6 DEF ToldInv, Scan!Told, Scan!Greeted

\* Every step keeps ToldInv.
LEMMA ToldStep ==
  ASSUME ToldInv, Scan!Next \/ UNCHANGED xs PROVE ToldInv'
<1>1. CASE Scan!Writes
  BY <1>1 DEF Scan!Writes, ToldInv
<1>2. CASE Scan!Pump
  BY <1>2, PumpTells
<1>3. CASE Scan!Sample
  BY <1>3 DEF Scan!Sample, Scan!Pushes, Scan!Detach, ToldInv, Scan!Told, Scan!Greeted
<1>4. CASE Scan!StreamEnds
  BY <1>4 DEF Scan!StreamEnds, ToldInv
<1>5. ASSUME NEW c \in ScanClient, Scan!AttachLocked(c) PROVE ToldInv'
  BY <1>5 DEF Scan!AttachLocked, ToldInv
<1>6. CASE UNCHANGED xs
  BY <1>6 DEF xs, ToldInv
<1> QED
  BY <1>1, <1>2, <1>3, <1>4, <1>5, <1>6 DEF Scan!Next

\* ToldInv says enough.
LEMMA ToldImplies ==
  ASSUME ToldInv PROVE Scan!ClientIsTold
  BY DEF ToldInv, Scan!ClientIsTold, Scan!Told, Scan!Greeted

-----------------------------------------------------------------------------
(* What the scanner makes of any output, byte by byte and sequence by sequence: a run *)
(* of it over the bytes of a sequence leaves it knowing what the sequence means.     *)

\* What it knows after each of the first n bytes.
Along(g, s, bytes, n) ==
  /\ g[0] = s
  /\ \A k \in 0 .. n - 1 : g[k + 1] = Scan!ByteIn(g[k], bytes[k + 1])

\* What a scanner that knows s knows after the bytes.
Run(s, bytes) == Scan!FoldLeft(Scan!ByteIn, s, bytes)

\* A run is worked out byte by byte.
LEMMA RunIs ==
  ASSUME NEW s, NEW bytes, NEW n \in Nat, DOMAIN bytes = 1 .. n,
         NEW g, Along(g, s, bytes, n)
  PROVE  Run(s, bytes) = g[n]
<1>1. PICK f : Scanned(f, s, bytes, n) /\ Run(s, bytes) = f[1 .. n]
  BY FoldIsScanned DEF Run
<1> DEFINE T == {k \in 0 .. n : f[1 .. k] = g[k]}
<1>2. 0 \in T
  <2>1. 1 .. 0 = {} /\ {} \in SUBSET (1 .. n)
    OBVIOUS
  <2> QED
    BY <1>1, <2>1 DEF Scanned, Along
<1>3. ASSUME NEW k \in 0 .. n - 1, k \in T PROVE k + 1 \in T
  <2> DEFINE r == 1 .. k + 1
  <2>1. r \in SUBSET (1 .. n) /\ r # {} /\ r \ {k + 1} = 1 .. k /\ k + 1 \in 0 .. n
    BY Prefixes
  <2>2. Scan!Max(r) = k + 1
    <3>1. k + 1 \in Nat /\ k + 1 \in r /\ r \in SUBSET (1 .. k + 1)
      OBVIOUS
    <3> QED
      BY <3>1, MaxOfTop
  <2> HIDE DEF r
  <2>3. f[r] = Scan!ByteIn(f[1 .. k], bytes[k + 1])
    BY <1>1, <2>1, <2>2 DEF Scanned
  <2>4. f[r] = g[k + 1]
    BY <1>3, <2>3 DEF Along
  <2> QED
    BY <2>1, <2>4 DEF r
<1> HIDE DEF T
<1>4. n \in T
  BY <1>2, <1>3, Induction
<1> QED
  BY <1>1, <1>4 DEF T

\* There is such a course of it.
LEMMA RunAlong ==
  ASSUME NEW s, NEW bytes, NEW n \in Nat, DOMAIN bytes = 1 .. n
  PROVE  \E g : Along(g, s, bytes, n) /\ Run(s, bytes) = g[n]
<1>1. PICK f : Scanned(f, s, bytes, n) /\ Run(s, bytes) = f[1 .. n]
  BY FoldIsScanned DEF Run
<1> DEFINE g == [k \in 0 .. n |-> f[1 .. k]]
<1>2. g[0] = s
  <2>1. 1 .. 0 = {} /\ {} \in SUBSET (1 .. n) /\ 0 \in 0 .. n
    OBVIOUS
  <2> QED
    BY <1>1, <2>1 DEF Scanned
<1>3. ASSUME NEW k \in 0 .. n - 1 PROVE g[k + 1] = Scan!ByteIn(g[k], bytes[k + 1])
  <2> DEFINE r == 1 .. k + 1
  <2>1. r \in SUBSET (1 .. n) /\ r # {} /\ r \ {k + 1} = 1 .. k /\ k + 1 \in 0 .. n /\ k \in 0 .. n
    BY Prefixes
  <2>2. Scan!Max(r) = k + 1
    <3>1. k + 1 \in Nat /\ k + 1 \in r /\ r \in SUBSET (1 .. k + 1)
      OBVIOUS
    <3> QED
      BY <3>1, MaxOfTop
  <2>3. g[k + 1] = f[r] /\ g[k] = f[1 .. k]
    BY <2>1
  <2> HIDE DEF r, g
  <2>4. f[r] = Scan!ByteIn(f[r \ {Scan!Max(r)}], bytes[Scan!Max(r)])
    BY <1>1, <2>1 DEF Scanned
  <2> QED
    BY <2>1, <2>2, <2>3, <2>4
<1>4. g[n] = f[1 .. n]
  OBVIOUS
<1> HIDE DEF g
<1>5. Along(g, s, bytes, n)
  BY <1>2, <1>3 DEF Along
<1> QED
  BY <1>1, <1>4, <1>5

\* A run over two pieces is one over the second from where the first led.
LEMMA RunsOn ==
  ASSUME NEW T, NEW a \in Seq(T), NEW b \in Seq(T), NEW s
  PROVE  Run(s, a \o b) = Run(Run(s, a), b)
<1> DEFINE n == Len(a)
           m == Len(b)
           c == a \o b
<1>1. /\ n \in Nat /\ m \in Nat /\ n + m \in Nat
      /\ DOMAIN a = 1 .. n /\ DOMAIN b = 1 .. m /\ DOMAIN c = 1 .. n + m
      /\ \A k \in 1 .. n : c[k] = a[k]
      /\ \A k \in 1 .. m : c[n + k] = b[k]
  OBVIOUS
<1> HIDE DEF n, m, c
<1>2. PICK g : Along(g, s, c, n + m) /\ Run(s, c) = g[n + m]
  BY <1>1, RunAlong
<1>3. Along(g, s, a, n)
  <2>1. \A k \in 0 .. n - 1 : k \in 0 .. (n + m) - 1 /\ k + 1 \in 1 .. n
    BY <1>1
  <2> QED
    BY <1>1, <1>2, <2>1 DEF Along
<1>4. Run(s, a) = g[n]
  BY <1>1, <1>3, RunIs
<1> DEFINE h == [k \in 0 .. m |-> g[n + k]]
<1>5. h[0] = g[n] /\ h[m] = g[n + m]
  BY <1>1
<1>6. ASSUME NEW k \in 0 .. m - 1 PROVE h[k + 1] = Scan!ByteIn(h[k], b[k + 1])
  <2>1. /\ n + k \in 0 .. (n + m) - 1 /\ (n + k) + 1 = n + (k + 1)
        /\ k \in 0 .. m /\ k + 1 \in 0 .. m /\ k + 1 \in 1 .. m
    <3>1. n \in Nat /\ m \in Nat /\ k \in Nat /\ k < m
      BY <1>1
    <3> QED
      BY <3>1
  <2>2. g[(n + k) + 1] = Scan!ByteIn(g[n + k], c[(n + k) + 1])
    BY <1>2, <2>1 DEF Along
  <2>3. c[(n + k) + 1] = b[k + 1]
    BY <1>1, <2>1
  <2> QED
    BY <2>1, <2>2, <2>3
<1> HIDE DEF h
<1>7. Along(h, g[n], b, m)
  BY <1>5, <1>6 DEF Along
<1>8. Run(g[n], b) = g[n + m]
  BY <1>1, <1>5, <1>7, RunIs
<1> QED
  BY <1>2, <1>4, <1>8 DEF c

\* One byte.
LEMMA RunsOne ==
  ASSUME NEW s, NEW b
  PROVE  Run(s, <<b>>) = Scan!ByteIn(s, b)
<1> DEFINE g == [k \in 0 .. 1 |-> IF k = 0 THEN s ELSE Scan!ByteIn(s, b)]
           t == <<b>>
<1>1. g[0] = s /\ g[1] = Scan!ByteIn(s, b)
  OBVIOUS
<1>2. DOMAIN t = 1 .. 1 /\ t[1] = b
  OBVIOUS
<1> HIDE DEF g, t
<1>3. ASSUME NEW k \in 0 .. 1 - 1 PROVE g[k + 1] = Scan!ByteIn(g[k], t[k + 1])
  <2>1. k = 0 /\ k + 1 = 1
    OBVIOUS
  <2> QED
    BY <1>1, <1>2, <2>1
<1>4. Along(g, s, t, 1)
  BY <1>1, <1>3 DEF Along
<1>5. Run(s, t) = g[1]
  <2>1. 1 \in Nat
    OBVIOUS
  <2> QED
    BY <1>2, <1>4, <2>1, RunIs
<1> QED
  BY <1>1, <1>5 DEF t

\* Two.
LEMMA RunsTwo ==
  ASSUME NEW s, NEW a, NEW b
  PROVE  Run(s, <<a, b>>) = Scan!ByteIn(Scan!ByteIn(s, a), b)
<1> DEFINE u == Scan!ByteIn(s, a)
           v == Scan!ByteIn(u, b)
           g == [k \in 0 .. 2 |-> IF k = 0 THEN s ELSE IF k = 1 THEN u ELSE v]
           t == <<a, b>>
<1>1. g[0] = s /\ g[1] = u /\ g[2] = v
  OBVIOUS
<1>2. DOMAIN t = 1 .. 2 /\ t[1] = a /\ t[2] = b
  OBVIOUS
<1> HIDE DEF g, t
<1>3. ASSUME NEW k \in 0 .. 2 - 1 PROVE g[k + 1] = Scan!ByteIn(g[k], t[k + 1])
  <2>1. (k = 0 /\ k + 1 = 1) \/ (k = 1 /\ k + 1 = 2)
    OBVIOUS
  <2> QED
    BY <1>1, <1>2, <2>1
<1>4. Along(g, s, t, 2)
  BY <1>1, <1>3 DEF Along
<1>5. Run(s, t) = g[2]
  <2>1. 2 \in Nat
    OBVIOUS
  <2> QED
    BY <1>2, <1>4, <2>1, RunIs
<1> QED
  BY <1>1, <1>5 DEF t

\* Text, outside of a sequence.
LEMMA RunsText ==
  ASSUME NEW s, s.st = "none"
  PROVE  Run(s, <<"h", "sep", "bel">>) = s
<1> DEFINE g == [k \in 0 .. 3 |-> s]
           t == <<"h", "sep", "bel">>
<1>1. g[0] = s /\ g[1] = s /\ g[2] = s /\ g[3] = s
  OBVIOUS
<1>2. DOMAIN t = 1 .. 3 /\ t[1] # "esc" /\ t[2] # "esc" /\ t[3] # "esc"
  OBVIOUS
<1> HIDE DEF g, t
<1>3. ASSUME NEW k \in 0 .. 3 - 1 PROVE g[k + 1] = Scan!ByteIn(g[k], t[k + 1])
  <2>1. (k = 0 /\ k + 1 = 1) \/ (k = 1 /\ k + 1 = 2) \/ (k = 2 /\ k + 1 = 3)
    OBVIOUS
  <2>2. g[k] = s /\ g[k + 1] = s /\ t[k + 1] # "esc"
    BY <1>1, <1>2, <2>1
  <2> QED
    BY <2>2 DEF Scan!ByteIn
<1>4. Along(g, s, t, 3)
  BY <1>1, <1>3 DEF Along
<1>5. Run(s, t) = g[3]
  <2>1. 3 \in Nat
    OBVIOUS
  <2> QED
    BY <1>2, <1>4, <2>1, RunIs
<1> QED
  BY <1>1, <1>5 DEF t

\* A scanner, by its parts.
Scanner(st, buf, tooLong, s) ==
  [st |-> st, buf |-> buf, tooLong |-> tooLong, modes |-> s.modes,
   title |-> s.title, changed |-> s.changed]

\* What there is room for.
Room(p, max) == SubSeq(p, 1, IF Len(p) < max THEN Len(p) ELSE max)

\* Inside a sequence, bytes that do not end it are kept as far as there is room.
LEMMA RunsInside ==
  ASSUME NEW T, NEW p \in Seq(T), NEW s,
         NEW st, NEW max \in Nat,
         \/ st = "csi" /\ max = MaxCSI /\ \A i \in DOMAIN p : p[i] \notin Scan!Final
         \/ st = "osc" /\ max = MaxOSC /\ \A i \in DOMAIN p : p[i] \notin {"bel", "esc"}
  PROVE  Run(Scanner(st, <<>>, FALSE, s), p) = Scanner(st, Room(p, max), Len(p) > max, s)
<1> DEFINE n == Len(p)
           m(k) == IF k < max THEN k ELSE max
           buf(k) == SubSeq(p, 1, m(k))
           g == [k \in 0 .. n |-> Scanner(st, buf(k), k > max, s)]
<1>1. n \in Nat /\ DOMAIN p = 1 .. n
  OBVIOUS
<1>2. g[0] = Scanner(st, <<>>, FALSE, s)
  <2>1. buf(0) = <<>> /\ 0 \in 0 .. n /\ (0 > max) = FALSE
    OBVIOUS
  <2> QED
    BY <2>1
<1>3. g[n] = Scanner(st, Room(p, max), n > max, s)
  BY <1>1 DEF Room
<1>4. ASSUME NEW k \in 0 .. n - 1 PROVE g[k + 1] = Scan!ByteIn(g[k], p[k + 1])
  <2>1. k \in Nat /\ k \in 0 .. n /\ k + 1 \in 0 .. n /\ k + 1 \in 1 .. n
    BY <1>1
  <2>2. g[k] = Scanner(st, buf(k), k > max, s) /\ g[k + 1] = Scanner(st, buf(k + 1), k + 1 > max, s)
    BY <2>1
  <2>3. Len(buf(k)) = m(k)
    BY <1>1, <2>1
  <2>4. Scan!ByteIn(g[k], p[k + 1]) = Scan!Push(g[k], p[k + 1], max)
    <3>1. g[k].st = st
      BY <2>2 DEF Scanner
    <3> HIDE DEF g
    <3> QED
      BY <1>1, <2>1, <3>1 DEF Scan!ByteIn
  <2>5. CASE k < max
    <3>1. /\ (k > max) = FALSE /\ (k + 1 > max) = FALSE /\ ~ (Len(buf(k)) >= max)
          /\ m(k) = k /\ m(k + 1) = k + 1
      BY <2>1, <2>3, <2>5
    <3>2. Append(buf(k), p[k + 1]) = buf(k + 1)
      <4>1. Append(SubSeq(p, 1, k), p[k + 1]) = SubSeq(p, 1, k + 1)
        BY <1>1, <2>1
      <4> QED
        BY <3>1, <4>1
    <3> HIDE DEF m, buf, g
    <3>3. Scan!Push(g[k], p[k + 1], max) = [g[k] EXCEPT !.buf = Append(@, p[k + 1])]
      BY <2>2, <3>1 DEF Scan!Push, Scanner
    <3>4. g[k] = Scanner(st, buf(k), FALSE, s) /\ g[k + 1] = Scanner(st, buf(k + 1), FALSE, s)
      BY <2>2, <3>1
    <3>5. [g[k] EXCEPT !.buf = Append(@, p[k + 1])] = Scanner(st, Append(buf(k), p[k + 1]), FALSE, s)
      <4> DEFINE u == FALSE
                 v == Append(buf(k), p[k + 1])
      <4>1. g[k].buf = buf(k) /\ g[k] = Scanner(st, buf(k), u, s)
        BY <3>4 DEF Scanner
      <4>2. [g[k] EXCEPT !.buf = Append(@, p[k + 1])] = [Scanner(st, buf(k), u, s) EXCEPT !.buf = v]
        BY <4>1
      <4> HIDE DEF u, v
      <4>3. [Scanner(st, buf(k), u, s) EXCEPT !.buf = v] = Scanner(st, v, u, s)
        BY DEF Scanner
      <4> QED
        BY <4>2, <4>3 DEF u, v
    <3> QED
      BY <2>4, <3>2, <3>3, <3>4, <3>5
  <2>6. CASE ~ (k < max)
    <3>1. (k + 1 > max) = TRUE /\ Len(buf(k)) >= max /\ m(k) = max /\ m(k + 1) = max
      BY <2>1, <2>3, <2>6
    <3>2. buf(k) = buf(k + 1)
      BY <3>1
    <3> HIDE DEF m, buf, g
    <3>3. Scan!Push(g[k], p[k + 1], max) = [g[k] EXCEPT !.tooLong = TRUE]
      BY <2>2, <3>1 DEF Scan!Push, Scanner
    <3>4. g[k + 1] = Scanner(st, buf(k), TRUE, s)
      BY <2>2, <3>1, <3>2
    <3>5. [g[k] EXCEPT !.tooLong = TRUE] = Scanner(st, buf(k), TRUE, s)
      <4> DEFINE u == k > max
                 v == TRUE
      <4> HIDE DEF u, v
      <4>1. [Scanner(st, buf(k), u, s) EXCEPT !.tooLong = v] = Scanner(st, buf(k), v, s)
        BY DEF Scanner
      <4> QED
        BY <2>2, <4>1 DEF u, v
    <3> QED
      BY <2>4, <3>3, <3>4, <3>5
  <2> QED
    BY <2>5, <2>6
<1> HIDE DEF g, buf, m
<1>5. Along(g, Scanner(st, <<>>, FALSE, s), p, n)
  BY <1>2, <1>4 DEF Along
<1> HIDE DEF n
<1>6. Run(Scanner(st, <<>>, FALSE, s), p) = g[n]
  BY <1>1, <1>5, RunIs
<1> QED
  BY <1>3, <1>6 DEF n

\* Whether something changed has no part in what follows.
Alike(s, t) ==
  s.st = t.st /\ s.buf = t.buf /\ s.tooLong = t.tooLong /\ s.modes = t.modes /\ s.title = t.title

\* Scanners that are alike stay so, whatever the byte.
LEMMA ByteAlike ==
  ASSUME NEW s, NEW t, IsScan(s), IsScan(t), Alike(s, t), NEW b
  PROVE  Alike(Scan!ByteIn(s, b), Scan!ByteIn(t, b))
<1>1. ASSUME NEW max PROVE Alike(Scan!Push(s, b, max), Scan!Push(t, b, max))
  BY DEF Scan!Push, IsScan, Alike
<1>2. Alike(Scan!FinishCSI(s, b), Scan!FinishCSI(t, b)) /\ IsScan(Scan!FinishCSI(s, b)) /\ IsScan(Scan!FinishCSI(t, b))
  BY DEF Scan!FinishCSI, IsScan, Alike
<1>3. Alike(Scan!FinishOSC(s), Scan!FinishOSC(t)) /\ IsScan(Scan!FinishOSC(s)) /\ IsScan(Scan!FinishOSC(t))
  BY DEF Scan!FinishOSC, IsScan, Alike
<1>4. ASSUME NEW st PROVE Alike(Scan!Begins(s, st), Scan!Begins(t, st))
  BY DEF Scan!Begins, IsScan, Alike
<1>5. ASSUME NEW u, NEW v, IsScan(u), IsScan(v), Alike(u, v) PROVE Alike(Scan!Ended(u), Scan!Ended(v))
  BY <1>5 DEF Scan!Ended, IsScan, Alike
<1>6. ASSUME NEW st PROVE Alike([s EXCEPT !.st = st], [t EXCEPT !.st = st])
  BY DEF IsScan, Alike
<1>7. s.st = t.st /\ s.tooLong = t.tooLong
  BY DEF Alike
<1> QED
  BY <1>1, <1>2, <1>3, <1>4, <1>5, <1>6, <1>7 DEF Scan!ByteIn

\* And whatever the bytes.
LEMMA RunsAlike ==
  ASSUME NEW s, NEW t, IsScan(s), IsScan(t), Alike(s, t), NEW T, NEW bytes \in Seq(T)
  PROVE  Alike(Run(s, bytes), Run(t, bytes)) /\ IsScan(Run(s, bytes))
<1> DEFINE n == Len(bytes)
<1>1. n \in Nat /\ DOMAIN bytes = 1 .. n
  OBVIOUS
<1> HIDE DEF n
<1>2. PICK g : Along(g, s, bytes, n) /\ Run(s, bytes) = g[n]
  BY <1>1, RunAlong
<1>3. PICK h : Along(h, t, bytes, n) /\ Run(t, bytes) = h[n]
  BY <1>1, RunAlong
<1> DEFINE P == {k \in 0 .. n : Alike(g[k], h[k]) /\ IsScan(g[k]) /\ IsScan(h[k])}
<1>4. 0 \in P
  BY <1>1, <1>2, <1>3 DEF Along
<1>5. ASSUME NEW k \in 0 .. n - 1, k \in P PROVE k + 1 \in P
  <2>1. k + 1 \in 0 .. n
    BY <1>1
  <2>2. g[k + 1] = Scan!ByteIn(g[k], bytes[k + 1]) /\ h[k + 1] = Scan!ByteIn(h[k], bytes[k + 1])
    BY <1>2, <1>3 DEF Along
  <2> QED
    BY <1>5, <2>1, <2>2, ByteAlike, ByteNotes
<1> HIDE DEF P
<1>6. n \in P
  BY <1>1, <1>4, <1>5, Induction
<1> QED
  BY <1>2, <1>3, <1>6 DEF P

\* No bytes.
LEMMA RunsNone ==
  ASSUME NEW s
  PROVE  Run(s, << >>) = s
<1> DEFINE g == [k \in 0 .. 0 |-> s]
           t == << >>
<1>1. g[0] = s
  OBVIOUS
<1>2. DOMAIN t = 1 .. 0
  OBVIOUS
<1> HIDE DEF g, t
<1>3. Along(g, s, t, 0)
  BY <1>1 DEF Along
<1>4. Run(s, t) = g[0]
  <2>1. 0 \in Nat
    OBVIOUS
  <2> QED
    BY <1>2, <1>3, <2>1, RunIs
<1> QED
  BY <1>1, <1>4 DEF t

\* Parameters, with their separators: what there is, in which the first comes first.
LEMMA JoinedHas ==
  ASSUME NEW params \in Seq(Scan!Param), NEW j, j = Scan!Joined(params)
  PROVE  /\ j \in Seq(Scan!Param \cup {"sep"})
         /\ Scan!SplitSemi(j) = Scan!ToSet(params)
         /\ j # << >> => j[1] \in Scan!Param
<1> DEFINE n == Len(params)
           P == Scan!Param
<1>1. n \in Nat /\ DOMAIN params = 1 .. n /\ \A k \in 1 .. n : params[k] \in P
  OBVIOUS
<1>2. DOMAIN j = 1 .. 2 * n - 1
  BY DEF Scan!Joined
<1>3. ASSUME NEW i \in 1 .. 2 * n - 1, i % 2 = 1
      PROVE  (i + 1) \div 2 \in 1 .. n /\ j[i] = params[(i + 1) \div 2]
  <2>1. (i + 1) \div 2 \in 1 .. n
    BY <1>1, <1>3
  <2> QED
    BY <1>3, <2>1 DEF Scan!Joined
<1>4. ASSUME NEW i \in 1 .. 2 * n - 1, i % 2 # 1 PROVE j[i] = "sep"
  BY <1>4 DEF Scan!Joined
<1>5. ASSUME NEW k \in 1 .. n
      PROVE  2 * k - 1 \in 1 .. 2 * n - 1 /\ j[2 * k - 1] = params[k]
  <2>1. 2 * k - 1 \in 1 .. 2 * n - 1 /\ (2 * k - 1) % 2 = 1 /\ ((2 * k - 1) + 1) \div 2 = k
    BY <1>1
  <2> QED
    BY <1>3, <2>1
<1>6. "sep" \notin P
  BY DEF Scan!Param, Scan!Mode
<1> HIDE DEF n, P
<1>7. ASSUME NEW i \in 1 .. 2 * n - 1 PROVE j[i] \in P \cup {"sep"}
  BY <1>1, <1>3, <1>4, <1>7
<1>8. j \in Seq(P \cup {"sep"})
  <2>1. j = [i \in DOMAIN j |-> j[i]]
    BY DEF Scan!Joined
  <2>2. PICK l \in Nat : 1 .. 2 * n - 1 = 1 .. l
    <3>1. CASE n = 0
      <4>1. 0 \in Nat /\ 1 .. 2 * 0 - 1 = 1 .. 0
        OBVIOUS
      <4> QED
        BY <3>1, <4>1
    <3>2. CASE n # 0
      BY <1>1, <3>2
    <3> QED
      BY <3>1, <3>2
  <2>3. DOMAIN j = 1 .. l /\ \A i \in 1 .. l : j[i] \in P \cup {"sep"}
    BY <1>2, <1>7, <2>2
  <2> DEFINE S == P \cup {"sep"}
  <2>4. j \in [1 .. l -> S]
    BY <2>1, <2>3
  <2> HIDE DEF S
  <2>5. j \in Seq(S)
    BY <2>4
  <2> QED
    BY <2>5 DEF S
<1>9. Scan!SplitSemi(j) = Scan!ToSet(params)
  <2>1. Scan!ToSet(params) = {params[k] : k \in 1 .. n}
    BY <1>1 DEF Scan!ToSet
  <2>2. Scan!SplitSemi(j) = {j[i] : i \in 1 .. 2 * n - 1} \ {"sep"}
    BY <1>2 DEF Scan!SplitSemi
  <2>3. ASSUME NEW b, b \in {j[i] : i \in 1 .. 2 * n - 1} \ {"sep"} PROVE b \in {params[k] : k \in 1 .. n}
    <3>1. PICK i \in 1 .. 2 * n - 1 : b = j[i]
      BY <2>3
    <3> QED
      BY <1>3, <1>4, <2>3, <3>1
  <2>4. ASSUME NEW k \in 1 .. n PROVE params[k] \in {j[i] : i \in 1 .. 2 * n - 1} \ {"sep"}
    <3>1. params[k] # "sep"
      BY <1>1, <1>6
    <3> QED
      BY <1>5, <3>1
  <2>5. {j[i] : i \in 1 .. 2 * n - 1} \ {"sep"} = {params[k] : k \in 1 .. n}
    BY <2>3, <2>4, Zenon
  <2> QED
    BY <2>1, <2>2, <2>5
<1>10. j # << >> => j[1] \in P
  <2>1. ASSUME j # << >> PROVE 1 \in 1 .. 2 * n - 1
    <3>1. CASE n = 0
      <4>1. 1 .. 2 * 0 - 1 = {}
        OBVIOUS
      <4>2. j = << >>
        BY <1>2, <1>8, <3>1, <4>1
      <4> QED
        BY <2>1, <4>2
    <3> QED
      BY <1>1, <3>1
  <2>2. 1 % 2 = 1
    OBVIOUS
  <2> QED
    BY <1>1, <1>3, <2>1, <2>2
<1> QED
  BY <1>8, <1>9, <1>10 DEF P

\* What is within the limit is all there.
LEMMA RoomForAll ==
  ASSUME NEW T, NEW p \in Seq(T), NEW max \in Nat, Len(p) <= max
  PROVE  Room(p, max) = p
<1>1. Room(p, max) = SubSeq(p, 1, Len(p))
  BY DEF Room
<1> QED
  BY <1>1

\* Outside of a sequence, knowing the modes and the title that p wants.
Meant(s, p) == IsScan(s) /\ s.st = "none" /\ s.modes = p.modes /\ s.title = p.title

\* What a program wants of the terminal.
IsProgram(p) ==
  /\ p = [modes |-> p.modes, title |-> p.title, focus |-> p.focus]
  /\ p.modes \subseteq Scan!Mode

\* What begins is empty.
LEMMA BeginsIs ==
  ASSUME NEW s, IsScan(s), NEW st
  PROVE  Scan!Begins(s, st) = Scanner(st, << >>, FALSE, s)
<1> DEFINE v == [s EXCEPT !.st = st]
           w == [v EXCEPT !.buf = << >>]
           no == FALSE
<1>1. v = Scanner(st, s.buf, s.tooLong, s)
  BY DEF IsScan, Scanner
<1> HIDE DEF v
<1>2. w = Scanner(st, << >>, s.tooLong, s)
  BY <1>1 DEF Scanner
<1>3. Scan!Begins(s, st) = [w EXCEPT !.tooLong = no]
  BY DEF Scan!Begins, v
<1> HIDE DEF w, no
<1>4. [w EXCEPT !.tooLong = no] = Scanner(st, << >>, no, s)
  BY <1>2 DEF Scanner
<1> QED
  BY <1>3, <1>4 DEF no

\* A scanner at the start of a sequence, after ESC and the byte that says which.
LEMMA RunsBegin ==
  ASSUME NEW s, IsScan(s), s.st = "none", NEW st, NEW b,
         \/ st = "csi" /\ b = "["
         \/ st = "osc" /\ b = "]"
  PROVE  Run(s, <<"esc", b>>) = Scanner(st, << >>, FALSE, s)
<1> DEFINE u == [s EXCEPT !.st = "esc"]
<1>1. Scan!ByteIn(s, "esc") = u
  BY DEF Scan!ByteIn
<1>2. u = Scanner("esc", s.buf, s.tooLong, s)
  BY DEF IsScan, Scanner
<1>3. u.st = "esc" /\ u.modes = s.modes /\ u.title = s.title /\ u.changed = s.changed /\ IsScan(u)
  BY <1>2 DEF Scanner, IsScan
<1> HIDE DEF u
<1>4. Scan!ByteIn(u, b) = Scan!Begins(u, st)
  BY <1>3 DEF Scan!ByteIn
<1>5. Scan!Begins(u, st) = Scanner(st, << >>, FALSE, s)
  <2>1. Scan!Begins(u, st) = Scanner(st, << >>, FALSE, u)
    BY <1>3, BeginsIs
  <2> QED
    BY <1>3, <2>1 DEF Scanner
<1>6. Run(s, <<"esc", b>>) = Scan!ByteIn(Scan!ByteIn(s, "esc"), b)
  BY RunsTwo
<1> QED
  BY <1>1, <1>4, <1>5, <1>6

\* The parts of a scanner at work.
LEMMA ScannerParts ==
  ASSUME NEW st, NEW buf, NEW tooLong \in BOOLEAN, NEW s, IsScan(s), s.modes \subseteq Scan!Mode,
         NEW t, t = Scanner(st, buf, tooLong, s)
  PROVE  /\ IsScan(t) /\ t.st = st /\ t.buf = buf /\ t.tooLong = tooLong
         /\ t.modes = s.modes /\ t.title = s.title
  BY DEF Scanner, IsScan

\* Its end, out of the sequence.
LEMMA EndsOut ==
  ASSUME NEW s, IsScan(s)
  PROVE  /\ IsScan(Scan!Ended(s)) /\ Scan!Ended(s).st = "none"
         /\ Scan!Ended(s).modes = s.modes /\ Scan!Ended(s).title = s.title
  BY DEF Scan!Ended, IsScan

\* A sequence of some values is one of more.
LEMMA Wider ==
  ASSUME NEW T, NEW q \in Seq(T), NEW U, T \subseteq U
  PROVE  q \in Seq(U)
<1>1. q \in [1 .. Len(q) -> U] /\ Len(q) \in Nat
  OBVIOUS
<1> QED
  BY <1>1

\* A sequence after nothing, ...
LEMMA NoneBefore ==
  ASSUME NEW T, NEW q \in Seq(T)
  PROVE  << >> \o q = q
  OBVIOUS

\* ... after one value, ...
LEMMA OneBefore ==
  ASSUME NEW T, NEW q \in Seq(T), NEW a, NEW r, r = <<a>> \o q
  PROVE  r \in Seq(T \cup {a}) /\ r # << >> /\ r[1] = a /\ Tail(r) = q
<1> DEFINE U == T \cup {a}
<1>1. a \in U /\ q \in Seq(U)
  BY Wider
<1> HIDE DEF U
<1>2. <<a>> \in Seq(U) /\ Len(<<a>>) = 1 /\ Len(q) \in Nat
  BY <1>1
<1>3. r \in Seq(U) /\ Len(r) = 1 + Len(q)
  BY <1>1, <1>2
<1>4. r[1] = a
  BY <1>1, <1>2
<1>5. r # << >>
  BY <1>2, <1>3
<1>6. Tail(r) = q
  <2>1. Tail(r) \in Seq(U) /\ Len(Tail(r)) = Len(q)
    BY <1>2, <1>3, <1>5
  <2>2. \A i \in 1 .. Len(q) : Tail(r)[i] = q[i]
    BY <1>1, <1>2, <1>3, <1>5
  <2> QED
    BY <1>1, <2>1, <2>2
<1> QED
  BY <1>3, <1>4, <1>5, <1>6 DEF U

\* ... and after two.
LEMMA TwoBefore ==
  ASSUME NEW T, NEW q \in Seq(T), NEW a, NEW b, NEW r, r = <<a, b>> \o q
  PROVE  /\ r \in Seq(T \cup {a, b}) /\ Len(r) = 2 + Len(q) /\ Len(q) \in Nat
         /\ r[1] = a /\ r[2] = b /\ SubSeq(r, 3, Len(r)) = q
<1> DEFINE U == T \cup {a, b}
<1>1. a \in U /\ b \in U /\ q \in Seq(U)
  BY Wider
<1> HIDE DEF U
<1>2. <<a, b>> \in Seq(U) /\ Len(<<a, b>>) = 2 /\ Len(q) \in Nat
  BY <1>1
<1>3. r \in Seq(U) /\ Len(r) = 2 + Len(q)
  BY <1>1, <1>2
<1>4. r[1] = a /\ r[2] = b
  BY <1>1, <1>2
<1>5. \A i \in 1 .. Len(q) : r[2 + i] = q[i]
  BY <1>1, <1>2
<1>6. SubSeq(r, 3, Len(r)) = q
  <2>1. SubSeq(r, 3, Len(r)) \in Seq(U) /\ Len(SubSeq(r, 3, Len(r))) = Len(q)
    BY <1>2, <1>3
  <2>2. \A i \in 1 .. Len(q) : SubSeq(r, 3, Len(r))[i] = q[i]
    <3> TAKE i \in 1 .. Len(q)
    <3>1. SubSeq(r, 3, Len(r))[i] = r[3 + i - 1] /\ 3 + i - 1 = 2 + i
      BY <1>2, <1>3
    <3> QED
      BY <1>5, <3>1
  <2> QED
    BY <1>1, <2>1, <2>2
<1> QED
  BY <1>2, <1>3, <1>4, <1>6 DEF U

\* The modes after a control sequence.
ModesOf(p, private, params, final) ==
  IF ~ private THEN p.modes
  ELSE IF final = "h" THEN p.modes \cup (Scan!ToSet(params) \cap Scan!Mode)
  ELSE IF final = "l" THEN p.modes \ Scan!ToSet(params) ELSE p.modes

\* What the end of a control sequence makes of its bytes.
LEMMA CsiEnds ==
  ASSUME NEW s, IsScan(s), s.modes \subseteq Scan!Mode, NEW p, IsProgram(p),
         s.modes = p.modes, s.title = p.title,
         NEW params \in Seq(Scan!Param), NEW private \in BOOLEAN, NEW final \in Scan!Final,
         NEW t, t = Scan!Csi(private, params, final), s.buf = Scan!Payload(t)
  PROVE  LET r == Scan!FinishCSI(s, final)
         IN IsScan(r) /\ r.modes = ModesOf(p, private, params, final) /\ r.title = p.title
<1> DEFINE j == Scan!Joined(params)
<1>1. j \in Seq(Scan!Param \cup {"sep"}) /\ Scan!SplitSemi(j) = Scan!ToSet(params)
  BY JoinedHas
<1>2. j # << >> => j[1] # "?"
  BY JoinedHas DEF Scan!Param, Scan!Mode
<1> HIDE DEF j
<1>3. s.buf = (IF private THEN <<"?">> ELSE << >>) \o j
  BY DEF Scan!Payload, Scan!Csi, j
<1>4. CASE ~ private
  <2>1. s.buf = j
    <3>1. s.buf = << >> \o j
      BY <1>3, <1>4
    <3>2. << >> \o j = j
      BY <1>1, NoneBefore
    <3> QED
      BY <3>1, <3>2
  <2>2. Scan!FinishCSI(s, final) = s
    BY <1>2, <2>1 DEF Scan!FinishCSI
  <2> QED
    BY <1>4, <2>2 DEF ModesOf
<1>5. CASE private
  <2>1. s.buf = <<"?">> \o j
    BY <1>3, <1>5
  <2>2. s.buf # << >> /\ s.buf[1] = "?" /\ Tail(s.buf) = j
    <3> DEFINE q == <<"?">> \o j
    <3>1. q = <<"?">> \o j
      OBVIOUS
    <3> HIDE DEF q
    <3>2. q # << >> /\ q[1] = "?" /\ Tail(q) = j
      BY <1>1, <3>1, OneBefore
    <3> QED
      BY <2>1, <3>1, <3>2
  <2> DEFINE bits == Scan!ToSet(params) \cap Scan!Mode
             modes == IF final = "h" THEN s.modes \cup bits ELSE s.modes \ bits
  <2>3. CASE final = "m"
    <3>1. Scan!FinishCSI(s, final) = s
      BY <2>3 DEF Scan!FinishCSI
    <3> QED
      BY <1>5, <2>3, <3>1 DEF ModesOf
  <2>4. CASE final # "m"
    <3>1. final \in {"h", "l"}
      BY <2>4 DEF Scan!Final
    <3>2. Scan!FinishCSI(s, final) = [s EXCEPT !.modes = modes, !.changed = @ \/ modes # s.modes]
      BY <1>1, <2>2, <3>1 DEF Scan!FinishCSI
    <3>3. modes = IF final = "h" THEN p.modes \cup bits ELSE p.modes \ Scan!ToSet(params)
      BY <3>1 DEF IsProgram
    <3> HIDE DEF modes
    <3>4. /\ IsScan(Scan!FinishCSI(s, final))
          /\ Scan!FinishCSI(s, final).modes = modes /\ Scan!FinishCSI(s, final).title = s.title
      BY <3>2 DEF IsScan
    <3> QED
      BY <1>5, <3>1, <3>3, <3>4 DEF ModesOf
  <2> QED
    BY <2>3, <2>4
<1> QED
  BY <1>4, <1>5

\* What the end of a title makes of it.
LEMMA OscEnds ==
  ASSUME NEW s, IsScan(s), NEW code \in Scan!Code, NEW text \in Seq(Scan!Letter), NEW end,
         NEW t, t = Scan!Osc(code, text, end), s.buf = Scan!Payload(t)
  PROVE  LET r == Scan!FinishOSC(s)
         IN /\ IsScan(r) /\ r.modes = s.modes
            /\ r.title = IF code \in {"0", "2"} THEN Scan!SanitizeTitle(text) ELSE s.title
<1>1. s.buf = <<code, "sep">> \o text
  BY DEF Scan!Payload, Scan!Osc
<1>2. /\ Len(s.buf) = 2 + Len(text) /\ Len(text) \in Nat
      /\ s.buf[1] = code /\ s.buf[2] = "sep" /\ SubSeq(s.buf, 3, Len(s.buf)) = text
  <2> DEFINE q == <<code, "sep">> \o text
  <2>1. /\ Len(q) = 2 + Len(text) /\ Len(text) \in Nat
        /\ q[1] = code /\ q[2] = "sep" /\ SubSeq(q, 3, Len(q)) = text
    <3>1. q = <<code, "sep">> \o text
      OBVIOUS
    <3> HIDE DEF q
    <3> QED
      BY <3>1, TwoBefore
  <2> HIDE DEF q
  <2> QED
    BY <1>1, <2>1 DEF q
<1>3. CASE code \in {"0", "2"}
  <2> DEFINE title == Scan!SanitizeTitle(text)
  <2>1. ~ (Len(s.buf) < 2 \/ s.buf[2] # "sep" \/ s.buf[1] \notin {"0", "1", "2"})
    BY <1>2, <1>3
  <2>2. Scan!FinishOSC(s) = [s EXCEPT !.title = title, !.changed = @ \/ title # s.title]
    BY <1>2, <2>1 DEF Scan!FinishOSC
  <2> HIDE DEF title
  <2>3. IsScan(Scan!FinishOSC(s)) /\ Scan!FinishOSC(s).modes = s.modes /\ Scan!FinishOSC(s).title = title
    BY <2>2 DEF IsScan
  <2> QED
    BY <1>3, <2>3 DEF title
<1>4. CASE code \notin {"0", "2"}
  <2>1. Scan!FinishOSC(s) = s
    BY <1>2, <1>4 DEF Scan!FinishOSC, Scan!Code
  <2> QED
    BY <1>4, <2>1
<1> QED
  BY <1>3, <1>4

\* What a sequence holds between its first two bytes and its end.
LEMMA PayloadIs ==
  /\ \A private \in BOOLEAN, params \in Seq(Scan!Param) : \A final :
       Scan!Payload(Scan!Csi(private, params, final)) \in Seq(Scan!Param \cup {"sep", "?"})
  /\ \A code \in Scan!Code, text \in Seq(Scan!Letter) : \A end :
       Scan!Payload(Scan!Osc(code, text, end)) \in Seq(Scan!Letter \cup Scan!Code \cup {"sep"})
<1>1. ASSUME NEW private \in BOOLEAN, NEW params \in Seq(Scan!Param), NEW final
      PROVE  Scan!Payload(Scan!Csi(private, params, final)) \in Seq(Scan!Param \cup {"sep", "?"})
  <2> DEFINE j == Scan!Joined(params)
             U == Scan!Param \cup {"sep", "?"}
             q == Scan!Payload(Scan!Csi(private, params, final))
  <2>1. j \in Seq(Scan!Param \cup {"sep"})
    BY JoinedHas
  <2>2. Scan!Param \cup {"sep"} \subseteq U /\ "?" \in U
    OBVIOUS
  <2>3. q = (IF private THEN <<"?">> ELSE << >>) \o j
    BY DEF Scan!Payload, Scan!Csi
  <2> HIDE DEF j, U, q
  <2>4. j \in Seq(U)
    BY <2>1, <2>2, Wider
  <2>5. ASSUME private PROVE q \in Seq(U)
    <3>1. q = <<"?">> \o j
      BY <2>3, <2>5
    <3> QED
      BY <2>2, <2>4, <3>1
  <2>6. ASSUME ~ private PROVE q \in Seq(U)
    <3>1. q = << >> \o j
      BY <2>3, <2>6
    <3> QED
      BY <2>4, <3>1, NoneBefore
  <2>7. q \in Seq(U)
    BY <2>5, <2>6
  <2> QED
    BY <2>7 DEF U, q
<1>2. ASSUME NEW code \in Scan!Code, NEW text \in Seq(Scan!Letter), NEW end
      PROVE  Scan!Payload(Scan!Osc(code, text, end)) \in Seq(Scan!Letter \cup Scan!Code \cup {"sep"})
  <2> DEFINE U == Scan!Letter \cup Scan!Code \cup {"sep"}
             q == Scan!Payload(Scan!Osc(code, text, end))
  <2>1. text \in Seq(U)
    BY Wider
  <2>2. code \in U /\ "sep" \in U
    OBVIOUS
  <2>3. q = <<code, "sep">> \o text
    BY DEF Scan!Payload, Scan!Osc
  <2> HIDE DEF U, q
  <2>4. q \in Seq(U)
    BY <2>1, <2>2, <2>3
  <2> QED
    BY <2>4 DEF U, q
<1> QED
  BY <1>1, <1>2

\* A whole sequence: its first two bytes, what it holds, and its end.
LEMMA RunsThrough ==
  ASSUME NEW T, NEW a \in Seq(T), NEW p \in Seq(T), NEW z \in Seq(T), NEW s
  PROVE  Run(s, (a \o p) \o z) = Run(Run(Run(s, a), p), z)
<1>1. Run(s, a \o p) = Run(Run(s, a), p)
  BY RunsOn
<1> DEFINE q == a \o p
<1>2. q \in Seq(T)
  OBVIOUS
<1> HIDE DEF q
<1>3. Run(s, q \o z) = Run(Run(s, q), z)
  BY <1>2, RunsOn
<1> QED
  BY <1>1, <1>3 DEF q

\* A control sequence means what it says.
LEMMA CsiMeans ==
  ASSUME MaxCSI \in Nat, NEW e, IsScan(e), NEW p, IsProgram(p), Meant(e, p),
         NEW private \in BOOLEAN, NEW params \in Seq(Scan!Param), NEW final \in Scan!Final,
         NEW t, t = Scan!Csi(private, params, final)
  PROVE  Meant(Run(e, Scan!Bytes(t)), Scan!Means(p, t)) /\ IsProgram(Scan!Means(p, t))
<1> DEFINE q == Scan!Payload(t)
           U == Scan!Byte
           a == <<"esc", "[">>
           z == <<final>>
           n == Len(q) > MaxCSI
           s == Scanner("csi", Room(q, MaxCSI), n, e)
           r == Scan!FinishCSI(s, final)
<1>1. t.kind = "csi" /\ t.private = private /\ t.params = params /\ t.final = final
  BY DEF Scan!Csi
<1>2. Scan!Bytes(t) = (a \o q) \o z
  BY <1>1 DEF Scan!Bytes, Scan!End
<1>3. /\ q \in Seq(Scan!Param \cup {"sep", "?"}) /\ Scan!Param \cup {"sep", "?"} \subseteq U
      /\ \A i \in DOMAIN q : q[i] \notin Scan!Final
  <2>1. q \in Seq(Scan!Param \cup {"sep", "?"})
    BY PayloadIs
  <2> HIDE DEF q
  <2> QED
    BY <2>1 DEF Scan!Byte, Scan!Param, Scan!Mode, Scan!Final
<1>4. a \in Seq(U) /\ z \in Seq(U)
  BY DEF Scan!Byte
<1> HIDE DEF q, U, a, z
<1>5. q \in Seq(U)
  BY <1>3, Wider
<1>6. Run(e, Scan!Bytes(t)) = Run(Run(Run(e, a), q), z)
  BY <1>2, <1>4, <1>5, RunsThrough
<1>7. Run(e, a) = Scanner("csi", << >>, FALSE, e)
  BY RunsBegin DEF Meant, a
<1>8. Run(Scanner("csi", << >>, FALSE, e), q) = s
  BY <1>3, RunsInside
<1>9. Run(s, z) = Scan!ByteIn(s, final)
  BY RunsOne DEF z
<1>10. e.modes \subseteq Scan!Mode /\ n \in BOOLEAN
  BY DEF Meant, IsProgram
<1>11. /\ IsScan(s) /\ s.st = "csi" /\ s.buf = Room(q, MaxCSI) /\ s.tooLong = n
       /\ s.modes = e.modes /\ s.title = e.title
  <2> HIDE DEF n, s
  <2> QED
    BY <1>10, ScannerParts DEF s
<1> HIDE DEF s, n
<1>12. Run(e, Scan!Bytes(t)) = Scan!Ended(IF n THEN s ELSE r)
  <2>1. Scan!ByteIn(s, final) = Scan!Ended(IF s.tooLong THEN s ELSE r)
    BY <1>11 DEF Scan!ByteIn
  <2> QED
    BY <1>6, <1>7, <1>8, <1>9, <1>11, <2>1
<1>13. CASE n
  <2>1. Scan!Means(p, t) = p
    <3>1. ~ (Len(q) <= MaxCSI)
      BY <1>3, <1>13 DEF n
    <3> QED
      BY <1>1, <3>1 DEF Scan!Means, q
  <2> QED
    BY <1>11, <1>12, <1>13, <2>1, EndsOut DEF Meant
<1>14. CASE ~ n
  <2>1. Len(q) <= MaxCSI
    BY <1>3, <1>14 DEF n
  <2>2. s.buf = q
    BY <1>5, <1>11, <2>1, RoomForAll
  <2> DEFINE m == ModesOf(p, private, params, final)
  <2>3. IsScan(r) /\ r.modes = m /\ r.title = p.title
    BY <1>10, <1>11, <2>2, CsiEnds DEF Meant, q
  <2> HIDE DEF r
  <2>4. /\ Scan!Means(p, t) = [p EXCEPT !.modes = m]
        /\ m \subseteq Scan!Mode
    BY <1>1, <2>1 DEF Scan!Means, q, IsProgram, ModesOf
  <2> HIDE DEF m
  <2>5. IsProgram(Scan!Means(p, t)) /\ Scan!Means(p, t).modes = m /\ Scan!Means(p, t).title = p.title
    BY <2>4 DEF IsProgram
  <2> QED
    BY <1>12, <1>14, <2>3, <2>5, EndsOut DEF Meant
<1> QED
  BY <1>13, <1>14

\* A title is taken from a sequence that is whole, and from no other.
LEMMA OscMeans ==
  ASSUME MaxOSC \in Nat, NEW e, IsScan(e), NEW p, IsProgram(p), Meant(e, p),
         NEW code \in Scan!Code, NEW text \in Seq(Scan!Letter), NEW end \in {"bel", "st", "cut"},
         NEW t, t = Scan!Osc(code, text, end)
  PROVE  Meant(Run(e, Scan!Bytes(t)), Scan!Means(p, t)) /\ IsProgram(Scan!Means(p, t))
<1> DEFINE q == Scan!Payload(t)
           U == Scan!Byte
           a == <<"esc", "]">>
           z == Scan!End(t)
           n == Len(q) > MaxOSC
           s == Scanner("osc", Room(q, MaxOSC), n, e)
           r == Scan!FinishOSC(s)
<1>1. t.kind = "osc" /\ t.code = code /\ t.text = text /\ t.end = end
  BY DEF Scan!Osc
<1>2. Scan!Bytes(t) = (a \o q) \o z
  BY <1>1 DEF Scan!Bytes
<1>3. /\ q \in Seq(Scan!Letter \cup Scan!Code \cup {"sep"})
      /\ Scan!Letter \cup Scan!Code \cup {"sep"} \subseteq U
      /\ \A i \in DOMAIN q : q[i] \notin {"bel", "esc"}
  <2>1. q \in Seq(Scan!Letter \cup Scan!Code \cup {"sep"})
    BY PayloadIs
  <2> HIDE DEF q
  <2> QED
    BY <2>1 DEF Scan!Byte, Scan!Letter, Scan!Code
<1>4. /\ z = IF end = "bel" THEN <<"bel">>
             ELSE IF end = "st" THEN <<"esc", "\\">> ELSE <<"esc", "other">>
      /\ a \in Seq(U) /\ z \in Seq(U)
  <2>1. {"esc", "]", "bel", "\\", "other"} \subseteq U
    BY DEF Scan!Byte, Scan!Param
  <2> HIDE DEF U
  <2>2. z = IF end = "bel" THEN <<"bel">>
            ELSE IF end = "st" THEN <<"esc", "\\">> ELSE <<"esc", "other">>
    BY <1>1 DEF Scan!End
  <2> HIDE DEF z
  <2>3. a \in Seq(U)
    BY <2>1
  <2>4. <<"bel">> \in Seq(U) /\ <<"esc", "\\">> \in Seq(U) /\ <<"esc", "other">> \in Seq(U)
    BY <2>1
  <2> QED
    BY <2>2, <2>3, <2>4
<1> HIDE DEF q, U, a, z
<1>5. q \in Seq(U)
  BY <1>3, Wider
<1>6. Run(e, Scan!Bytes(t)) = Run(Run(Run(e, a), q), z)
  <2>1. a \in Seq(U) /\ z \in Seq(U)
    BY <1>4
  <2>2. Run(e, (a \o q) \o z) = Run(Run(Run(e, a), q), z)
    BY <1>5, <2>1, RunsThrough
  <2> QED
    BY <1>2, <2>2
<1>7. Run(e, a) = Scanner("osc", << >>, FALSE, e)
  BY RunsBegin DEF Meant, a
<1>8. Run(Scanner("osc", << >>, FALSE, e), q) = s
  BY <1>3, RunsInside
<1>9. e.modes \subseteq Scan!Mode /\ n \in BOOLEAN
  BY DEF Meant, IsProgram
<1>10. /\ IsScan(s) /\ s.st = "osc" /\ s.buf = Room(q, MaxOSC) /\ s.tooLong = n
       /\ s.modes = e.modes /\ s.title = e.title
  <2> HIDE DEF n, s
  <2> QED
    BY <1>9, ScannerParts DEF s
<1> HIDE DEF s, n
\* After BEL it is out of it; after ESC the next byte decides.
<1>11. end = "bel" => Run(s, z) = Scan!Ended(IF n THEN s ELSE r)
  <2>1. Scan!ByteIn(s, "bel") = Scan!Ended(IF s.tooLong THEN s ELSE r)
    BY <1>10 DEF Scan!ByteIn
  <2>2. Run(s, <<"bel">>) = Scan!ByteIn(s, "bel")
    BY RunsOne
  <2> QED
    BY <1>4, <1>10, <2>1, <2>2
<1> DEFINE u == [s EXCEPT !.st = "oscEsc"]
<1>12. /\ IsScan(u) /\ u.st = "oscEsc" /\ u.buf = s.buf /\ u.tooLong = n
       /\ u.modes = e.modes /\ u.title = e.title
  BY <1>10 DEF IsScan
<1>13. Scan!ByteIn(s, "esc") = u
  BY <1>10 DEF Scan!ByteIn
<1> HIDE DEF u
<1>14. end = "st" => Run(s, z) = Scan!Ended(IF n THEN u ELSE Scan!FinishOSC(u))
  <2>1. Scan!ByteIn(u, "\\") = Scan!Ended(IF n THEN u ELSE Scan!FinishOSC(u))
    BY <1>12 DEF Scan!ByteIn
  <2>2. Run(s, <<"esc", "\\">>) = Scan!ByteIn(Scan!ByteIn(s, "esc"), "\\")
    BY RunsTwo
  <2> QED
    BY <1>4, <1>13, <2>1, <2>2
<1>15. end = "cut" => Run(s, z) = Scan!Ended(u)
  <2>1. Scan!ByteIn(u, "other") = Scan!Ended(u)
    BY <1>12 DEF Scan!ByteIn
  <2>2. Run(s, <<"esc", "other">>) = Scan!ByteIn(Scan!ByteIn(s, "esc"), "other")
    BY RunsTwo
  <2> QED
    BY <1>4, <1>13, <2>1, <2>2
\* What it makes of the title.
<1> DEFINE title == IF end # "cut" /\ ~ n /\ code \in {"0", "2"} THEN Scan!SanitizeTitle(text)
                    ELSE p.title
<1>16. Scan!Means(p, t) = [p EXCEPT !.title = title]
  <2>1. (Len(q) <= MaxOSC) = ~ n
    BY <1>3 DEF n
  <2>2. (t.kind = "csi") = FALSE
    BY <1>1
  <2>3. CASE end # "cut" /\ ~ n /\ code \in {"0", "2"}
    BY <1>1, <2>1, <2>2, <2>3 DEF Scan!Means, q
  <2>4. CASE ~ (end # "cut" /\ ~ n /\ code \in {"0", "2"})
    <3>1. Scan!Means(p, t) = p
      BY <1>1, <2>1, <2>2, <2>4 DEF Scan!Means, q
    <3>2. title = p.title
      BY <2>4
    <3> HIDE DEF title
    <3> QED
      BY <3>1, <3>2 DEF IsProgram
  <2> QED
    BY <2>3, <2>4
<1>17. ASSUME NEW v, IsScan(v), v.buf = s.buf, v.modes = e.modes, v.title = e.title, ~ n
       PROVE  LET w == Scan!FinishOSC(v) IN
              /\ IsScan(w) /\ w.modes = p.modes
              /\ w.title = IF code \in {"0", "2"} THEN Scan!SanitizeTitle(text) ELSE p.title
  <2>1. Len(q) <= MaxOSC
    BY <1>3, <1>17 DEF n
  <2>2. v.buf = q
    BY <1>5, <1>10, <1>17, <2>1, RoomForAll
  <2>3. v.modes = p.modes /\ v.title = p.title
    BY <1>17 DEF Meant
  <2> QED
    BY <1>17, <2>2, <2>3, OscEnds DEF q
<1>18. PICK w : /\ Run(s, z) = Scan!Ended(w) /\ IsScan(w) /\ w.modes = p.modes /\ w.title = title
  <2>1. s.modes = p.modes /\ s.title = p.title /\ u.modes = p.modes /\ u.title = p.title
    BY <1>10, <1>12 DEF Meant
  <2>2. CASE end = "bel"
    BY <1>10, <1>11, <1>17, <2>1, <2>2
  <2>3. CASE end = "st"
    BY <1>10, <1>12, <1>14, <1>17, <2>1, <2>3
  <2>4. CASE end = "cut"
    BY <1>12, <1>15, <2>1, <2>4
  <2> QED
    BY <2>2, <2>3, <2>4
<1> HIDE DEF title
<1>19. /\ IsProgram(Scan!Means(p, t)) /\ Scan!Means(p, t).modes = p.modes
       /\ Scan!Means(p, t).title = title
  BY <1>16 DEF IsProgram
<1>20. Run(e, Scan!Bytes(t)) = Scan!Ended(w)
  BY <1>6, <1>7, <1>8, <1>18
<1> QED
  BY <1>18, <1>19, <1>20, EndsOut DEF Meant

\* Text and the escapes of other kinds mean nothing.
LEMMA OthersMean ==
  ASSUME NEW e, IsScan(e), NEW p, IsProgram(p), Meant(e, p),
         NEW t, t.kind \in {"text", "escape"}
  PROVE  Meant(Run(e, Scan!Bytes(t)), Scan!Means(p, t)) /\ IsProgram(Scan!Means(p, t))
<1>1. Scan!Means(p, t) = p
  BY DEF Scan!Means
<1>2. CASE t.kind = "text"
  <2>1. Scan!Bytes(t) = <<"h", "sep", "bel">>
    BY <1>2 DEF Scan!Bytes
  <2>2. Run(e, <<"h", "sep", "bel">>) = e
    BY RunsText DEF Meant
  <2> QED
    BY <1>1, <2>1, <2>2
<1>3. CASE t.kind = "escape"
  <2>1. Scan!Bytes(t) = <<"esc", "other">>
    BY <1>3 DEF Scan!Bytes
  <2> DEFINE u == [e EXCEPT !.st = "esc"]
  <2>2. Scan!ByteIn(e, "esc") = u
    BY DEF Scan!ByteIn, Meant
  <2>3. IsScan(u) /\ u.st = "esc" /\ u.modes = e.modes /\ u.title = e.title
    BY DEF IsScan
  <2> HIDE DEF u
  <2>4. Scan!ByteIn(u, "other") = Scan!Ended(u)
    BY <2>3 DEF Scan!ByteIn
  <2>5. Run(e, <<"esc", "other">>) = Scan!ByteIn(Scan!ByteIn(e, "esc"), "other")
    BY RunsTwo
  <2>6. Run(e, Scan!Bytes(t)) = Scan!Ended(u)
    BY <2>1, <2>2, <2>4, <2>5
  <2> QED
    BY <1>1, <2>3, <2>6, EndsOut DEF Meant
<1> QED
  BY <1>2, <1>3

\* So the scanner makes of every sequence what it means.
LEMMA TokenMeans ==
  ASSUME MaxCSI \in Nat, MaxOSC \in Nat, NEW e, IsScan(e), NEW p, IsProgram(p), Meant(e, p),
         NEW t \in Scan!Token
  PROVE  Meant(Run(e, Scan!Bytes(t)), Scan!Means(p, t)) /\ IsProgram(Scan!Means(p, t))
<1>1. CASE t.kind \in {"text", "escape"}
  BY <1>1, OthersMean
<1>2. CASE t \in [kind : {"csi"}, private : BOOLEAN, params : Seq(Scan!Param), final : Scan!Final]
  <2>1. /\ t = Scan!Csi(t.private, t.params, t.final)
        /\ t.private \in BOOLEAN /\ t.params \in Seq(Scan!Param) /\ t.final \in Scan!Final
    BY <1>2 DEF Scan!Csi
  <2> QED
    BY <2>1, CsiMeans
<1>3. CASE t \in [kind : {"osc"}, code : Scan!Code, text : Seq(Scan!Letter), end : {"bel", "st", "cut"}]
  <2>1. /\ t = Scan!Osc(t.code, t.text, t.end)
        /\ t.code \in Scan!Code /\ t.text \in Seq(Scan!Letter) /\ t.end \in {"bel", "st", "cut"}
    BY <1>3 DEF Scan!Osc
  <2> QED
    BY <2>1, OscMeans
<1>4. \/ t.kind \in {"text", "escape"}
      \/ t \in [kind : {"csi"}, private : BOOLEAN, params : Seq(Scan!Param), final : Scan!Final]
      \/ t \in [kind : {"osc"}, code : Scan!Code, text : Seq(Scan!Letter), end : {"bel", "st", "cut"}]
  BY DEF Scan!Token
<1> QED
  BY <1>1, <1>2, <1>3, <1>4

-----------------------------------------------------------------------------
(* The types of what the scanner knows *)

\* A title is as short as it must be.
LEMMA TitleTyped ==
  ASSUME TitleMax \in Nat, NEW text \in Seq(Scan!Byte), NEW title, title = Scan!SanitizeTitle(text)
  PROVE  title \in Seq(Scan!Byte) /\ Len(title) <= TitleMax
<1> DEFINE good == Scan!Byte \ {"ctl"}
           clean == Scan!Kept(text, good)
           U == Scan!Byte
<1>1. clean \in Seq(U)
  <2>1. clean \in Seq(U \cap good)
    <3> HIDE DEF good, U
    <3>1. Address!Kept(text, good) \in Seq(U \cap good) /\ Scan!Kept(text, good) = Address!Kept(text, good)
      BY KeptIsSome, KeptSame DEF U
    <3> QED
      BY <3>1
  <2> HIDE DEF good, clean, U
  <2> QED
    BY <2>1, Wider
<1>2. title = SubSeq(clean, 1, IF Len(clean) < TitleMax THEN Len(clean) ELSE TitleMax)
  BY DEF Scan!SanitizeTitle
<1> HIDE DEF clean, U
<1>3. title \in Seq(U) /\ Len(title) <= TitleMax
  BY <1>1, <1>2
<1> QED
  BY <1>3 DEF U

\* What a scanner keeps, in its limits.
ScanTyped(s) ==
  /\ IsScan(s)
  /\ s.st \in {"none", "esc", "csi", "osc", "oscEsc"}
  /\ s.buf \in Seq(Scan!Byte) /\ Len(s.buf) <= MaxCSI + MaxOSC
  /\ s.tooLong \in BOOLEAN /\ s.modes \subseteq Scan!Mode
  /\ s.title \in Seq(Scan!Byte) /\ Len(s.title) <= TitleMax

\* Another state leaves the rest.
LEMMA StateTyped ==
  ASSUME NEW t, ScanTyped(t), NEW st \in {"none", "esc", "csi", "osc", "oscEsc"}
  PROVE  ScanTyped([t EXCEPT !.st = st])
<1> DEFINE u == [t EXCEPT !.st = st]
<1>1. /\ IsScan(u) /\ u.st = st /\ u.buf = t.buf /\ u.tooLong = t.tooLong
      /\ u.modes = t.modes /\ u.title = t.title
  BY DEF ScanTyped, IsScan
<1> HIDE DEF u
<1>2. ScanTyped(u)
  BY <1>1 DEF ScanTyped
<1> QED
  BY <1>2 DEF u

\* A byte leaves a scanner a scanner.
LEMMA ByteTyped ==
  ASSUME MaxCSI \in Nat, MaxOSC \in Nat, TitleMax \in Nat,
         NEW s, ScanTyped(s), NEW b \in Scan!Byte
  PROVE  ScanTyped(Scan!ByteIn(s, b))
<1> DEFINE U == Scan!Byte
<1>1. ASSUME NEW max \in {MaxCSI, MaxOSC} PROVE ScanTyped(Scan!Push(s, b, max))
  <2>1. CASE Len(s.buf) >= max
    <3>1. Scan!Push(s, b, max) = [s EXCEPT !.tooLong = TRUE]
      BY <2>1 DEF Scan!Push
    <3> QED
      BY <3>1 DEF ScanTyped, IsScan
  <2>2. CASE ~ (Len(s.buf) >= max)
    <3>1. Scan!Push(s, b, max) = [s EXCEPT !.buf = Append(@, b)]
      BY <2>2 DEF Scan!Push
    <3> DEFINE v == Append(s.buf, b)
    <3>2. v \in Seq(U) /\ Len(v) <= MaxCSI + MaxOSC
      <4> HIDE DEF U
      <4>1. s.buf \in Seq(U) /\ b \in U
        BY DEF ScanTyped, U
      <4> QED
        BY <2>2, <4>1
    <3> HIDE DEF v, U
    <3>3. Scan!Push(s, b, max) = [s EXCEPT !.buf = v]
      BY <3>1 DEF v
    <3> QED
      BY <3>2, <3>3 DEF ScanTyped, IsScan, U
  <2> QED
    BY <2>1, <2>2
<1>2. ScanTyped(Scan!FinishCSI(s, b))
  <2> DEFINE bits == Scan!SplitSemi(Tail(s.buf)) \cap Scan!Mode
             modes == IF b = "h" THEN s.modes \cup bits ELSE s.modes \ bits
  <2>1. modes \subseteq Scan!Mode
    BY DEF ScanTyped
  <2>2. \/ Scan!FinishCSI(s, b) = s
        \/ Scan!FinishCSI(s, b) = [s EXCEPT !.modes = modes, !.changed = @ \/ modes # s.modes]
    BY DEF Scan!FinishCSI
  <2> HIDE DEF modes
  <2> QED
    BY <2>1, <2>2 DEF ScanTyped, IsScan
<1>3. ASSUME NEW t, ScanTyped(t) PROVE ScanTyped(Scan!FinishOSC(t))
  <2> DEFINE text == SubSeq(t.buf, 3, Len(t.buf))
             title == Scan!SanitizeTitle(text)
  <2>1. CASE Len(t.buf) < 2
    BY <1>3, <2>1 DEF Scan!FinishOSC
  <2>2. CASE ~ (Len(t.buf) < 2)
    <3>1. text \in Seq(U)
      <4> HIDE DEF U
      <4>1. t.buf \in Seq(U)
        BY <1>3 DEF ScanTyped, U
      <4> QED
        BY <2>2, <4>1
    <3>2. title \in Seq(U) /\ Len(title) <= TitleMax
      BY <3>1, TitleTyped
    <3>3. \/ Scan!FinishOSC(t) = t
          \/ Scan!FinishOSC(t) = [t EXCEPT !.title = title, !.changed = @ \/ title # t.title]
      BY DEF Scan!FinishOSC
    <3> HIDE DEF title
    <3> QED
      BY <1>3, <3>2, <3>3 DEF ScanTyped, IsScan
  <2> QED
    BY <2>1, <2>2
<1>4. ASSUME NEW st \in {"csi", "osc"} PROVE ScanTyped(Scan!Begins(s, st))
  <2>1. Scan!Begins(s, st) = [st |-> st, buf |-> << >>, tooLong |-> FALSE, modes |-> s.modes,
                              title |-> s.title, changed |-> s.changed]
    BY BeginsIs DEF ScanTyped, Scanner
  <2>2. << >> \in Seq(U) /\ Len(<< >>) <= MaxCSI + MaxOSC
    BY DEF U
  <2> QED
    BY <2>1, <2>2 DEF ScanTyped, IsScan
<1>5. ASSUME NEW t, ScanTyped(t) PROVE ScanTyped(Scan!Ended(t))
  BY <1>5, StateTyped DEF Scan!Ended
<1>6. ASSUME NEW st \in {"esc", "oscEsc"} PROVE ScanTyped([s EXCEPT !.st = st])
  BY StateTyped
<1>7. s.st \in {"none", "esc", "csi", "osc", "oscEsc"}
  BY DEF ScanTyped
<1>8. CASE s.st \in {"none", "esc"}
  BY <1>4, <1>5, <1>6, <1>8 DEF Scan!ByteIn
<1>9. CASE s.st = "csi"
  BY <1>1, <1>2, <1>5, <1>9 DEF Scan!ByteIn
<1>10. CASE s.st = "osc"
  BY <1>1, <1>3, <1>5, <1>6, <1>10 DEF Scan!ByteIn
<1>11. CASE s.st = "oscEsc"
  BY <1>3, <1>5, <1>11 DEF Scan!ByteIn
<1> QED
  BY <1>7, <1>8, <1>9, <1>10, <1>11

\* So do the bytes of a read.
LEMMA RunsTyped ==
  ASSUME MaxCSI \in Nat, MaxOSC \in Nat, TitleMax \in Nat,
         NEW s, ScanTyped(s), NEW bytes \in Seq(Scan!Byte)
  PROVE  ScanTyped(Run(s, bytes))
<1> DEFINE n == Len(bytes)
<1>1. n \in Nat /\ DOMAIN bytes = 1 .. n /\ \A k \in 1 .. n : bytes[k] \in Scan!Byte
  OBVIOUS
<1> HIDE DEF n
<1>2. PICK g : Along(g, s, bytes, n) /\ Run(s, bytes) = g[n]
  BY <1>1, RunAlong
<1> DEFINE P == {k \in 0 .. n : ScanTyped(g[k])}
<1>3. 0 \in P
  BY <1>1, <1>2 DEF Along
<1>4. ASSUME NEW k \in 0 .. n - 1, k \in P PROVE k + 1 \in P
  <2>1. k + 1 \in 0 .. n /\ k + 1 \in 1 .. n
    BY <1>1
  <2>2. g[k + 1] = Scan!ByteIn(g[k], bytes[k + 1])
    BY <1>2 DEF Along
  <2> QED
    BY <1>1, <1>4, <2>1, <2>2, ByteTyped
<1> HIDE DEF P
<1>5. n \in P
  BY <1>1, <1>3, <1>4, Induction
<1> QED
  BY <1>2, <1>5 DEF P

\* Every sequence is made of the units there are.
LEMMA BytesTyped ==
  ASSUME NEW t \in Scan!Token
  PROVE  Scan!Bytes(t) \in Seq(Scan!Byte)
<1> DEFINE U == Scan!Byte
<1>1. {"h", "sep", "bel", "esc", "other", "[", "]", "\\"} \subseteq U
  BY DEF Scan!Byte, Scan!Final, Scan!Param
<1>2. CASE t.kind = "text"
  <2>1. Scan!Bytes(t) = <<"h", "sep", "bel">>
    BY <1>2 DEF Scan!Bytes
  <2> HIDE DEF U
  <2>2. <<"h", "sep", "bel">> \in Seq(U)
    BY <1>1
  <2> QED
    BY <2>1, <2>2 DEF U
<1>3. CASE t.kind = "escape"
  <2>1. Scan!Bytes(t) = <<"esc", "other">>
    BY <1>3 DEF Scan!Bytes
  <2> HIDE DEF U
  <2>2. <<"esc", "other">> \in Seq(U)
    BY <1>1
  <2> QED
    BY <2>1, <2>2 DEF U
<1>4. ASSUME NEW a \in {"[", "]"}, NEW q \in Seq(U), NEW z \in Seq(U)
      PROVE  (<<"esc", a>> \o q) \o z \in Seq(U)
  <2> HIDE DEF U
  <2>1. <<"esc", a>> \in Seq(U)
    BY <1>1
  <2> QED
    BY <2>1
<1>5. CASE t \in [kind : {"csi"}, private : BOOLEAN, params : Seq(Scan!Param), final : Scan!Final]
  <2>1. /\ t = Scan!Csi(t.private, t.params, t.final)
        /\ t.private \in BOOLEAN /\ t.params \in Seq(Scan!Param) /\ t.final \in Scan!Final
    BY <1>5 DEF Scan!Csi
  <2>2. Scan!Payload(t) \in Seq(Scan!Param \cup {"sep", "?"})
    BY <2>1, PayloadIs
  <2>3. Scan!Param \cup {"sep", "?"} \subseteq U /\ Scan!Final \subseteq U
    BY DEF Scan!Byte
  <2>4. Scan!Bytes(t) = (<<"esc", "[">> \o Scan!Payload(t)) \o <<t.final>>
    BY <1>5 DEF Scan!Bytes, Scan!End
  <2> HIDE DEF U
  <2>5. Scan!Payload(t) \in Seq(U)
    BY <2>2, <2>3, Wider
  <2>6. <<t.final>> \in Seq(U)
    BY <2>1, <2>3
  <2>7. Scan!Bytes(t) \in Seq(U)
    BY <1>4, <2>4, <2>5, <2>6
  <2> QED
    BY <2>7 DEF U
<1>6. CASE t \in [kind : {"osc"}, code : Scan!Code, text : Seq(Scan!Letter), end : {"bel", "st", "cut"}]
  <2>1. /\ t = Scan!Osc(t.code, t.text, t.end)
        /\ t.code \in Scan!Code /\ t.text \in Seq(Scan!Letter)
    BY <1>6 DEF Scan!Osc
  <2>2. Scan!Payload(t) \in Seq(Scan!Letter \cup Scan!Code \cup {"sep"})
    BY <2>1, PayloadIs
  <2>3. Scan!Letter \cup Scan!Code \cup {"sep"} \subseteq U
    BY DEF Scan!Byte
  <2> DEFINE z == Scan!End(t)
  <2>4. Scan!Bytes(t) = (<<"esc", "]">> \o Scan!Payload(t)) \o z
    BY <1>6 DEF Scan!Bytes
  <2>5. z = <<"bel">> \/ z = <<"esc", "\\">> \/ z = <<"esc", "other">>
    BY <1>6 DEF Scan!End
  <2> HIDE DEF U, z
  <2>6. z \in Seq(U)
    <3>1. <<"bel">> \in Seq(U) /\ <<"esc", "\\">> \in Seq(U) /\ <<"esc", "other">> \in Seq(U)
      BY <1>1
    <3> QED
      BY <2>5, <3>1
  <2>7. Scan!Payload(t) \in Seq(U)
    BY <2>2, <2>3, Wider
  <2>8. Scan!Bytes(t) \in Seq(U)
    BY <1>4, <2>4, <2>6, <2>7
  <2> QED
    BY <2>8 DEF U
<1> QED
  BY <1>2, <1>3, <1>5, <1>6 DEF Scan!Token

-----------------------------------------------------------------------------
(* A session's modes and title, for the program's own: FollowInv says that the       *)
(* scanner would know what the program means once it had read all that is written,   *)
(* outside of any sequence.                                                          *)

\* For the program it is all one whether its output was read, or is on its way.
FollowInv ==
  /\ ToldInv
  /\ ScanTyped(x1)
  /\ x2 = [rest |-> x2.rest, tokens |-> x2.tokens]
  /\ x2.rest \in Seq(Scan!Byte) /\ x2.tokens \in 0 .. MaxTokens
  /\ IsProgram(x3)
  /\ Meant(Run(x1, x2.rest), x3)
  /\ x4 \in Scan!Activity
  /\ x5 \in ScanClient \cup {None} /\ (x5 = None => x6 = None)

\* Being told of the focus changes nothing else.
LEMMA NudgedSame ==
  ASSUME NEW s, NEW p, IsProgram(p), NEW to
  PROVE  /\ IsProgram(Scan!Nudged(s, p, to))
         /\ Scan!Nudged(s, p, to).modes = p.modes /\ Scan!Nudged(s, p, to).title = p.title
  BY DEF Scan!Nudged, IsProgram

\* A client that is pushed to, or that goes as it is, leaves the program what it wants.
LEMMA PushesSame ==
  ASSUME NEW s, NEW act, NEW changed, Scan!Pushes(s, act, changed), FollowInv
  PROVE  /\ IsProgram(x3') /\ x3'.modes = x3.modes /\ x3'.title = x3.title
         /\ x5' \in ScanClient \cup {None} /\ (x5' = None => x6' = None)
<1>1. CASE x5 = None
  BY <1>1 DEF Scan!Pushes, FollowInv
<1>2. CASE x5 # None /\ UNCHANGED <<x5, x3>>
  BY <1>2 DEF FollowInv
<1>3. CASE x5 # None /\ Scan!Detach(s)
  BY <1>3, NudgedSame DEF Scan!Detach, FollowInv
<1> QED
  BY <1>1, <1>2, <1>3 DEF Scan!Pushes

\* At first there is nothing to follow.
LEMMA FollowInit ==
  ASSUME Scan!Init PROVE FollowInv
<1>1. ToldInv
  BY ToldInit
<1>2. x1.st = "none" /\ x1.modes = {} /\ x1.title = << >> /\ x1.buf = << >> /\ x1.tooLong = FALSE
  BY DEF Scan!Init
<1>3. ScanTyped(x1)
  <2> DEFINE e == << >>
             U == Scan!Byte
  <2> HIDE DEF U
  <2>1. e \in Seq(U) /\ Len(e) = 0
    OBVIOUS
  <2>2. Len(e) <= MaxCSI + MaxOSC /\ Len(e) <= TitleMax
    BY <2>1, ScanConstants
  <2>3. x1.buf = e /\ x1.title = e
    BY <1>2
  <2> HIDE DEF e
  <2> QED
    BY <1>1, <1>2, <2>1, <2>2, <2>3 DEF ScanTyped, ToldInv, U
<1>4. x2 = [rest |-> << >>, tokens |-> 0] /\ x2.rest = << >> /\ x2.tokens = 0
  BY DEF Scan!Init
<1>5. << >> \in Seq(Scan!Byte) /\ 0 \in 0 .. MaxTokens
  BY ScanConstants
<1>6. IsProgram(x3) /\ x3.modes = {} /\ x3.title = << >>
  BY DEF Scan!Init, IsProgram
<1>7. Run(x1, x2.rest) = x1
  BY <1>4, RunsNone
<1>8. Meant(Run(x1, x2.rest), x3)
  BY <1>1, <1>2, <1>6, <1>7 DEF Meant, ToldInv
<1>9. x4 \in Scan!Activity /\ x5 = None /\ x6 = None
  BY DEF Scan!Init, Scan!Activity
<1> QED
  BY <1>1, <1>3, <1>4, <1>5, <1>6, <1>8, <1>9 DEF FollowInv

\* What the program writes is read when its turn comes.
LEMMA FollowWrites ==
  ASSUME FollowInv, Scan!Writes, ToldInv' PROVE FollowInv'
<1>1. PICK t \in ScanTokens :
        /\ x2' = [rest |-> x2.rest \o Scan!Bytes(t), tokens |-> x2.tokens + 1]
        /\ x3' = Scan!Means(x3, t)
  BY DEF Scan!Writes
<1>2. t \in Scan!Token
  BY ScanConstants
<1>3. UNCHANGED <<x1, x4, x5, x6>> /\ x2.tokens < MaxTokens
  BY DEF Scan!Writes
<1> DEFINE rest == x2.rest
           more == Scan!Bytes(t)
           U == Scan!Byte
           e == Run(x1, rest)
<1>4. rest \in Seq(U) /\ more \in Seq(U) /\ x2'.rest = rest \o more /\ x2'.tokens = x2.tokens + 1
  BY <1>1, <1>2, BytesTyped DEF FollowInv
<1>5. x2' = [rest |-> x2'.rest, tokens |-> x2'.tokens]
  BY <1>1
<1>6. IsScan(e) /\ IsProgram(x3) /\ Meant(e, x3)
  BY DEF FollowInv, Meant
<1>7. Meant(Run(e, more), x3') /\ IsProgram(x3')
  <2> HIDE DEF e
  <2> QED
    BY <1>1, <1>2, <1>6, TokenMeans, ScanConstants
<1> HIDE DEF rest, more, U
<1>8. x2'.rest \in Seq(U)
  BY <1>4
<1>9. Run(x1, rest \o more) = Run(e, more)
  BY <1>4, RunsOn
<1>10. Meant(Run(x1', x2'.rest), x3')
  BY <1>3, <1>4, <1>7, <1>9
<1>11. x2'.tokens \in 0 .. MaxTokens
  BY <1>3, <1>4, ScanConstants DEF FollowInv
<1>12. ScanTyped(x1') /\ x4' \in Scan!Activity /\ x5' \in ScanClient \cup {None} /\ (x5' = None => x6' = None)
  BY <1>3 DEF FollowInv
<1> QED
  BY <1>5, <1>7, <1>8, <1>10, <1>11, <1>12 DEF FollowInv, U

\* What is read is no longer to be read.
LEMMA FollowPump ==
  ASSUME FollowInv, Scan!Pump, ToldInv' PROVE FollowInv'
<1>1. PICK n \in 1 .. Len(x2.rest) :
        LET s == Scan!FoldLeft(Scan!ByteIn, x1, SubSeq(x2.rest, 1, n)) IN
        /\ x1' = [s EXCEPT !.changed = FALSE]
        /\ x2' = [x2 EXCEPT !.rest = SubSeq(@, n + 1, Len(@))]
        /\ Scan!Pushes(s, x4, s.changed)
  BY DEF Scan!Pump
<1> DEFINE rest == x2.rest
           now == SubSeq(rest, 1, n)
           later == SubSeq(rest, n + 1, Len(rest))
           U == Scan!Byte
           s == Run(x1, now)
<1>2. /\ x1' = [s EXCEPT !.changed = FALSE] /\ x2' = [x2 EXCEPT !.rest = later]
      /\ Scan!Pushes(s, x4, s.changed) /\ x4' = x4
  BY <1>1 DEF Scan!Pump, Run
<1>3. rest \in Seq(U) /\ now \in Seq(U) /\ later \in Seq(U) /\ now \o later = rest
  <2>1. rest \in Seq(U)
    BY DEF FollowInv
  <2> HIDE DEF U
  <2>2. now \in Seq(U) /\ later \in Seq(U)
    BY <2>1
  <2>3. now \o later = rest
    BY <2>1
  <2> QED
    BY <2>1, <2>2, <2>3
<1>4. /\ x2' = [rest |-> x2'.rest, tokens |-> x2'.tokens] /\ x2'.rest = later
      /\ x2'.tokens = x2.tokens
  BY <1>2 DEF FollowInv
<1> HIDE DEF rest, now, later
<1>5. ScanTyped(s)
  BY <1>3, RunsTyped, ScanConstants DEF FollowInv
<1> HIDE DEF s
<1>6. Alike(s, x1') /\ IsScan(x1')
  BY <1>2, <1>5 DEF ScanTyped, IsScan, Alike
<1>7. ScanTyped(x1')
  BY <1>5, <1>6 DEF ScanTyped, Alike
<1>8. Run(s, later) = Run(x1, rest)
  BY <1>3, RunsOn DEF s
<1>9. /\ IsProgram(x3') /\ x3'.modes = x3.modes /\ x3'.title = x3.title
      /\ x5' \in ScanClient \cup {None} /\ (x5' = None => x6' = None)
  BY <1>2, PushesSame
<1>10. Meant(Run(x1', later), x3')
  <2>1. Alike(Run(s, later), Run(x1', later)) /\ IsScan(Run(x1', later))
    <3>1. IsScan(s)
      BY <1>5 DEF ScanTyped
    <3>2. Alike(x1', s)
      BY <1>6 DEF Alike
    <3>3. Alike(Run(x1', later), Run(s, later)) /\ IsScan(Run(x1', later))
      BY <1>3, <1>6, <3>1, <3>2, RunsAlike
    <3> QED
      BY <3>3 DEF Alike
  <2>2. Meant(Run(x1, rest), x3)
    BY DEF FollowInv, rest
  <2> QED
    BY <1>8, <1>9, <2>1, <2>2 DEF Meant, Alike
<1> QED
  BY <1>2, <1>3, <1>4, <1>7, <1>9, <1>10 DEF FollowInv

\* The others leave what is written and what is known of it.
LEMMA FollowOthers ==
  ASSUME FollowInv, ToldInv', UNCHANGED <<x1, x2>>, IsProgram(x3'),
         x3'.modes = x3.modes, x3'.title = x3.title, x4' \in Scan!Activity,
         x5' \in ScanClient \cup {None}, x5' = None => x6' = None
  PROVE  FollowInv'
<1>1. Meant(Run(x1', x2'.rest), x3')
  BY DEF FollowInv, Meant
<1> QED
  BY <1>1 DEF FollowInv

\* A client comes and goes.
LEMMA FollowAttach ==
  ASSUME FollowInv, NEW c \in ScanClient, Scan!AttachLocked(c), ToldInv' PROVE FollowInv'
<1> DEFINE before == IF x5 = None THEN x3 ELSE Scan!Nudged(x1, x3, "out")
<1>1. UNCHANGED <<x1, x2, x4>>
  BY DEF Scan!AttachLocked
<1>2. IsProgram(before) /\ before.modes = x3.modes /\ before.title = x3.title
  BY NudgedSame DEF FollowInv
<1>3. \/ x5' = c /\ x3' = Scan!Nudged(x1, before, "in")
      \/ x5' = None /\ x6' = None /\ x3' = Scan!Nudged(x1, before, "out")
  BY DEF Scan!AttachLocked
<1> HIDE DEF before
<1>4. IsProgram(x3') /\ x3'.modes = x3.modes /\ x3'.title = x3.title
  BY <1>2, <1>3, NudgedSame
<1>5. x5' \in ScanClient \cup {None} /\ (x5' = None => x6' = None)
  BY <1>3, ScanConstants
<1> QED
  BY <1>1, <1>4, <1>5, FollowOthers DEF FollowInv

\* Every step keeps FollowInv.
LEMMA FollowStep ==
  ASSUME FollowInv, Scan!Next \/ UNCHANGED xs PROVE FollowInv'
<1>0. ToldInv'
  BY ToldStep DEF FollowInv
<1>1. CASE Scan!Writes
  BY <1>0, <1>1, FollowWrites
<1>2. CASE Scan!Pump
  BY <1>0, <1>2, FollowPump
<1>3. CASE Scan!Sample
  <2>1. PICK act \in Scan!Activity : x4' = act /\ Scan!Pushes(x1, act, TRUE)
    BY <1>3 DEF Scan!Sample
  <2>2. UNCHANGED <<x1, x2>>
    BY <1>3 DEF Scan!Sample
  <2> QED
    BY <1>0, <2>1, <2>2, PushesSame, FollowOthers
<1>4. CASE Scan!StreamEnds
  <2>1. UNCHANGED <<x1, x2, x3, x4>> /\ x5' = None /\ x6' = None
    BY <1>4 DEF Scan!StreamEnds
  <2> QED
    BY <1>0, <2>1, FollowOthers DEF FollowInv
<1>5. ASSUME NEW c \in ScanClient, Scan!AttachLocked(c) PROVE FollowInv'
  BY <1>0, <1>5, FollowAttach
<1>6. CASE UNCHANGED xs
  BY <1>0, <1>6, FollowOthers DEF FollowInv, xs
<1> QED
  BY <1>1, <1>2, <1>3, <1>4, <1>5, <1>6 DEF Scan!Next

\* FollowInv says enough, and what has its type.
LEMMA FollowImplies ==
  ASSUME FollowInv PROVE Scan!ScanFollows /\ Scan!ClientIsTold /\ Scan!TypeOK
<1>1. Scan!ScanFollows
  <2> SUFFICES ASSUME x2.rest = << >> PROVE x1.modes = x3.modes /\ x1.title = x3.title
    BY DEF Scan!ScanFollows
  <2>1. Run(x1, x2.rest) = x1
    BY RunsNone
  <2> QED
    BY <2>1 DEF FollowInv, Meant
<1>2. Scan!ClientIsTold
  BY ToldImplies DEF FollowInv
<1>3. x5 # None => x6 # None
  <2> SUFFICES ASSUME x5 # None PROVE x6 # None
    OBVIOUS
  <2>1. \E t \in {x1.title, None} : x6 = [activity |-> x4, title |-> t, at |-> x1.title]
    BY DEF FollowInv, ToldInv, Scan!Told, Scan!Greeted
  <2>2. x6 \in [activity : Scan!Activity, title : Seq(Scan!Byte) \cup {None}, at : Seq(Scan!Byte)]
    BY <2>1 DEF FollowInv, ScanTyped
  <2> QED
    BY <2>2, ScanConstants
<1>4. Scan!TypeOK
  BY <1>3 DEF FollowInv, ToldInv, ScanTyped, Scan!TypeOK
<1> QED
  BY <1>1, <1>2, <1>4

-----------------------------------------------------------------------------
(* The theorems *)

\* When a connection is over, nobody having cut it, what the tunnel's peer sent is all with
\* the other; and unless a wait for an acknowledgement was given up at its five seconds, the
\* tunnel's peer has all that the other sent and is told that no more comes
\* (tailcat.go:2855-2929, 1057-1138), whichever ends first, for any number of units.
THEOREM CarriedWhole == PartsSpec => []WholeBothWays
<1> DEFINE Inv == part = "proxying" => Proxy!WholeInv
<1>1. PartsInit => Inv
  BY WholeInit DEF PartsInit
<1>2. Inv /\ [PartsNext]_<<part, xs>> => Inv'
  BY PartsGoOn, WholeStep
<1>3. Inv => WholeBothWays
  BY WholeImplies DEF WholeBothWays
<1> QED
  BY <1>1, <1>2, <1>3, PTL DEF PartsSpec

\* A client that is there has all the command wrote by the time it is told the end, and a
\* session, whose start may have failed at any step, leaves nothing open of its terminal
\* (tailcat_ssh.go:233-238, tailcat_exec.go:93-96, tailcat_ssh_windows.go:171-273): for
\* every kind of session, every size of a pipe and any amount of output.
THEOREM OutputWhole == PartsSpec => []WholeOutput
<1> DEFINE Inv == part = "command" => Command!OutputInv
<1>1. PartsInit => Inv
  BY OutputInit DEF PartsInit
<1>2. Inv /\ [PartsNext]_<<part, xs>> => Inv'
  BY PartsGoOn, OutputStep
<1>3. Inv => WholeOutput
  BY OutputImplies DEF WholeOutput
<1> QED
  BY <1>1, <1>2, <1>3, PTL DEF PartsSpec

\* However many flows there are, at most one of them probes, the cache names it, and nobody
\* waits where nobody probes (proxyudp.go:144-176).
THEOREM OneProbe == PartsSpec => []ProbeIsShared
<1> DEFINE Inv == part = "udp" => Udp!TypeOK /\ Udp!ProbeIsShared
<1>1. PartsInit => Inv
  BY UdpInit DEF PartsInit
<1>2. Inv /\ [PartsNext]_<<part, xs>> => Inv'
  BY PartsGoOn, UdpStep
<1>3. Inv => ProbeIsShared
  BY DEF ProbeIsShared
<1> QED
  BY <1>1, <1>2, <1>3, PTL DEF PartsSpec

\* A binding is given up only when it failed Patience times in a row and was not made, or
\* found good again, a moment ago (egressbind.go:42-46, 283-286), for every Patience and
\* every set of interfaces, wherever the start of the engine has got to.
THEOREM GivenUpAfterPatience == PartsSpec => NotGivenUpLightly
<1> DEFINE Inv == part = "egress" => Egress!GivenUpInv
<1>1. PartsInit => Inv
  BY GivenUpInit DEF PartsInit
<1>2. Inv /\ [PartsNext]_<<part, xs>> => Inv'
  BY PartsGoOn, GivenUpStep
<1>3. Inv /\ [PartsNext]_<<part, xs>> =>
        [part = "egress" => Egress!GivenUpOnlyAfter]_<<part, x4, x9>>
  BY PartsGoOn, GivenUpOnly
<1> QED
  BY <1>1, <1>2, <1>3, PTL DEF PartsSpec, NotGivenUpLightly

\* No fetch returns a map that was cut off, and in memory none returns one the server did
\* not stand by, however fetches overtake each other (tailcat.go:1490-1521).
THEOREM MapsWhole == PartsSpec => []MapsAreWhole
<1> DEFINE Inv == part = "map" => Map!MapInv
<1>1. PartsInit => Inv
  BY MapsInit DEF PartsInit
<1>2. Inv /\ [PartsNext]_<<part, xs>> => Inv'
  BY PartsGoOn, MapsStep
<1>3. Inv => MapsAreWhole
  BY MapsImplies DEF MapsAreWhole
<1> QED
  BY <1>1, <1>2, <1>3, PTL DEF PartsSpec

\* In a drop box no session ever has a file of another's open to write; in a flat one it
\* cannot cut or adjust it by name either, nor is it told anything of it; and a box that is
\* read-only stays as it is: for any number of sessions and files
\* (tailcat_sftp.go:166-193, 250-275, tailcat_files.go:21-25).
THEOREM BoxKept == PartsSpec => []BoxHolds
<1> DEFINE Inv == part = "box" => Box!BoxInv
<1>1. PartsInit => Inv
  BY BoxInit DEF PartsInit
<1>2. Inv /\ [PartsNext]_<<part, xs>> => Inv'
  BY PartsGoOn, BoxStep
<1>3. Inv => BoxHolds
  BY DEF BoxHolds, Box!BoxInv
<1> QED
  BY <1>1, <1>2, <1>3, PTL DEF PartsSpec

\* The address a server prints has the PSK the server runs with and relays a client can
\* find, for every flag and every saved key (cmd/tailcat/tailcat.go, server).
THEOREM AddressEnough == PartsSpec => []AddressIsEnough
<1> DEFINE Inv == part = "serve" => Server!AddressIsEnough
<1>1. PartsInit => Inv
  BY DEF PartsInit, Server!Init, Server!AddressIsEnough
<1>2. Inv /\ [PartsNext]_<<part, xs>> => Inv'
  BY PartsGoOn, ServeStep
<1>3. Inv => AddressIsEnough
  BY DEF AddressIsEnough
<1> QED
  BY <1>1, <1>2, <1>3, PTL DEF PartsSpec

\* The client that is attached knows the agent and the state there are now, and the title
\* if it has changed since the client was attached (term_service.go:709-712, 788-795), in
\* whatever chunks the output comes, for any output and any limits of the scanner.
THEOREM TellsClient == PartsSpec => []ClientIsTold
<1> DEFINE Inv == part = "scan" => ToldInv
<1>1. PartsInit => Inv
  BY ToldInit DEF PartsInit
<1>2. Inv /\ [PartsNext]_<<part, xs>> => Inv'
  BY PartsGoOn, ToldStep
<1>3. Inv => ClientIsTold
  BY ToldImplies DEF ClientIsTold
<1> QED
  BY <1>1, <1>2, <1>3, PTL DEF PartsSpec

\* Whatever the reads cut (term_modes.go:10), once they have caught up the scanner
\* knows the modes and the title the program's sequences mean.
THEOREM FollowsOutput == PartsSpec => []ScanFollows
<1> DEFINE I == part = "scan" => FollowInv
<1>1. PartsInit => I
  BY FollowInit DEF PartsInit
<1>2. I /\ [PartsNext]_<<part, xs>> => I'
  BY FollowStep, PartsGoOn
<1>3. I => ScanFollows
  BY FollowImplies DEF ScanFollows
<1> QED
  BY <1>1, <1>2, <1>3, PTL DEF PartsSpec

\* The variables of every part have their types, whatever the constants are that the
\* parts are given.
THEOREM PartsTyped == PartsSpec => []TypesHold
<1> DEFINE Inv ==
             /\ part = "udp" => Udp!TypeOK /\ Udp!ProbeIsShared
             /\ part = "egress" => Egress!GivenUpInv
             /\ part = "map" => Map!MapInv
             /\ part = "address" => AddressInv
             /\ part = "hints" => HintsTyped
             /\ part = "scan" => FollowInv
             /\ part = "agent" => AgentTyped
             /\ part = "box" => Box!BoxInv
             /\ part = "proxying" => Proxy!WholeInv
             /\ part = "serve" => ServeInv /\ Server!TypeOK
             /\ part = "command" => Command!OutputInv
<1>1. PartsInit => Inv
  BY UdpInit, GivenUpInit, MapsInit, AddressInit, HintsTypedInit, FollowInit, AgentTypedInit,
     BoxInit, WholeInit, ServeInit, ServeTypedInit, OutputInit
     DEF PartsInit
<1>2. Inv /\ [PartsNext]_<<part, xs>> => Inv'
  BY PartsGoOn, UdpStep, GivenUpStep, MapsStep, AddressStep, HintsTypedStep, FollowStep,
     AgentTypedStep, BoxStep, WholeStep, ServeKeeps, ServeTyped, OutputStep
<1>3. Inv => TypesHold
  BY AddressTypes, HintsTypes, FollowImplies, AgentTypes
     DEF TypesHold, Egress!GivenUpInv, Map!MapInv, Box!BoxInv, Proxy!WholeInv, Command!OutputInv
<1> HIDE DEF Inv
<1> QED
  BY <1>1, <1>2, <1>3, PTL DEF PartsSpec

=============================================================================
