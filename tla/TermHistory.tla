---- MODULE TermHistory ----
(***************************************************************************)
(* The output path of one terminal session of cmd/tailcat/term_service.go: *)
(* the fixed-size history ring the pump fills, the replay an attaching     *)
(* client gets from it, and the live delivery that follows.                *)
(*                                                                         *)
(* Every action is one critical section of termSession.mu: the code holds  *)
(* the lock across the frame writes of an attach and of a delivery, so the *)
(* ring cannot move under a replay.  A frame write may fail at any frame.  *)
(***************************************************************************)
EXTENDS Integers, Sequences

CONSTANTS
  Byte,         \* what the PTY can output
  NL, ESC, NUL, \* the bytes the replay looks for, and what a fresh ring holds
  History,      \* termConfig.history: bytes in the ring
  Replay,       \* termConfig.replay: most bytes a replay sends
  ReplayEpoch,  \* termConfig.replayEpoch: "all" or "last"
  ReplayTrim,   \* termReplayTrim: how far the start is moved to align it
  DataChunk,    \* termDataChunk: most bytes of one DATA frame
  ReadMax,      \* the pump's buffer: most bytes of one PTY read
  EpochMax,     \* size changes remembered
  Client,       \* connections; each attaches at most once
  NoClient,
  MaxOut        \* bound: bytes the child ever outputs

ASSUME HistoryAssumption ==
  /\ {NL, ESC, NUL} \subseteq Byte
  /\ {History, Replay, ReplayTrim, DataChunk, ReadMax, EpochMax} \subseteq Nat \ {0}
  /\ Replay <= History
  /\ ReplayEpoch \in {"all", "last"}
  /\ NoClient \notin Client
  /\ MaxOut \in Nat

VARIABLES
  stream,   \* history variable: every byte the PTY output, in order
  hist,     \* ring, start, written
  epochs,   \* stream offsets at which the window size changed
  life,     \* "running", "done" (finish has begun), "freed" (ring = nil)
  attached, \* termSession.attached
  client    \* per connection: its place in the stream and what it received

vars == <<stream, hist, epochs, life, attached, client>>

Larger(a, b) == IF a > b THEN a ELSE b
Smaller(a, b) == IF a < b THEN a ELSE b

Slot == 0 .. History - 1
Received == [at : Nat, byte : Byte]
Connection ==
  [st : {"new", "live", "gone"}, off : Nat, recv : Seq(Received),
   replayed : Nat, truncated : BOOLEAN]

-----------------------------------------------------------------------------
(* The ring *)

\* The bytes of p that the copy loop leaves in slot k: a later byte on the
\* same slot overwrites an earlier one, so fewer than History may follow it.
Survivor(h, p, k) ==
  {j \in 1 .. Len(p) : j + History > Len(p) /\ (h.written + j - 1) % History = k}

\* The buffer after the copy loop has written p behind the written bytes.
Copied(h, p) ==
  [k \in Slot |-> IF Survivor(h, p, k) = {} THEN h.ring[k]
                  ELSE p[CHOOSE j \in Survivor(h, p, k) : TRUE]]

\* Mutant: the start of the window is never moved.
AppendLockedKeepsStart(h, p) ==
  IF life = "freed" THEN h
  ELSE [ring |-> Copied(h, p), start |-> h.start, written |-> h.written + Len(p)]

AppendLocked(h, p) ==
  IF life = "freed" THEN h
  ELSE [ring    |-> Copied(h, p),
        start   |-> Larger(h.start, h.written + Len(p) - History),
        written |-> h.written + Len(p)]

\* n bytes of the ring from offset from on, each with its offset.
Block(h, from, n) ==
  [i \in 1 .. n |-> [at   |-> from + i - 1,
                     byte |-> h.ring[(from + i - 1) % History]]]

\* How many bytes a read from offset from can return.
Available(h, from) ==
  IF life = "freed" \/ from >= h.written THEN 0 ELSE h.written - from

ReadLocked(h, off, max) ==
  LET from == Larger(off, h.start)
  IN  Block(h, from, Smaller(max, Available(h, from)))

\* Mutant: the replay window is taken without looking at what there is.
ReplayFloorBlind(h, ep) == h.written - Replay

\* The oldest offset a replay may start at, before it is aligned.
ReplayFloor(h, ep) ==
  LET oldest == IF ReplayEpoch = "last" /\ ep # << >>
                THEN Larger(h.start, ep[Len(ep)]) ELSE h.start
  IN  IF h.written - oldest > Replay THEN h.written - Replay ELSE oldest

\* The start moved behind the first newline, or else to the first ESC.
ReplayStart(h, ep) ==
  LET floor == ReplayFloor(h, ep)
      head  == ReadLocked(h, floor, ReplayTrim)
      First(b) == CHOOSE i \in DOMAIN head :
                    head[i].byte = b /\ \A j \in 1 .. i - 1 : head[j].byte # b
      Has(b)   == \E i \in DOMAIN head : head[i].byte = b
  IN  IF Has(NL) THEN floor + First(NL)
      ELSE IF Has(ESC) THEN floor + First(ESC) - 1
      ELSE floor

\* Mutant: only what the ring has overwritten counts as cut off.
ReplayTruncatedByRing(h, ep) == h.start > 0

ReplayTruncated(h, ep) == ReplayFloor(h, ep) > h.start

-----------------------------------------------------------------------------
(* Delivery *)

\* How many of n bytes may have been sent after some whole DATA frames.
WholeChunks(n) == {m \in 0 .. n : m % DataChunk = 0}

\* Mutant: the client's place is not moved.
SentInPlace(cl, b, off) == [cl EXCEPT !.recv = @ \o b]

\* The client has been sent the bytes b, and its next offset is off.
Sent(cl, b, off) == [cl EXCEPT !.recv = @ \o b, !.off = off]

\* detachLocked: the session lets go of the connection and closes it.
Detached(cl) == [cl EXCEPT !.st = "gone"]

\* Mutant: one chunk is sent and the rest taken as sent.
DeliverLockedOneChunk(h, c) ==
  LET from == Larger(client[c].off, h.start)
  IN  /\ client' = [client EXCEPT ![c] =
                      Sent(@, Block(h, from, Smaller(DataChunk, Available(h, from))), h.written)]
      /\ UNCHANGED attached

\* deliverLocked: every byte not yet sent goes out in chunks; a client whose
\* place was overwritten resumes at the oldest byte; the first frame that fails
\* detaches the client.  m = 0 is also a failing STATE frame ahead of the data.
DeliverLocked(h, c) ==
  LET from   == Larger(client[c].off, h.start)
      behind == Available(h, from)
      After(m) == Sent(client[c], Block(h, from, m), from + m)
  IN  \/ /\ client' = [client EXCEPT ![c] = After(behind)]
         /\ UNCHANGED attached
      \/ \E m \in WholeChunks(behind) :
           /\ m = 0 \/ m < behind
           /\ client' = [client EXCEPT ![c] = Detached(After(m))]
           /\ attached' = NoClient

\* pump: one read of the PTY appended to the history, then delivered.
Pump(p) ==
  /\ Len(stream) + Len(p) <= MaxOut
  /\ stream' = stream \o p
  /\ hist' = AppendLocked(hist, p)
  /\ UNCHANGED <<epochs, life>>
  /\ IF attached = NoClient THEN UNCHANGED <<attached, client>>
     ELSE DeliverLocked(hist', attached)

\* Mutant: the new client goes on where its replay stopped.
ReplayedResumes(c, r, m, n) ==
  [Sent(client[c], Block(hist, r, m), r + m) EXCEPT
     !.st = "live", !.replayed = m,
     !.truncated = ReplayTruncated(hist, epochs) \/ m < n]

\* What a replay has done to the new client after sending m of its n bytes
\* from offset r on.  A replay cut short by its time budget goes on from "now".
Replayed(c, r, m, n) ==
  [Sent(client[c], Block(hist, r, m), hist.written) EXCEPT
     !.st = "live", !.replayed = m,
     !.truncated = ReplayTruncated(hist, epochs) \/ m < n]

\* The connection attached until now is told ENDED(replaced) and closed.
Evicted == IF attached = NoClient THEN client
           ELSE [client EXCEPT ![attached] = Detached(@)]

\* attachLocked: evict, ATTACHED, clear screen, replay, REPLAY-DONE, go live.
\* The replay is complete (m = n), or its time budget ends after m bytes in
\* whole chunks, or one of its frames fails.
AttachLocked(c) ==
  /\ client[c].st = "new"
  /\ LET r == ReplayStart(hist, epochs)
         n == Available(hist, r)
     IN  \/ \E m \in {n} \cup (WholeChunks(n) \ {0}) :
              /\ client' = [Evicted EXCEPT ![c] = Replayed(c, r, m, n)]
              /\ attached' = c
         \/ \E m \in {n} \cup WholeChunks(n) :
              /\ client' = [Evicted EXCEPT ![c] =
                              Detached(Sent(client[c], Block(hist, r, m), r + m))]
              /\ attached' = NoClient
  /\ UNCHANGED <<stream, hist, epochs, life>>

\* The connection is lost: stream's deferred function lets go of it, or a
\* STATE frame of the sampler fails.
Leave(c) ==
  /\ attached = c
  /\ attached' = NoClient
  /\ client' = [client EXCEPT ![c] = Detached(@)]
  /\ UNCHANGED <<stream, hist, epochs, life>>

-----------------------------------------------------------------------------
(* Size changes and the end *)

\* resize to another size: noteSizeLocked keeps the newest EpochMax changes.
Resize ==
  /\ life = "running"
  /\ epochs' = LET e == Append(epochs, hist.written)
               IN  IF Len(e) > EpochMax THEN SubSeq(e, Len(e) - EpochMax + 1, Len(e)) ELSE e
  /\ UNCHANGED <<stream, hist, life, attached, client>>

\* finish, first section: ENDED to the attached client.
Finish ==
  /\ life = "running"
  /\ life' = "done"
  /\ client' = Evicted
  /\ attached' = NoClient
  /\ UNCHANGED <<stream, hist, epochs>>

\* finish, second section: the ring is released.
FreeRing ==
  /\ life = "done"
  /\ life' = "freed"
  /\ UNCHANGED <<stream, hist, epochs, attached, client>>

-----------------------------------------------------------------------------
Init ==
  /\ stream = << >>
  /\ hist = [ring |-> [k \in Slot |-> NUL], start |-> 0, written |-> 0]
  /\ epochs = <<0>>
  /\ life = "running"
  /\ attached = NoClient
  /\ client = [c \in Client |->
       [st |-> "new", off |-> 0, recv |-> << >>, replayed |-> 0, truncated |-> FALSE]]

\* One read of the PTY returns at least one and at most ReadMax bytes.
PtyRead == UNION {[1 .. n -> Byte] : n \in 1 .. ReadMax}

Next ==
  \/ \E p \in PtyRead : Pump(p)
  \/ \E c \in Client : AttachLocked(c) \/ Leave(c)
  \/ Resize
  \/ Finish
  \/ FreeRing

Spec == Init /\ [][Next]_vars

-----------------------------------------------------------------------------
(* Properties *)

TypeOK ==
  /\ stream \in Seq(Byte)
  /\ hist \in [ring : [Slot -> Byte], start : Nat, written : Nat]
  /\ epochs \in Seq(Nat)
  /\ life \in {"running", "done", "freed"}
  /\ attached \in Client \cup {NoClient}
  /\ client \in [Client -> Connection]

\* The ring holds the newest bytes of the output: every offset from start up
\* to written is in its slot, nothing older is promised, and what was output
\* after the ring was freed is all that is missing from it.
RingHoldsTail ==
  /\ hist.start <= hist.written
  /\ hist.written <= hist.start + History
  /\ hist.written <= Len(stream)
  /\ life # "freed" => hist.written = Len(stream)
  /\ hist.start = 0 \/ hist.start = hist.written - History
  /\ life # "freed" =>
       \A o \in hist.start .. hist.written - 1 :
         hist.ring[o % History] = stream[o + 1]

\* A client is sent the session's own output, in order and each byte at most
\* once, whatever was replaced, replayed or overwritten meanwhile.
FaithfulDelivery ==
  \A c \in Client :
    LET recv == client[c].recv
    IN  /\ \A i \in DOMAIN recv : /\ recv[i].at < Len(stream)
                                /\ recv[i].byte = stream[recv[i].at + 1]
        /\ \A i \in DOMAIN recv : \A j \in DOMAIN recv :
             i < j => recv[i].at < recv[j].at

\* Between two critical sections an attached client is live and has been sent
\* everything the ring was given: nothing waits for the next output.
LiveIsCaughtUp ==
  attached # NoClient => /\ client[attached].st = "live"
                         /\ client[attached].off = hist.written

\* At most the connection the session is attached to is live: the one it
\* replaced was let go of in the same critical section.
OneLiveClient ==
  \A c \in Client : client[c].st = "live" => attached = c

\* Bytes are missing in the middle of what a client was sent only behind a
\* replay flagged as truncated, or when one PTY read was larger than the
\* whole history, and then no more of them than did not fit.
GapOnlyIfTold ==
  \A c \in Client :
    LET recv == client[c].recv
    IN  \A i \in 1 .. Len(recv) - 1 :
          LET missing == recv[i + 1].at - recv[i].at - 1
          IN  \/ missing <= Larger(0, ReadMax - History)
              \/ client[c].truncated /\ i = client[c].replayed

\* A replay not flagged as truncated starts in the first ReplayTrim bytes of
\* the session, where the history is larger than a replay (its default is four
\* times as large).
UnflaggedReplayHasHead ==
  Replay < History =>
    \A c \in Client :
      (client[c].replayed > 0 /\ ~client[c].truncated) =>
        client[c].recv[1].at <= ReplayTrim

\* What the comment at term_service.go:616 says of a replay cut short by its
\* time budget: it gives up the head and keeps the tail.
ReplayKeepsTail ==
  [][\A c \in Client :
       /\ client[c].st = "new"
       /\ client'[c].st = "live"
       /\ client'[c].replayed > 0
       => client'[c].recv[client'[c].replayed].at = hist.written - 1]_vars
====
