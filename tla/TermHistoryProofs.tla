---- MODULE TermHistoryProofs ----
(***************************************************************************)
(* What holds of the output path of a terminal session for every history   *)
(* size, replay window, chunk size, read size and number of clients.       *)
(***************************************************************************)
EXTENDS TermHistory, WellFoundedInduction, TLAPS

-----------------------------------------------------------------------------
(* Arithmetic *)

\* A non-empty set of naturals has a least element.
LEMMA LeastElement ==
  ASSUME NEW T \in SUBSET Nat, T # {}
  PROVE  \E x \in T : \A y \in T : x <= y
<1> DEFINE Q == OpToRel(<, Nat)
<1>1. \E x \in T : \A y \in T : ~ (<<y, x>> \in Q)
  BY NatLessThanWellFounded, WFMin
<1>2. \A x, y \in Nat : y < x => <<y, x>> \in Q
  BY DEF OpToRel
<1> HIDE DEF Q
<1>3. PICK x \in T : \A y \in T : ~ (<<y, x>> \in Q)
  BY <1>1
<1>4. ASSUME NEW y \in T PROVE x <= y
  <2>1. x \in Nat /\ y \in Nat
    OBVIOUS
  <2>2. ~(y < x)
    BY <1>2, <1>3, <2>1
  <2> QED BY <2>1, <2>2
<1> QED BY <1>4

\* No multiple of n lies strictly between 0 and n.
LEMMA NoMultipleBetween ==
  ASSUME NEW n \in Nat \ {0}, NEW q \in Int, n * q > 0, n * q < n
  PROVE  FALSE
<1>1. CASE q >= 1
  <2>1. n * q >= n * 1
    BY <1>1
  <2> QED BY <2>1
<1>2. CASE q <= 0
  <2>1. n * q <= n * 0
    BY <1>2
  <2> QED BY <2>1
<1> QED BY <1>1, <1>2

\* An offset falls on a slot of the ring.
LEMMA SlotOf ==
  \A o \in Nat : o % History \in Slot
BY HistoryAssumption DEF Slot

\* Two offsets less than History apart are on different slots.
LEMMA SlotsDiffer ==
  ASSUME NEW a \in Nat, NEW b \in Nat, a < b, b < a + History
  PROVE  a % History # b % History
<1> SUFFICES ASSUME a % History = b % History PROVE FALSE
  OBVIOUS
<1> DEFINE q == (b \div History) - (a \div History)
<1>1. /\ a \div History \in Int /\ a = History * (a \div History) + (a % History)
      /\ b \div History \in Int /\ b = History * (b \div History) + (b % History)
  BY HistoryAssumption
<1>2. q \in Int
  BY <1>1
<1>3. b - a = History * q
  <2>1. b - a = History * (b \div History) - History * (a \div History)
    BY <1>1, SlotOf, HistoryAssumption DEF Slot
  <2>2. History * (b \div History) - History * (a \div History) = History * q
    BY <1>1, HistoryAssumption
  <2> QED BY <2>1, <2>2
<1> HIDE DEF q
<1> QED BY <1>2, <1>3, NoMultipleBetween, HistoryAssumption

-----------------------------------------------------------------------------
(* The ring *)

Ring == [ring : [Slot -> Byte], start : Nat, written : Nat]

\* The ring h holds the newest bytes of the output s.
Holds(h, s) ==
  /\ h.start <= h.written
  /\ h.written <= h.start + History
  /\ h.start = 0 \/ h.start = h.written - History
  /\ h.written = Len(s)
  /\ \A o \in h.start .. h.written - 1 : h.ring[o % History] = s[o + 1]

\* The copy loop writes bytes and nothing else.
LEMMA CopiedType ==
  ASSUME NEW h \in Ring, NEW p \in Seq(Byte)
  PROVE  Copied(h, p) \in [Slot -> Byte]
<1> SUFFICES ASSUME NEW k \in Slot, Survivor(h, p, k) # {}
             PROVE  p[CHOOSE j \in Survivor(h, p, k) : TRUE] \in Byte
  BY DEF Copied, Ring
<1>1. (CHOOSE j \in Survivor(h, p, k) : TRUE) \in Survivor(h, p, k)
  OBVIOUS
<1>2. Survivor(h, p, k) \subseteq 1 .. Len(p)
  BY DEF Survivor
<1> QED BY <1>1, <1>2

\* A byte of p that fewer than History bytes follow is in its slot.
LEMMA CopiedNew ==
  ASSUME NEW h \in Ring, NEW p \in Seq(Byte),
         NEW j \in 1 .. Len(p), j + History > Len(p)
  PROVE  Copied(h, p)[(h.written + j - 1) % History] = p[j]
<1> DEFINE o == h.written + j - 1
           k == o % History
<1>0. o \in Nat /\ h.written \in Nat /\ Len(p) \in Nat /\ History \in Nat
  BY HistoryAssumption DEF Ring
<1>1. k \in Slot
  BY <1>0, SlotOf
<1>2. j \in Survivor(h, p, k)
  BY DEF Survivor
<1>3. ASSUME NEW i \in Survivor(h, p, k) PROVE i = j
  <2> DEFINE w == h.written + i - 1
  <2>1. i \in 1 .. Len(p) /\ i + History > Len(p)
    BY <1>3 DEF Survivor
  <2>2. w % History = o % History
    BY <1>3 DEF Survivor
  <2>3. w \in Nat /\ w < o + History /\ o < w + History
    <3> HIDE DEF k
    <3>1. i \in Nat \ {0} /\ j \in Nat \ {0}
      BY <1>0, <2>1
    <3>2. i < j + History /\ j < i + History
      BY <1>0, <2>1, <3>1
    <3> QED BY <1>0, <3>1, <3>2
  <2>4. w = o
    <3> HIDE DEF w, o
    <3>1. ~ (w < o)
      BY <1>0, <2>2, <2>3, SlotsDiffer
    <3>2. ~ (o < w)
      BY <1>0, <2>2, <2>3, SlotsDiffer
    <3> QED BY <1>0, <2>3, <3>1, <3>2
  <2> QED BY <1>0, <2>1, <2>4
<1>4. (CHOOSE i \in Survivor(h, p, k) : TRUE) = j
  BY <1>2, <1>3
<1> QED BY <1>1, <1>2, <1>4 DEF Copied

\* A byte that stays within History of the new end keeps its slot.
LEMMA CopiedOld ==
  ASSUME NEW h \in Ring, NEW p \in Seq(Byte),
         NEW o \in Nat, o < h.written, h.written + Len(p) <= o + History
  PROVE  Copied(h, p)[o % History] = h.ring[o % History]
<1>0. h.written \in Nat /\ Len(p) \in Nat /\ History \in Nat
  BY HistoryAssumption DEF Ring
<1>1. ASSUME NEW i \in Survivor(h, p, o % History) PROVE FALSE
  <2> DEFINE w == h.written + i - 1
  <2>1. i \in 1 .. Len(p)
    BY <1>1 DEF Survivor
  <2>2. w % History = o % History
    BY <1>1 DEF Survivor
  <2>3. w \in Nat /\ o < w /\ w < o + History
    BY <1>0, <2>1
  <2> HIDE DEF w
  <2> QED BY <2>2, <2>3, SlotsDiffer
<1> QED BY <1>1, SlotOf DEF Copied

\* appendLocked keeps the newest bytes, and drops no byte it still has room for.
LEMMA AppendHolds ==
  ASSUME NEW h \in Ring, NEW s \in Seq(Byte), NEW p \in Seq(Byte),
         Holds(h, s), life # "freed"
  PROVE  /\ AppendLocked(h, p) \in Ring
         /\ Holds(AppendLocked(h, p), s \o p)
         /\ AppendLocked(h, p).written = h.written + Len(p)
         /\ AppendLocked(h, p).start = Larger(h.start, h.written + Len(p) - History)
<1> DEFINE a == AppendLocked(h, p)
<1>0. h.written \in Nat /\ h.start \in Nat /\ Len(p) \in Nat /\ Len(s) \in Nat /\ History \in Nat
  BY HistoryAssumption DEF Ring
<1>1. /\ a.ring = Copied(h, p)
      /\ a.start = Larger(h.start, h.written + Len(p) - History)
      /\ a.written = h.written + Len(p)
  BY DEF AppendLocked
<1>2. a.start \in Nat /\ a.written \in Nat
  BY <1>0, <1>1 DEF Larger
<1>3. a \in Ring
  BY <1>1, <1>2, CopiedType DEF Ring, AppendLocked
<1>4. a.start <= a.written /\ a.written <= a.start + History
  BY <1>0, <1>1 DEF Larger, Holds
<1>5. a.start = 0 \/ a.start = a.written - History
  BY <1>0, <1>1 DEF Larger, Holds
<1>6. a.written = Len(s \o p)
  BY <1>0, <1>1 DEF Holds
<1>7. ASSUME NEW o \in a.start .. a.written - 1
      PROVE  a.ring[o % History] = (s \o p)[o + 1]
  <2>1. o \in Nat /\ o >= a.start /\ o < a.written
    BY <1>2, <1>7
  <2>2. CASE o < h.written
    <3>1. h.written + Len(p) <= o + History
      <4> HIDE DEF a
      <4> QED BY <1>0, <1>1, <1>2, <1>4, <2>1
    <3>2. a.ring[o % History] = h.ring[o % History]
      BY <1>1, <2>1, <2>2, <3>1, CopiedOld
    <3>3. o \in h.start .. h.written - 1
      BY <1>0, <1>1, <2>1, <2>2 DEF Larger
    <3>4. h.ring[o % History] = s[o + 1]
      BY <3>3 DEF Holds
    <3>5. (s \o p)[o + 1] = s[o + 1]
      BY <1>0, <2>1, <2>2 DEF Holds
    <3> QED BY <3>2, <3>4, <3>5
  <2>3. CASE o >= h.written
    <3> DEFINE j == o - h.written + 1
    <3>1. j \in 1 .. Len(p) /\ h.written + j - 1 = o
      BY <1>0, <1>1, <2>1, <2>3
    <3>2. j + History > Len(p)
      <4> HIDE DEF a
      <4> QED BY SMTT(30), <1>0, <1>1, <1>2, <1>4, <2>1, <2>3
    <3>3. a.ring[o % History] = p[j]
      <4> HIDE DEF j
      <4> QED BY <1>1, <3>1, <3>2, CopiedNew
    <3>4. (s \o p)[o + 1] = p[j]
      BY <1>0, <1>1, <2>1, <2>3 DEF Holds
    <3> QED BY <3>3, <3>4
  <2>4. o < h.written \/ o >= h.written
    BY <1>0, <2>1
  <2> QED BY <2>2, <2>3, <2>4
<1> QED BY <1>1, <1>3, <1>4, <1>5, <1>6, <1>7 DEF Holds

-----------------------------------------------------------------------------
(* What a read returns *)

\* A read returns the slots of consecutive offsets.
LEMMA BlockType ==
  ASSUME NEW h \in Ring, NEW from \in Nat, NEW n \in Nat
  PROVE  /\ Block(h, from, n) \in Seq(Received)
         /\ Len(Block(h, from, n)) = n
         /\ \A i \in 1 .. n :
              /\ Block(h, from, n)[i].at = from + i - 1
              /\ Block(h, from, n)[i].byte = h.ring[(from + i - 1) % History]
<1>1. ASSUME NEW i \in 1 .. n
      PROVE  [at |-> from + i - 1, byte |-> h.ring[(from + i - 1) % History]] \in Received
  <2>1. from + i - 1 \in Nat
    OBVIOUS
  <2>2. h.ring[(from + i - 1) % History] \in Byte
    BY <2>1, SlotOf DEF Ring
  <2> QED BY <2>1, <2>2 DEF Received
<1>2. Block(h, from, n) \in [1 .. n -> Received]
  BY <1>1 DEF Block
<1>3. Block(h, from, n) \in Seq(Received) /\ Len(Block(h, from, n)) = n
  BY <1>2
<1> QED BY <1>3 DEF Block

\* Inside the window of the ring a read returns the output itself.
LEMMA BlockIsOutput ==
  ASSUME NEW h \in Ring, NEW s \in Seq(Byte), Holds(h, s),
         NEW from \in Nat, NEW n \in Nat, h.start <= from, from + n <= h.written
  PROVE  \A i \in 1 .. n :
           /\ Block(h, from, n)[i].at < Len(s)
           /\ Block(h, from, n)[i].byte = s[Block(h, from, n)[i].at + 1]
<1> SUFFICES ASSUME NEW i \in 1 .. n
             PROVE  /\ from + i - 1 < Len(s)
                    /\ h.ring[(from + i - 1) % History] = s[from + i - 1 + 1]
  BY BlockType
<1>0. h.start \in Nat /\ h.written \in Nat /\ Len(s) \in Nat
  BY DEF Ring
<1>1. from + i - 1 \in h.start .. h.written - 1
  BY <1>0
<1> QED BY <1>0, <1>1 DEF Holds

\* A replay starts inside the window, and is moved by at most ReplayTrim.
LEMMA ReplayStartBounds ==
  ASSUME NEW h \in Ring, h.start <= h.written, NEW ep \in Seq(Nat)
  PROVE  /\ ReplayFloor(h, ep) \in Nat
         /\ h.start <= ReplayFloor(h, ep)
         /\ ReplayStart(h, ep) \in Nat
         /\ ReplayFloor(h, ep) <= ReplayStart(h, ep)
         /\ ReplayStart(h, ep) <= ReplayFloor(h, ep) + ReplayTrim
<1> DEFINE floor == ReplayFloor(h, ep)
           head == ReadLocked(h, floor, ReplayTrim)
           Has(b) == \E i \in DOMAIN head : head[i].byte = b
           First(b) == CHOOSE i \in DOMAIN head :
                         head[i].byte = b /\ \A j \in 1 .. i - 1 : head[j].byte # b
<1>0. h.start \in Nat /\ h.written \in Nat /\ Replay \in Nat /\ ReplayTrim \in Nat
  BY HistoryAssumption DEF Ring
<1>1. floor \in Nat /\ h.start <= floor
  <2>1. ep # << >> => ep[Len(ep)] \in Nat
    OBVIOUS
  <2> DEFINE oldest == IF ReplayEpoch = "last" /\ ep # << >>
                       THEN Larger(h.start, ep[Len(ep)]) ELSE h.start
  <2>2. oldest \in Nat /\ h.start <= oldest
    <3>1. CASE ReplayEpoch = "last" /\ ep # << >>
      BY <1>0, <2>1, <3>1 DEF Larger
    <3>2. CASE ~ (ReplayEpoch = "last" /\ ep # << >>)
      BY <1>0, <3>2
    <3> QED BY <3>1, <3>2
  <2>3. floor = IF h.written - oldest > Replay THEN h.written - Replay ELSE oldest
    BY DEF ReplayFloor
  <2> HIDE DEF oldest, floor
  <2> QED BY <1>0, <2>2, <2>3
<1> HIDE DEF floor
<1>2. DOMAIN head \subseteq 1 .. ReplayTrim
  <2>1. Larger(floor, h.start) \in Nat
    BY <1>0, <1>1 DEF Larger
  <2>2. Available(h, Larger(floor, h.start)) \in Nat
    BY <1>0, <2>1 DEF Available
  <2> QED BY <1>0, <2>2 DEF ReadLocked, Block, Smaller
<1>3. ASSUME NEW b, Has(b) PROVE First(b) \in 1 .. ReplayTrim
  <2> DEFINE T == {i \in DOMAIN head : head[i].byte = b}
  <2> HIDE DEF head
  <2>1. T \in SUBSET Nat /\ T # {} /\ T \subseteq DOMAIN head
    BY <1>0, <1>2, <1>3
  <2>2. PICK x \in T : \A y \in T : x <= y
    <3> HIDE DEF T
    <3> QED BY <2>1, LeastElement
  <2>3. \A j \in 1 .. x - 1 : head[j].byte # b
    <3> SUFFICES ASSUME NEW j \in 1 .. x - 1, head[j].byte = b PROVE FALSE
      OBVIOUS
    <3>1. DOMAIN head = 1 .. Smaller(ReplayTrim, Available(h, Larger(floor, h.start)))
      BY DEF head, ReadLocked, Block
    <3>2. Smaller(ReplayTrim, Available(h, Larger(floor, h.start))) \in Nat
      BY <1>0, <1>1 DEF Smaller, Available, Larger
    <3>3. j \in DOMAIN head
      BY <2>1, <2>2, <3>1, <3>2
    <3>4. j \in T
      BY <3>3
    <3> QED BY <2>1, <2>2, <3>4
  <2>4. First(b) \in DOMAIN head
    BY <2>1, <2>2, <2>3
  <2> QED BY <1>2, <2>4
<1> HIDE DEF First
<1>4. ReplayStart(h, ep) =
        IF Has(NL) THEN floor + First(NL)
        ELSE IF Has(ESC) THEN floor + First(ESC) - 1 ELSE floor
  BY DEF ReplayStart, First, floor
<1> HIDE DEF Has
<1> QED BY <1>0, <1>1, <1>3, <1>4 DEF floor

-----------------------------------------------------------------------------
(* What a client has been sent *)

Overrun == Larger(0, ReadMax - History)

\* What cl was sent is output of s, in order; gaps are told or overruns.
Orderly(cl, s) ==
  /\ \A i \in DOMAIN cl.recv : /\ cl.recv[i].at < Len(s)
                               /\ cl.recv[i].byte = s[cl.recv[i].at + 1]
  /\ \A i, j \in DOMAIN cl.recv : i < j => cl.recv[i].at < cl.recv[j].at
  /\ \A i \in 1 .. Len(cl.recv) - 1 :
       \/ cl.recv[i + 1].at - cl.recv[i].at - 1 <= Overrun
       \/ cl.truncated /\ i = cl.replayed

\* The place of cl is behind everything it was sent, and next to the last byte
\* of it unless that byte ends a truncated replay.
Cursor(cl) ==
  /\ \A i \in DOMAIN cl.recv : cl.recv[i].at < cl.off
  /\ cl.recv # << >> =>
       \/ cl.recv[Len(cl.recv)].at = cl.off - 1
       \/ cl.truncated /\ Len(cl.recv) = cl.replayed

\* A replay not flagged as truncated begins near the beginning.
Headed(cl) ==
  /\ cl.replayed <= Len(cl.recv)
  /\ (Replay < History /\ cl.replayed > 0 /\ ~cl.truncated) => cl.recv[1].at <= ReplayTrim

\* What a sequence of received bytes is made of.
LEMMA ReceivedType ==
  ASSUME NEW r \in Seq(Received)
  PROVE  /\ Len(r) \in Nat
         /\ DOMAIN r = 1 .. Len(r)
         /\ \A i \in 1 .. Len(r) : r[i].at \in Nat /\ r[i].byte \in Byte
<1>1. ASSUME NEW i \in 1 .. Len(r) PROVE r[i].at \in Nat /\ r[i].byte \in Byte
  <2>1. r[i] \in Received
    OBVIOUS
  <2> QED BY <2>1 DEF Received
<1> QED BY <1>1

\* What the concatenation of two such sequences is.
LEMMA Joined ==
  ASSUME NEW r \in Seq(Received), NEW b \in Seq(Received)
  PROVE  /\ r \o b \in Seq(Received)
         /\ DOMAIN (r \o b) = 1 .. Len(r) + Len(b)
         /\ Len(r \o b) = Len(r) + Len(b)
         /\ \A i \in 1 .. Len(r) : (r \o b)[i] = r[i]
         /\ \A i \in Len(r) + 1 .. Len(r) + Len(b) : (r \o b)[i] = b[i - Len(r)]
<1>1. r \o b \in Seq(Received) /\ Len(r \o b) = Len(r) + Len(b)
  OBVIOUS
<1>2. DOMAIN (r \o b) = 1 .. Len(r) + Len(b)
  BY <1>1, ReceivedType
<1>3. ASSUME NEW i \in 1 .. Len(r) PROVE (r \o b)[i] = r[i]
  OBVIOUS
<1>4. ASSUME NEW i \in Len(r) + 1 .. Len(r) + Len(b) PROVE (r \o b)[i] = b[i - Len(r)]
  OBVIOUS
<1> QED BY <1>1, <1>2, <1>3, <1>4

\* More output leaves what was sent as it was.
LEMMA OrderlyLonger ==
  ASSUME NEW cl \in Connection, NEW s \in Seq(Byte), NEW p \in Seq(Byte), Orderly(cl, s)
  PROVE  Orderly(cl, s \o p)
<1>1. ASSUME NEW i \in DOMAIN cl.recv
      PROVE  /\ cl.recv[i].at < Len(s \o p)
             /\ cl.recv[i].byte = (s \o p)[cl.recv[i].at + 1]
  <2>1. cl.recv \in Seq(Received)
    BY DEF Connection
  <2>3. cl.recv[i].at \in Nat
    BY <2>1, ReceivedType
  <2>2. cl.recv[i].at < Len(s) /\ cl.recv[i].byte = s[cl.recv[i].at + 1]
    BY DEF Orderly
  <2> QED BY <2>2, <2>3
<1> QED BY <1>1 DEF Orderly

\* Sending a block from the client's place on, or past an overrun, keeps what
\* it was sent orderly and its type.
LEMMA SentOrderly ==
  ASSUME NEW cl \in Connection, NEW s \in Seq(Byte), Orderly(cl, s), Cursor(cl),
         NEW h \in Ring, NEW from \in Nat, NEW n \in Nat, NEW off \in Nat,
         n > 0 => Holds(h, s) /\ h.start <= from /\ from + n <= h.written,
         cl.off <= from, cl.recv # << >> => from - cl.off <= Overrun
  PROVE  /\ Sent(cl, Block(h, from, n), off) \in Connection
         /\ Orderly(Sent(cl, Block(h, from, n), off), s)
<1> DEFINE b == Block(h, from, n)
           r == cl.recv
           new == Sent(cl, b, off)
<1>1. /\ b \in Seq(Received) /\ Len(b) = n
      /\ \A i \in 1 .. n : b[i].at = from + i - 1
  BY BlockType
<1>2. \A i \in 1 .. n : b[i].at < Len(s) /\ b[i].byte = s[b[i].at + 1]
  BY BlockIsOutput
<1>3. r \in Seq(Received) /\ cl.off \in Nat /\ cl.replayed \in Nat
  BY DEF Connection
<1>4. /\ new \in Connection
      /\ new.recv = r \o b /\ new.truncated = cl.truncated /\ new.replayed = cl.replayed
  <2>1. r \o b \in Seq(Received)
    BY <1>1, <1>3, Joined
  <2>2. new = [cl EXCEPT !.recv = r \o b, !.off = off]
    BY DEF Sent
  <2> HIDE DEF b, r, new
  <2> QED BY <2>1, <2>2 DEF Connection
<1>5. \A i \in 1 .. Len(r) : r[i].at \in Nat
  BY <1>3, ReceivedType
<1> HIDE DEF b, r, new
<1>6. /\ Len(r) \in Nat /\ DOMAIN r = 1 .. Len(r)
      /\ DOMAIN (r \o b) = 1 .. Len(r) + n /\ Len(r \o b) = Len(r) + n
      /\ \A i \in 1 .. Len(r) : (r \o b)[i] = r[i]
      /\ \A i \in Len(r) + 1 .. Len(r) + n : (r \o b)[i] = b[i - Len(r)]
  BY <1>1, <1>3, Joined, ReceivedType
<1>7. /\ \A i \in 1 .. Len(r) : r[i].at < cl.off
      /\ r # << >> => \/ r[Len(r)].at = cl.off - 1
                      \/ cl.truncated /\ Len(r) = cl.replayed
  BY <1>6 DEF Cursor, r
<1>8. /\ \A i \in 1 .. Len(r) : r[i].at < Len(s) /\ r[i].byte = s[r[i].at + 1]
      /\ \A i, j \in 1 .. Len(r) : i < j => r[i].at < r[j].at
      /\ \A i \in 1 .. Len(r) - 1 : \/ r[i + 1].at - r[i].at - 1 <= Overrun
                                    \/ cl.truncated /\ i = cl.replayed
  BY <1>6 DEF Orderly, r
<1>9. \A i \in 1 .. Len(r) + n : /\ (r \o b)[i].at < Len(s)
                                 /\ (r \o b)[i].byte = s[(r \o b)[i].at + 1]
  <2> SUFFICES ASSUME NEW i \in 1 .. Len(r) + n
               PROVE  /\ (r \o b)[i].at < Len(s)
                      /\ (r \o b)[i].byte = s[(r \o b)[i].at + 1]
    OBVIOUS
  <2>1. CASE i <= Len(r)
    BY <1>6, <1>8, <2>1
  <2>2. CASE i > Len(r)
    <3>1. i - Len(r) \in 1 .. n /\ (r \o b)[i] = b[i - Len(r)]
      BY <1>6, <2>2
    <3> QED BY <1>2, <3>1
  <2> QED BY <1>6, <2>1, <2>2
<1>10. ASSUME NEW i \in 1 .. Len(r) + n, NEW j \in 1 .. Len(r) + n, i < j
       PROVE  (r \o b)[i].at < (r \o b)[j].at
  <2>1. CASE j <= Len(r)
    BY <1>6, <1>8, <1>10, <2>1
  <2>2. CASE j > Len(r)
    <3>1. j - Len(r) \in 1 .. n /\ (r \o b)[j].at = from + (j - Len(r)) - 1
      BY <1>1, <1>6, <2>2
    <3>2. CASE i <= Len(r)
      <4>1. (r \o b)[i].at < cl.off /\ (r \o b)[i].at \in Nat
        BY <1>5, <1>6, <1>7, <3>2
      <4> DEFINE k == j - Len(r)
                 x == (r \o b)[i].at
                 y == (r \o b)[j].at
      <4>2. k \in Nat /\ k > 0 /\ y = from + k - 1
        BY <3>1
      <4>3. x \in Nat /\ x < cl.off /\ cl.off \in Nat
        BY <1>3, <4>1
      <4> HIDE DEF k, x, y
      <4>4. x < y
        BY <4>2, <4>3
      <4> QED BY <4>4 DEF x, y
    <3>3. CASE i > Len(r)
      <4>1. i - Len(r) \in 1 .. n /\ (r \o b)[i].at = from + (i - Len(r)) - 1
        BY <1>1, <1>6, <3>3
      <4> QED BY <1>6, <1>10, <3>1, <4>1
    <3> QED BY <1>6, <3>2, <3>3
  <2> QED BY <1>6, <2>1, <2>2
<1>11. ASSUME NEW i \in 1 .. Len(r) + n - 1
       PROVE  \/ (r \o b)[i + 1].at - (r \o b)[i].at - 1 <= Overrun
              \/ cl.truncated /\ i = cl.replayed
  <2>0. Overrun \in Nat
    BY HistoryAssumption DEF Overrun, Larger
  <2>1. CASE i + 1 <= Len(r)
    BY <1>6, <1>8, <2>1
  <2>2. CASE i = Len(r)
    <3>1. (r \o b)[i + 1].at = from
      <4>1. i + 1 - Len(r) = 1 /\ 1 \in 1 .. n
        BY <1>6, <2>2
      <4> QED BY <1>1, <1>6, <2>2, <4>1
    <3>2. (r \o b)[i] = r[Len(r)] /\ r # << >> /\ r[Len(r)].at \in Nat
      BY <1>5, <1>6, <2>2
    <3>3. from - cl.off <= Overrun
      BY <3>2 DEF r
    <3> QED BY <1>3, <1>7, <2>0, <2>2, <3>1, <3>2, <3>3
  <2>3. CASE i > Len(r)
    <3>1. /\ i - Len(r) \in 1 .. n /\ i + 1 - Len(r) \in 1 .. n
          /\ (r \o b)[i] = b[i - Len(r)] /\ (r \o b)[i + 1] = b[i + 1 - Len(r)]
      BY <1>6, <2>3
    <3>2. /\ b[i - Len(r)].at = from + (i - Len(r)) - 1
          /\ b[i + 1 - Len(r)].at = from + (i + 1 - Len(r)) - 1
      BY <1>1, <3>1
    <3> QED BY <1>6, <2>0, <3>1, <3>2
  <2>4. i + 1 <= Len(r) \/ i = Len(r) \/ i > Len(r)
    <3>1. i \in Int /\ Len(r) \in Int
      BY <1>1, <1>6
    <3> QED BY <3>1
  <2> QED BY <2>1, <2>2, <2>3, <2>4
<1>12. Orderly(new, s)
  <2> DEFINE w == r \o b
  <2> HIDE DEF w
  <2>1. DOMAIN w = 1 .. Len(r) + n /\ Len(w) = Len(r) + n
    BY <1>6 DEF w
  <2>2. \A i \in 1 .. Len(r) + n : w[i].at < Len(s) /\ w[i].byte = s[w[i].at + 1]
    BY <1>9 DEF w
  <2>3. \A i, j \in 1 .. Len(r) + n : i < j => w[i].at < w[j].at
    BY <1>10 DEF w
  <2>4. \A i \in 1 .. Len(r) + n - 1 :
           \/ w[i + 1].at - w[i].at - 1 <= Overrun
           \/ cl.truncated /\ i = cl.replayed
    BY <1>11 DEF w
  <2>5. new.recv = w
    BY <1>4 DEF w
  <2> QED BY <1>4, <2>1, <2>2, <2>3, <2>4, <2>5 DEF Orderly
<1> QED BY <1>4, <1>12 DEF new, b

\* A block behind the client's place moves the place to its end.
LEMMA SentCursor ==
  ASSUME NEW cl \in Connection, Cursor(cl), NEW h \in Ring,
         NEW from \in Nat, NEW n \in Nat, cl.off <= from, n > 0 \/ from = cl.off
  PROVE  Cursor(Sent(cl, Block(h, from, n), from + n))
<1> DEFINE b == Block(h, from, n)
           r == cl.recv
           w == r \o b
<1>1. b \in Seq(Received) /\ Len(b) = n /\ \A i \in 1 .. n : b[i].at = from + i - 1
  BY BlockType
<1>2. r \in Seq(Received) /\ cl.off \in Nat
  BY DEF Connection
<1>3. \A i \in 1 .. Len(r) : r[i].at \in Nat /\ r[i].at < cl.off
  BY <1>2, ReceivedType DEF Cursor
<1>4. r # << >> => \/ r[Len(r)].at = cl.off - 1
                   \/ cl.truncated /\ Len(r) = cl.replayed
  BY DEF Cursor
<1> HIDE DEF b, r
<1>5. /\ Len(r) \in Nat /\ DOMAIN w = 1 .. Len(r) + n /\ Len(w) = Len(r) + n
      /\ w \in Seq(Received)
      /\ \A i \in 1 .. Len(r) : w[i] = r[i]
      /\ \A i \in Len(r) + 1 .. Len(r) + n : w[i] = b[i - Len(r)]
  BY <1>1, <1>2, Joined, ReceivedType
<1> HIDE DEF w
<1>6. ASSUME NEW i \in 1 .. Len(r) + n PROVE w[i].at < from + n
  <2>1. CASE i <= Len(r)
    BY SMTT(30), <1>2, <1>3, <1>5, <2>1
  <2>2. CASE i > Len(r)
    <3>1. i - Len(r) \in 1 .. n /\ w[i] = b[i - Len(r)]
      BY <1>5, <2>2
    <3>2. w[i].at = from + (i - Len(r)) - 1
      BY <1>1, <3>1
    <3> QED BY <1>5, <3>1, <3>2
  <2> QED BY <1>5, <2>1, <2>2
<1>7. ASSUME w # << >>
      PROVE  \/ w[Len(w)].at = from + n - 1
             \/ cl.truncated /\ Len(w) = cl.replayed
  <2>1. CASE n > 0
    <3>1. n \in 1 .. n /\ Len(r) + n - Len(r) = n /\ Len(r) + n \in Len(r) + 1 .. Len(r) + n
      BY <1>5, <2>1
    <3>2. w[Len(w)] = b[n]
      BY <1>5, <3>1
    <3> QED BY <1>1, <3>1, <3>2
  <2>2. CASE n = 0
    <3>1. Len(w) = Len(r) /\ Len(r) > 0
      BY <1>5, <1>7, <2>2
    <3>2. w[Len(w)] = r[Len(r)] /\ r # << >>
      BY <1>5, <3>1
    <3> QED BY <1>2, <1>4, <2>2, <3>1, <3>2
  <2> QED BY <2>1, <2>2
<1> DEFINE new == Sent(cl, b, from + n)
<1>8. new.recv = w /\ new.off = from + n /\ new.truncated = cl.truncated
      /\ new.replayed = cl.replayed
  <2>1. Sent(cl, b, from + n) = [cl EXCEPT !.recv = w, !.off = from + n]
    BY DEF Sent, w, r
  <2> QED BY <2>1 DEF Connection
<1> HIDE DEF new
<1>9. Cursor(new)
  <2>1. \A i \in DOMAIN w : w[i].at < from + n
    BY <1>5, <1>6
  <2>2. new.off - 1 = from + n - 1
    BY <1>8
  <2>3. w # << >> => \/ w[Len(w)].at = new.off - 1
                     \/ cl.truncated /\ Len(w) = cl.replayed
    BY <1>7, <2>2
  <2> QED BY <1>8, <2>1, <2>3 DEF Cursor
<1> QED BY <1>9 DEF new, b

\* What is sent later leaves the head of a replay where it is.
LEMMA SentHeaded ==
  ASSUME NEW cl \in Connection, Headed(cl), NEW b \in Seq(Received), NEW off \in Nat
  PROVE  Headed(Sent(cl, b, off))
<1> DEFINE r == cl.recv
           w == r \o b
<1>1. r \in Seq(Received) /\ cl.replayed \in Nat
  BY DEF Connection
<1>2. Sent(cl, b, off) = [cl EXCEPT !.recv = w, !.off = off]
  BY DEF Sent
<1> HIDE DEF r
<1>3. /\ Len(r) \in Nat /\ Len(b) \in Nat /\ Len(w) = Len(r) + Len(b)
      /\ \A i \in 1 .. Len(r) : w[i] = r[i]
  BY <1>1, Joined
<1> HIDE DEF w
<1>4. cl.replayed <= Len(w)
  BY <1>1, <1>3 DEF Headed, r
<1>5. cl.replayed > 0 => w[1] = r[1]
  BY <1>1, <1>3 DEF Headed, r
<1>6. LET new == Sent(cl, b, off)
      IN new.recv = w /\ new.replayed = cl.replayed /\ new.truncated = cl.truncated
  BY <1>2 DEF Connection
<1> QED BY <1>4, <1>5, <1>6 DEF Headed, r

-----------------------------------------------------------------------------
(* The inductive invariant *)

\* A connection before its attach.
Fresh(cl) ==
  cl.off = 0 /\ cl.recv = << >> /\ cl.replayed = 0 /\ cl.truncated = FALSE

\* What holds of a connection to a session whose output is s.
Sound(cl, s) ==
  /\ Orderly(cl, s)
  /\ Headed(cl)
  /\ cl.st = "live" => Cursor(cl)
  /\ cl.st = "new" => Fresh(cl)

IInv ==
  /\ TypeOK
  /\ RingHoldsTail
  /\ LiveIsCaughtUp
  /\ OneLiveClient
  /\ \A c \in Client : Sound(client[c], stream)

\* Letting go of a connection keeps what holds of it.
LEMMA DetachedSound ==
  ASSUME NEW cl \in Connection, NEW s, Orderly(cl, s), Headed(cl)
  PROVE  /\ Detached(cl) \in Connection /\ Detached(cl).st = "gone"
         /\ Sound(Detached(cl), s)
<1>1. /\ Detached(cl) \in Connection /\ Detached(cl).st = "gone"
      /\ Detached(cl).recv = cl.recv /\ Detached(cl).off = cl.off
      /\ Detached(cl).replayed = cl.replayed /\ Detached(cl).truncated = cl.truncated
  BY DEF Detached, Connection
<1> QED BY <1>1 DEF Sound, Orderly, Headed

\* Nothing is live once the attached connection is evicted.
LEMMA EvictedSound ==
  ASSUME IInv
  PROVE  /\ Evicted \in [Client -> Connection]
         /\ \A c \in Client : /\ Evicted[c].st # "live"
                              /\ Sound(Evicted[c], stream)
                              /\ Evicted[c].st = "new" => client[c].st = "new"
<1>1. client \in [Client -> Connection]
  BY DEF IInv, TypeOK
<1>2. \A c \in Client : /\ Detached(client[c]) \in Connection
                        /\ Detached(client[c]).st = "gone"
                        /\ Sound(Detached(client[c]), stream)
  BY <1>1, DetachedSound DEF IInv, Sound
<1>3. CASE attached = NoClient
  BY <1>1, <1>3, HistoryAssumption DEF IInv, OneLiveClient, Evicted
<1>4. CASE attached # NoClient
  BY <1>1, <1>2, <1>4 DEF IInv, OneLiveClient, Evicted, TypeOK
<1> QED BY <1>3, <1>4

\* More output leaves what holds of a connection as it was.
LEMMA SoundLonger ==
  ASSUME NEW cl \in Connection, NEW s \in Seq(Byte), NEW p \in Seq(Byte), Sound(cl, s)
  PROVE  Sound(cl, s \o p)
BY OrderlyLonger DEF Sound

\* What the invariant says of the ring.
LEMMA RingFacts ==
  ASSUME IInv
  PROVE  /\ hist \in Ring /\ hist.start \in Nat /\ hist.written \in Nat
         /\ hist.start <= hist.written
         /\ life # "freed" => Holds(hist, stream)
<1>1. hist \in Ring
  BY DEF IInv, TypeOK, Ring
<1>2. hist.start \in Nat /\ hist.written \in Nat
  BY <1>1 DEF Ring
<1> QED BY <1>1, <1>2 DEF IInv, RingHoldsTail, Holds

\* One read of the PTY is a sequence of at most ReadMax bytes.
LEMMA PtyReadType ==
  ASSUME NEW p \in PtyRead
  PROVE  p \in Seq(Byte) /\ Len(p) \in 1 .. ReadMax
<1>1. PICK n \in 1 .. ReadMax : p \in [1 .. n -> Byte]
  BY DEF PtyRead
<1>2. n \in Nat
  BY HistoryAssumption
<1> QED BY <1>1, <1>2

\* What an append makes of the ring, freed or not.
LEMMA AppendFacts ==
  ASSUME IInv, NEW p \in PtyRead, NEW h, h = AppendLocked(hist, p)
  PROVE  /\ h \in Ring /\ h.start \in Nat /\ h.written \in Nat /\ h.start <= h.written
         /\ life = "freed" => h = hist
         /\ life # "freed" =>
              /\ Holds(h, stream \o p)
              /\ h.written = hist.written + Len(p)
              /\ h.start = Larger(hist.start, hist.written + Len(p) - History)
<1>1. stream \in Seq(Byte) /\ p \in Seq(Byte)
  BY PtyReadType DEF IInv, TypeOK
<1>2. CASE life = "freed"
  BY <1>2, RingFacts DEF AppendLocked
<1>3. CASE life # "freed"
  <2>1. hist \in Ring /\ Holds(hist, stream)
    BY <1>3, RingFacts
  <2>2. /\ h \in Ring /\ Holds(h, stream \o p)
        /\ h.written = hist.written + Len(p)
        /\ h.start = Larger(hist.start, hist.written + Len(p) - History)
    BY <1>1, <1>3, <2>1, AppendHolds
  <2>3. h.start \in Nat /\ h.written \in Nat
    BY <2>2 DEF Ring
  <2> QED BY <1>3, <2>2, <2>3 DEF Holds
<1> QED BY <1>2, <1>3

\* An append keeps what the ring promises.
LEMMA AppendRing ==
  ASSUME IInv, NEW p \in PtyRead, Pump(p)
  PROVE  RingHoldsTail'
<1>0. stream \in Seq(Byte) /\ p \in Seq(Byte) /\ Len(stream) \in Nat /\ Len(p) \in Nat
  BY PtyReadType DEF IInv, TypeOK
<1>1. hist' = AppendLocked(hist, p) /\ stream' = stream \o p /\ life' = life
  BY DEF Pump
<1>2. Len(stream') = Len(stream) + Len(p)
  BY <1>0, <1>1
<1>3. CASE life = "freed"
  <2>1. hist' = hist
    BY <1>1, <1>3 DEF AppendLocked
  <2>2. hist.written \in Nat
    BY RingFacts
  <2>3. hist.written <= Len(stream')
    BY <1>0, <1>2, <2>2 DEF IInv, RingHoldsTail
  <2> QED BY <1>1, <1>3, <2>1, <2>3 DEF IInv, RingHoldsTail
<1>4. CASE life # "freed"
  <2>1. Holds(hist', stream') /\ hist'.written \in Nat
    BY <1>1, <1>4, AppendFacts
  <2> QED BY <2>1 DEF RingHoldsTail, Holds
<1> QED BY <1>3, <1>4

\* What a delivery that got m bytes out makes of the attached connection.
LEMMA DeliverSound ==
  ASSUME IInv, attached # NoClient, NEW p \in PtyRead,
         NEW h, h = AppendLocked(hist, p),
         NEW from, from = Larger(client[attached].off, h.start),
         NEW m \in 0 .. Available(h, from),
         NEW after, after = Sent(client[attached], Block(h, from, m), from + m)
  PROVE  /\ after \in Connection
         /\ Orderly(after, stream \o p)
         /\ Headed(after)
         /\ after.st = "live"
         /\ m = Available(h, from) => Cursor(after) /\ after.off = h.written
<1> DEFINE cl == client[attached]
           s == stream \o p
<1>0. /\ cl \in Connection /\ stream \in Seq(Byte) /\ p \in Seq(Byte) /\ s \in Seq(Byte)
      /\ Len(p) \in Nat /\ Len(p) <= ReadMax /\ Len(p) > 0
  BY PtyReadType DEF IInv, TypeOK
<1>1. /\ cl.st = "live" /\ cl.off = hist.written
      /\ Orderly(cl, stream) /\ Headed(cl) /\ Cursor(cl)
  BY DEF IInv, LiveIsCaughtUp, Sound, TypeOK
<1>2. Orderly(cl, s)
  BY <1>0, <1>1, OrderlyLonger
<1>3. /\ h \in Ring /\ h.start \in Nat /\ h.written \in Nat /\ h.start <= h.written
      /\ hist.start \in Nat /\ hist.written \in Nat /\ hist.start <= hist.written
  BY AppendFacts, RingFacts
<1>4. from \in Nat /\ cl.off <= from /\ h.start <= from
  BY <1>1, <1>3 DEF Larger
<1>5. Available(h, from) \in Nat /\ m \in Nat
  BY <1>3, <1>4 DEF Available
<1>6. from - cl.off <= Overrun
  <2>0. History \in Nat /\ ReadMax \in Nat
    BY HistoryAssumption
  <2>1. CASE life = "freed"
    <3>1. h = hist
      BY <2>1, AppendFacts
    <3> QED BY <1>1, <1>3, <2>0, <3>1 DEF Larger, Overrun
  <2>2. CASE life # "freed"
    <3>1. h.start = Larger(hist.start, hist.written + Len(p) - History)
      BY <2>2, AppendFacts
    <3> QED BY <1>0, <1>1, <1>3, <2>0, <3>1 DEF Larger, Overrun
  <2> QED BY <2>1, <2>2
<1>7. m > 0 => life # "freed" /\ from + m <= h.written
  BY <1>3, <1>4, <1>5 DEF Available
<1>8. m > 0 => Holds(h, s)
  BY <1>7, AppendFacts
<1>9. from + m \in Nat
  BY <1>4, <1>5
<1>10. after \in Connection /\ Orderly(after, s)
  <2> HIDE DEF cl, s
  <2>1. after = Sent(cl, Block(h, from, m), from + m)
    BY DEF cl
  <2> QED BY SMTT(30), <1>0, <1>1, <1>2, <1>3, <1>4, <1>5, <1>6, <1>7, <1>8, <1>9, <2>1, SentOrderly
<1>11. Headed(after)
  <2>1. Block(h, from, m) \in Seq(Received)
    BY <1>3, <1>4, <1>5, BlockType
  <2> QED BY <1>0, <1>1, <1>9, <2>1, SentHeaded
<1>12. after.st = "live" /\ after.off = from + m
  BY <1>0, <1>1 DEF Sent, Connection
<1>13. ASSUME m = Available(h, from) PROVE Cursor(after) /\ from + m = h.written
  <2>1. CASE life = "freed"
    <3>1. h = hist /\ from = cl.off /\ m = 0
      <4>1. h = hist
        BY <2>1, AppendFacts
      <4> QED BY <1>1, <1>3, <1>13, <2>1, <4>1 DEF Larger, Available
    <3> QED BY <1>0, <1>1, <1>3, <1>4, <1>5, <3>1, SentCursor
  <2>2. CASE life # "freed"
    <3>1. h.written = hist.written + Len(p)
          /\ h.start = Larger(hist.start, hist.written + Len(p) - History)
      BY <2>2, AppendFacts
    <3>2. from < h.written
      <4>1. History \in Nat /\ History > 0
        BY HistoryAssumption
      <4> QED BY <1>0, <1>1, <1>3, <3>1, <4>1 DEF Larger
    <3>3. m > 0 /\ from + m = h.written
      BY <1>3, <1>4, <1>13, <2>2, <3>2 DEF Available
    <3> QED BY <1>0, <1>1, <1>3, <1>4, <1>5, <3>3, SentCursor
  <2> QED BY <2>1, <2>2
<1> QED BY <1>10, <1>11, <1>12, <1>13

-----------------------------------------------------------------------------
(* Every step keeps the invariant *)

LEMMA InitInv == Init => IInv
<1> SUFFICES ASSUME Init PROVE IInv
  OBVIOUS
<1>0. NUL \in Byte /\ History \in Nat \ {0} /\ NoClient \notin Client
  BY HistoryAssumption
<1>1. TypeOK
  <2>1. client \in [Client -> Connection]
    BY DEF Init, Connection
  <2> QED BY <1>0, <2>1 DEF Init, TypeOK
<1>2. RingHoldsTail
  BY <1>0 DEF Init, RingHoldsTail
<1>3. LiveIsCaughtUp /\ OneLiveClient
  BY DEF Init, LiveIsCaughtUp, OneLiveClient
<1>4. ASSUME NEW c \in Client PROVE Sound(client[c], stream)
  <2>1. /\ client[c].st = "new" /\ client[c].recv = << >> /\ client[c].off = 0
        /\ client[c].replayed = 0 /\ client[c].truncated = FALSE
    BY DEF Init
  <2> QED BY <2>1 DEF Sound, Orderly, Headed, Fresh
<1> QED BY <1>1, <1>2, <1>3, <1>4 DEF IInv

LEMMA PumpInv ==
  ASSUME IInv, NEW p \in PtyRead, Pump(p)
  PROVE  IInv'
<1>0. /\ stream \in Seq(Byte) /\ p \in Seq(Byte) /\ client \in [Client -> Connection]
      /\ attached \in Client \cup {NoClient}
  BY PtyReadType DEF IInv, TypeOK
<1>1. /\ stream' = stream \o p /\ hist' = AppendLocked(hist, p)
      /\ epochs' = epochs /\ life' = life
  BY DEF Pump
<1>2. RingHoldsTail'
  BY AppendRing
<1>3. stream' \in Seq(Byte) /\ hist' \in Ring
  BY <1>0, <1>1, AppendFacts
<1>4. \A d \in Client : Sound(client[d], stream')
  BY <1>0, <1>1, SoundLonger DEF IInv
<1>5. CASE attached = NoClient
  <2>1. client' = client /\ attached' = attached
    BY <1>5 DEF Pump
  <2>2. TypeOK'
    BY <1>0, <1>1, <1>3, <2>1 DEF IInv, TypeOK, Ring
  <2>3. LiveIsCaughtUp' /\ OneLiveClient'
    BY <1>5, <2>1 DEF IInv, LiveIsCaughtUp, OneLiveClient
  <2> QED BY <1>2, <1>4, <2>1, <2>2, <2>3 DEF IInv
<1>6. CASE attached # NoClient
  <2> DEFINE c == attached
             from == Larger(client[c].off, hist'.start)
             behind == Available(hist', from)
             After(m) == Sent(client[c], Block(hist', from, m), from + m)
  <2>0. c \in Client
    BY <1>0, <1>6
  <2>1. behind \in Nat
    <3>1. hist'.start \in Nat /\ hist'.written \in Nat /\ client[c].off \in Nat
      BY <1>0, <1>1, <2>0, AppendFacts DEF Connection
    <3> QED BY <3>1 DEF Larger, Available
  <2>2. ASSUME NEW m \in 0 .. behind
        PROVE  /\ After(m) \in Connection /\ Orderly(After(m), stream')
               /\ Headed(After(m)) /\ After(m).st = "live"
               /\ m = behind => Cursor(After(m)) /\ After(m).off = hist'.written
    BY <1>1, <1>6, DeliverSound
  <2>3. \A d \in Client : d # c => client[d].st # "live"
    BY DEF IInv, OneLiveClient
  <2>4. DeliverLocked(hist', c)
    BY <1>6 DEF Pump
  <2>5. CASE client' = [client EXCEPT ![c] = After(behind)] /\ attached' = attached
    <3> DEFINE new == After(behind)
    <3>1. /\ new \in Connection /\ Sound(new, stream')
          /\ new.st = "live" /\ new.off = hist'.written
      <4>1. behind \in 0 .. behind
        BY <2>1
      <4> HIDE DEF behind, After
      <4> QED BY <2>2, <4>1 DEF Sound
    <3> HIDE DEF new
    <3>2. client' = [client EXCEPT ![c] = new] /\ attached' = attached
      BY <2>5 DEF new
    <3>3. TypeOK'
      BY <1>0, <1>1, <1>3, <3>1, <3>2 DEF IInv, TypeOK, Ring
    <3>4. LiveIsCaughtUp' /\ OneLiveClient'
      BY <1>0, <2>0, <2>3, <3>1, <3>2 DEF LiveIsCaughtUp, OneLiveClient
    <3>5. \A d \in Client : Sound(client'[d], stream')
      BY <1>0, <1>4, <3>1, <3>2
    <3> QED BY <1>2, <3>3, <3>4, <3>5 DEF IInv
  <2>6. ASSUME NEW m \in WholeChunks(behind),
               client' = [client EXCEPT ![c] = Detached(After(m))], attached' = NoClient
        PROVE  IInv'
    <3> DEFINE new == Detached(After(m))
    <3>1. new \in Connection /\ Sound(new, stream') /\ new.st = "gone"
      <4>1. m \in 0 .. behind
        BY DEF WholeChunks
      <4> HIDE DEF behind, After
      <4> QED BY <2>2, <4>1, DetachedSound
    <3> HIDE DEF new
    <3>2. client' = [client EXCEPT ![c] = new]
      BY <2>6 DEF new
    <3>3. TypeOK'
      BY ZenonT(30), <1>0, <1>1, <1>3, <2>6, <3>1, <3>2 DEF IInv, TypeOK, Ring
    <3>4. LiveIsCaughtUp' /\ OneLiveClient'
      BY <1>0, <2>0, <2>3, <2>6, <3>1, <3>2 DEF LiveIsCaughtUp, OneLiveClient
    <3>5. \A d \in Client : Sound(client'[d], stream')
      BY <1>0, <1>4, <3>1, <3>2
    <3> QED BY <1>2, <3>3, <3>4, <3>5 DEF IInv
  <2> QED BY <2>4, <2>5, <2>6 DEF DeliverLocked
<1> QED BY <1>5, <1>6

\* What the new client is sent by a replay, whatever it is then left with.
LEMMA ReplaySent ==
  ASSUME IInv, NEW c \in Client, client[c].st = "new",
         NEW m \in 0 .. Available(hist, ReplayStart(hist, epochs)), NEW off \in Nat
  PROVE  LET r    == ReplayStart(hist, epochs)
             sent == Sent(client[c], Block(hist, r, m), off)
         IN  /\ r \in Nat /\ m \in Nat /\ sent \in Connection
             /\ Orderly(sent, stream) /\ Headed(sent) /\ sent.truncated = FALSE
             /\ Len(sent.recv) = m
             /\ \A i \in 1 .. m : sent.recv[i].at = r + i - 1
             /\ m > 0 => r + m <= hist.written
<1> DEFINE r == ReplayStart(hist, epochs)
           cl == client[c]
           b == Block(hist, r, m)
           sent == Sent(cl, b, off)
<1>0. /\ cl \in Connection /\ stream \in Seq(Byte) /\ epochs \in Seq(Nat)
      /\ hist \in Ring /\ hist.start \in Nat /\ hist.written \in Nat
      /\ hist.start <= hist.written
  BY RingFacts DEF IInv, TypeOK
<1>1. Fresh(cl) /\ Orderly(cl, stream) /\ Headed(cl)
  BY DEF IInv, Sound
<1>2. r \in Nat /\ hist.start <= r
  <2>1. ReplayFloor(hist, epochs) \in Nat
    BY <1>0, ReplayStartBounds
  <2> QED BY <1>0, <2>1, ReplayStartBounds
<1>3. m \in Nat /\ (m > 0 => life # "freed" /\ r + m <= hist.written)
  BY <1>0, <1>2 DEF Available
<1>4. m > 0 => Holds(hist, stream)
  BY <1>3, RingFacts
<1>5. Cursor(cl) /\ cl.off <= r /\ cl.recv = << >>
  BY <1>1, <1>2 DEF Cursor, Fresh
<1>6. b \in Seq(Received) /\ Len(b) = m /\ \A i \in 1 .. m : b[i].at = r + i - 1
  BY <1>0, <1>2, <1>3, BlockType
<1>7. sent \in Connection /\ Orderly(sent, stream)
  <2> HIDE DEF cl
  <2> QED BY <1>0, <1>1, <1>2, <1>3, <1>4, <1>5, SentOrderly
<1>8. Headed(sent)
  BY <1>0, <1>1, <1>6, SentHeaded
<1>9. sent.recv = b /\ sent.truncated = FALSE
  <2>1. sent = [cl EXCEPT !.recv = << >> \o b, !.off = off]
    BY <1>5 DEF Sent
  <2>2. << >> \o b = b
    <3> HIDE DEF b
    <3> QED BY <1>6
  <2> HIDE DEF b, sent
  <2> QED BY <1>0, <1>1, <2>1, <2>2 DEF Connection, Fresh
<1> HIDE DEF b, cl
<1>10. /\ Len(sent.recv) = m
       /\ \A i \in 1 .. m : sent.recv[i].at = r + i - 1
  <2> HIDE DEF sent
  <2> QED BY <1>6, <1>9
<1> HIDE DEF sent, r
<1> QED BY <1>2, <1>3, <1>7, <1>8, <1>9, <1>10 DEF sent, b, cl, r

\* A replay that is not flagged as truncated begins in the first ReplayTrim
\* bytes, where the history is larger than a replay.
LEMMA UnflaggedHead ==
  ASSUME IInv, Replay < History, ~ ReplayTruncated(hist, epochs)
  PROVE  ReplayStart(hist, epochs) <= ReplayTrim
<1> DEFINE floor == ReplayFloor(hist, epochs)
<1>0. /\ hist \in Ring /\ hist.start \in Nat /\ hist.written \in Nat
      /\ hist.start <= hist.written /\ epochs \in Seq(Nat)
      /\ hist.start = 0 \/ hist.start = hist.written - History
  BY RingFacts DEF IInv, TypeOK, RingHoldsTail
<1>1. Replay \in Nat /\ History \in Nat /\ ReplayTrim \in Nat
  BY HistoryAssumption
<1>2. floor \in Nat /\ hist.start <= floor
  BY <1>0, ReplayStartBounds
<1>3. floor = hist.start
  BY <1>0, <1>2 DEF ReplayTruncated
<1>4. hist.start = 0
  <2>1. SUFFICES ASSUME hist.start = hist.written - History PROVE FALSE
    BY <1>0
  <2> DEFINE oldest == IF ReplayEpoch = "last" /\ epochs # << >>
                       THEN Larger(hist.start, epochs[Len(epochs)]) ELSE hist.start
  <2>2. epochs # << >> => epochs[Len(epochs)] \in Nat
    BY <1>0
  <2>3. oldest \in Nat /\ hist.start <= oldest
    BY <1>0, <2>2 DEF Larger
  <2>4. floor = IF hist.written - oldest > Replay THEN hist.written - Replay ELSE oldest
    BY DEF ReplayFloor
  <2> HIDE DEF oldest, floor
  <2> QED BY <1>0, <1>1, <1>3, <2>1, <2>3, <2>4
<1>5. ReplayStart(hist, epochs) \in Nat /\ ReplayStart(hist, epochs) <= floor + ReplayTrim
  BY <1>0, ReplayStartBounds
<1> QED BY <1>1, <1>3, <1>4, <1>5

\* A client that goes live is sound, and has the place of the end.
LEMMA ReplayedSound ==
  ASSUME IInv, NEW c \in Client, client[c].st = "new",
         NEW m \in LET n == Available(hist, ReplayStart(hist, epochs))
                  IN  {n} \cup (WholeChunks(n) \ {0})
  PROVE  LET r   == ReplayStart(hist, epochs)
             new == Replayed(c, r, m, Available(hist, r))
         IN  /\ new \in Connection /\ Sound(new, stream)
             /\ new.st = "live" /\ new.off = hist.written
<1> DEFINE r == ReplayStart(hist, epochs)
           n == Available(hist, r)
           new == Replayed(c, r, m, n)
           sent == Sent(client[c], Block(hist, r, m), hist.written)
<1>0. hist.written \in Nat /\ hist.start \in Nat /\ hist \in Ring /\ epochs \in Seq(Nat)
      /\ hist.start <= hist.written
  BY RingFacts DEF IInv, TypeOK
<1>1. r \in Nat
  BY <1>0, ReplayStartBounds
<1>2. n \in Nat /\ (n > 0 => n = hist.written - r)
  BY <1>0, <1>1 DEF Available
<1>3. m \in 0 .. n
  BY <1>2 DEF WholeChunks
<1>4. /\ sent \in Connection /\ Orderly(sent, stream) /\ Headed(sent)
      /\ sent.truncated = FALSE /\ Len(sent.recv) = m
      /\ \A i \in 1 .. m : sent.recv[i].at = r + i - 1
      /\ m > 0 => r + m <= hist.written
  <2>1. m \in 0 .. Available(hist, r)
    BY <1>3
  <2>2. hist.written \in Nat
    BY <1>0
  <2> QED BY <2>1, <2>2, ReplaySent
<1>5. sent.off = hist.written
  <2>1. client[c] \in Connection
    BY DEF IInv, TypeOK
  <2> QED BY <2>1 DEF Sent, Connection
<1>6. new = [sent EXCEPT !.st = "live", !.replayed = m,
                         !.truncated = ReplayTruncated(hist, epochs) \/ m < n]
  BY DEF Replayed
<1> HIDE DEF sent, new
<1>7. /\ new \in Connection /\ new.recv = sent.recv /\ new.st = "live"
      /\ new.off = hist.written /\ new.replayed = m
      /\ new.truncated = (ReplayTruncated(hist, epochs) \/ m < n)
  <2>1. m \in Nat /\ (ReplayTruncated(hist, epochs) \/ m < n) \in BOOLEAN
    BY <1>2, <1>3
  <2> QED BY <1>4, <1>5, <1>6, <2>1 DEF Connection
<1>8. sent.recv \in Seq(Received) /\ DOMAIN sent.recv = 1 .. m
  <2>1. sent.recv \in Seq(Received)
    BY <1>4 DEF Connection
  <2> QED BY <1>4, <2>1, ReceivedType
<1>9. Orderly(new, stream)
  BY <1>4, <1>7 DEF Orderly
<1>10. Cursor(new)
  <2>1. ASSUME NEW i \in 1 .. m PROVE sent.recv[i].at < hist.written
    <3>1. sent.recv[i].at = r + i - 1 /\ r + m <= hist.written
      BY <1>2, <1>3, <1>4
    <3> QED BY <1>0, <1>1, <1>2, <1>3, <3>1
  <2>2. ASSUME sent.recv # << >>
        PROVE  \/ sent.recv[Len(sent.recv)].at = hist.written - 1
               \/ m < n /\ Len(sent.recv) = m
    <3>1. m > 0
      BY <1>2, <1>3, <1>4, <1>8, <2>2
    <3>2. sent.recv[Len(sent.recv)].at = r + m - 1
      BY <1>2, <1>3, <1>4, <3>1
    <3> QED BY <1>0, <1>1, <1>2, <1>3, <1>4, <3>1, <3>2
  <2> QED BY <1>7, <1>8, <2>1, <2>2 DEF Cursor
<1>11. Headed(new)
  <2>1. m <= Len(sent.recv)
    BY <1>2, <1>3, <1>4
  <2>2. ASSUME Replay < History, m > 0, ~ ReplayTruncated(hist, epochs)
        PROVE  sent.recv[1].at <= ReplayTrim
    <3>1. r <= ReplayTrim
      BY <2>2, UnflaggedHead
    <3>2. sent.recv[1].at = r + 1 - 1
      BY <1>2, <1>3, <1>4, <2>2
    <3> QED BY <1>1, <3>1, <3>2
  <2> QED BY <1>7, <2>1, <2>2 DEF Headed
<1> QED BY <1>7, <1>9, <1>10, <1>11 DEF Sound, new

LEMMA AttachInv ==
  ASSUME IInv, NEW c \in Client, AttachLocked(c)
  PROVE  IInv'
<1> DEFINE r == ReplayStart(hist, epochs)
           n == Available(hist, r)
<1>0. /\ client \in [Client -> Connection] /\ c # NoClient
      /\ hist.written \in Nat /\ hist.start \in Nat /\ hist \in Ring /\ epochs \in Seq(Nat)
      /\ hist.start <= hist.written
  BY RingFacts, HistoryAssumption DEF IInv, TypeOK
<1>1. client[c].st = "new" /\ UNCHANGED <<stream, hist, epochs, life>>
  BY DEF AttachLocked
<1>2. r \in Nat /\ n \in Nat
  BY <1>0, ReplayStartBounds DEF Available
<1>3. RingHoldsTail'
  BY <1>1 DEF IInv, RingHoldsTail
<1>4. /\ Evicted \in [Client -> Connection]
      /\ \A d \in Client : Evicted[d].st # "live" /\ Sound(Evicted[d], stream)
  BY EvictedSound
<1>5. ASSUME NEW new, new \in Connection, Sound(new, stream),
             client' = [Evicted EXCEPT ![c] = new],
             \/ new.st = "live" /\ new.off = hist.written /\ attached' = c
             \/ new.st = "gone" /\ attached' = NoClient
      PROVE  IInv'
  <2>1. TypeOK'
    BY <1>1, <1>4, <1>5 DEF IInv, TypeOK
  <2>2. LiveIsCaughtUp'
    BY <1>0, <1>1, <1>4, <1>5 DEF LiveIsCaughtUp
  <2>3. OneLiveClient'
    BY <1>0, <1>4, <1>5 DEF OneLiveClient
  <2>4. \A d \in Client : Sound(client'[d], stream')
    BY <1>1, <1>4, <1>5
  <2> QED BY <1>3, <2>1, <2>2, <2>3, <2>4 DEF IInv
<1>6. ASSUME NEW m \in {n} \cup (WholeChunks(n) \ {0}),
             client' = [Evicted EXCEPT ![c] = Replayed(c, r, m, n)], attached' = c
      PROVE  IInv'
  <2> DEFINE new == Replayed(c, r, m, n)
  <2>1. /\ new \in Connection /\ Sound(new, stream)
        /\ new.st = "live" /\ new.off = hist.written
    BY <1>1, ReplayedSound
  <2>2. client' = [Evicted EXCEPT ![c] = new] /\ attached' = c
    BY <1>6
  <2> HIDE DEF new
  <2> QED BY <1>5, <2>1, <2>2
<1>7. ASSUME NEW m \in {n} \cup WholeChunks(n),
             client' = [Evicted EXCEPT ![c] =
                          Detached(Sent(client[c], Block(hist, r, m), r + m))],
             attached' = NoClient
      PROVE  IInv'
  <2> DEFINE sent == Sent(client[c], Block(hist, r, m), r + m)
             new == Detached(sent)
  <2>1. m \in 0 .. n /\ r + m \in Nat
    BY <1>2 DEF WholeChunks
  <2>2. sent \in Connection /\ Orderly(sent, stream) /\ Headed(sent)
    <3>1. m \in 0 .. Available(hist, r)
      BY <2>1
    <3> QED BY <1>1, <2>1, <3>1, ReplaySent
  <2>3. client' = [Evicted EXCEPT ![c] = new] /\ attached' = NoClient
    BY <1>7
  <2> HIDE DEF sent
  <2>4. new \in Connection /\ Sound(new, stream) /\ new.st = "gone"
    BY <2>2, DetachedSound
  <2> HIDE DEF new
  <2> QED BY <1>5, <2>3, <2>4
<1> QED BY <1>6, <1>7 DEF AttachLocked

LEMMA LeaveInv ==
  ASSUME IInv, NEW c \in Client, Leave(c)
  PROVE  IInv'
<1> DEFINE new == Detached(client[c])
<1>0. client \in [Client -> Connection] /\ Sound(client[c], stream)
  BY DEF IInv, TypeOK
<1>1. new \in Connection /\ Sound(new, stream) /\ new.st = "gone"
  BY <1>0, DetachedSound DEF Sound
<1> HIDE DEF new
<1>2. /\ client' = [client EXCEPT ![c] = new] /\ attached = c /\ attached' = NoClient
      /\ UNCHANGED <<stream, hist, epochs, life>>
  BY DEF Leave, new
<1>3. TypeOK'
  BY <1>0, <1>1, <1>2 DEF IInv, TypeOK
<1>4. RingHoldsTail'
  BY <1>2 DEF IInv, RingHoldsTail
<1>5. LiveIsCaughtUp' /\ OneLiveClient'
  BY <1>0, <1>1, <1>2 DEF IInv, LiveIsCaughtUp, OneLiveClient
<1>6. \A d \in Client : Sound(client'[d], stream')
  BY <1>0, <1>1, <1>2 DEF IInv
<1> QED BY <1>3, <1>4, <1>5, <1>6 DEF IInv

LEMMA ResizeInv ==
  ASSUME IInv, Resize
  PROVE  IInv'
<1>0. epochs \in Seq(Nat) /\ hist.written \in Nat /\ EpochMax \in Nat \ {0}
  BY RingFacts, HistoryAssumption DEF IInv, TypeOK
<1> DEFINE e == Append(epochs, hist.written)
<1>1. e \in Seq(Nat) /\ Len(e) \in Nat
  BY <1>0
<1>2. Len(e) > EpochMax => SubSeq(e, Len(e) - EpochMax + 1, Len(e)) \in Seq(Nat)
  <2> HIDE DEF e
  <2> QED BY <1>0, <1>1
<1>3. epochs' \in Seq(Nat)
  BY <1>1, <1>2 DEF Resize
<1>4. UNCHANGED <<stream, hist, life, attached, client>>
  BY DEF Resize
<1> QED BY <1>3, <1>4 DEF IInv, TypeOK, RingHoldsTail, LiveIsCaughtUp, OneLiveClient

LEMMA FinishInv ==
  ASSUME IInv, Finish
  PROVE  IInv'
<1>1. /\ Evicted \in [Client -> Connection]
      /\ \A d \in Client : Evicted[d].st # "live" /\ Sound(Evicted[d], stream)
  BY EvictedSound
<1>2. /\ life = "running" /\ life' = "done" /\ client' = Evicted /\ attached' = NoClient
      /\ UNCHANGED <<stream, hist, epochs>>
  BY DEF Finish
<1>3. TypeOK' /\ RingHoldsTail'
  BY <1>1, <1>2 DEF IInv, TypeOK, RingHoldsTail
<1>4. LiveIsCaughtUp' /\ OneLiveClient'
  BY <1>1, <1>2 DEF LiveIsCaughtUp, OneLiveClient
<1> QED BY <1>1, <1>2, <1>3, <1>4 DEF IInv

LEMMA FreeRingInv ==
  ASSUME IInv, FreeRing
  PROVE  IInv'
BY DEF IInv, FreeRing, TypeOK, RingHoldsTail, LiveIsCaughtUp, OneLiveClient

\* Every step keeps the invariant.
LEMMA StepInv == IInv /\ [Next]_vars => IInv'
<1> SUFFICES ASSUME IInv, [Next]_vars PROVE IInv'
  OBVIOUS
<1>1. CASE UNCHANGED vars
  BY <1>1 DEF vars, IInv, TypeOK, RingHoldsTail, LiveIsCaughtUp, OneLiveClient
<1>2. CASE Next
  BY <1>2, PumpInv, AttachInv, LeaveInv, ResizeInv, FinishInv, FreeRingInv DEF Next
<1> QED BY <1>1, <1>2

\* The invariant holds in every reachable state.
THEOREM Invariance == Spec => []IInv
BY InitInv, StepInv, PTL DEF Spec

-----------------------------------------------------------------------------
(* The properties *)

\* Every variable of the output path keeps its type.
THEOREM TypeCorrect == Spec => []TypeOK
<1>1. IInv => TypeOK
  BY DEF IInv
<1> QED BY <1>1, Invariance, PTL

\* The ring always holds the newest bytes of the output, each in its slot,
\* whatever the sizes of the ring and of the reads.
THEOREM RingCorrect == Spec => []RingHoldsTail
<1>1. IInv => RingHoldsTail
  BY DEF IInv
<1> QED BY <1>1, Invariance, PTL

\* A client is sent the session's output in order, no byte twice, however
\* appends, replays, failed frames and replacements interleave.
THEOREM DeliveryCorrect == Spec => []FaithfulDelivery
<1>1. IInv => FaithfulDelivery
  BY DEF IInv, Sound, Orderly, FaithfulDelivery
<1> QED BY <1>1, Invariance, PTL

\* An attached client never lags behind the ring between critical sections.
THEOREM CaughtUp == Spec => []LiveIsCaughtUp
<1>1. IInv => LiveIsCaughtUp
  BY DEF IInv
<1> QED BY <1>1, Invariance, PTL

\* A connection that was replaced is never live.
THEOREM OneLive == Spec => []OneLiveClient
<1>1. IInv => OneLiveClient
  BY DEF IInv
<1> QED BY <1>1, Invariance, PTL

\* A client misses bytes only behind a replay flagged as truncated, or the
\* part of one read that the whole history cannot hold.
THEOREM GapsTold == Spec => []GapOnlyIfTold
<1>1. IInv => GapOnlyIfTold
  BY DEF IInv, Sound, Orderly, Overrun, GapOnlyIfTold
<1> QED BY <1>1, Invariance, PTL

\* Where reads fit the history, a client of an unflagged replay misses nothing
\* between the first and the last byte it was sent.
THEOREM NoGapWhereReadsFit ==
  Spec => [](ReadMax <= History =>
               \A c \in Client : ~ client[c].truncated =>
                 \A i \in 1 .. Len(client[c].recv) - 1 :
                   client[c].recv[i + 1].at = client[c].recv[i].at + 1)
<1> DEFINE Gapless ==
      ReadMax <= History =>
        \A c \in Client : ~ client[c].truncated =>
          \A i \in 1 .. Len(client[c].recv) - 1 :
            client[c].recv[i + 1].at = client[c].recv[i].at + 1
<1>1. IInv => Gapless
  <2> SUFFICES ASSUME IInv, ReadMax <= History,
                      NEW c \in Client, ~ client[c].truncated,
                      NEW i \in 1 .. Len(client[c].recv) - 1
               PROVE  client[c].recv[i + 1].at = client[c].recv[i].at + 1
    OBVIOUS
  <2> DEFINE r == client[c].recv
  <2>1. r \in Seq(Received)
    BY DEF IInv, TypeOK, Connection
  <2>2. r[i + 1].at - r[i].at - 1 <= Overrun
    BY DEF IInv, Sound, Orderly
  <2>3. Overrun = 0
    BY HistoryAssumption DEF Overrun, Larger
  <2>4. i \in 1 .. Len(r) /\ i + 1 \in 1 .. Len(r) /\ i < i + 1
    BY <2>1
  <2>5. r[i].at < r[i + 1].at
    BY <2>1, <2>4, ReceivedType DEF IInv, Sound, Orderly
  <2>6. r[i].at \in Nat /\ r[i + 1].at \in Nat
    BY <2>1, <2>4, ReceivedType
  <2> QED BY SMTT(30), <2>2, <2>3, <2>5, <2>6
<1> QED BY <1>1, Invariance, PTL

\* A replay without the truncated flag starts in the session's first
\* ReplayTrim bytes.
THEOREM HeadTold == Spec => []UnflaggedReplayHasHead
<1>1. IInv => UnflaggedReplayHasHead
  BY DEF IInv, Sound, Headed, UnflaggedReplayHasHead
<1> QED BY <1>1, Invariance, PTL
====
