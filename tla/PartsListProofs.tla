---- MODULE PartsListProofs ----
(***************************************************************************)
(* What holds of the parts that work through a list: the buckets that      *)
(* count what a session prints and the table of processes, the relays and  *)
(* the hints of an address, the ports of a server.  For each there is a    *)
(* lemma by induction over the places of the list.                         *)
(***************************************************************************)
EXTENDS Parts, Sequences, WellFoundedInduction, TLAPS

-----------------------------------------------------------------------------
\* A behaviour is one of a single part: the others' actions are not taken.
LEMMA PartsGoOn ==
  ASSUME [PartsNext]_<<part, xs>>
  PROVE  /\ part' = part
         /\ part = "udp" => Udp!Next \/ UNCHANGED xs
         /\ part = "egress" => Egress!Next \/ UNCHANGED xs
         /\ part = "map" => Map!Next \/ UNCHANGED xs
         /\ part = "address" => Address!Next \/ UNCHANGED xs
         /\ part = "hints" => Hints!Next \/ UNCHANGED xs
         /\ part = "scan" => Scan!Next \/ UNCHANGED xs
         /\ part = "agent" => Agent!Next \/ UNCHANGED xs
         /\ part = "box" => Box!Next \/ UNCHANGED xs
         /\ part = "proxying" => Proxy!Next \/ UNCHANGED xs
         /\ part = "serve" => Server!Next \/ UNCHANGED xs
         /\ part = "command" => Command!Next \/ UNCHANGED xs
  BY DEF PartsNext, xs

-----------------------------------------------------------------------------
(* Induction, and sequences that are folded. *)

\* A set of naturals that is not empty has a least member.
LEMMA NatMin ==
  ASSUME NEW T, T \subseteq Nat, T # {}
  PROVE  \E x \in T : \A y \in T : ~ (y < x)
<1>2. IsWellFoundedOn({ss \in Nat \X Nat : ss[1] < ss[2]}, Nat)
  BY NatLessThanWellFounded DEF OpToRel
<1> DEFINE less == {ss \in Nat \X Nat : ss[1] < ss[2]}
<1>4. IsWellFoundedOn(less, Nat)
  BY <1>2
<1> HIDE DEF less
<1>3. \E x \in T : \A y \in T : ~ (<<y, x>> \in less)
  BY <1>4, WFMin
<1> QED
  BY <1>3 DEF less

\* Induction: a set of naturals that has 0 and with a number the next one has all.
LEMMA Induction ==
  ASSUME NEW n \in Nat, NEW T, 0 \in T, \A k \in 0 .. n - 1 : k \in T => k + 1 \in T
  PROVE  n \in T
<1> DEFINE out == {k \in 0 .. n : k \notin T}
<1> SUFFICES ASSUME n \notin T PROVE FALSE
  OBVIOUS
<1>0. out # {} /\ out \subseteq Nat
  OBVIOUS
<1>1. PICK x \in out : \A y \in out : ~ (y < x)
  BY <1>0, NatMin
<1>2. x \in 0 .. n /\ x \notin T /\ x # 0
  OBVIOUS
<1>3. x - 1 \in 0 .. n - 1 /\ x = (x - 1) + 1 /\ x - 1 < x
  OBVIOUS
<1>4. x - 1 \in T
  BY <1>1
<1> QED
  BY <1>4

\* The greatest of some numbers, which Max is in every module.
Top(d) == CHOOSE x \in d : \A y \in d : x >= y

\* It is the greatest there may be, if that is among them.
LEMMA TopIs ==
  ASSUME NEW k \in Nat, NEW d \in SUBSET (1 .. k), k \in d
  PROVE  Top(d) = k
<1>1. \A x \in d : x >= k => x = k
  OBVIOUS
<1>2. \A y \in d : k >= y
  OBVIOUS
<1> QED
  BY <1>1, <1>2 DEF Top

\* It is one of them.
LEMMA TopThere ==
  ASSUME NEW n \in Nat, NEW d \in SUBSET (1 .. n), d # {}
  PROVE  Top(d) \in d
<1> DEFINE T == {n - x : x \in d}
<1>1. T \subseteq Nat /\ T # {}
  <2>1. ASSUME NEW x \in d PROVE n - x \in Nat
    OBVIOUS
  <2> QED
    BY <2>1
<1>2. PICK z \in T : \A y \in T : ~ (y < z)
  <2> HIDE DEF T
  <2> QED
    BY <1>1, NatMin
<1>3. PICK x \in d : z = n - x
  OBVIOUS
<1>4. \A y \in d : x >= y
  <2>1. ASSUME NEW y \in d PROVE x >= y
    <3>1. ~ (n - y < z)
      BY <1>2
    <3> QED
      BY <1>3, <3>1
  <2> QED
    BY <2>1
<1> QED
  BY <1>4 DEF Top

\* The first places of a sequence.
LEMMA Prefixes ==
  ASSUME NEW n \in Nat, NEW k \in 0 .. n - 1
  PROVE  /\ 1 .. k + 1 \in SUBSET (1 .. n) /\ 1 .. k + 1 # {}
         /\ Top(1 .. k + 1) = k + 1 /\ (1 .. k + 1) \ {k + 1} = 1 .. k
         /\ k + 1 \in 1 .. n
<1>1. k \in Nat /\ k + 1 \in Nat /\ k + 1 <= n /\ k + 1 \in 1 .. n
  OBVIOUS
<1>2. k + 1 \in 1 .. k + 1
  OBVIOUS
<1>3. 1 .. k + 1 \in SUBSET (1 .. n)
  OBVIOUS
<1>4. Top(1 .. k + 1) = k + 1
  BY <1>1, <1>2, TopIs
<1>5. (1 .. k + 1) \ {k + 1} = 1 .. k
  OBVIOUS
<1> QED
  BY <1>1, <1>2, <1>3, <1>4, <1>5

\* What st makes of the members of s whose places are in each set, the last first.
Folding(f, st, base, s, n) ==
  \A d \in SUBSET (1 .. n) :
    f[d] = IF d = {} THEN base ELSE st[<<f[d \ {Top(d)}], s[Top(d)]>>]

HasFold(A, st, base, s, n) == \E f \in [SUBSET (1 .. n) -> A] : Folding(f, st, base, s, n)

\* FoldLeft is defined by a recursive function: there is one.
LEMMA FoldExists ==
  ASSUME NEW A, NEW base \in A, NEW n \in Nat, NEW s, NEW st,
         \A a \in A, i \in 1 .. n : st[<<a, s[i]>>] \in A
  PROVE  HasFold(A, st, base, s, n)
<1> DEFINE T == {k \in 0 .. n : \E f \in [SUBSET (1 .. k) -> A] : Folding(f, st, base, s, k)}
<1>1. 0 \in T
  <2> DEFINE f == [d \in SUBSET (1 .. 0) |-> base]
  <2>1. \A d \in SUBSET (1 .. 0) : d = {}
    OBVIOUS
  <2>2. f \in [SUBSET (1 .. 0) -> A] /\ Folding(f, st, base, s, 0)
    BY <2>1 DEF Folding
  <2> HIDE DEF f
  <2>3. 0 \in 0 .. n
    OBVIOUS
  <2> QED
    BY <2>2, <2>3
<1>2. ASSUME NEW k \in 0 .. n - 1, k \in T PROVE k + 1 \in T
  <2>0. k \in Nat /\ k + 1 \in Nat /\ k + 1 \in 0 .. n /\ k + 1 \in 1 .. n
    OBVIOUS
  <2>1. PICK f \in [SUBSET (1 .. k) -> A] : Folding(f, st, base, s, k)
    BY <1>2
  <2> DEFINE g == [d \in SUBSET (1 .. k + 1) |->
                    IF k + 1 \in d THEN st[<<f[d \ {k + 1}], s[k + 1]>>] ELSE f[d]]
  <2>2. ASSUME NEW d \in SUBSET (1 .. k + 1), k + 1 \in d
        PROVE  d # {} /\ Top(d) = k + 1 /\ d \ {k + 1} \in SUBSET (1 .. k)
    <3>1. Top(d) = k + 1
      BY <2>0, <2>2, TopIs
    <3>2. d # {} /\ d \ {k + 1} \in SUBSET (1 .. k)
      BY <2>2
    <3> QED
      BY <3>1, <3>2
  <2>3. ASSUME NEW d \in SUBSET (1 .. k + 1), k + 1 \notin d
        PROVE  d \in SUBSET (1 .. k)
    BY <2>3
  <2>4. ASSUME NEW d \in SUBSET (1 .. k)
        PROVE  d \in SUBSET (1 .. k + 1) /\ k + 1 \notin d /\ g[d] = f[d]
    BY <2>4
  <2>5. ASSUME NEW d \in SUBSET (1 .. k + 1)
        PROVE  g[d] = IF d = {} THEN base ELSE st[<<g[d \ {Top(d)}], s[Top(d)]>>]
    <3>1. CASE k + 1 \in d
      <4>1. g[d] = st[<<f[d \ {k + 1}], s[k + 1]>>]
        BY <3>1
      <4>2. g[d \ {k + 1}] = f[d \ {k + 1}]
        BY <2>4, <2>2, <3>1
      <4> HIDE DEF g
      <4> QED
        BY <4>1, <4>2, <2>2, <3>1
    <3>2. CASE k + 1 \notin d
      <4>1. g[d] = f[d] /\ d \in SUBSET (1 .. k)
        BY <2>3, <3>2
      <4>2. f[d] = IF d = {} THEN base ELSE st[<<f[d \ {Top(d)}], s[Top(d)]>>]
        BY <4>1, <2>1 DEF Folding
      <4>3. d \ {Top(d)} \in SUBSET (1 .. k)
        BY <4>1
      <4>4. g[d \ {Top(d)}] = f[d \ {Top(d)}]
        BY <4>3, <2>4
      <4> HIDE DEF g
      <4> QED
        BY <4>1, <4>2, <4>4
    <3> QED
      BY <3>1, <3>2
  <2>6. g \in [SUBSET (1 .. k + 1) -> A]
    <3>1. ASSUME NEW d \in SUBSET (1 .. k + 1)
          PROVE  (IF k + 1 \in d THEN st[<<f[d \ {k + 1}], s[k + 1]>>] ELSE f[d]) \in A
      <4>1. CASE k + 1 \in d
        <5>1. f[d \ {k + 1}] \in A
          BY <2>0, <2>2, <4>1
        <5> QED
          BY <2>0, <4>1, <5>1
      <4>2. CASE k + 1 \notin d
        BY <2>3, <4>2
      <4> QED
        BY <4>1, <4>2
    <3> QED
      BY <3>1
  <2> HIDE DEF g
  <2>7. Folding(g, st, base, s, k + 1)
    BY <2>5 DEF Folding
  <2> QED
    BY <2>0, <2>6, <2>7
<1> HIDE DEF T
<1>3. n \in T
  BY <1>1, <1>2, Induction
<1> QED
  BY <1>3 DEF T, HasFold

-----------------------------------------------------------------------------
\* What is kept of s, place by place.
KeptAlong(g, s, good, n) ==
  /\ g[0] = <<>>
  /\ \A k \in 0 .. n - 1 :
       g[k + 1] = IF s[k + 1] \in good THEN Append(g[k], s[k + 1]) ELSE g[k]
  /\ Address!Kept(s, good) = g[n]
  /\ Hints!Kept(s, good) = g[n]
  /\ Server!Kept(s, good) = g[n]
  /\ Scan!Kept(s, good) = g[n]

\* Kept, a fold, goes through s place by place.
LEMMA KeptByPlaces ==
  ASSUME NEW T, NEW s \in Seq(T), NEW good
  PROVE  \E g : KeptAlong(g, s, good, Len(s))
<1> DEFINE n == Len(s)
           st == [p \in Seq(T) \X T |-> IF p[2] \in good THEN Append(p[1], p[2]) ELSE p[1]]
           f == CHOOSE f : f = [d \in SUBSET (1 .. n) |->
                  IF d = {} THEN <<>>
                  ELSE IF s[Top(d)] \in good THEN Append(f[d \ {Top(d)}], s[Top(d)])
                       ELSE f[d \ {Top(d)}]]
           g == [k \in 0 .. n |-> f[1 .. k]]
<1>0. n \in Nat /\ DOMAIN s = 1 .. n /\ \A i \in 1 .. n : s[i] \in T
  OBVIOUS
<1>1. f = [d \in SUBSET (1 .. n) |->
            IF d = {} THEN <<>>
            ELSE IF s[Top(d)] \in good THEN Append(f[d \ {Top(d)}], s[Top(d)])
                 ELSE f[d \ {Top(d)}]]
  <2>1. <<>> \in Seq(T) /\ \A a \in Seq(T), i \in 1 .. n : st[<<a, s[i]>>] \in Seq(T)
    BY <1>0
  <2>2. \A a \in Seq(T), i \in 1 .. n :
          st[<<a, s[i]>>] = IF s[i] \in good THEN Append(a, s[i]) ELSE a
    BY <1>0
  <2> HIDE DEF st, n
  <2>3. PICK e \in [SUBSET (1 .. n) -> Seq(T)] : Folding(e, st, <<>>, s, n)
    BY <1>0, <2>1, FoldExists DEF HasFold
  <2>4. ASSUME NEW d \in SUBSET (1 .. n), d # {}
        PROVE  st[<<e[d \ {Top(d)}], s[Top(d)]>>]
                 = IF s[Top(d)] \in good THEN Append(e[d \ {Top(d)}], s[Top(d)])
                   ELSE e[d \ {Top(d)}]
    <3>1. Top(d) \in 1 .. n
      BY <1>0, <2>4, TopThere
    <3>2. e[d \ {Top(d)}] \in Seq(T)
      OBVIOUS
    <3> QED
      BY <2>2, <3>1, <3>2
  <2>5. e = [d \in SUBSET (1 .. n) |->
              IF d = {} THEN <<>>
              ELSE IF s[Top(d)] \in good THEN Append(e[d \ {Top(d)}], s[Top(d)])
                   ELSE e[d \ {Top(d)}]]
    BY <2>3, <2>4 DEF Folding
  <2> HIDE DEF f
  <2>6. \E h : h = [d \in SUBSET (1 .. n) |->
                   IF d = {} THEN <<>>
                   ELSE IF s[Top(d)] \in good THEN Append(h[d \ {Top(d)}], s[Top(d)])
                        ELSE h[d \ {Top(d)}]]
    BY <2>5
  <2> QED
    BY <2>6, Zenon DEF f
<1>2. /\ Address!Kept(s, good) = f[1 .. n]
      /\ Hints!Kept(s, good) = f[1 .. n]
      /\ Server!Kept(s, good) = f[1 .. n]
      /\ Scan!Kept(s, good) = f[1 .. n]
  <2>1. Address!Kept(s, good) = f[1 .. n]
    BY <1>0 DEF Address!Kept, Address!FoldLeft, Address!MapThenFoldSet, Address!Max, Top
  <2>2. Hints!Kept(s, good) = f[1 .. n]
    BY <1>0 DEF Hints!Kept, Hints!FoldLeft, Hints!MapThenFoldSet, Hints!Max, Top
  <2>3. Server!Kept(s, good) = f[1 .. n]
    BY <1>0 DEF Server!Kept, Server!FoldLeft, Server!MapThenFoldSet, Server!Max, Top
  <2>4. Scan!Kept(s, good) = f[1 .. n]
    BY <1>0 DEF Scan!Kept, Scan!FoldLeft, Scan!MapThenFoldSet, Scan!Max, Top
  <2> QED
    BY <2>1, <2>2, <2>3, <2>4
<1> HIDE DEF f, n
<1>3. g[0] = <<>>
  <2>1. 1 .. 0 = {} /\ {} \in SUBSET (1 .. n) /\ 0 \in 0 .. n
    BY <1>0
  <2> QED
    BY <2>1, <1>1
<1>4. ASSUME NEW k \in 0 .. n - 1
      PROVE  g[k + 1] = IF s[k + 1] \in good THEN Append(g[k], s[k + 1]) ELSE g[k]
  <2>1. g[k] = f[1 .. k] /\ g[k + 1] = f[1 .. k + 1]
    BY <1>0
  <2>2. /\ 1 .. k + 1 \in SUBSET (1 .. n) /\ 1 .. k + 1 # {}
        /\ Top(1 .. k + 1) = k + 1 /\ (1 .. k + 1) \ {k + 1} = 1 .. k
    BY <1>0, Prefixes
  <2> DEFINE r == 1 .. k + 1
  <2> HIDE DEF g, r
  <2>3. f[r] = IF s[Top(r)] \in good THEN Append(f[r \ {Top(r)}], s[Top(r)]) ELSE f[r \ {Top(r)}]
    BY <1>1, <2>2 DEF r
  <2> QED
    BY <2>1, <2>2, <2>3 DEF r
<1>5. g[n] = f[1 .. n]
  BY <1>0
<1> HIDE DEF g
<1> QED
  BY <1>2, <1>3, <1>4, <1>5 DEF KeptAlong, n

\* What is kept is the same in each of the four modules.
LEMMA KeptSame ==
  ASSUME NEW T, NEW s \in Seq(T), NEW good
  PROVE  /\ Hints!Kept(s, good) = Address!Kept(s, good)
         /\ Scan!Kept(s, good) = Address!Kept(s, good)
         /\ Server!Kept(s, good) = Address!Kept(s, good)
<1>1. PICK g : KeptAlong(g, s, good, Len(s))
  BY KeptByPlaces
<1> QED
  BY <1>1 DEF KeptAlong

\* What is kept is good and was there, in the same order.
LEMMA KeptIsSome ==
  ASSUME NEW T, NEW s \in Seq(T), NEW good
  PROVE  /\ Address!Kept(s, good) \in Seq(T \cap good)
         /\ \A i, j \in DOMAIN Address!Kept(s, good) : i < j =>
              \E v, w \in DOMAIN s : v < w /\ Address!Kept(s, good)[i] = s[v]
                                          /\ Address!Kept(s, good)[j] = s[w]
<1> DEFINE n == Len(s)
<1>0. DOMAIN s = 1 .. n /\ n \in Nat /\ \A i \in 1 .. n : s[i] \in T
  OBVIOUS
<1> HIDE DEF n
<1>a. PICK g : KeptAlong(g, s, good, n)
  BY <1>0, KeptByPlaces
<1>1. /\ g[0] = <<>>
      /\ \A k \in 0 .. n - 1 :
           g[k + 1] = IF s[k + 1] \in good THEN Append(g[k], s[k + 1]) ELSE g[k]
      /\ Address!Kept(s, good) = g[n]
  BY <1>a DEF KeptAlong
<1> DEFINE Was(t, k) == \A i \in 1 .. Len(t) : \E v \in 1 .. k : t[i] = s[v]
           InOrder(t, k) == \A i, j \in 1 .. Len(t) : i < j =>
                              \E v, w \in 1 .. k : v < w /\ t[i] = s[v] /\ t[j] = s[w]
           Ok(t, k) == t \in Seq(T \cap good) /\ Was(t, k) /\ InOrder(t, k)
           P == {k \in 0 .. n : Ok(g[k], k)}
<1>2. 0 \in P
  <2>1. Ok(<<>>, 0)
    OBVIOUS
  <2> HIDE DEF Ok
  <2> QED
    BY <1>0, <1>1, <2>1
<1>3. ASSUME NEW k \in 0 .. n - 1, k \in P PROVE k + 1 \in P
  <2>0. k \in Nat /\ k + 1 \in 0 .. n /\ k + 1 \in 1 .. n
    BY <1>0
  <2> DEFINE t == g[k]
             u == Append(t, s[k + 1])
  <2>1. Ok(t, k)
    BY <1>3
  <2> HIDE DEF t
  <2>2. \A v \in 1 .. k : v \in 1 .. k + 1 /\ v < k + 1
    OBVIOUS
  <2>3. CASE s[k + 1] \notin good
    <3>1. g[k + 1] = t
      BY <1>1, <2>3 DEF t
    <3>2. Ok(t, k + 1)
      BY <2>1, <2>2
    <3> HIDE DEF Ok
    <3> QED
      BY <2>0, <3>1, <3>2
  <2>4. CASE s[k + 1] \in good
    <3>1. g[k + 1] = u
      BY <1>1, <2>4 DEF t
    <3>2. s[k + 1] \in T \cap good
      BY <1>0, <2>4
    <3>3. t \in Seq(T \cap good) /\ Len(t) \in Nat
      BY <2>1
    <3>4. u \in Seq(T \cap good) /\ Len(u) = Len(t) + 1 /\ u[Len(t) + 1] = s[k + 1]
          /\ \A i \in 1 .. Len(t) : u[i] = t[i]
      BY <3>2, <3>3
    <3>5. Was(t, k) /\ InOrder(t, k)
      BY <2>1
    <3> HIDE DEF u, Ok
    <3>6. k + 1 \in 1 .. k + 1
      OBVIOUS
    <3>7. \A i \in 1 .. Len(u) : i \in 1 .. Len(t) \/ i = Len(t) + 1
      BY <3>4
    <3>8. Was(u, k + 1)
      BY <3>4, <3>5, SMTT(30)
    <3>9. ASSUME NEW i \in 1 .. Len(u), NEW j \in 1 .. Len(u), i < j
          PROVE  \E v, w \in 1 .. k + 1 : v < w /\ u[i] = s[v] /\ u[j] = s[w]
      <4>1. i \in 1 .. Len(t)
        BY <3>4, <3>9
      <4>2. CASE j \in 1 .. Len(t)
        <5>1. PICK v \in 1 .. k, w \in 1 .. k : v < w /\ t[i] = s[v] /\ t[j] = s[w]
          BY <3>5, <3>9, <4>1, <4>2
        <5> QED
          BY <3>4, <4>1, <4>2, <5>1
      <4>3. CASE j = Len(t) + 1
        <5>1. PICK v \in 1 .. k : t[i] = s[v]
          BY <3>5, <4>1
        <5> QED
          BY <3>4, <4>1, <4>3, <5>1
      <4> QED
        BY <3>7, <4>2, <4>3
    <3>10. InOrder(u, k + 1)
      BY <3>9
    <3> HIDE DEF Was, InOrder
    <3>11. Ok(u, k + 1)
      BY <3>4, <3>8, <3>10 DEF Ok
    <3> QED
      BY <2>0, <3>1, <3>11
  <2> QED
    BY <2>3, <2>4
<1> HIDE DEF P
<1>4. n \in P
  BY <1>0, <1>2, <1>3, Induction
<1>5. Ok(g[n], n)
  BY <1>4 DEF P
<1>6. Ok(Address!Kept(s, good), n)
  <2> HIDE DEF Ok
  <2> QED
    BY <1>1, <1>5
<1> DEFINE kept == Address!Kept(s, good)
<1> HIDE DEF kept
<1>7. kept \in Seq(T \cap good) /\ InOrder(kept, n) /\ DOMAIN kept = 1 .. Len(kept)
  BY <1>6 DEF kept
<1>8. /\ kept \in Seq(T \cap good)
      /\ \A i, j \in DOMAIN kept : i < j =>
           \E v, w \in DOMAIN s : v < w /\ kept[i] = s[v] /\ kept[j] = s[w]
  BY <1>0, <1>7
<1> QED
  BY <1>8 DEF kept

\* What is good all through is kept.
LEMMA KeptIsAll ==
  ASSUME NEW T, NEW s \in Seq(T), NEW good, \A i \in DOMAIN s : s[i] \in good
  PROVE  Address!Kept(s, good) = s
<1> DEFINE n == Len(s)
<1>0. DOMAIN s = 1 .. n /\ n \in Nat
  OBVIOUS
<1>5. SubSeq(s, 1, n) = s /\ SubSeq(s, 1, 0) = <<>>
  OBVIOUS
<1>6. \A k \in 0 .. n - 1 : Append(SubSeq(s, 1, k), s[k + 1]) = SubSeq(s, 1, k + 1)
  OBVIOUS
<1> HIDE DEF n
<1>a. PICK g : KeptAlong(g, s, good, n)
  BY <1>0, KeptByPlaces
<1>1. /\ g[0] = <<>>
      /\ \A k \in 0 .. n - 1 :
           g[k + 1] = IF s[k + 1] \in good THEN Append(g[k], s[k + 1]) ELSE g[k]
      /\ Address!Kept(s, good) = g[n]
  BY <1>a DEF KeptAlong
<1> DEFINE P == {k \in 0 .. n : g[k] = SubSeq(s, 1, k)}
<1>2. 0 \in P
  <2>1. g[0] = SubSeq(s, 1, 0)
    BY <1>1
  <2>2. 0 \in 0 .. n
    BY <1>0
  <2> QED
    BY <2>1, <2>2, Zenon
<1>3. ASSUME NEW k \in 0 .. n - 1, k \in P PROVE k + 1 \in P
  <2>0. k + 1 \in 0 .. n /\ k + 1 \in DOMAIN s
    BY <1>0
  <2>1. g[k] = SubSeq(s, 1, k) /\ s[k + 1] \in good
    BY <1>3, <2>0
  <2>2. g[k + 1] = Append(SubSeq(s, 1, k), s[k + 1])
    BY <1>1, <2>1
  <2> QED
    BY <2>0, <2>2
<1> HIDE DEF P
<1>4. n \in P
  BY <1>0, <1>2, <1>3, Induction
<1> QED
  BY <1>1, <1>4, <1>5 DEF P

\* What is good is kept.
LEMMA KeptIsEvery ==
  ASSUME NEW T, NEW s \in Seq(T), NEW good
  PROVE  \A v \in DOMAIN s : s[v] \in good =>
           \E i \in DOMAIN Address!Kept(s, good) : Address!Kept(s, good)[i] = s[v]
<1> DEFINE n == Len(s)
<1>0. DOMAIN s = 1 .. n /\ n \in Nat /\ \A i \in 1 .. n : s[i] \in T
  OBVIOUS
<1>a. PICK g : KeptAlong(g, s, good, n)
  BY KeptByPlaces
<1> HIDE DEF n
<1>1. /\ g[0] = <<>>
      /\ \A k \in 0 .. n - 1 :
           g[k + 1] = IF s[k + 1] \in good THEN Append(g[k], s[k + 1]) ELSE g[k]
      /\ Address!Kept(s, good) = g[n]
  BY <1>a DEF KeptAlong
<1> DEFINE Has(t, k) == \A v \in 1 .. k : s[v] \in good => \E i \in 1 .. Len(t) : t[i] = s[v]
           Ok(t, k) == t \in Seq(T) /\ Has(t, k)
           P == {k \in 0 .. n : Ok(g[k], k)}
<1>2. 0 \in P
  <2>1. Ok(<<>>, 0)
    OBVIOUS
  <2> HIDE DEF Ok
  <2> QED
    BY <1>0, <1>1, <2>1
<1>3. ASSUME NEW k \in 0 .. n - 1, k \in P PROVE k + 1 \in P
  <2>0. k \in Nat /\ k + 1 \in 0 .. n /\ k + 1 \in 1 .. n
    BY <1>0
  <2> DEFINE t == g[k]
             u == Append(t, s[k + 1])
  <2>1. t \in Seq(T) /\ Has(t, k) /\ s[k + 1] \in T
    BY <1>0, <1>3
  <2>2. \A v \in 1 .. k + 1 : v \in 1 .. k \/ v = k + 1
    OBVIOUS
  <2>3. g[k + 1] = IF s[k + 1] \in good THEN u ELSE t
    BY <1>1
  <2> HIDE DEF t
  <2>4. /\ u \in Seq(T) /\ Len(u) = Len(t) + 1 /\ u[Len(u)] = s[k + 1] /\ Len(t) \in Nat
        /\ \A i \in 1 .. Len(t) : u[i] = t[i]
    BY <2>1
  <2> HIDE DEF u
  <2>5. CASE s[k + 1] \notin good
    <3>1. Ok(t, k + 1)
      BY <2>1, <2>5
    <3> HIDE DEF Ok
    <3> QED
      BY <2>0, <2>3, <2>5, <3>1
  <2>6. CASE s[k + 1] \in good
    <3>1. \A i \in 1 .. Len(t) : i \in 1 .. Len(u)
      BY <2>4
    <3>2. Len(u) \in 1 .. Len(u)
      BY <2>4
    <3>3. Has(u, k + 1)
      BY <2>1, <2>4, <3>1
    <3>4. Ok(u, k + 1)
      BY <2>4, <3>3
    <3> HIDE DEF Ok
    <3> QED
      BY <2>0, <2>3, <2>6, <3>4
  <2> QED
    BY <2>5, <2>6
<1> HIDE DEF P
<1>4. n \in P
  BY <1>0, <1>2, <1>3, Induction
<1>5. Has(g[n], n) /\ g[n] \in Seq(T)
  BY <1>4 DEF P
<1>6. \A v \in 1 .. n : s[v] \in good => \E i \in DOMAIN g[n] : g[n][i] = s[v]
  <2>1. DOMAIN g[n] = 1 .. Len(g[n])
    OBVIOUS
  <2> QED
    BY <1>5
<1> QED
  BY <1>0, <1>1, <1>6

-----------------------------------------------------------------------------
(* What runs in a session.  CountInv says of each bucket that it counts what was    *)
(* written in its second, and AgentInv what a verdict was based on.                  *)

\* The sums of the first members of s.
Sums(g, s, n) ==
  /\ g \in [0 .. n -> Nat] /\ g[0] = 0
  /\ \A k \in 0 .. n - 1 : g[k + 1] = g[k] + s[k + 1]

\* Total goes through the buckets one by one.
LEMMA TotalByPlaces ==
  ASSUME NEW n \in Nat, NEW s \in [1 .. n -> Nat]
  PROVE  \E g : Sums(g, s, n) /\ Agent!Total(s) = g[n]
<1> DEFINE st == [p \in Nat \X Nat |-> p[1] + p[2]]
           f == CHOOSE f : f = [d \in SUBSET (1 .. n) |->
                  IF d = {} THEN 0 ELSE f[d \ {Top(d)}] + s[Top(d)]]
           g == [k \in 0 .. n |-> f[1 .. k]]
<1>1. f = [d \in SUBSET (1 .. n) |-> IF d = {} THEN 0 ELSE f[d \ {Top(d)}] + s[Top(d)]]
  <2>1. 0 \in Nat /\ \A a \in Nat, i \in 1 .. n : st[<<a, s[i]>>] \in Nat
    OBVIOUS
  <2> HIDE DEF st
  <2>2. PICK e \in [SUBSET (1 .. n) -> Nat] : Folding(e, st, 0, s, n)
    BY <2>1, FoldExists DEF HasFold
  <2>3. ASSUME NEW d \in SUBSET (1 .. n), d # {}
        PROVE  st[<<e[d \ {Top(d)}], s[Top(d)]>>] = e[d \ {Top(d)}] + s[Top(d)]
    <3>1. Top(d) \in 1 .. n
      BY <2>3, TopThere
    <3>2. e[d \ {Top(d)}] \in Nat /\ s[Top(d)] \in Nat
      BY <3>1
    <3> QED
      BY <3>2 DEF st
  <2>4. e = [d \in SUBSET (1 .. n) |-> IF d = {} THEN 0 ELSE e[d \ {Top(d)}] + s[Top(d)]]
    BY <2>2, <2>3 DEF Folding
  <2> HIDE DEF f
  <2>5. \E h : h = [d \in SUBSET (1 .. n) |-> IF d = {} THEN 0 ELSE h[d \ {Top(d)}] + s[Top(d)]]
    BY <2>4
  <2> QED
    BY <2>5, Zenon DEF f
<1>2. Agent!Total(s) = f[1 .. n]
  BY DEF Agent!Total, Agent!FoldLeft, Agent!MapThenFoldSet, Agent!Max, Top
<1> HIDE DEF f
<1>3. g[0] = 0
  <2>1. 1 .. 0 = {} /\ {} \in SUBSET (1 .. n) /\ 0 \in 0 .. n
    OBVIOUS
  <2> QED
    BY <1>1
<1>4. ASSUME NEW k \in 0 .. n - 1 PROVE g[k + 1] = g[k] + s[k + 1]
  <2>1. g[k] = f[1 .. k] /\ g[k + 1] = f[1 .. k + 1]
    OBVIOUS
  <2>2. /\ 1 .. k + 1 \in SUBSET (1 .. n) /\ 1 .. k + 1 # {}
        /\ Top(1 .. k + 1) = k + 1 /\ (1 .. k + 1) \ {k + 1} = 1 .. k
    BY Prefixes
  <2> DEFINE r == 1 .. k + 1
  <2> HIDE DEF g, r
  <2>3. f[r] = f[r \ {Top(r)}] + s[Top(r)]
    BY <1>1, <2>2 DEF r
  <2> QED
    BY <2>1, <2>2, <2>3 DEF r
<1> HIDE DEF g
<1>5. ASSUME NEW m \in 0 .. n PROVE g[m] \in Nat
  <2> DEFINE P == {k \in 0 .. m : g[k] \in Nat}
  <2>1. 0 \in P
    BY <1>3
  <2>2. ASSUME NEW k \in 0 .. m - 1, k \in P PROVE k + 1 \in P
    <3>1. k \in 0 .. n - 1 /\ k + 1 \in 0 .. m /\ k + 1 \in 1 .. n
      OBVIOUS
    <3> QED
      BY <1>4, <2>2
  <2> HIDE DEF P
  <2>3. m \in P
    BY <2>1, <2>2, Induction
  <2> QED
    BY <2>3 DEF P
<1>6. g = [k \in 0 .. n |-> g[k]] /\ g[n] = f[1 .. n]
  BY DEF g
<1>7. g \in [0 .. n -> Nat]
  BY <1>5, <1>6
<1> QED
  BY <1>2, <1>3, <1>4, <1>6, <1>7 DEF Sums

\* Buckets with nothing add to nothing.
LEMMA TotalOfZeros ==
  ASSUME NEW n \in Nat, NEW s \in [1 .. n -> Nat], \A i \in 1 .. n : s[i] = 0
  PROVE  Agent!Total(s) = 0
<1>1. PICK g : Sums(g, s, n) /\ Agent!Total(s) = g[n]
  BY TotalByPlaces
<1> DEFINE T == {k \in 0 .. n : g[k] = 0}
<1>2. 0 \in T
  BY <1>1 DEF Sums
<1>3. ASSUME NEW k \in 0 .. n - 1, k \in T PROVE k + 1 \in T
  <2>1. k + 1 \in 0 .. n /\ k + 1 \in 1 .. n
    OBVIOUS
  <2> QED
    BY <1>1, <1>3 DEF Sums
<1> HIDE DEF T
<1>4. n \in T
  BY <1>2, <1>3, Induction
<1> QED
  BY <1>1, <1>4 DEF T

\* One member more, of at most c.
LEMMA TotalOfOneMore ==
  ASSUME NEW n \in Nat, NEW s \in [1 .. n -> Nat], NEW t \in [1 .. n -> Nat],
         NEW i \in 1 .. n, NEW c \in Nat,
         s[i] <= t[i] + c, \A j \in 1 .. n : j # i => s[j] = t[j]
  PROVE  Agent!Total(s) <= Agent!Total(t) + c
<1>1. PICK g : Sums(g, s, n) /\ Agent!Total(s) = g[n]
  BY TotalByPlaces
<1>2. PICK h : Sums(h, t, n) /\ Agent!Total(t) = h[n]
  BY TotalByPlaces
<1> DEFINE T == {k \in 0 .. n : g[k] <= h[k] + c /\ (k < i => g[k] <= h[k])}
<1>3. 0 \in T
  BY <1>1, <1>2 DEF Sums
<1>4. ASSUME NEW k \in 0 .. n - 1, k \in T PROVE k + 1 \in T
  <2>1. k \in 0 .. n /\ k + 1 \in 0 .. n /\ k + 1 \in 1 .. n
    OBVIOUS
  <2>2. g[k + 1] = g[k] + s[k + 1] /\ h[k + 1] = h[k] + t[k + 1]
        /\ g[k] \in Nat /\ h[k] \in Nat
    BY <1>1, <1>2 DEF Sums
  <2>3. s[k + 1] \in Nat /\ t[k + 1] \in Nat /\ g[k] <= h[k] + c /\ (k < i => g[k] <= h[k])
    BY <1>4
  <2>4. k + 1 # i => s[k + 1] = t[k + 1]
    OBVIOUS
  <2>5. g[k + 1] <= h[k + 1] + c /\ (k + 1 < i => g[k + 1] <= h[k + 1])
    <3> DEFINE a == g[k] b == h[k] d == s[k + 1] e == t[k + 1] v == g[k + 1] w == h[k + 1]
    <3>0. v = a + d /\ w = b + e /\ a \in Nat /\ b \in Nat /\ d \in Nat /\ e \in Nat
          /\ a <= b + c /\ (k < i => a <= b)
      BY <2>2, <2>3
    <3>1. (k + 1 = i => d <= e + c) /\ (k + 1 # i => d = e)
      OBVIOUS
    <3>2. k \in Int /\ i \in Int
      OBVIOUS
    <3> HIDE DEF a, b, d, e, v, w
    <3>3. v <= w + c /\ (k + 1 < i => v <= w)
      BY <3>0, <3>1
    <3> QED
      BY <3>3 DEF v, w
  <2> QED
    BY <2>5
<1> HIDE DEF T
<1>5. n \in T
  BY <1>3, <1>4, Induction
<1> QED
  BY <1>1, <1>2, <1>5 DEF T

-----------------------------------------------------------------------------
\* What was counted of the last seconds was written in them: there is a bucket a second
\* at most.
CountInv ==
  /\ x1 \in 0 .. MaxTime
  /\ x2 \in [1 .. Buckets -> [sec : (0 - Buckets) .. MaxTime, n : Nat]]
  /\ x4 \in [0 .. MaxTime -> Nat]
  /\ \A i \in 1 .. Buckets :
       /\ x2[i].sec <= x1
       /\ x2[i].sec >= 0 => x2[i].n <= x4[x2[i].sec]
       /\ x2[i].sec < 0 => x2[i].n = 0
  /\ \A i, j \in 1 .. Buckets : x2[i].sec = x2[j].sec /\ x2[i].sec >= 0 => i = j

\* What the buckets of a window count was written, none of it twice.
LEMMA CountedIsWritten ==
  ASSUME CountInv, NEW at \in 0 .. MaxTime
  PROVE  /\ Agent!OutBytes(at) \in Nat /\ Agent!Written(at) \in Nat
         /\ Agent!OutBytes(at) <= Agent!Written(at)
<1> DEFINE m == MaxTime + 1
           floor == at - Window + 1
           w == [i \in 1 .. m |-> IF i - 1 > at - Window /\ i - 1 <= x1 THEN x4[i - 1] ELSE 0]
           b(j) == [i \in 1 .. Buckets |->
                     IF x2[i].sec >= floor /\ x2[i].sec < j THEN x2[i].n ELSE 0]
<1>0. /\ m \in Nat /\ Buckets \in Nat /\ Window \in Nat /\ MaxTime \in Nat /\ x1 \in 0 .. MaxTime
      /\ floor \in Int
  BY AgentConstants DEF CountInv
<1>1. \A i \in 1 .. Buckets : x2[i].sec \in Int /\ x2[i].n \in Nat /\ x2[i].sec <= MaxTime
  BY DEF CountInv
<1>2. w \in [1 .. m -> Nat]
  <2>1. \A i \in 1 .. m : i - 1 \in 0 .. MaxTime
    BY <1>0
  <2> QED
    BY <2>1 DEF CountInv
<1>3. \A j \in 0 .. m : b(j) \in [1 .. Buckets -> Nat]
  BY <1>1
<1>4. Agent!Written(at) = Agent!Total(w)
  BY DEF Agent!Written, Agent!WrittenTo
<1>5. Agent!OutBytes(at) = Agent!Total(b(m))
  <2>1. b(m) = [i \in 1 .. Buckets |-> IF x2[i].sec >= at - Window + 1 THEN x2[i].n ELSE 0]
    BY <1>0, <1>1
  <2> HIDE DEF b
  <2> QED
    BY <2>1 DEF Agent!OutBytes
<1>6. PICK g : Sums(g, w, m) /\ Agent!Total(w) = g[m]
  <2> HIDE DEF w, m
  <2> QED
    BY <1>0, <1>2, TotalByPlaces
<1> HIDE DEF w, b, floor, m
<1> DEFINE T == {j \in 0 .. m : Agent!Total(b(j)) \in Nat /\ Agent!Total(b(j)) <= g[j]}
<1>7. ASSUME NEW j \in 0 .. m PROVE Agent!Total(b(j)) \in Nat
  <2>1. PICK h : Sums(h, b(j), Buckets) /\ Agent!Total(b(j)) = h[Buckets]
    BY <1>0, <1>3, TotalByPlaces
  <2> QED
    BY <1>0, <2>1 DEF Sums
<1>8. 0 \in T
  <2>1. \A i \in 1 .. Buckets : b(0)[i] = 0
    BY DEF b, CountInv
  <2>2. 0 \in 0 .. m /\ b(0) \in [1 .. Buckets -> Nat]
    BY <1>0, <1>3
  <2>3. Agent!Total(b(0)) = 0
    BY <1>0, <2>1, <2>2, TotalOfZeros
  <2> QED
    BY <1>6, <2>2, <2>3 DEF Sums
<1>9. ASSUME NEW j \in 0 .. m - 1, j \in T PROVE j + 1 \in T
  <2>0. /\ j \in 0 .. m /\ j + 1 \in 0 .. m /\ j + 1 \in 1 .. m /\ j \in 0 .. MaxTime /\ j \in Nat
        /\ (j + 1) - 1 = j
    BY <1>0 DEF m
  <2>1. g[j + 1] = g[j] + w[j + 1] /\ g[j] \in Nat /\ w[j + 1] \in Nat
    BY <1>2, <1>6, <2>0 DEF Sums
  <2>2. Agent!Total(b(j)) <= g[j] /\ Agent!Total(b(j)) \in Nat /\ Agent!Total(b(j + 1)) \in Nat
    BY <1>7, <1>9, <2>0
  <2>3. CASE \E i \in 1 .. Buckets : x2[i].sec = j /\ x2[i].sec >= floor
    <3>1. PICK i \in 1 .. Buckets : x2[i].sec = j /\ x2[i].sec >= floor
      BY <2>3
    <3>2. x2[i].n <= x4[j] /\ j <= x1 /\ x4[j] \in Nat
      BY <3>1 DEF CountInv
    <3>3. w[j + 1] = x4[j]
      BY <1>0, <3>1, <3>2 DEF w, floor
    <3>4. b(j)[i] = 0 /\ b(j + 1)[i] = x2[i].n
      BY <3>1 DEF b
    <3>5. \A k \in 1 .. Buckets : k # i => b(j + 1)[k] = b(j)[k]
      <4>1. ASSUME NEW k \in 1 .. Buckets, k # i PROVE b(j + 1)[k] = b(j)[k]
        <5>1. x2[k].sec # j
          BY <3>1, <4>1 DEF CountInv
        <5>2. x2[k].sec < j + 1 <=> x2[k].sec < j
          BY <1>1, <5>1
        <5> QED
          BY <5>2 DEF b
      <4> QED
        BY <4>1
    <3>6. b(j + 1) \in [1 .. Buckets -> Nat] /\ b(j) \in [1 .. Buckets -> Nat]
      BY <1>3, <2>0
    <3>7. b(j + 1)[i] <= b(j)[i] + w[j + 1]
      BY <3>2, <3>3, <3>4
    <3>8. Agent!Total(b(j + 1)) <= Agent!Total(b(j)) + w[j + 1]
      BY <1>0, <2>1, <3>5, <3>6, <3>7, TotalOfOneMore
    <3> QED
      BY <2>0, <2>1, <2>2, <3>8
  <2>4. CASE ~ \E i \in 1 .. Buckets : x2[i].sec = j /\ x2[i].sec >= floor
    <3>1. b(j + 1) = b(j)
      <4>1. \A i \in 1 .. Buckets : (x2[i].sec >= floor /\ x2[i].sec < j + 1)
                                      <=> (x2[i].sec >= floor /\ x2[i].sec < j)
        BY <1>1, <2>4
      <4> QED
        BY <4>1 DEF b
    <3> QED
      BY <2>0, <2>1, <2>2, <3>1
  <2> QED
    BY <2>3, <2>4
<1> HIDE DEF T
<1>10. m \in T
  BY <1>0, <1>8, <1>9, Induction
<1>11. g[m] \in Nat
  BY <1>0, <1>6 DEF Sums
<1> QED
  BY <1>4, <1>5, <1>6, <1>10, <1>11 DEF T

-----------------------------------------------------------------------------
\* Output is counted in a bucket of its second.
LEMMA CountedOne ==
  ASSUME CountInv
  PROVE  \E i \in 1 .. Buckets, n \in Nat :
           /\ Agent!Counted(1) = [x2 EXCEPT ![i] = [sec |-> x1, n |-> n + 1]]
           /\ n <= x4[x1]
           /\ \A j \in 1 .. Buckets : j # i => x2[j].sec # x1
<1> DEFINE mine == {i \in 1 .. Buckets : x2[i].sec = x1}
           First(i) == \A j \in 1 .. Buckets :
                         x2[i].sec < x2[j].sec \/ (x2[i].sec = x2[j].sec /\ i <= j)
           oldest == CHOOSE i \in 1 .. Buckets : First(i)
<1>0. /\ Buckets \in Nat \ {0} /\ x1 \in Nat /\ x1 \in 0 .. MaxTime /\ x4[x1] \in Nat
      /\ x2 \in [1 .. Buckets -> [sec : (0 - Buckets) .. MaxTime, n : Nat]]
  BY AgentConstants DEF CountInv
<1>1. \A i \in 1 .. Buckets : /\ x2[i] = [sec |-> x2[i].sec, n |-> x2[i].n]
                              /\ x2[i].n \in Nat /\ x2[i].sec \in Int
                              /\ x2[i].sec + Buckets \in Nat
  <2>1. \A i \in 1 .. Buckets : x2[i] \in [sec : (0 - Buckets) .. MaxTime, n : Nat]
    BY <1>0
  <2>2. MaxTime \in Nat
    BY AgentConstants
  <2> QED
    BY <1>0
<1>2. CASE mine # {}
  <2> DEFINE i == Agent!Min(mine)
  <2>1. Agent!Counted(1) = [x2 EXCEPT ![i].n = x2[i].n + 1]
    BY <1>2 DEF Agent!Counted
  <2>2. i \in mine
    <3>1. mine \subseteq Nat
      OBVIOUS
    <3> HIDE DEF mine
    <3>2. \E x \in mine : \A y \in mine : x <= y
      <4>1. \E x \in mine : \A y \in mine : ~ (y < x)
        BY <1>2, <3>1, NatMin
      <4> QED
        BY <3>1, <4>1
    <3> QED
      BY <3>2 DEF Agent!Min
  <2> HIDE DEF i
  <2>3. i \in 1 .. Buckets /\ x2[i].sec = x1
    BY <2>2
  <2>4. [x2[i] EXCEPT !.n = x2[i].n + 1] = [sec |-> x1, n |-> x2[i].n + 1]
    <3> DEFINE a == x2[i]
    <3>1. a = [sec |-> x1, n |-> a.n]
      BY <1>1, <2>3
    <3> HIDE DEF a
    <3> QED
      BY <3>1 DEF a
  <2>5. Agent!Counted(1) = [x2 EXCEPT ![i] = [sec |-> x1, n |-> x2[i].n + 1]]
    BY <2>1, <2>4
  <2>6. x2[i].n \in Nat /\ x2[i].n <= x4[x1]
    BY <1>0, <1>1, <2>3, SMTT(30) DEF CountInv
  <2>7. \A j \in 1 .. Buckets : j # i => x2[j].sec # x1
    BY <2>3 DEF CountInv
  <2> QED
    BY <2>3, <2>5, <2>6, <2>7
<1>3. CASE mine = {}
  <2>1. Agent!Counted(1) = [x2 EXCEPT ![oldest] = [sec |-> x1, n |-> 1]]
    BY <1>3 DEF Agent!Counted
  <2>2. \E i \in 1 .. Buckets : First(i)
    <3> DEFINE T == {x2[i].sec + Buckets : i \in 1 .. Buckets}
    <3>1. T \subseteq Nat /\ T # {}
      <4>1. 1 \in 1 .. Buckets
        BY <1>0
      <4> QED
        BY <1>1, <4>1
    <3>2. PICK x \in T : \A y \in T : ~ (y < x)
      <4> HIDE DEF T
      <4> QED
        BY <3>1, NatMin
    <3> DEFINE I == {i \in 1 .. Buckets : x2[i].sec + Buckets = x}
    <3>3. I \subseteq Nat /\ I # {}
      OBVIOUS
    <3>4. PICK i \in I : \A j \in I : ~ (j < i)
      <4> HIDE DEF I
      <4> QED
        BY <3>3, NatMin
    <3>5. ASSUME NEW j \in 1 .. Buckets
          PROVE  x2[i].sec < x2[j].sec \/ (x2[i].sec = x2[j].sec /\ i <= j)
      <4>1. x2[j].sec + Buckets \in T
        OBVIOUS
      <4>2. ~ (x2[j].sec + Buckets < x2[i].sec + Buckets)
        BY <3>2
      <4>3. x2[j].sec = x2[i].sec => ~ (j < i)
        BY <3>4
      <4>4. /\ x2[i].sec \in Int /\ x2[j].sec \in Int /\ i \in Int /\ j \in Int
            /\ Buckets \in Int
        BY <1>0, <1>1, SMTT(30)
      <4> QED
        BY <4>2, <4>3, <4>4
    <3> QED
      BY <3>5
  <2> HIDE DEF First
  <2>3. oldest \in 1 .. Buckets
    BY <2>2
  <2> HIDE DEF oldest
  <2>4. \A j \in 1 .. Buckets : j # oldest => x2[j].sec # x1
    BY <1>3
  <2>5. 0 \in Nat /\ 0 <= x4[x1] /\ 0 + 1 = 1
    BY <1>0
  <2> QED
    BY <2>1, <2>3, <2>4, <2>5
<1> QED
  BY <1>2, <1>3

\* At first nothing is counted.
LEMMA CountInit ==
  ASSUME Agent!Init PROVE CountInv
<1>1. Buckets \in Nat \ {0} /\ MaxTime \in Nat
  BY AgentConstants
<1> QED
  BY <1>1 DEF Agent!Init, CountInv

\* Output that is written is counted.
LEMMA CountWrites ==
  ASSUME CountInv, Agent!Writes PROVE CountInv'
<1>1. PICK i \in 1 .. Buckets, n \in Nat :
           /\ Agent!Counted(1) = [x2 EXCEPT ![i] = [sec |-> x1, n |-> n + 1]]
           /\ n <= x4[x1]
           /\ \A j \in 1 .. Buckets : j # i => x2[j].sec # x1
  BY CountedOne
<1>2. /\ x2' = [x2 EXCEPT ![i] = [sec |-> x1, n |-> n + 1]]
      /\ x4' = [x4 EXCEPT ![x1] = x4[x1] + 1] /\ x1' = x1
  BY <1>1 DEF Agent!Writes
<1>3. /\ x1 \in 0 .. MaxTime /\ x4 \in [0 .. MaxTime -> Nat]
      /\ x2 \in [1 .. Buckets -> [sec : (0 - Buckets) .. MaxTime, n : Nat]]
      /\ Buckets \in Nat /\ MaxTime \in Nat
  BY AgentConstants DEF CountInv
<1> DEFINE r == [sec |-> x1, n |-> n + 1]
<1>4. r \in [sec : (0 - Buckets) .. MaxTime, n : Nat] /\ r.sec = x1 /\ r.n = n + 1
  BY <1>3
<1> HIDE DEF r
<1>5. x2'[i] = r /\ (\A j \in 1 .. Buckets : j # i => x2'[j] = x2[j])
      /\ x2' \in [1 .. Buckets -> [sec : (0 - Buckets) .. MaxTime, n : Nat]]
  BY <1>2, <1>3, <1>4
<1>6. /\ x4' \in [0 .. MaxTime -> Nat] /\ x4'[x1] = x4[x1] + 1
      /\ \A t \in 0 .. MaxTime : t # x1 => x4'[t] = x4[t]
  <2>1. x4[x1] + 1 \in Nat
    BY <1>3
  <2> QED
    BY <1>2, <1>3, <2>1
<1>7. ASSUME NEW j \in 1 .. Buckets
      PROVE  /\ x2'[j].sec <= x1
             /\ x2'[j].sec >= 0 => x2'[j].n <= x4'[x2'[j].sec]
             /\ x2'[j].sec < 0 => x2'[j].n = 0
  <2>1. CASE j = i
    <3>1. x2'[j].sec = x1 /\ x2'[j].n = n + 1 /\ x4'[x1] = x4[x1] + 1 /\ x4[x1] \in Nat
      BY <1>3, <1>4, <1>5, <1>6, <2>1
    <3> QED
      BY <1>1, <1>3, <3>1
  <2>2. CASE j # i
    <3>1. x2'[j] = x2[j] /\ x2[j].sec # x1
      BY <1>1, <1>5, <2>2
    <3>2. x2[j].sec \in (0 - Buckets) .. MaxTime
      BY <1>3
    <3>3. x2[j].sec >= 0 => x4'[x2[j].sec] = x4[x2[j].sec]
      BY <1>3, <1>6, <3>1, <3>2, SMTT(30)
    <3> QED
      BY <3>1, <3>3 DEF CountInv
  <2> QED
    BY <2>1, <2>2
<1>8. ASSUME NEW j \in 1 .. Buckets, NEW k \in 1 .. Buckets,
             x2'[j].sec = x2'[k].sec, x2'[j].sec >= 0
      PROVE  j = k
  <2>1. CASE j # i /\ k # i
    BY <1>5, <1>8, <2>1 DEF CountInv
  <2>2. CASE j = i \/ k = i
    BY <1>1, <1>4, <1>5, <1>8, <2>2
  <2> QED
    BY <2>1, <2>2
<1> QED
  BY <1>2, <1>5, <1>7, <1>8 DEF CountInv

-----------------------------------------------------------------------------
\* The parents of a process, and theirs, as the recursive function of isDescendantOf has
\* them.
Up(f, parent, n) ==
  f = [q \in 0 .. n |-> IF q = 0 THEN {} ELSE {parent[q]} \cup f[parent[q]]]

\* There is such a function.
LEMMA UpExists ==
  ASSUME NEW parent \in Table!Parents
  PROVE  \E f : Up(f, parent, Procs)
<1> DEFINE T == {k \in 0 .. Procs : \E f : Up(f, parent, k)}
<1>0. /\ Procs \in Nat
      /\ \A q \in 1 .. Procs : parent[q] \in 0 .. Procs /\ parent[q] < q
  BY AgentConstants DEF Table!Parents
<1>1. 0 \in T
  <2> DEFINE f == [q \in 0 .. 0 |-> {}]
  <2>1. f = [q \in 0 .. 0 |-> IF q = 0 THEN {} ELSE {parent[q]} \cup f[parent[q]]]
    OBVIOUS
  <2> HIDE DEF f
  <2>2. Up(f, parent, 0)
    BY <2>1 DEF Up
  <2>3. 0 \in 0 .. Procs
    BY <1>0
  <2> QED
    BY <2>2, <2>3
<1>2. ASSUME NEW k \in 0 .. Procs - 1, k \in T PROVE k + 1 \in T
  <2>0. k \in Nat /\ k + 1 \in 0 .. Procs /\ k + 1 \in 1 .. Procs
    BY <1>0
  <2>1. PICK f : Up(f, parent, k)
    BY <1>2
  <2> DEFINE g == [q \in 0 .. k + 1 |->
                    IF q = k + 1 THEN {parent[q]} \cup f[parent[q]] ELSE f[q]]
             h == [q \in 0 .. k + 1 |-> IF q = 0 THEN {} ELSE {parent[q]} \cup g[parent[q]]]
  <2>2. ASSUME NEW q \in 0 .. k + 1
        PROVE  g[q] = IF q = 0 THEN {} ELSE {parent[q]} \cup g[parent[q]]
    <3>1. CASE q = 0
      BY <2>1, <3>1 DEF Up
    <3>2. CASE q \in 1 .. k
      <4>1. parent[q] \in 0 .. k /\ q \in 0 .. k /\ q # k + 1 /\ q # 0
        BY <1>0, <3>2
      <4>2. f[q] = {parent[q]} \cup f[parent[q]]
        BY <2>1, <4>1 DEF Up
      <4>3. g[q] = f[q] /\ g[parent[q]] = f[parent[q]]
        BY <4>1
      <4> HIDE DEF g
      <4> QED
        BY <4>1, <4>2, <4>3
    <3>3. CASE q = k + 1
      <4>1. parent[q] \in 0 .. k /\ q # 0
        BY <1>0, <3>3
      <4>2. g[q] = {parent[q]} \cup f[parent[q]] /\ g[parent[q]] = f[parent[q]]
        BY <3>3, <4>1
      <4> HIDE DEF g
      <4> QED
        BY <4>1, <4>2
    <3> QED
      BY <3>1, <3>2, <3>3
  <2>3. DOMAIN g = 0 .. k + 1 /\ DOMAIN h = 0 .. k + 1
    OBVIOUS
  <2>4. g = h
    BY <2>2
  <2>5. g = [q \in 0 .. k + 1 |-> IF q = 0 THEN {} ELSE {parent[q]} \cup g[parent[q]]]
    BY <2>4
  <2> HIDE DEF g
  <2>6. Up(g, parent, k + 1)
    BY <2>5 DEF Up
  <2> QED
    BY <2>0, <2>6
<1> HIDE DEF T
<1>3. Procs \in T
  BY <1>0, <1>1, <1>2, Induction
<1> QED
  BY <1>3 DEF T

\* The ancestors of a process are its parent and the ancestors of that.
LEMMA AncestorsAre ==
  ASSUME NEW parent \in Table!Parents
  PROVE  /\ Table!Ancestors(0, parent) = {}
         /\ \A q \in 1 .. Procs : Table!Ancestors(q, parent) =
                {parent[q]} \cup Table!Ancestors(parent[q], parent)
<1> DEFINE f == CHOOSE f : f = [q \in 0 .. Procs |->
                  IF q = 0 THEN {} ELSE {parent[q]} \cup f[parent[q]]]
<1>0. /\ Procs \in Nat
      /\ \A q \in 1 .. Procs : parent[q] \in 0 .. Procs /\ parent[q] < q
  BY AgentConstants DEF Table!Parents
<1>1. f = [q \in 0 .. Procs |-> IF q = 0 THEN {} ELSE {parent[q]} \cup f[parent[q]]]
  <2>1. \E e : e = [q \in 0 .. Procs |-> IF q = 0 THEN {} ELSE {parent[q]} \cup e[parent[q]]]
    BY UpExists DEF Up
  <2> QED
    BY <2>1, Zenon
<1>2. \A q : Table!Ancestors(q, parent) = f[q]
  BY DEF Table!Ancestors
<1> HIDE DEF f
<1>3. f[0] = {}
  <2>1. 0 \in 0 .. Procs
    BY <1>0
  <2> QED
    BY <1>1, <2>1
<1>4. ASSUME NEW q \in 1 .. Procs PROVE f[q] = {parent[q]} \cup f[parent[q]]
  <2>1. q \in 0 .. Procs /\ q # 0
    OBVIOUS
  <2> QED
    BY <1>1, <2>1
<1> QED
  BY <1>2, <1>3, <1>4

\* Nobody is above himself, and who is above an ancestor is an ancestor.
LEMMA AncestorsOrder ==
  ASSUME NEW parent \in Table!Parents, NEW p \in 0 .. Procs
  PROVE  \A q \in Table!Ancestors(p, parent) :
           /\ q \in 0 .. p - 1
           /\ Table!Ancestors(q, parent) \subseteq Table!Ancestors(p, parent)
<1> DEFINE above(q) == Table!Ancestors(q, parent)
           T == {k \in 0 .. Procs : \A r \in 0 .. k : \A q \in above(r) :
                                   q \in 0 .. r - 1 /\ above(q) \subseteq above(r)}
<1>0. /\ Procs \in Nat
      /\ \A q \in 1 .. Procs : parent[q] \in 0 .. Procs /\ parent[q] < q
  BY AgentConstants DEF Table!Parents
<1>1. above(0) = {} /\ \A q \in 1 .. Procs : above(q) = {parent[q]} \cup above(parent[q])
  BY AncestorsAre
<1> HIDE DEF above
<1>2. 0 \in T
  <2>1. \A r \in 0 .. 0 : r = 0
    OBVIOUS
  <2>2. 0 \in 0 .. Procs
    BY <1>0
  <2> QED
    BY <1>1, <2>2
<1>3. ASSUME NEW k \in 0 .. Procs - 1, k \in T PROVE k + 1 \in T
  <2>0. k \in Nat /\ k + 1 \in 0 .. Procs /\ k + 1 \in 1 .. Procs
    BY <1>0
  <2>1. \A r \in 0 .. k : \A q \in above(r) : q \in 0 .. r - 1 /\ above(q) \subseteq above(r)
    BY <1>3
  <2>2. parent[k + 1] \in 0 .. k /\ above(k + 1) = {parent[k + 1]} \cup above(parent[k + 1])
    BY <1>0, <1>1
  <2>3. ASSUME NEW q \in above(k + 1)
        PROVE  q \in 0 .. k /\ above(q) \subseteq above(k + 1)
    <3>1. CASE q = parent[k + 1]
      BY <2>2, <3>1
    <3>2. CASE q \in above(parent[k + 1])
      <4>1. q \in 0 .. parent[k + 1] - 1 /\ above(q) \subseteq above(parent[k + 1])
        BY <2>1, <2>2, <3>2
      <4>2. q \in 0 .. k
        BY <2>2, <4>1
      <4> QED
        BY <2>2, <4>1
    <3> QED
      BY <2>2, <3>2
  <2>4. \A r \in 0 .. k + 1 : r \in 0 .. k \/ r = k + 1
    OBVIOUS
  <2>5. (k + 1) - 1 = k
    OBVIOUS
  <2> QED
    BY <2>0, <2>1, <2>3
<1> HIDE DEF T
<1>4. Procs \in T
  BY <1>0, <1>2, <1>3, Induction
<1>5. \A q \in above(p) : q \in 0 .. p - 1 /\ above(q) \subseteq above(p)
  BY <1>4 DEF T
<1> QED
  BY <1>5 DEF above

-----------------------------------------------------------------------------
\* The walk of isDescendantOf from p, for k hops.
Walk(f, p, parent, k) ==
  f = [h \in 0 .. k |-> IF h = 0 THEN p ELSE IF f[h - 1] = 0 THEN 0 ELSE parent[f[h - 1]]]

\* There is one.
LEMMA WalkExists ==
  ASSUME NEW p, NEW parent
  PROVE  \E f : Walk(f, p, parent, Hops)
<1> DEFINE T == {k \in 0 .. Hops : \E f : Walk(f, p, parent, k)}
<1>0. Hops \in Nat
  BY AgentConstants
<1>1. 0 \in T
  <2> DEFINE f == [h \in 0 .. 0 |-> p]
  <2>1. f = [h \in 0 .. 0 |-> IF h = 0 THEN p ELSE IF f[h - 1] = 0 THEN 0 ELSE parent[f[h - 1]]]
    OBVIOUS
  <2> HIDE DEF f
  <2>2. Walk(f, p, parent, 0) /\ 0 \in 0 .. Hops
    BY <1>0, <2>1 DEF Walk
  <2> QED
    BY <2>2
<1>2. ASSUME NEW k \in 0 .. Hops - 1, k \in T PROVE k + 1 \in T
  <2>0. k \in Nat /\ k + 1 \in 0 .. Hops /\ (k + 1) - 1 = k
    BY <1>0
  <2>1. PICK f : Walk(f, p, parent, k)
    BY <1>2
  <2> DEFINE next == IF f[k] = 0 THEN 0 ELSE parent[f[k]]
             g == [h \in 0 .. k + 1 |-> IF h = k + 1 THEN next ELSE f[h]]
             e == [h \in 0 .. k + 1 |-> IF h = 0 THEN p ELSE IF g[h - 1] = 0 THEN 0
                                                        ELSE parent[g[h - 1]]]
  <2>2. ASSUME NEW h \in 0 .. k + 1
        PROVE  g[h] = IF h = 0 THEN p ELSE IF g[h - 1] = 0 THEN 0 ELSE parent[g[h - 1]]
    <3>1. CASE h = k + 1
      <4>1. g[h] = next /\ g[h - 1] = f[k] /\ h # 0
        BY <2>0, <3>1
      <4> HIDE DEF g
      <4> QED
        BY <4>1
    <3>2. CASE h = 0
      <4>1. g[h] = f[0] /\ 0 \in 0 .. k
        BY <2>0, <3>2
      <4> HIDE DEF g
      <4> QED
        BY <2>1, <3>2, <4>1 DEF Walk
    <3>3. CASE h \in 1 .. k
      <4>1. h \in 0 .. k /\ h # 0 /\ g[h] = f[h] /\ g[h - 1] = f[h - 1]
        BY <2>0, <3>3
      <4>2. f[h] = IF f[h - 1] = 0 THEN 0 ELSE parent[f[h - 1]]
        BY <2>1, <4>1 DEF Walk
      <4> HIDE DEF g
      <4> QED
        BY <4>1, <4>2
    <3> QED
      BY <2>0, <3>1, <3>2, <3>3
  <2>3. g = e
    BY <2>2
  <2> HIDE DEF g
  <2>4. Walk(g, p, parent, k + 1)
    BY <2>3 DEF Walk
  <2> QED
    BY <2>0, <2>4
<1> HIDE DEF T
<1>3. Hops \in T
  BY <1>0, <1>1, <1>2, Induction
<1> QED
  BY <1>3 DEF T

\* Where isDescendantOf comes to is an ancestor.
LEMMA LooksUpward ==
  ASSUME NEW parent \in Table!Parents, NEW p \in 1 .. Procs, NEW q \in 1 .. Procs,
         Table!IsDescendantOf(p, q, parent)
  PROVE  q \in Table!Ancestors(p, parent)
<1> DEFINE f == CHOOSE f : f = [h \in 0 .. Hops |->
                  IF h = 0 THEN p ELSE IF f[h - 1] = 0 THEN 0 ELSE parent[f[h - 1]]]
           above(r) == Table!Ancestors(r, parent)
           T == {k \in 0 .. Hops : f[k] = 0 \/ (IF k = 0 THEN f[k] = p ELSE f[k] \in above(p))}
<1>0. /\ Hops \in Nat /\ Procs \in Nat /\ p # 0 /\ q # 0
      /\ \A r \in 1 .. Procs : parent[r] \in 0 .. Procs /\ parent[r] < r
  BY AgentConstants DEF Table!Parents
<1>1. f = [h \in 0 .. Hops |->
            IF h = 0 THEN p ELSE IF f[h - 1] = 0 THEN 0 ELSE parent[f[h - 1]]]
  <2>1. \E e : e = [h \in 0 .. Hops |->
            IF h = 0 THEN p ELSE IF e[h - 1] = 0 THEN 0 ELSE parent[e[h - 1]]]
    <3>1. PICK e : Walk(e, p, parent, Hops)
      BY WalkExists
    <3> QED
      BY <3>1, Zenon DEF Walk
  <2> QED
    BY <2>1, Zenon
<1>2. \E h \in 1 .. Hops : f[h] = q
  BY DEF Table!IsDescendantOf
<1> HIDE DEF f
<1>3. /\ \A r \in 1 .. Procs : above(r) = {parent[r]} \cup above(parent[r])
      /\ \A r \in above(p) : r \in 0 .. p - 1 /\ above(r) \subseteq above(p)
  <2>1. p \in 0 .. Procs
    OBVIOUS
  <2> QED
    BY <2>1, AncestorsAre, AncestorsOrder
<1> HIDE DEF above
<1>4. 0 \in T
  BY <1>0, <1>1
<1>5. ASSUME NEW k \in 0 .. Hops - 1, k \in T PROVE k + 1 \in T
  <2>0. k \in Nat /\ k + 1 \in 0 .. Hops /\ (k + 1) - 1 = k /\ k + 1 # 0
    BY <1>0
  <2>1. f[k + 1] = IF f[k] = 0 THEN 0 ELSE parent[f[k]]
    BY <1>1, <2>0
  <2>2. f[k] = 0 \/ f[k] \in above(p) \cup {p}
    BY <1>5
  <2>3. f[k] # 0 => f[k] \in 1 .. Procs /\ above(f[k]) \subseteq above(p)
    BY <1>0, <1>3, <2>2
  <2>4. f[k] # 0 => parent[f[k]] \in above(p)
    BY <1>3, <2>3
  <2> QED
    BY <2>0, <2>1, <2>4
<1>6. ASSUME NEW h \in 1 .. Hops, f[h] = q PROVE q \in above(p)
  <2> DEFINE U == {k \in 0 .. h : k \in T}
  <2>0. h \in Nat /\ h > 0 /\ h \in 0 .. h
    BY <1>0
  <2>1. 0 \in U
    BY <1>4, <2>0
  <2>2. ASSUME NEW k \in 0 .. h - 1, k \in U PROVE k + 1 \in U
    <3>1. k \in 0 .. Hops - 1 /\ k \in T /\ k + 1 \in 0 .. h
      BY <1>0, <2>2
    <3> HIDE DEF T
    <3> QED
      BY <1>5, <3>1
  <2> HIDE DEF U
  <2>3. h \in U
    BY <2>0, <2>1, <2>2, Induction
  <2> QED
    BY <1>0, <1>6, <2>0, <2>3 DEF U
<1> QED
  BY <1>2, <1>6 DEF above

\* Whether a process matches, and who is named after one more.
Matches(p, command) == Table!AgentOfCommand(command[p]) # None
Better(best, p, parent, command) ==
  IF Matches(p, command) /\ (best = None \/ Table!IsDescendantOf(p, best, parent)) THEN p ELSE best

\* Who is named, place by place.
Naming(g, order, parent, command) ==
  /\ g[0] = None
  /\ \A k \in 0 .. Procs - 1 : g[k + 1] = Better(g[k], order[k + 1], parent, command)
  /\ Table!Named(order, parent, command) = g[Procs]

\* Named goes through the table process by process.
LEMMA NamedByPlaces ==
  ASSUME NEW order \in Table!Orders, NEW parent, NEW command
  PROVE  \E g : Naming(g, order, parent, command)
<1> DEFINE n == Procs
           A == 1 .. n \cup {None}
           st == [q \in A \X (1 .. n) |-> Better(q[1], q[2], parent, command)]
           f == CHOOSE f : f = [d \in SUBSET (1 .. n) |->
                  IF d = {} THEN None
                  ELSE IF /\ Table!AgentOfCommand(command[order[Top(d)]]) # None
                          /\ \/ f[d \ {Top(d)}] = None
                             \/ Table!IsDescendantOf(order[Top(d)], f[d \ {Top(d)}], parent)
                       THEN order[Top(d)] ELSE f[d \ {Top(d)}]]
           g == [k \in 0 .. n |-> f[1 .. k]]
<1>0. n \in Nat /\ DOMAIN order = 1 .. n /\ \A i \in 1 .. n : order[i] \in 1 .. n
  BY AgentConstants DEF Table!Orders
<1>1. f = [d \in SUBSET (1 .. n) |->
            IF d = {} THEN None ELSE Better(f[d \ {Top(d)}], order[Top(d)], parent, command)]
  <2>1. None \in A /\ \A a \in A, i \in 1 .. n : st[<<a, order[i]>>] \in A
    BY <1>0 DEF Better
  <2>2. \A a \in A, i \in 1 .. n : st[<<a, order[i]>>] = Better(a, order[i], parent, command)
    BY <1>0
  <2> HIDE DEF st, A, n
  <2>3. PICK e \in [SUBSET (1 .. n) -> A] : Folding(e, st, None, order, n)
    BY <1>0, <2>1, FoldExists DEF HasFold
  <2>4. ASSUME NEW d \in SUBSET (1 .. n), d # {}
        PROVE  st[<<e[d \ {Top(d)}], order[Top(d)]>>]
                 = Better(e[d \ {Top(d)}], order[Top(d)], parent, command)
    <3>1. Top(d) \in 1 .. n
      BY <1>0, <2>4, TopThere
    <3>2. e[d \ {Top(d)}] \in A
      OBVIOUS
    <3> QED
      BY <2>2, <3>1
  <2>5. e = [d \in SUBSET (1 .. n) |->
              IF d = {} THEN None ELSE Better(e[d \ {Top(d)}], order[Top(d)], parent, command)]
    BY <2>3, <2>4 DEF Folding
  <2>6. \E h : h = [d \in SUBSET (1 .. n) |->
                  IF d = {} THEN None
                  ELSE IF /\ Table!AgentOfCommand(command[order[Top(d)]]) # None
                          /\ \/ h[d \ {Top(d)}] = None
                             \/ Table!IsDescendantOf(order[Top(d)], h[d \ {Top(d)}], parent)
                       THEN order[Top(d)] ELSE h[d \ {Top(d)}]]
    BY <2>5 DEF Better, Matches
  <2>7. f = [d \in SUBSET (1 .. n) |->
                  IF d = {} THEN None
                  ELSE IF /\ Table!AgentOfCommand(command[order[Top(d)]]) # None
                          /\ \/ f[d \ {Top(d)}] = None
                             \/ Table!IsDescendantOf(order[Top(d)], f[d \ {Top(d)}], parent)
                       THEN order[Top(d)] ELSE f[d \ {Top(d)}]]
    BY <2>6, Zenon
  <2> HIDE DEF f
  <2> QED
    BY <2>7 DEF Better, Matches
<1>2. Table!Named(order, parent, command) = f[1 .. n]
  BY <1>0 DEF Table!Named, Table!FoldLeft, Table!MapThenFoldSet, Table!Max, Top
<1> HIDE DEF f, n
<1>3. g[0] = None
  <2>1. 1 .. 0 = {} /\ {} \in SUBSET (1 .. n) /\ 0 \in 0 .. n
    BY <1>0
  <2> QED
    BY <2>1, <1>1
<1>4. ASSUME NEW k \in 0 .. n - 1
      PROVE  g[k + 1] = Better(g[k], order[k + 1], parent, command)
  <2>1. g[k] = f[1 .. k] /\ g[k + 1] = f[1 .. k + 1]
    BY <1>0
  <2>2. /\ 1 .. k + 1 \in SUBSET (1 .. n) /\ 1 .. k + 1 # {}
        /\ Top(1 .. k + 1) = k + 1 /\ (1 .. k + 1) \ {k + 1} = 1 .. k
    BY <1>0, Prefixes
  <2> DEFINE r == 1 .. k + 1
  <2> HIDE DEF g, r
  <2>3. f[r] = Better(f[r \ {Top(r)}], order[Top(r)], parent, command)
    BY <1>1, <2>2 DEF r
  <2> QED
    BY <2>1, <2>2, <2>3 DEF r
<1>5. g[n] = f[1 .. n]
  BY <1>0
<1> HIDE DEF g
<1> QED
  BY <1>2, <1>3, <1>4, <1>5 DEF Naming, n

\* Who is named matches; and if isDescendantOf looks far enough, none that matches is
\* below.
LEMMA NamedIsDeepest ==
  ASSUME NEW order \in Table!Orders, NEW parent \in Table!Parents, NEW command
  PROVE  LET named == Table!Named(order, parent, command)
         IN  /\ named # None => named \in 1 .. Procs /\ Matches(named, command)
             /\ ~ Table!Tall(parent) => Table!Deeper(named, parent, command) = {}
<1> DEFINE Below(p, q) == q \in Table!Ancestors(p, parent)
           Looks(p, q) == Table!IsDescendantOf(p, q, parent)
           Tall == Table!Tall(parent)
           Good(best, k) ==
             /\ best # None => best \in 1 .. Procs /\ Matches(best, command)
             /\ \A j \in 1 .. k : Matches(order[j], command) =>
                                 best # None /\ (~ Tall => ~ Below(order[j], best))
<1>0. Procs \in Nat /\ \A i \in 1 .. Procs : order[i] \in 1 .. Procs
  BY AgentConstants DEF Table!Orders
<1>a. None \notin Nat
  BY AgentConstants
<1>1. PICK g : Naming(g, order, parent, command)
  BY NamedByPlaces
<1>2. /\ g[0] = None
      /\ \A k \in 0 .. Procs - 1 : g[k + 1] = Better(g[k], order[k + 1], parent, command)
      /\ Table!Named(order, parent, command) = g[Procs]
  BY <1>1 DEF Naming
<1>3. \A p, q \in 1 .. Procs : Below(p, q) => q < p
  BY AncestorsOrder
<1>4. \A p, q, r \in 1 .. Procs : Below(p, q) /\ Below(q, r) => Below(p, r)
  <2>1. ASSUME NEW p \in 1 .. Procs, NEW q \in 1 .. Procs, Below(p, q)
        PROVE  Table!Ancestors(q, parent) \subseteq Table!Ancestors(p, parent)
    BY <2>1, AncestorsOrder
  <2> QED
    BY <2>1
<1>5. \A best, p : Better(best, p, parent, command) =
        IF Matches(p, command) /\ (best = None \/ Looks(p, best)) THEN p ELSE best
  BY DEF Better
<1>11. \A p, q \in 1 .. Procs : ~ Tall /\ Below(p, q) => Looks(p, q)
  BY DEF Table!Tall
<1>12. \A p, q \in 1 .. Procs : Looks(p, q) => Below(p, q)
  BY LooksUpward
<1> HIDE DEF Below, Looks, Tall
<1> DEFINE T == {k \in 0 .. Procs : Good(g[k], k)}
<1>6. 0 \in T
  BY <1>0, <1>2
<1>7. ASSUME NEW k \in 0 .. Procs - 1, k \in T PROVE k + 1 \in T
  <2>0. k \in Nat /\ k + 1 \in 0 .. Procs /\ k + 1 \in 1 .. Procs
    BY <1>0
  <2> DEFINE best == g[k]
             p == order[k + 1]
             next == g[k + 1]
  <2>1. Good(best, k) /\ p \in 1 .. Procs /\ p # None
    BY <1>0, <1>a, <1>7
  <2>2. next = IF Matches(p, command) /\ (best = None \/ Looks(p, best)) THEN p ELSE best
    BY <1>2, <1>5
  <2>3. \A j \in 1 .. k + 1 : (j \in 1 .. k /\ order[j] \in 1 .. Procs) \/ order[j] = p
    BY <1>0
  <2> HIDE DEF best, p, next
  <2>4. ~ Below(p, p)
    BY <1>3, <2>1
  <2>5. next # None => next \in 1 .. Procs /\ Matches(next, command)
    BY <2>1, <2>2
  <2>6. ASSUME NEW j \in 1 .. k + 1, Matches(order[j], command)
        PROVE  next # None /\ (~ Tall => ~ Below(order[j], next))
    <3>1. CASE next = p
      <4>1. CASE order[j] = p
        BY <2>1, <2>4, <3>1, <4>1
      <4>2. CASE order[j] # p
        <5>1. j \in 1 .. k /\ order[j] \in 1 .. Procs
          BY <2>3, <4>2
        <5>2. best # None /\ (~ Tall => ~ Below(order[j], best)) /\ best \in 1 .. Procs
          BY <2>1, <2>6, <5>1
        <5>3. best = p \/ Looks(p, best)
          BY <2>2, <3>1, <5>2
        <5>4. Looks(p, best) => Below(p, best)
          BY <1>12, <2>1, <5>2
        <5> QED
          BY <1>4, <2>1, <3>1, <5>1, <5>2, <5>3, <5>4
      <4> QED
        BY <4>1, <4>2
    <3>2. CASE next = best /\ next # p
      <4>1. CASE order[j] = p
        BY <1>11, <2>1, <2>2, <2>6, <3>2, <4>1
      <4>2. CASE order[j] # p
        BY <2>1, <2>3, <2>6, <3>2, <4>2
      <4> QED
        BY <4>1, <4>2
    <3> QED
      BY <2>2, <3>1, <3>2
  <2>7. Good(next, k + 1)
    BY <2>5, <2>6
  <2> QED
    BY <2>0, <2>7 DEF next
<1> HIDE DEF T
<1>8. Procs \in T
  BY <1>0, <1>6, <1>7, Induction
<1>9. Good(Table!Named(order, parent, command), Procs)
  BY <1>2, <1>8 DEF T
<1>10. \A p \in 1 .. Procs : \E j \in 1 .. Procs : order[j] = p
  BY DEF Table!Orders
<1> QED
  BY <1>9, <1>10 DEF Table!Deeper, Matches, Below, Tall

\* A process that matches is an agent of a known name.
LEMMA AgentIsKnown ==
  ASSUME NEW words \in Table!Command, Table!AgentOfCommand(words) # None
  PROVE  Table!AgentOfCommand(words) \in Agent!Agent
<1> DEFINE hits == {i \in 2 .. Len(words) :
             /\ ~ words[i].option /\ words[i].name # None
             /\ words[i].path \/ words[i - 1].runner}
<1>1. \A i \in 1 .. Len(words) : words[i].name \in {None, "codex", "claude"}
  BY DEF Table!Command, Table!Plain, Table!Runner, Table!Word
<1>2. words # <<>> /\ Len(words) \in Nat
  <2>1. \A a, b, c : Len(<<a, b>>) = 2 /\ Len(<<a, b, c>>) = 3
    OBVIOUS
  <2>2. \E a, b, c : words = <<a, b>> \/ words = <<a, b, c>>
    BY Zenon DEF Table!Command
  <2> QED
    BY <2>2
<1>3. CASE words[1].name # None
  <2>1. Table!AgentOfCommand(words) = words[1].name /\ 1 \in 1 .. Len(words)
    BY <1>3 DEF Table!AgentOfCommand
  <2> QED
    BY <1>1, <2>1 DEF Agent!Agent
<1>4. CASE words[1].name = None
  <2>1. Table!AgentOfCommand(words) = IF hits = {} THEN None ELSE words[Table!Min(hits)].name
    BY <1>4 DEF Table!AgentOfCommand
  <2>2. hits # {} => Table!Min(hits) \in hits
    <3>1. hits \subseteq Nat
      OBVIOUS
    <3> HIDE DEF hits
    <3>2. hits # {} => \E x \in hits : \A y \in hits : ~ (y < x)
      BY <3>1, NatMin
    <3>3. hits # {} => \E x \in hits : \A y \in hits : x <= y
      BY <3>1, <3>2
    <3> QED
      BY <3>3 DEF Table!Min
  <2>3. \A i \in hits : i \in 1 .. Len(words)
    OBVIOUS
  <2> HIDE DEF hits
  <2> QED
    BY <1>1, <2>1, <2>2, <2>3 DEF Agent!Agent
<1> QED
  BY <1>3, <1>4

\* What a table can be taken for: an agent or none, and the deepest.
LEMMA Outcomes ==
  ASSUME NEW o \in Table!Outcome
  PROVE  o.who \in Agent!Agent \cup {"other"} /\ (~ o.tall => o.deeper = {})
<1>1. PICK t \in Table!Orders \X Table!Parents \X [1 .. Procs -> Table!Command] :
        o = [who |-> IF Table!Named(t[1], t[2], t[3]) = None THEN "other"
                     ELSE Table!AgentOfCommand(t[3][Table!Named(t[1], t[2], t[3])]),
             deeper |-> Table!Deeper(Table!Named(t[1], t[2], t[3]), t[2], t[3]),
             tall |-> Table!Tall(t[2])]
  BY DEF Table!Outcome
<1> DEFINE named == Table!Named(t[1], t[2], t[3])
<1>2. t[1] \in Table!Orders /\ t[2] \in Table!Parents /\ t[3] \in [1 .. Procs -> Table!Command]
  OBVIOUS
<1>3. /\ named # None => named \in 1 .. Procs /\ Matches(named, t[3])
      /\ ~ Table!Tall(t[2]) => Table!Deeper(named, t[2], t[3]) = {}
  BY NamedIsDeepest
<1>4. /\ o.who = (IF named = None THEN "other" ELSE Table!AgentOfCommand(t[3][named]))
      /\ o.deeper = Table!Deeper(named, t[2], t[3]) /\ o.tall = Table!Tall(t[2])
  BY <1>1
<1> HIDE DEF named
<1> QED
  BY <1>3, <1>4, AgentIsKnown DEF Matches

\* Who is said to run had a reason as many samples ago as were quiet since, and that is
\* no more than the patience there is.
AgentInv ==
  /\ CountInv
  /\ x3.quiet \in Nat /\ x5 \in Nat
  /\ x3.state = "running" => x5 <= x3.quiet /\ x3.quiet <= Degrade
  /\ ~ x6.tall => x6.deeper = {}
  /\ x7 \in Seq(0 .. MaxTime)

\* At first nothing is known.
LEMMA AgentInit ==
  ASSUME Agent!Init PROVE AgentInv
  BY CountInit DEF Agent!Init, AgentInv, Agent!Unknown, Agent!NotFound

\* The counts do not change with the agent, nor as time goes by.
LEMMA CountSame ==
  ASSUME CountInv, UNCHANGED <<x2, x4>>, x1' \in 0 .. MaxTime, x1' >= x1
  PROVE  CountInv'
<1>1. \A i \in 1 .. Buckets : x2[i].sec \in Int
  <2>1. Buckets \in Nat /\ MaxTime \in Nat
    BY AgentConstants
  <2> QED
    BY DEF CountInv
<1>2. x1 \in Nat /\ x1' \in Nat
  BY DEF CountInv
<1>3. \A i \in 1 .. Buckets : x2[i].sec <= x1'
  BY DEF CountInv
<1> QED
  BY DEF CountInv

\* A verdict has its grounds.
LEMMA VerdictsHave ==
  ASSUME AgentInv, Agent!Samples PROVE AgentInv'
<1>1. PICK o \in Table!Outcome, busy \in BOOLEAN :
       /\ x3' = Agent!Verdict(o.who, Agent!OutBytes(Head(x7)) >= AgentThreshold, busy)
       /\ x6' = o
       /\ x5' = IF Agent!Written(Head(x7)) >= AgentThreshold \/ (o.who = "other" /\ busy) THEN 0
                   ELSE IF x5 > Degrade THEN x5 ELSE x5 + 1
  BY DEF Agent!Samples
<1> DEFINE talks == Agent!OutBytes(Head(x7)) >= AgentThreshold
           working == talks \/ (o.who \notin Agent!Agent /\ busy)
           quiet == IF working THEN 0 ELSE IF x3.quiet < MaxQuiet THEN x3.quiet + 1 ELSE MaxQuiet
           holds == x3.state = "running" /\ quiet <= Degrade
<1>2. /\ Degrade \in Nat /\ MaxQuiet \in Nat /\ Degrade < MaxQuiet /\ AgentThreshold \in Nat
  BY AgentConstants
<1>3. /\ o.who \in Agent!Agent \cup {"other"} /\ (~ o.tall => o.deeper = {})
  BY Outcomes
<1>12. Head(x7) \in 0 .. MaxTime /\ x7' \in Seq(0 .. MaxTime)
  <2> DEFINE S == 0 .. MaxTime
  <2>1. x7 \in Seq(S) /\ x7 # <<>> /\ x7' = Tail(x7)
    BY DEF AgentInv, Agent!Samples
  <2> HIDE DEF S
  <2>2. Head(x7) \in S /\ Tail(x7) \in Seq(S)
    BY <2>1
  <2> QED
    BY <2>1, <2>2 DEF S
<1>4. talks => Agent!Written(Head(x7)) >= AgentThreshold
  BY <1>2, <1>12, CountedIsWritten DEF AgentInv
<1>5. CountInv'
  BY DEF AgentInv, Agent!Samples, CountInv
<1>6. /\ x3'.quiet = quiet
      /\ x3'.state = (IF working \/ holds THEN "running"
                      ELSE IF o.who \in Agent!Agent THEN "waiting" ELSE "idle")
  BY <1>1 DEF Agent!Verdict
<1>7. working => x5' = 0
  BY <1>1, <1>3, <1>4
<1>8. x5' \in Nat /\ (x5' = 0 \/ x5' = x5 \/ x5' = x5 + 1)
  BY <1>1 DEF AgentInv
<1>9. x5 <= Degrade => x5' <= x5 + 1
  BY <1>8 DEF AgentInv
<1> HIDE DEF working, talks
<1>10. quiet \in Nat
  BY <1>2 DEF AgentInv
<1>11. working \/ holds => x5' <= quiet /\ quiet <= Degrade
  <2>1. CASE working
    BY <1>2, <1>7, <2>1
  <2>2. CASE ~ working /\ holds
    <3>1. x5 <= x3.quiet /\ x3.quiet <= Degrade /\ x5 \in Nat /\ x3.quiet \in Nat
      BY <2>2 DEF AgentInv
    <3>2. quiet = x3.quiet + 1
      BY <1>2, <2>2
    <3>3. x5' <= x5 + 1 /\ x5' \in Nat
      BY <1>8, <3>1
    <3> QED
      BY <3>1, <3>2, <3>3
  <2> QED
    BY <2>1, <2>2
<1> HIDE DEF quiet, holds
<1> QED
  BY <1>1, <1>3, <1>5, <1>6, <1>10, <1>11, <1>12 DEF AgentInv

\* Every step keeps AgentInv.
LEMMA AgentStep ==
  ASSUME AgentInv, Agent!Next \/ UNCHANGED xs PROVE AgentInv'
<1>1. CASE Agent!Writes
  BY <1>1, CountWrites DEF AgentInv, Agent!Writes
<1>6. CASE Agent!TickerFires
  <2>1. CountInv'
    BY <1>6 DEF AgentInv, Agent!TickerFires, CountInv
  <2>2. x1 \in 0 .. MaxTime
    BY DEF AgentInv, CountInv
  <2>3. x7' \in Seq(0 .. MaxTime)
    BY <1>6, <2>2 DEF AgentInv, Agent!TickerFires
  <2> QED
    BY <1>6, <2>1, <2>3 DEF AgentInv, Agent!TickerFires
<1>2. CASE Agent!SamplesNothing
  <2>1. CountInv'
    BY <1>2 DEF AgentInv, Agent!SamplesNothing, CountInv
  <2>2. Degrade \in Nat
    BY AgentConstants
  <2>3. x7' \in Seq(0 .. MaxTime)
    BY <1>2 DEF AgentInv, Agent!SamplesNothing
  <2> QED
    BY <1>2, <2>1, <2>2, <2>3 DEF AgentInv, Agent!SamplesNothing, Agent!Unknown, Agent!NotFound
<1>3. CASE Agent!Samples
  BY <1>3, VerdictsHave
<1>4. CASE Agent!Tick
  <2>1. x1' \in 0 .. MaxTime /\ x1' >= x1 /\ UNCHANGED <<x2, x4>>
    BY <1>4, AgentConstants DEF Agent!Tick, AgentInv, CountInv
  <2>2. CountInv'
    BY <2>1, CountSame DEF AgentInv
  <2>3. x7' \in Seq(0 .. MaxTime)
    <3>1. 0 .. x1 \subseteq 0 .. x1'
      BY <2>1 DEF AgentInv, CountInv
    <3>2. x7' = x7 /\ x7 \in Seq(0 .. MaxTime)
      BY <1>4 DEF AgentInv, Agent!Tick
    <3> QED
      BY <3>1, <3>2
  <2> QED
    BY <1>4, <2>2, <2>3 DEF AgentInv, Agent!Tick
<1>5. CASE UNCHANGED xs
  <2>1. CountInv'
    BY <1>5 DEF AgentInv, xs, CountInv
  <2> QED
    BY <1>5, <2>1 DEF AgentInv, xs
<1> QED
  BY <1>1, <1>2, <1>3, <1>4, <1>5, <1>6 DEF Agent!Next

\* AgentInv says enough.
LEMMA AgentImplies ==
  ASSUME AgentInv PROVE Agent!VerdictHasGrounds
<1>1. Degrade \in Nat
  BY AgentConstants
<1> QED
  BY <1>1 DEF AgentInv, Agent!VerdictHasGrounds

\* No member is more than the sum.
LEMMA MemberOfTotal ==
  ASSUME NEW n \in Nat, NEW s \in [1 .. n -> Nat], NEW i \in 1 .. n
  PROVE  s[i] <= Agent!Total(s)
<1>1. PICK g : Sums(g, s, n) /\ Agent!Total(s) = g[n]
  BY TotalByPlaces
<1> DEFINE T == {k \in 0 .. n : k >= i => s[i] <= g[k]}
<1>2. 0 \in T
  OBVIOUS
<1>3. ASSUME NEW k \in 0 .. n - 1, k \in T PROVE k + 1 \in T
  <2>1. /\ k \in 0 .. n /\ k + 1 \in 0 .. n /\ k + 1 \in 1 .. n
        /\ k + 1 >= i => k >= i \/ k + 1 = i
    OBVIOUS
  <2>2. g[k + 1] = g[k] + s[k + 1] /\ g[k] \in Nat
    BY <1>1, <2>1 DEF Sums
  <2>3. s[k + 1] \in Nat /\ s[i] \in Nat
    BY <2>1
  <2>4. k >= i => s[i] <= g[k]
    BY <1>3
  <2>5. k + 1 >= i => s[i] <= g[k + 1]
    <3>1. CASE k >= i
      BY <2>2, <2>3, <2>4, <3>1
    <3>2. CASE k + 1 = i
      BY <2>2, <2>3, <3>2
    <3> QED
      BY <2>1, <3>1, <3>2
  <2> QED
    BY <2>1, <2>5
<1> HIDE DEF T
<1>4. n \in T
  BY <1>2, <1>3, Induction
<1> QED
  BY <1>1, <1>4 DEF T

\* What was written in this second was written in the window.
LEMMA WrittenNow ==
  ASSUME CountInv
  PROVE  x4[x1] \in Nat /\ x4[x1] <= Agent!Written(x1) /\ Agent!Written(x1) \in Nat
<1> DEFINE m == MaxTime + 1
           w == [i \in 1 .. m |-> IF i - 1 > x1 - Window /\ i - 1 <= x1 THEN x4[i - 1] ELSE 0]
<1>0. /\ m \in Nat /\ Window \in Nat \ {0} /\ MaxTime \in Nat /\ x1 \in 0 .. MaxTime
  BY AgentConstants DEF CountInv
<1>1. w \in [1 .. m -> Nat]
  <2>1. \A i \in 1 .. m : i - 1 \in 0 .. MaxTime
    BY <1>0
  <2> QED
    BY <2>1 DEF CountInv
<1>2. x1 + 1 \in 1 .. m /\ (x1 + 1) - 1 = x1 /\ x1 > x1 - Window
  BY <1>0
<1>3. w[x1 + 1] = x4[x1] /\ x4[x1] \in Nat
  BY <1>0, <1>2 DEF CountInv
<1>4. Agent!Written(x1) = Agent!Total(w)
  BY DEF Agent!Written, Agent!WrittenTo
<1> HIDE DEF w, m
<1> QED
  BY <1>0, <1>1, <1>2, <1>3, <1>4, MemberOfTotal, CountedIsWritten

\* No second has more than the threshold, and the verdict has its type.
AgentTyped ==
  /\ AgentInv
  /\ \A t \in 0 .. MaxTime : x4[t] <= AgentThreshold
  /\ x3.agent \in Agent!Agent \cup {"other", "unknown"}
  /\ x3.state \in {"unknown", "running", "waiting", "idle"}
  /\ x3.quiet <= MaxQuiet /\ x5 <= Degrade + 1
  /\ x6 \in {Agent!NotFound} \cup Table!Outcome /\ Len(x7) <= 2

\* At first nothing was written.
LEMMA AgentTypedInit ==
  ASSUME Agent!Init PROVE AgentTyped
<1>1. MaxTime \in Nat /\ AgentThreshold \in Nat /\ Degrade \in Nat /\ MaxQuiet \in Nat
  BY AgentConstants
<1> QED
  BY <1>1, AgentInit DEF Agent!Init, AgentTyped, Agent!Unknown

\* Every step keeps AgentTyped.
LEMMA AgentTypedStep ==
  ASSUME AgentTyped, Agent!Next \/ UNCHANGED xs PROVE AgentTyped'
<1>0. /\ MaxTime \in Nat /\ AgentThreshold \in Nat /\ Degrade \in Nat /\ MaxQuiet \in Nat
      /\ Degrade < MaxQuiet
  BY AgentConstants
<1>1. AgentInv'
  BY AgentStep DEF AgentTyped
<1>2. CASE Agent!Writes
  <2>1. /\ x4' = [x4 EXCEPT ![x1] = x4[x1] + 1] /\ UNCHANGED <<x3, x5, x6, x7>>
        /\ Agent!Written(x1) < AgentThreshold
    BY <1>2 DEF Agent!Writes
  <2>2. /\ x4[x1] \in Nat /\ x4[x1] <= Agent!Written(x1) /\ Agent!Written(x1) \in Nat
        /\ x4 \in [0 .. MaxTime -> Nat] /\ x1 \in 0 .. MaxTime
    BY WrittenNow DEF AgentTyped, AgentInv, CountInv
  <2>3. x4[x1] + 1 <= AgentThreshold
    BY <1>0, <2>1, <2>2
  <2>4. ASSUME NEW t \in 0 .. MaxTime PROVE x4'[t] <= AgentThreshold
    <3>1. CASE t = x1
      BY <2>1, <2>2, <2>3, <3>1
    <3>2. CASE t # x1
      BY <2>1, <2>2, <3>2 DEF AgentTyped
    <3> QED
      BY <3>1, <3>2
  <2> QED
    BY <1>1, <2>1, <2>4 DEF AgentTyped
<1>7. CASE Agent!TickerFires
  <2>1. Len(x7') <= 2
    BY <1>7 DEF AgentTyped, AgentInv, Agent!TickerFires
  <2> QED
    BY <1>1, <1>7, <2>1 DEF AgentTyped, Agent!TickerFires
<1>8. ASSUME x7 # <<>>, x7' = Tail(x7) PROVE Len(x7') <= 2
  <2>1. Len(x7) \in Nat /\ Len(x7) <= 2 /\ Len(x7') = Len(x7) - 1
    BY <1>8 DEF AgentTyped, AgentInv
  <2> QED
    BY <2>1
<1>3. CASE Agent!SamplesNothing
  <2>1. x5' <= Degrade + 1
    BY <1>0, <1>3 DEF AgentTyped, AgentInv, Agent!SamplesNothing
  <2> QED
    BY <1>0, <1>1, <1>3, <1>8, <2>1 DEF AgentTyped, Agent!SamplesNothing, Agent!Unknown
<1>4. CASE Agent!Samples
  <2>1. PICK o \in Table!Outcome, busy \in BOOLEAN :
         /\ x3' = Agent!Verdict(o.who, Agent!OutBytes(Head(x7)) >= AgentThreshold, busy)
         /\ x5' = IF Agent!Written(Head(x7)) >= AgentThreshold \/ (o.who = "other" /\ busy) THEN 0
                  ELSE IF x5 > Degrade THEN x5 ELSE x5 + 1
         /\ x6' = o /\ x7 # <<>> /\ x7' = Tail(x7) /\ UNCHANGED x4
    BY <1>4 DEF Agent!Samples
  <2>2. o.who \in Agent!Agent \cup {"other"}
    BY Outcomes
  <2>3. x3'.agent = o.who /\ x3'.state \in {"unknown", "running", "waiting", "idle"}
    BY <2>1 DEF Agent!Verdict
  <2>4. x3'.quiet \in {0, MaxQuiet} \/ (x3.quiet < MaxQuiet /\ x3'.quiet = x3.quiet + 1)
    BY <2>1 DEF Agent!Verdict
  <2>5. x3'.quiet <= MaxQuiet /\ x5' <= Degrade + 1
    BY <1>0, <2>1, <2>4 DEF AgentTyped, AgentInv
  <2> QED
    BY <1>1, <1>8, <2>1, <2>2, <2>3, <2>5 DEF AgentTyped
<1>5. CASE Agent!Tick
  BY <1>1, <1>5 DEF AgentTyped, Agent!Tick
<1>6. CASE UNCHANGED xs
  BY <1>1, <1>6 DEF AgentTyped, xs
<1> QED
  BY <1>2, <1>3, <1>4, <1>5, <1>6, <1>7 DEF Agent!Next

\* AgentTyped says enough.
LEMMA AgentTypes ==
  ASSUME AgentTyped PROVE Agent!TypeOK
<1>0. Buckets \in Nat /\ MaxTime \in Nat /\ AgentThreshold \in Nat /\ Degrade \in Nat /\ MaxQuiet \in Nat
  BY AgentConstants
<1>1. CountInv
  BY DEF AgentTyped, AgentInv
<1>2. ASSUME NEW i \in 1 .. Buckets
      PROVE  x2[i] \in [sec : (0 - Buckets) .. MaxTime, n : 0 .. AgentThreshold]
  <2>1. x2[i] \in [sec : (0 - Buckets) .. MaxTime, n : Nat]
    BY <1>1 DEF CountInv
  <2>2. CASE x2[i].sec >= 0
    <3>1. x2[i].sec \in 0 .. MaxTime
      BY <1>0, <2>1, <2>2
    <3>2. x2[i].n <= x4[x2[i].sec] /\ x4[x2[i].sec] <= AgentThreshold
      BY <1>1, <2>2, <3>1 DEF CountInv, AgentTyped
    <3>3. x4[x2[i].sec] \in Nat
      BY <1>1, <3>1 DEF CountInv
    <3>4. x2[i].n \in 0 .. AgentThreshold
      BY <1>0, <2>1, <3>2, <3>3
    <3> QED
      BY <2>1, <3>4
  <2>3. CASE x2[i].sec < 0
    <3>1. x2[i].n = 0
      BY <1>1, <2>3 DEF CountInv
    <3> QED
      BY <1>0, <2>1, <3>1
  <2> QED
    BY <1>0, <2>1, <2>2, <2>3
<1>3. x2 \in [1 .. Buckets -> [sec : (0 - Buckets) .. MaxTime, n : 0 .. AgentThreshold]]
  <2> DEFINE R == [sec : (0 - Buckets) .. MaxTime, n : 0 .. AgentThreshold]
  <2>1. DOMAIN x2 = 1 .. Buckets /\ x2 = [i \in 1 .. Buckets |-> x2[i]]
    BY <1>1 DEF CountInv
  <2>2. \A i \in 1 .. Buckets : x2[i] \in R
    BY <1>2
  <2> HIDE DEF R
  <2> QED
    BY <2>1, <2>2 DEF R
<1>4. x1 \in 0 .. MaxTime /\ x3.quiet \in 0 .. MaxQuiet /\ x5 \in 0 .. Degrade + 1
      /\ x7 \in Seq(0 .. MaxTime)
  BY <1>0, <1>1 DEF AgentTyped, AgentInv, CountInv
<1> QED
  BY <1>3, <1>4 DEF AgentTyped, Agent!TypeOK

-----------------------------------------------------------------------------
(* The address of a server.  AddressInv says of what ConnInfo it is the address.      *)

\* A node of a ConnInfo has a name that is its own; its regions have nodes with
\* different keys.
InfoNode ==
  {n \in [key : Address!Key, name : Address!Name, host : BOOLEAN, region : Nat,
          stunOnly : BOOLEAN] : n.name \in {<<"own", n.key>>, <<"host", n.key>>}}

OwnKeys(nodes) == \A i, j \in DOMAIN nodes : nodes[i].key = nodes[j].key => i = j

InfoRegion(r) ==
  /\ r = [id |-> r.id, code |-> r.code, nodes |-> r.nodes]
  /\ r.id \in Nat /\ r.nodes \in Seq(InfoNode) /\ OwnKeys(r.nodes)

InfoRegions(regions) ==
  /\ DOMAIN regions = 1 .. Len(regions) /\ Len(regions) \in Nat
  /\ \A i \in DOMAIN regions : InfoRegion(regions[i])

Info(ci) == ci = [id |-> ci.id, regions |-> ci.regions] /\ InfoRegions(ci.regions)

\* How a relay node is written, and read in region i.
Written(n) == [key |-> n.key, name |-> IF n.host THEN None ELSE n.name, host |-> n.host,
               region |-> 0, stunOnly |-> n.stunOnly]
ReadBack(n, i) == [key |-> n.key, name |-> IF n.host THEN <<"host", n.key>> ELSE n.name,
                   host |-> n.host, region |-> i, stunOnly |-> n.stunOnly]

WireOf(r) ==
  Address!Region(0, None, [j \in DOMAIN Address!Relaying(r.nodes) |->
                             Written(Address!Relaying(r.nodes)[j])])
BackOf(r, i) ==
  Address!Region(i, i, [j \in DOMAIN Address!Relaying(r.nodes) |->
                          ReadBack(Address!Relaying(r.nodes)[j], i)])

\* No node has no name.
LEMMA NoneIsNoName ==
  ASSUME NEW n \in InfoNode PROVE n.name # None
  BY AddressConstants DEF InfoNode, Address!Key

\* The relays among some nodes are some of them, in their order.
LEMMA RelayingIsSome ==
  ASSUME NEW nodes \in Seq(InfoNode), OwnKeys(nodes)
  PROVE  /\ Address!Relaying(nodes) \in Seq(InfoNode)
         /\ OwnKeys(Address!Relaying(nodes))
         /\ \A i \in DOMAIN Address!Relaying(nodes) : Address!Relaying(nodes)[i].stunOnly = FALSE
<1> DEFINE good == {n \in Address!ToSet(nodes) : Address!Relays(n)}
           k == Address!Relaying(nodes)
<1>1. k = Address!Kept(nodes, good)
  BY DEF Address!Relaying
<1>2. good \subseteq InfoNode /\ \A n \in good : n.stunOnly = FALSE
  BY DEF Address!ToSet, Address!Relays
<1> HIDE DEF good, k
<1>3. /\ k \in Seq(InfoNode \cap good)
      /\ \A i, j \in DOMAIN k : i < j =>
              \E v, w \in DOMAIN nodes : v < w /\ k[i] = nodes[v] /\ k[j] = nodes[w]
  <2>1. /\ Address!Kept(nodes, good) \in Seq(InfoNode \cap good)
        /\ \A i, j \in DOMAIN Address!Kept(nodes, good) : i < j =>
              \E v, w \in DOMAIN nodes : v < w /\ Address!Kept(nodes, good)[i] = nodes[v]
                                              /\ Address!Kept(nodes, good)[j] = nodes[w]
    BY KeptIsSome
  <2> QED
    BY <1>1, <2>1
<1>4. OwnKeys(k)
  <2>1. \A i, j \in DOMAIN k : i < j => k[i].key # k[j].key
    <3>1. \A v, w \in DOMAIN nodes : v < w => nodes[v].key # nodes[w].key
      BY DEF OwnKeys
    <3> QED
      BY <1>3, <3>1
  <2>2. \A i, j \in DOMAIN k : i < j \/ j < i \/ i = j
    OBVIOUS
  <2> QED
    BY <2>1, <2>2 DEF OwnKeys
<1>5. k \in Seq(InfoNode) /\ \A i \in DOMAIN k : k[i].stunOnly = FALSE
  BY <1>2, <1>3
<1> QED
  BY <1>4, <1>5 DEF k

\* One region, written, read, and written again.
LEMMA RegionReturns ==
  ASSUME NEW r, InfoRegion(r), NEW i \in Nat \ {0}
  PROVE  LET p == BackOf(r, i) IN
         /\ InfoRegion(p)
         /\ WireOf(p) = WireOf(r)
         /\ Address!RelayNodes(p.nodes) = Address!RelayNodes(r.nodes)
         /\ p.id = i
         /\ \A j \in DOMAIN p.nodes : p.nodes[j].region = i /\ p.nodes[j].name \in Address!Name
         /\ \A j, k \in DOMAIN p.nodes : p.nodes[j].name = p.nodes[k].name => j = k
<1> DEFINE k == Address!Relaying(r.nodes)
           q == [j \in DOMAIN k |-> ReadBack(k[j], i)]
           p == BackOf(r, i)
<1>1. k \in Seq(InfoNode) /\ OwnKeys(k) /\ \A j \in DOMAIN k : k[j].stunOnly = FALSE
  BY RelayingIsSome DEF InfoRegion
<1>2. p = [id |-> i, code |-> i, nodes |-> q]
      /\ WireOf(r) = Address!Region(0, None, [j \in DOMAIN k |-> Written(k[j])])
  BY DEF Address!Region, BackOf, WireOf
<1>3. Address!RelayNodes(r.nodes) = [j \in DOMAIN k |-> <<k[j].key, k[j].host>>]
  BY DEF Address!RelayNodes, Address!Carried
<1> HIDE DEF k
<1>4. \A j \in DOMAIN k :
        /\ k[j].key \in Address!Key /\ k[j].host \in BOOLEAN /\ k[j].stunOnly = FALSE
        /\ k[j].name # None /\ k[j].name \in {<<"own", k[j].key>>, <<"host", k[j].key>>}
  BY <1>1, NoneIsNoName DEF InfoNode
<1>5. /\ DOMAIN q = DOMAIN k /\ DOMAIN k = 1 .. Len(k) /\ Len(k) \in Nat
      /\ \A j \in DOMAIN k :
           /\ q[j] = ReadBack(k[j], i) /\ q[j].key = k[j].key /\ q[j].host = k[j].host
           /\ q[j].region = i /\ q[j].stunOnly = FALSE
           /\ q[j].name \in {<<"own", k[j].key>>, <<"host", k[j].key>>}
  BY <1>4 DEF ReadBack
<1>6. \A j \in DOMAIN k : q[j] \in InfoNode
  BY <1>4 DEF InfoNode, ReadBack, Address!Name
<1>7. \A j \in DOMAIN k : Written(q[j]) = Written(k[j])
  BY DEF Written, ReadBack
<1> HIDE DEF q
<1>8. q \in Seq(InfoNode) /\ OwnKeys(q)
  <2>1. OwnKeys(q)
    BY <1>1, <1>5 DEF OwnKeys
  <2>2. q = [j \in 1 .. Len(k) |-> q[j]]
    BY DEF q
  <2> QED
    BY <1>6, <2>1, <2>2
<1>9. Address!Relaying(q) = q
  <2> DEFINE good == {n \in Address!ToSet(q) : Address!Relays(n)}
  <2>1. \A j \in DOMAIN q : q[j] \in good
    BY <1>5 DEF Address!ToSet, Address!Relays
  <2> HIDE DEF good
  <2>2. Address!Kept(q, good) = q
    BY <1>8, <2>1, KeptIsAll
  <2> QED
    BY <2>2 DEF Address!Relaying, good
<1>10. Address!RelayNodes(q) = [j \in DOMAIN q |-> <<q[j].key, q[j].host>>]
  BY <1>9 DEF Address!RelayNodes, Address!Carried
<1>11. \A j \in DOMAIN q : q[j].name \in Address!Name
  BY <1>6, <1>5 DEF InfoNode
<1>12. \A j, l \in DOMAIN q : q[j].name = q[l].name => j = l
  BY <1>1, <1>5 DEF OwnKeys
<1>13. [j \in DOMAIN q |-> Written(q[j])] = [j \in DOMAIN k |-> Written(k[j])]
  BY <1>5, <1>7
<1>14. [j \in DOMAIN q |-> <<q[j].key, q[j].host>>] = [j \in DOMAIN k |-> <<k[j].key, k[j].host>>]
  BY <1>5
<1>15. p.nodes = q /\ p.id = i /\ p = [id |-> p.id, code |-> p.code, nodes |-> p.nodes]
  BY <1>2
<1> HIDE DEF p
<1>16. WireOf(p) = WireOf(r)
  <2>1. WireOf(p) = Address!Region(0, None, [j \in DOMAIN q |-> Written(q[j])])
    BY <1>9, <1>15 DEF WireOf
  <2> QED
    BY <1>2, <1>13, <2>1
<1>17. InfoRegion(p)
  BY <1>8, <1>15 DEF InfoRegion
<1>18. Address!RelayNodes(p.nodes) = Address!RelayNodes(r.nodes)
  BY <1>3, <1>10, <1>14, <1>15
<1>19. /\ \A j \in DOMAIN p.nodes : p.nodes[j].region = i /\ p.nodes[j].name \in Address!Name
       /\ \A j, l \in DOMAIN p.nodes : p.nodes[j].name = p.nodes[l].name => j = l
  BY <1>5, <1>11, <1>12, <1>15
<1> QED
  BY <1>15, <1>16, <1>17, <1>18, <1>19 DEF p

\* What is written of a ConnInfo.
LEMMA Encodes ==
  ASSUME NEW ci, Info(ci)
  PROVE  Address!Encoded(ci) =
           [id |-> ci.id, regions |-> [i \in DOMAIN ci.regions |-> WireOf(ci.regions[i])]]
<1> DEFINE k(i) == Address!Relaying(ci.regions[i].nodes)
<1>1. ASSUME NEW i \in DOMAIN ci.regions
      PROVE  Address!WireRegionOf(ci.regions[i]).nodes = k(i)
  BY DEF Address!WireRegionOf
<1>2. ASSUME NEW i \in DOMAIN ci.regions, NEW j \in DOMAIN k(i)
      PROVE  [k(i)[j] EXCEPT !.region = 0, !.name = IF k(i)[j].host THEN None ELSE @]
               = Written(k(i)[j])
  <2>1. k(i) \in Seq(InfoNode)
    BY RelayingIsSome DEF Info, InfoRegions, InfoRegion
  <2> DEFINE n == k(i)[j]
  <2>2. n \in InfoNode
    BY <2>1
  <2> HIDE DEF n
  <2>3. n = [key |-> n.key, name |-> n.name, host |-> n.host, region |-> n.region,
             stunOnly |-> n.stunOnly]
    BY <2>2 DEF InfoNode
  <2>4. [n EXCEPT !.region = 0, !.name = IF n.host THEN None ELSE @] = Written(n)
    <3> DEFINE t == [n EXCEPT !.region = 0]
    <3>1. t = [key |-> n.key, name |-> n.name, host |-> n.host, region |-> 0,
               stunOnly |-> n.stunOnly]
      BY <2>3
    <3>2. [n EXCEPT !.region = 0, !.name = IF n.host THEN None ELSE @]
            = [t EXCEPT !.name = IF n.host THEN None ELSE @]
      OBVIOUS
    <3> HIDE DEF t
    <3>3. [t EXCEPT !.name = IF n.host THEN None ELSE @] = Written(n)
      BY <3>1 DEF Written
    <3> QED
      BY <3>2, <3>3
  <2> QED
    BY <2>4 DEF n
<1>3. ASSUME NEW i \in DOMAIN ci.regions
      PROVE  (LET wr == Address!WireRegionOf(ci.regions[i]) IN
              Address!Region(0, None,
                [j \in DOMAIN wr.nodes |->
                   [wr.nodes[j] EXCEPT !.region = 0,
                                       !.name = IF wr.nodes[j].host THEN None ELSE @]]))
               = Address!Region(0, None, [j \in DOMAIN k(i) |-> Written(k(i)[j])])
  <2> DEFINE q == k(i)
             v == Address!WireRegionOf(ci.regions[i]).nodes
  <2>1. v = q
    BY <1>1
  <2>2. \A j \in DOMAIN q : [q[j] EXCEPT !.region = 0, !.name = IF q[j].host THEN None ELSE @]
                              = Written(q[j])
    BY <1>2
  <2> HIDE DEF q, v
  <2>3. [j \in DOMAIN v |-> [v[j] EXCEPT !.region = 0, !.name = IF v[j].host THEN None ELSE @]]
          = [j \in DOMAIN q |-> Written(q[j])]
    BY <2>1, <2>2
  <2> QED
    BY <2>3 DEF q, v
<1>4. ASSUME NEW i \in DOMAIN ci.regions
      PROVE  Address!Region(0, None, [j \in DOMAIN k(i) |-> Written(k(i)[j])]) = WireOf(ci.regions[i])
  BY DEF WireOf
<1> HIDE DEF k
<1> QED
  BY <1>3, <1>4 DEF Address!Encoded

\* What is read of that.
LEMMA ParsesBack ==
  ASSUME NEW ci, Info(ci), NEW w, w = Address!Encoded(ci)
  PROVE  Address!Parsed(w) =
           [id |-> ci.id, regions |-> [i \in DOMAIN ci.regions |-> BackOf(ci.regions[i], i)]]
<1> DEFINE k(i) == Address!Relaying(ci.regions[i].nodes)
<1>1. ASSUME NEW i \in DOMAIN ci.regions
      PROVE  w.regions[i].id = 0 /\ w.regions[i].code = None
             /\ w.regions[i].nodes = [j \in DOMAIN k(i) |-> Written(k(i)[j])] /\ i \in Nat \ {0}
  BY Encodes DEF WireOf, Address!Region, Info, InfoRegions
<1>2. w.id = ci.id /\ DOMAIN w.regions = DOMAIN ci.regions
  BY Encodes
<1>3. ASSUME NEW i \in DOMAIN ci.regions, NEW j \in DOMAIN k(i)
      PROVE  [Written(k(i)[j]) EXCEPT
                !.name = IF @ = None THEN <<"host", Written(k(i)[j]).key>> ELSE @,
                !.region = IF @ = 0 THEN i ELSE @] = ReadBack(k(i)[j], i)
  <2>1. k(i) \in Seq(InfoNode)
    BY RelayingIsSome DEF Info, InfoRegions, InfoRegion
  <2> DEFINE n == k(i)[j]
  <2>2. n \in InfoNode
    BY <2>1
  <2> HIDE DEF n
  <2>3. n.name # None
    BY <2>2, NoneIsNoName
  <2>4. [Written(n) EXCEPT !.name = IF @ = None THEN <<"host", Written(n).key>> ELSE @,
                           !.region = IF @ = 0 THEN i ELSE @] = ReadBack(n, i)
    <3> DEFINE m == Written(n)
               t == [m EXCEPT !.name = IF @ = None THEN <<"host", m.key>> ELSE @]
    <3>1. m = [key |-> n.key, name |-> IF n.host THEN None ELSE n.name, host |-> n.host,
               region |-> 0, stunOnly |-> n.stunOnly]
      BY DEF Written
    <3> HIDE DEF m
    <3>2. t = [key |-> n.key, name |-> IF n.host THEN <<"host", n.key>> ELSE n.name,
               host |-> n.host, region |-> 0, stunOnly |-> n.stunOnly]
      BY <2>3, <3>1
    <3>3. [m EXCEPT !.name = IF @ = None THEN <<"host", m.key>> ELSE @,
                    !.region = IF @ = 0 THEN i ELSE @]
            = [t EXCEPT !.region = IF @ = 0 THEN i ELSE @]
      OBVIOUS
    <3> HIDE DEF t
    <3>4. [t EXCEPT !.region = IF @ = 0 THEN i ELSE @] = ReadBack(n, i)
      BY <3>2 DEF ReadBack
    <3>5. [m EXCEPT !.name = IF @ = None THEN <<"host", m.key>> ELSE @,
                    !.region = IF @ = 0 THEN i ELSE @] = ReadBack(n, i)
      BY <3>3, <3>4
    <3> QED
      BY <3>5 DEF m
  <2> QED
    BY <2>4 DEF n
<1>4. ASSUME NEW i \in DOMAIN ci.regions
      PROVE  (LET id == IF w.regions[i].id = 0 THEN i ELSE w.regions[i].id IN
              Address!Region(id, IF w.regions[i].code = None THEN id ELSE w.regions[i].code,
                [j \in DOMAIN w.regions[i].nodes |->
                   LET n == w.regions[i].nodes[j] IN
                   [n EXCEPT !.name = IF @ = None THEN <<"host", n.key>> ELSE @,
                             !.region = IF @ = 0 THEN id ELSE @]]))
               = Address!Region(i, i, [j \in DOMAIN w.regions[i].nodes |-> ReadBack(k(i)[j], i)])
  <2> DEFINE q == k(i)
             v == w.regions[i].nodes
  <2>1. v = [j \in DOMAIN q |-> Written(q[j])]
    BY <1>1
  <2>2. \A j \in DOMAIN q :
          [Written(q[j]) EXCEPT
                !.name = IF @ = None THEN <<"host", Written(q[j]).key>> ELSE @,
                !.region = IF @ = 0 THEN i ELSE @] = ReadBack(q[j], i)
    BY <1>3
  <2> HIDE DEF q
  <2>3. DOMAIN v = DOMAIN q /\ \A j \in DOMAIN q : v[j] = Written(q[j])
    BY <2>1
  <2> HIDE DEF v
  <2>4. \A j \in DOMAIN v :
          [v[j] EXCEPT !.name = IF @ = None THEN <<"host", v[j].key>> ELSE @,
                       !.region = IF @ = 0 THEN i ELSE @] = ReadBack(q[j], i)
    <3> SUFFICES ASSUME NEW j \in DOMAIN v
                 PROVE  [v[j] EXCEPT !.name = IF @ = None THEN <<"host", v[j].key>> ELSE @,
                                     !.region = IF @ = 0 THEN i ELSE @] = ReadBack(q[j], i)
      OBVIOUS
    <3> DEFINE m == v[j]
               u == Written(q[j])
    <3>1. m = u /\ j \in DOMAIN q
      BY <2>3
    <3>2. [u EXCEPT !.name = IF @ = None THEN <<"host", u.key>> ELSE @,
                    !.region = IF @ = 0 THEN i ELSE @] = ReadBack(q[j], i)
      BY <2>2, <3>1
    <3> HIDE DEF u, m
    <3>3. [m EXCEPT !.name = IF @ = None THEN <<"host", m.key>> ELSE @,
                    !.region = IF @ = 0 THEN i ELSE @] = ReadBack(q[j], i)
      BY <3>1, <3>2
    <3> QED
      BY <3>3 DEF m
  <2>5. [j \in DOMAIN v |-> [v[j] EXCEPT !.name = IF @ = None THEN <<"host", v[j].key>> ELSE @,
                       !.region = IF @ = 0 THEN i ELSE @]] = [j \in DOMAIN v |-> ReadBack(q[j], i)]
    BY <2>4
  <2>6. (IF w.regions[i].id = 0 THEN i ELSE w.regions[i].id) = i
        /\ (IF w.regions[i].code = None THEN i ELSE w.regions[i].code) = i
    BY <1>1
  <2> QED
    BY <2>5, <2>6 DEF q, v
<1>5. ASSUME NEW i \in DOMAIN ci.regions
      PROVE  Address!Region(i, i, [j \in DOMAIN w.regions[i].nodes |-> ReadBack(k(i)[j], i)])
               = BackOf(ci.regions[i], i)
  <2>1. DOMAIN w.regions[i].nodes = DOMAIN k(i)
    BY <1>1
  <2> QED
    BY <2>1 DEF BackOf
<1> DEFINE parsed(i) ==
             LET id == IF w.regions[i].id = 0 THEN i ELSE w.regions[i].id IN
             Address!Region(id, IF w.regions[i].code = None THEN id ELSE w.regions[i].code,
               [j \in DOMAIN w.regions[i].nodes |->
                  LET n == w.regions[i].nodes[j] IN
                  [n EXCEPT !.name = IF @ = None THEN <<"host", n.key>> ELSE @,
                            !.region = IF @ = 0 THEN id ELSE @]])
           back(i) == BackOf(ci.regions[i], i)
<1> HIDE DEF k
<1>6. \A i \in DOMAIN ci.regions : parsed(i) = back(i)
  BY <1>4, <1>5
<1>7. Address!Parsed(w) = [id |-> w.id, regions |-> [i \in DOMAIN w.regions |-> parsed(i)]]
  BY DEF Address!Parsed
<1> HIDE DEF parsed, back
<1>8. Address!Parsed(w) = [id |-> ci.id, regions |-> [i \in DOMAIN ci.regions |-> back(i)]]
  BY <1>2, <1>6, <1>7
<1> QED
  BY <1>8 DEF back

\* An address that was written and read: what AddressRestores says of it.
Restores(ci, addr, read) ==
  /\ Address!Encoded(read) = addr
  /\ Len(read.regions) = Len(ci.regions)
  /\ \A i \in DOMAIN read.regions :
       LET r == read.regions[i] IN
       /\ i \in DOMAIN ci.regions
       /\ Address!RelayNodes(r.nodes) = Address!RelayNodes(ci.regions[i].nodes)
       /\ r.id > 0
       /\ \A j \in DOMAIN r.nodes : r.nodes[j].region = r.id /\ r.nodes[j].name \in Address!Name
       /\ \A j, k \in DOMAIN r.nodes : r.nodes[j].name = r.nodes[k].name => j = k

\* A ConnInfo is restored.
LEMMA RoundTrip ==
  ASSUME NEW ci, Info(ci), NEW w, w = Address!Encoded(ci), NEW rd, rd = Address!Parsed(w)
  PROVE  Info(rd) /\ Restores(ci, w, rd)
<1> DEFINE W(i) == WireOf(ci.regions[i])
           P(i) == BackOf(ci.regions[i], i)
<1>1. w = [id |-> ci.id, regions |-> [i \in DOMAIN ci.regions |-> W(i)]]
  BY Encodes
<1>2. rd = [id |-> ci.id, regions |-> [i \in DOMAIN ci.regions |-> P(i)]]
  BY ParsesBack
<1>3. ASSUME NEW i \in DOMAIN ci.regions
      PROVE  /\ InfoRegion(P(i))
             /\ WireOf(P(i)) = W(i)
             /\ Address!RelayNodes(P(i).nodes) = Address!RelayNodes(ci.regions[i].nodes)
             /\ P(i).id = i /\ i > 0
             /\ \A j \in DOMAIN P(i).nodes :
                  P(i).nodes[j].region = i /\ P(i).nodes[j].name \in Address!Name
             /\ \A j, k \in DOMAIN P(i).nodes : P(i).nodes[j].name = P(i).nodes[k].name => j = k
  <2>1. InfoRegion(ci.regions[i]) /\ i \in Nat \ {0}
    BY DEF Info, InfoRegions
  <2> QED
    BY <2>1, RegionReturns
<1> HIDE DEF W, P
<1>6. DOMAIN rd.regions = DOMAIN ci.regions /\ rd.id = ci.id
      /\ \A i \in DOMAIN ci.regions : rd.regions[i] = P(i)
  BY <1>2
<1>0. DOMAIN ci.regions = 1 .. Len(ci.regions) /\ Len(ci.regions) \in Nat
  OBVIOUS
<1>7. Len(rd.regions) = Len(ci.regions)
  <2> DEFINE n == Len(ci.regions)
  <2>1. DOMAIN ci.regions = 1 .. n /\ n \in Nat
    OBVIOUS
  <2> HIDE DEF n
  <2>2. rd.regions = [i \in 1 .. n |-> P(i)]
    BY <1>2, <2>1
  <2>3. Len(rd.regions) = n
    BY <2>1, <2>2
  <2> QED
    BY <2>3 DEF n
<1>8. Info(rd)
  <2>1. rd = [id |-> rd.id, regions |-> rd.regions]
    BY <1>2
  <2>2. InfoRegions(rd.regions)
    BY <1>3, <1>6 DEF InfoRegions
  <2> QED
    BY <2>1, <2>2 DEF Info
<1>9. Address!Encoded(rd) = w
  <2>1. Address!Encoded(rd) =
           [id |-> rd.id, regions |-> [i \in DOMAIN rd.regions |-> WireOf(rd.regions[i])]]
    BY <1>8, Encodes
  <2>2. \A i \in DOMAIN ci.regions : WireOf(rd.regions[i]) = W(i)
    BY <1>3, <1>6
  <2> QED
    BY <1>1, <1>6, <2>1, <2>2
<1>10. Restores(ci, w, rd)
  BY <1>3, <1>6, <1>9 DEF Restores
<1> QED
  BY <1>8, <1>10

\* The nodes of a map are nodes of a ConnInfo.
LEMMA MapNodesAreInfo ==
  ASSUME NEW r \in Nat, NEW nodes \in Address!MapNodes(r)
  PROVE  /\ nodes \in Seq(InfoNode) /\ OwnKeys(nodes)
         /\ \A i \in DOMAIN nodes : nodes[i].region = r
<1>1. PICK n \in DOMAIN AddressKeys, h \in BOOLEAN, stuns \in SUBSET DOMAIN AddressKeys :
        nodes = [i \in 1 .. n |-> Address!MapNode(AddressKeys[i], r, h, i \in stuns)]
  BY SMTT(60) DEF Address!MapNodes
<1>2. n \in Nat /\ \A i \in 1 .. n : i \in DOMAIN AddressKeys
  BY AddressConstants
<1>3. \A i \in 1 .. n : Address!MapNode(AddressKeys[i], r, h, i \in stuns) \in InfoNode
  BY <1>2 DEF Address!MapNode, InfoNode, Address!Key, Address!Name
<1>4. \A i \in 1 .. n : nodes[i] \in InfoNode /\ nodes[i].key = AddressKeys[i]
  BY <1>1, <1>3 DEF Address!MapNode
<1>5. DOMAIN nodes = 1 .. n
  BY <1>1
<1>6. OwnKeys(nodes)
  BY <1>4, <1>5, AddressConstants DEF OwnKeys
<1>7. nodes \in Seq(InfoNode)
  BY <1>1, <1>2, <1>3
<1>8. ASSUME NEW i \in DOMAIN nodes PROVE nodes[i].region = r
  <2>1. nodes[i] = Address!MapNode(AddressKeys[i], r, h, i \in stuns)
    BY <1>1
  <2> QED
    BY <2>1 DEF Address!MapNode
<1> QED
  BY <1>6, <1>7, <1>8

\* The same nodes in another region.
LEMMA MovedAreInfo ==
  ASSUME NEW nodes \in Seq(InfoNode), OwnKeys(nodes), NEW moved,
         DOMAIN moved = DOMAIN nodes,
         \A j \in DOMAIN nodes : \E g \in Nat : moved[j] = [nodes[j] EXCEPT !.region = g],
         moved = [j \in DOMAIN nodes |-> moved[j]]
  PROVE  moved \in Seq(InfoNode) /\ OwnKeys(moved)
<1>1. ASSUME NEW j \in DOMAIN nodes PROVE moved[j] \in InfoNode /\ moved[j].key = nodes[j].key
  <2>1. PICK g \in Nat : moved[j] = [nodes[j] EXCEPT !.region = g]
    OBVIOUS
  <2> DEFINE n == nodes[j]
  <2>2. n \in InfoNode
    OBVIOUS
  <2> HIDE DEF n
  <2>3. [n EXCEPT !.region = g] \in InfoNode /\ [n EXCEPT !.region = g].key = n.key
    BY <2>2 DEF InfoNode
  <2> QED
    BY <2>1, <2>3 DEF n
<1>2. DOMAIN nodes = 1 .. Len(nodes) /\ Len(nodes) \in Nat
  OBVIOUS
<1>3. OwnKeys(moved)
  BY <1>1 DEF OwnKeys
<1> DEFINE l == Len(nodes)
<1> HIDE DEF l
<1>4. moved = [j \in 1 .. l |-> moved[j]] /\ l \in Nat /\ \A j \in 1 .. l : moved[j] \in InfoNode
  BY <1>1 DEF l
<1> QED
  BY <1>3, <1>4

\* Regions that are numbered anew are regions of a ConnInfo.
LEMMA NumberedIsInfo ==
  ASSUME NEW r, InfoRegion(r)
  PROVE  InfoRegion(Address!Numbered(r))
<1> DEFINE id == IF r.id = 0 THEN 1 ELSE r.id
           moved == [j \in DOMAIN r.nodes |-> [r.nodes[j] EXCEPT !.region = IF @ = 0 THEN id ELSE @]]
<1>1. id \in Nat
  BY DEF InfoRegion
<1> HIDE DEF id
<1>2. Address!Numbered(r) = [id |-> id, code |-> r.code, nodes |-> moved]
  <2> DEFINE t == [r EXCEPT !.id = id]
  <2>1. t = [id |-> id, code |-> r.code, nodes |-> r.nodes]
    BY DEF InfoRegion
  <2>2. Address!Numbered(r) = [t EXCEPT !.nodes = moved]
    BY DEF Address!Numbered, id
  <2> HIDE DEF t, moved
  <2> QED
    BY <2>1, <2>2
<1>3. \A j \in DOMAIN r.nodes : \E g \in Nat : moved[j] = [r.nodes[j] EXCEPT !.region = g]
  <2>1. ASSUME NEW j \in DOMAIN r.nodes PROVE \E g \in Nat : moved[j] = [r.nodes[j] EXCEPT !.region = g]
    <3>1. r.nodes[j].region \in Nat
      BY DEF InfoRegion, InfoNode
    <3> DEFINE g == IF r.nodes[j].region = 0 THEN id ELSE r.nodes[j].region
    <3>2. g \in Nat /\ moved[j] = [r.nodes[j] EXCEPT !.region = g]
      BY <1>1, <3>1
    <3> QED
      BY <3>2
  <2> QED
    BY <2>1
<1>4. DOMAIN moved = DOMAIN r.nodes /\ moved = [j \in DOMAIN r.nodes |-> moved[j]]
  OBVIOUS
<1> HIDE DEF moved
<1>5. moved \in Seq(InfoNode) /\ OwnKeys(moved)
  BY <1>3, <1>4, MovedAreInfo DEF InfoRegion
<1> QED
  BY <1>1, <1>2, <1>5 DEF InfoRegion

\* So are nodes in another order.
LEMMA ShuffledIsInfo ==
  ASSUME NEW nodes \in Seq(InfoNode), OwnKeys(nodes), NEW s \in Address!Shuffles(nodes)
  PROVE  s \in Seq(InfoNode) /\ OwnKeys(s)
<1>1. CASE s = nodes
  BY <1>1
<1>2. CASE s = Address!Reverse(nodes)
  <2> DEFINE n == Len(nodes)
  <2>1. n \in Nat /\ DOMAIN nodes = 1 .. n
    OBVIOUS
  <2> HIDE DEF n
  <2>2. s = [i \in 1 .. n |-> nodes[(n - i) + 1]]
    BY <1>2 DEF Address!Reverse, n
  <2>3. \A i \in 1 .. n : (n - i) + 1 \in 1 .. n
    BY <2>1
  <2>4. s \in Seq(InfoNode)
    BY <2>1, <2>2
  <2>5. OwnKeys(s)
    BY <2>1, <2>2 DEF OwnKeys
  <2> QED
    BY <2>4, <2>5
<1> QED
  BY <1>2 DEF Address!Shuffles

\* And what Expand, or a lookup, makes of a ConnInfo.
LEMMA ExpandedIsInfo ==
  ASSUME InfoRegions(x1), NEW ci, Info(ci), NEW e \in Address!Expansions(ci)
  PROVE  Info(e)
<1>1. CASE ci.regions # <<>> \/ ci.id = 0
  <2>1. e = [ci EXCEPT !.regions = [i \in DOMAIN @ |-> Address!Numbered(@[i])]]
    BY <1>1 DEF Address!Expansions
  <2> DEFINE n == Len(ci.regions)
             regs == [i \in 1 .. n |-> Address!Numbered(ci.regions[i])]
  <2>2. DOMAIN ci.regions = 1 .. n /\ n \in Nat
        /\ \A i \in 1 .. n : InfoRegion(Address!Numbered(ci.regions[i]))
    BY NumberedIsInfo DEF Info, InfoRegions
  <2>3. e = [id |-> ci.id, regions |-> regs]
    BY <2>1 DEF Info
  <2> HIDE DEF n
  <2>4. InfoRegions(regs)
    BY <2>2 DEF InfoRegions
  <2> QED
    BY <2>3, <2>4 DEF Info
<1>2. CASE ~ (ci.regions # <<>> \/ ci.id = 0) /\ ci.id = -1
  <2>1. PICK pick \in UNION {{r} \X Address!Shuffles(x1[r].nodes) : r \in DOMAIN x1} :
          e = [id |-> 0, regions |-> <<[x1[pick[1]] EXCEPT !.nodes = pick[2]]>>]
    BY <1>2 DEF Address!Expansions
  <2>2. PICK r \in DOMAIN x1 : pick[1] = r /\ pick[2] \in Address!Shuffles(x1[r].nodes)
    OBVIOUS
  <2>3. InfoRegion(x1[r])
    BY DEF InfoRegions
  <2>4. pick[2] \in Seq(InfoNode) /\ OwnKeys(pick[2])
    BY <2>2, <2>3, ShuffledIsInfo DEF InfoRegion
  <2> DEFINE q == [x1[r] EXCEPT !.nodes = pick[2]]
  <2>5. q = [id |-> x1[r].id, code |-> x1[r].code, nodes |-> pick[2]]
    BY <2>3 DEF InfoRegion
  <2>6. e = [id |-> 0, regions |-> <<q>>]
    BY <2>1, <2>2
  <2> HIDE DEF q
  <2>7. InfoRegion(q)
    BY <2>3, <2>4, <2>5 DEF InfoRegion
  <2>8. InfoRegions(<<q>>)
    BY <2>7 DEF InfoRegions
  <2> QED
    BY <2>6, <2>8 DEF Info
<1>3. CASE ~ (ci.regions # <<>> \/ ci.id = 0) /\ ci.id # -1
  <2>1. ci.id \in DOMAIN x1 /\ e = [ci EXCEPT !.regions = <<x1[ci.id]>>]
    BY <1>3 DEF Address!Expansions
  <2> DEFINE q == x1[ci.id]
  <2>2. InfoRegion(q)
    BY <2>1 DEF InfoRegions
  <2>3. e = [id |-> ci.id, regions |-> <<q>>]
    BY <2>1 DEF Info
  <2> HIDE DEF q
  <2>4. InfoRegions(<<q>>)
    BY <2>2 DEF InfoRegions
  <2> QED
    BY <2>3, <2>4 DEF Info
<1> QED
  BY <1>1, <1>2, <1>3

\* And what is left of one that is shortened.
LEMMA ShortenedIsInfo ==
  ASSUME NEW ci, Info(ci)
  PROVE  Info(Address!Shortened(ci))
<1> DEFINE cut(i) == SubSeq(ci.regions[i].nodes, 1,
                       IF Len(ci.regions[i].nodes) < 2 THEN Len(ci.regions[i].nodes) ELSE 2)
           q(i) == [ci.regions[i] EXCEPT !.nodes =
                      SubSeq(@, 1, IF Len(@) < 2 THEN Len(@) ELSE 2)]
<1>1. ASSUME NEW i \in DOMAIN ci.regions PROVE InfoRegion(q(i))
  <2> DEFINE r == ci.regions[i]
             nodes == r.nodes
             m == IF Len(nodes) < 2 THEN Len(nodes) ELSE 2
  <2>1. InfoRegion(r)
    BY DEF Info, InfoRegions
  <2> HIDE DEF r
  <2>2. nodes \in Seq(InfoNode) /\ OwnKeys(nodes)
    BY <2>1 DEF InfoRegion
  <2>3. [r EXCEPT !.nodes = SubSeq(@, 1, IF Len(@) < 2 THEN Len(@) ELSE 2)]
          = [id |-> r.id, code |-> r.code, nodes |-> SubSeq(nodes, 1, m)]
    BY <2>1 DEF InfoRegion
  <2> HIDE DEF nodes
  <2>4. m \in Nat /\ m <= Len(nodes)
    OBVIOUS
  <2> HIDE DEF m
  <2> DEFINE c == SubSeq(nodes, 1, m)
  <2>5. c \in Seq(InfoNode) /\ \A j \in DOMAIN c : j \in DOMAIN nodes /\ c[j] = nodes[j]
    BY <2>2, <2>4
  <2>6. OwnKeys(c)
    BY <2>2, <2>5 DEF OwnKeys
  <2> HIDE DEF c
  <2>7. InfoRegion([id |-> r.id, code |-> r.code, nodes |-> c])
    BY <2>1, <2>5, <2>6 DEF InfoRegion
  <2>8. InfoRegion([r EXCEPT !.nodes = SubSeq(@, 1, IF Len(@) < 2 THEN Len(@) ELSE 2)])
    BY <2>3, <2>7 DEF c
  <2> QED
    BY <2>8 DEF r
<1>2. Address!Shortened(ci) = [id |-> 0, regions |-> [i \in DOMAIN ci.regions |-> q(i)]]
  BY DEF Address!Shortened
<1> HIDE DEF q
<1> DEFINE n == Len(ci.regions)
<1>3. DOMAIN ci.regions = 1 .. n /\ n \in Nat
  OBVIOUS
<1> HIDE DEF n
<1>4. InfoRegions([i \in 1 .. n |-> q(i)])
  BY <1>1, <1>3 DEF InfoRegions
<1> QED
  BY <1>2, <1>3, <1>4 DEF Info

\* The regions of a server's map are two.
Numbers(regions) ==
  \A i \in DOMAIN regions :
    /\ regions[i].id \in 0 .. 2
    /\ \A j \in DOMAIN regions[i].nodes : regions[i].nodes[j].region \in 0 .. 2

\* Numbering leaves them so, ...
LEMMA NumberedNumbers ==
  ASSUME NEW r, InfoRegion(r), r.id \in 0 .. 2, \A j \in DOMAIN r.nodes : r.nodes[j].region \in 0 .. 2
  PROVE  /\ Address!Numbered(r).id \in 0 .. 2
         /\ \A j \in DOMAIN Address!Numbered(r).nodes :
              Address!Numbered(r).nodes[j].region \in 0 .. 2
<1> DEFINE id == IF r.id = 0 THEN 1 ELSE r.id
           moved == [j \in DOMAIN r.nodes |-> [r.nodes[j] EXCEPT !.region = IF @ = 0 THEN id ELSE @]]
<1>1. id \in 0 .. 2
  OBVIOUS
<1> HIDE DEF id
<1>2. Address!Numbered(r).id = id /\ Address!Numbered(r).nodes = moved
  <2> DEFINE t == [r EXCEPT !.id = id]
  <2>1. t = [id |-> id, code |-> r.code, nodes |-> r.nodes]
    BY DEF InfoRegion
  <2>2. Address!Numbered(r) = [t EXCEPT !.nodes = moved]
    BY DEF Address!Numbered, id
  <2> HIDE DEF t, moved
  <2> QED
    BY <2>1, <2>2
<1>3. ASSUME NEW j \in DOMAIN r.nodes PROVE moved[j].region \in 0 .. 2
  <2> DEFINE n == r.nodes[j]
  <2>1. n \in InfoNode /\ n.region \in 0 .. 2
    BY DEF InfoRegion
  <2>2. moved[j] = [n EXCEPT !.region = IF n.region = 0 THEN id ELSE n.region]
    OBVIOUS
  <2> HIDE DEF n
  <2>3. n = [key |-> n.key, name |-> n.name, host |-> n.host, region |-> n.region,
             stunOnly |-> n.stunOnly]
    BY <2>1 DEF InfoNode
  <2> QED
    BY <1>1, <2>1, <2>2, <2>3
<1>4. DOMAIN moved = DOMAIN r.nodes
  OBVIOUS
<1> HIDE DEF moved
<1> QED
  BY <1>1, <1>2, <1>3, <1>4

\* ... and so do Expand, and a lookup.
LEMMA ExpandedNumbers ==
  ASSUME InfoRegions(x1), Numbers(x1), NEW ci, Info(ci), Numbers(ci.regions), ci.id \in -1 .. 3,
         NEW e \in Address!Expansions(ci)
  PROVE  Numbers(e.regions) /\ e.id \in -1 .. 3
<1>1. CASE ci.regions # <<>> \/ ci.id = 0
  <2>1. e = [ci EXCEPT !.regions = [i \in DOMAIN @ |-> Address!Numbered(@[i])]]
    BY <1>1 DEF Address!Expansions
  <2> DEFINE regs == [i \in DOMAIN ci.regions |-> Address!Numbered(ci.regions[i])]
  <2>2. e = [id |-> ci.id, regions |-> regs]
    BY <2>1 DEF Info
  <2>3. ASSUME NEW i \in DOMAIN ci.regions
        PROVE  /\ regs[i].id \in 0 .. 2
               /\ \A j \in DOMAIN regs[i].nodes : regs[i].nodes[j].region \in 0 .. 2
    <3> DEFINE r == ci.regions[i]
    <3>1. InfoRegion(r) /\ r.id \in 0 .. 2 /\ \A j \in DOMAIN r.nodes : r.nodes[j].region \in 0 .. 2
      BY DEF Info, InfoRegions, Numbers
    <3>2. regs[i] = Address!Numbered(r)
      OBVIOUS
    <3> HIDE DEF r, regs
    <3> QED
      BY <3>1, <3>2, NumberedNumbers
  <2>4. DOMAIN regs = DOMAIN ci.regions
    OBVIOUS
  <2> HIDE DEF regs
  <2>5. Numbers(regs)
    BY <2>3, <2>4 DEF Numbers
  <2> QED
    BY <2>2, <2>5
<1>2. CASE ~ (ci.regions # <<>> \/ ci.id = 0) /\ ci.id = -1
  <2>1. PICK pick \in UNION {{r} \X Address!Shuffles(x1[r].nodes) : r \in DOMAIN x1} :
          e = [id |-> 0, regions |-> <<[x1[pick[1]] EXCEPT !.nodes = pick[2]]>>]
    BY <1>2 DEF Address!Expansions
  <2>2. PICK r \in DOMAIN x1 : pick[1] = r /\ pick[2] \in Address!Shuffles(x1[r].nodes)
    OBVIOUS
  <2> DEFINE nodes == x1[r].nodes
             s == pick[2]
             q == [x1[r] EXCEPT !.nodes = pick[2]]
  <2>3. InfoRegion(x1[r]) /\ x1[r].id \in 0 .. 2 /\ \A j \in DOMAIN nodes : nodes[j].region \in 0 .. 2
    BY DEF InfoRegions, Numbers
  <2>4. q.id = x1[r].id /\ q.nodes = s
    BY <2>3 DEF InfoRegion
  <2>5. e = [id |-> 0, regions |-> <<q>>]
    BY <2>1, <2>2
  <2>6. nodes \in Seq(InfoNode) /\ s \in Address!Shuffles(nodes)
    BY <2>2, <2>3 DEF InfoRegion
  <2> HIDE DEF q, nodes, s
  <2>7. \A j \in DOMAIN s : s[j].region \in 0 .. 2
    <3>1. CASE s = nodes
      BY <2>3, <3>1
    <3>2. CASE s = Address!Reverse(nodes)
      <4> DEFINE n == Len(nodes)
      <4>1. n \in Nat /\ DOMAIN nodes = 1 .. n
        BY <2>6
      <4> HIDE DEF n
      <4>2. s = [i \in 1 .. n |-> nodes[(n - i) + 1]]
        BY <3>2 DEF Address!Reverse, n
      <4>3. \A i \in 1 .. n : (n - i) + 1 \in 1 .. n
        BY <4>1
      <4> QED
        BY <2>3, <4>1, <4>2, <4>3
    <3> QED
      BY <2>6, <3>1, <3>2 DEF Address!Shuffles
  <2>8. Numbers(<<q>>)
    BY <2>3, <2>4, <2>7 DEF Numbers
  <2> QED
    BY <2>5, <2>8
<1>3. CASE ~ (ci.regions # <<>> \/ ci.id = 0) /\ ci.id # -1
  <2>1. ci.id \in DOMAIN x1 /\ e = [ci EXCEPT !.regions = <<x1[ci.id]>>]
    BY <1>3 DEF Address!Expansions
  <2> DEFINE q == x1[ci.id]
  <2>2. q.id \in 0 .. 2 /\ \A j \in DOMAIN q.nodes : q.nodes[j].region \in 0 .. 2
    BY <2>1 DEF Numbers
  <2>3. e = [id |-> ci.id, regions |-> <<q>>]
    BY <2>1 DEF Info
  <2> HIDE DEF q
  <2>4. Numbers(<<q>>)
    BY <2>2 DEF Numbers
  <2> QED
    BY <2>3, <2>4
<1> QED
  BY <1>1, <1>2, <1>3

\* The nodes and the regions of an address, written or read, with any numbers.
WireNode == [key : Address!Key, name : Address!Name \cup {None}, host : BOOLEAN, region : Nat,
             stunOnly : BOOLEAN]

Regions ==
  Seq([id : Nat, code : {None} \cup Nat, nodes : Seq(WireNode)])

\* None is not made of regions.
LEMMA RegionsIsSome ==
  ASSUME NEW w, NEW n \in Nat, w.regions \in [1 .. n -> [id : Nat, code : {None} \cup Nat,
                                                              nodes : Seq(WireNode)]],
         w = [id |-> w.id, regions |-> w.regions], w.id \in Int
  PROVE  w # None
<1> DEFINE R == [id : Nat, code : {None} \cup Nat, nodes : Seq(WireNode)]
<1>1. w.regions \in [1 .. n -> R]
  OBVIOUS
<1> HIDE DEF R
<1>2. w.regions \in Seq(R)
  BY <1>1
<1>3. w.regions \in Regions
  BY <1>2 DEF R, Regions
<1> HIDE DEF R
<1> DEFINE r == w.regions
           i == w.id
<1>4. i \in Int /\ r \in Regions /\ w = [id |-> i, regions |-> r]
  BY <1>3
<1> HIDE DEF r, i
<1>5. w \in [id : Int, regions : Regions]
  BY <1>4
<1> QED
  BY <1>5, RelayConstants DEF Regions, WireNode

\* What is written of a ConnInfo is not None, ...
LEMMA EncodedIsSome ==
  ASSUME NEW ci, Info(ci), ci.id \in Int PROVE Address!Encoded(ci) # None
<1> DEFINE n == Len(ci.regions)
           w == Address!Encoded(ci)
           W(i) == WireOf(ci.regions[i])
<1>1. DOMAIN ci.regions = 1 .. n /\ n \in Nat
  BY DEF Info, InfoRegions
<1>2. w = [id |-> ci.id, regions |-> [i \in 1 .. n |-> W(i)]]
  BY <1>1, Encodes
<1>3. ASSUME NEW i \in 1 .. n
      PROVE  W(i) \in [id : Nat, code : {None} \cup Nat, nodes : Seq(WireNode)]
  <2> DEFINE k == Address!Relaying(ci.regions[i].nodes)
             q == [j \in DOMAIN k |-> Written(k[j])]
  <2>1. k \in Seq(InfoNode)
    BY <1>1, RelayingIsSome DEF Info, InfoRegions, InfoRegion
  <2>2. W(i) = [id |-> 0, code |-> None, nodes |-> q]
    BY DEF WireOf, Address!Region
  <2> HIDE DEF k, W
  <2>3. ASSUME NEW j \in DOMAIN k PROVE Written(k[j]) \in WireNode
    <3>1. k[j] \in InfoNode
      BY <2>1
    <3> QED
      BY <3>1 DEF InfoNode, Written, WireNode
  <2>4. q \in Seq(WireNode)
    <3> DEFINE S == WireNode
    <3>1. q = [j \in 1 .. Len(k) |-> Written(k[j])] /\ Len(k) \in Nat /\ DOMAIN k = 1 .. Len(k)
      BY <2>1
    <3>2. \A j \in 1 .. Len(k) : Written(k[j]) \in S
      BY <2>3, <3>1
    <3> HIDE DEF q, S
    <3> QED
      BY <3>1, <3>2 DEF S
  <2> HIDE DEF q
  <2> QED
    BY <2>2, <2>4
<1> HIDE DEF n, w, W
<1>4. w.regions \in [1 .. n -> [id : Nat, code : {None} \cup Nat, nodes : Seq(WireNode)]]
  BY <1>2, <1>3
<1>5. w = [id |-> w.id, regions |-> w.regions] /\ w.id \in Int
  BY <1>2
<1>6. w # None
  BY <1>1, <1>4, <1>5, RegionsIsSome
<1> QED
  BY <1>6 DEF w

\* ... nor is what is read of that.
LEMMA ParsedIsSome ==
  ASSUME NEW ci, Info(ci), ci.id \in Int PROVE Address!Parsed(Address!Encoded(ci)) # None
<1> DEFINE n == Len(ci.regions)
           w == Address!Parsed(Address!Encoded(ci))
           W(i) == BackOf(ci.regions[i], i)
<1>1. DOMAIN ci.regions = 1 .. n /\ n \in Nat
  BY DEF Info, InfoRegions
<1>2. w = [id |-> ci.id, regions |-> [i \in 1 .. n |-> W(i)]]
  BY <1>1, ParsesBack
<1>3. ASSUME NEW i \in 1 .. n
      PROVE  W(i) \in [id : Nat, code : {None} \cup Nat, nodes : Seq(WireNode)]
  <2>1. InfoRegion(W(i)) /\ W(i).id = i
    <3>1. InfoRegion(ci.regions[i]) /\ i \in Nat \ {0}
      BY <1>1 DEF Info, InfoRegions
    <3> QED
      BY <3>1, RegionReturns
  <2>2. W(i).code = i /\ i \in Nat \ {0}
    BY <1>1 DEF BackOf, Address!Region
  <2> DEFINE r == W(i)
             q == r.nodes
  <2>3. r = [id |-> i, code |-> i, nodes |-> q] /\ q \in Seq(InfoNode)
    BY <2>1, <2>2 DEF InfoRegion
  <2>4. InfoNode \subseteq WireNode
    BY DEF InfoNode, WireNode
  <2> HIDE DEF r, q
  <2> DEFINE S == WireNode
  <2>5. q \in Seq(S)
    <3> HIDE DEF S
    <3>1. InfoNode \subseteq S
      BY <2>4 DEF S
    <3> QED
      BY <2>3, <3>1
  <2>6. r \in [id : Nat, code : {None} \cup Nat, nodes : Seq(S)]
    <3> HIDE DEF S
    <3> QED
      BY <2>2, <2>3, <2>5
  <2> QED
    BY <2>6 DEF r
<1> HIDE DEF n, w, W
<1>4. w.regions \in [1 .. n -> [id : Nat, code : {None} \cup Nat, nodes : Seq(WireNode)]]
  BY <1>2, <1>3
<1>5. w = [id |-> w.id, regions |-> w.regions] /\ w.id \in Int
  BY <1>2
<1>6. w # None
  BY <1>1, <1>4, <1>5, RegionsIsSome
<1> QED
  BY <1>6 DEF w

\* What is known of an address at each step of its way.
AddressInv ==
  /\ InfoRegions(x1) /\ Info(x2)
  /\ Numbers(x1) /\ Numbers(x2.regions) /\ x2.id \in -1 .. 3
  /\ x3 \in {"given", "expanded", "encoded", "parsed", "resolved", "done"}
  /\ x3 \in {"given", "expanded"} => x4 = None
  /\ x3 \in {"given", "expanded", "encoded"} => x5 = None
  /\ x3 = "resolved" => x5 # None
  /\ x3 \in {"encoded", "parsed"} => x4 = Address!Encoded(x2)
  /\ x3 \in {"resolved", "done"} => x4 = Address!Encoded(Address!Shortened(x2))
  /\ x3 \in {"parsed", "done"} => x5 = Address!Parsed(x4)

\* A server has a ConnInfo at first.
LEMMA AddressInit ==
  ASSUME Address!Init PROVE AddressInv
<1> DEFINE n == Address!MapNode(AddressKeys[1], 2, TRUE, FALSE)
<1>1. PICK a \in Address!MapNodes(1) :
        x1 = <<Address!Region(1, "one", a), Address!Region(2, "two", <<n>>)>>
  BY DEF Address!Init, Address!Maps
<1>2. <<n>> \in Seq(InfoNode) /\ OwnKeys(<<n>>)
  <2>1. 1 \in DOMAIN AddressKeys
    BY AddressConstants
  <2>2. n \in InfoNode
    BY <2>1 DEF Address!MapNode, InfoNode, Address!Key, Address!Name
  <2> HIDE DEF n
  <2>3. <<n>> \in Seq(InfoNode) /\ Len(<<n>>) = 1
    BY <2>2
  <2>4. \A i, j \in DOMAIN <<n>> : i = j
    OBVIOUS
  <2> QED
    BY <2>3 DEF OwnKeys
<1> HIDE DEF n
<1>8. a \in Seq(InfoNode) /\ OwnKeys(a) /\ \A j \in DOMAIN a : a[j].region = 1
  <2> DEFINE one == 1
  <2>1. one \in Nat /\ a \in Address!MapNodes(one)
    OBVIOUS
  <2> HIDE DEF one
  <2>2. a \in Seq(InfoNode) /\ OwnKeys(a) /\ \A j \in DOMAIN a : a[j].region = one
    BY <2>1, MapNodesAreInfo
  <2> QED
    BY <2>2 DEF one
<1>3. InfoRegion(x1[1]) /\ InfoRegion(x1[2]) /\ DOMAIN x1 = 1 .. 2 /\ Len(x1) = 2
  BY <1>1, <1>2, <1>8 DEF Address!Region, InfoRegion
<1>6. Numbers(x1)
  <2>1. \A j \in DOMAIN a : a[j].region = 1
    BY <1>8
  <2>2. <<n>>[1].region = 2 /\ DOMAIN <<n>> = {1}
    BY DEF n, Address!MapNode
  <2>3. \A j \in DOMAIN <<n>> : <<n>>[j].region = 2
    BY <2>2
  <2>4. x1[1].id = 1 /\ x1[1].nodes = a /\ x1[2].id = 2 /\ x1[2].nodes = <<n>>
    BY <1>1 DEF Address!Region
  <2> DEFINE t == <<n>>
  <2> HIDE DEF t
  <2>5. \A i \in DOMAIN x1 : i = 1 \/ i = 2
    BY <1>3
  <2> QED
    BY <2>1, <2>3, <2>4, <2>5 DEF Numbers, t
<1>4. InfoRegions(x1)
  BY <1>3 DEF InfoRegions
<1>5. Info(x2)
  <2>1. CASE x2 \in [id : -1 .. 3, regions : {<<>>}]
    BY <2>1 DEF Info, InfoRegions
  <2>2. CASE x2 = [id |-> 0, regions |-> x1]
    BY <1>4, <2>2 DEF Info
  <2>3. CASE x2 = [id |-> 0, regions |-> <<Address!Region(0, None,
                [j \in DOMAIN x1[1].nodes |-> [x1[1].nodes[j] EXCEPT !.region = 0]])>>]
    <3> DEFINE moved == [j \in DOMAIN x1[1].nodes |-> [x1[1].nodes[j] EXCEPT !.region = 0]]
               q == Address!Region(0, None, moved)
    <3>1. moved \in Seq(InfoNode) /\ OwnKeys(moved)
      <4>1. DOMAIN moved = DOMAIN x1[1].nodes /\ moved = [j \in DOMAIN x1[1].nodes |-> moved[j]]
            /\ \A j \in DOMAIN x1[1].nodes : moved[j] = [x1[1].nodes[j] EXCEPT !.region = 0]
        OBVIOUS
      <4> HIDE DEF moved
      <4> QED
        BY <1>3, <4>1, MovedAreInfo DEF InfoRegion
    <3> HIDE DEF moved
    <3>2. InfoRegion(q)
      BY <3>1 DEF InfoRegion, Address!Region
    <3>3. x2 = [id |-> 0, regions |-> <<q>>]
      BY <2>3 DEF moved
    <3> HIDE DEF q
    <3>4. InfoRegions(<<q>>)
      BY <3>2 DEF InfoRegions
    <3> QED
      BY <3>3, <3>4 DEF Info
  <2> QED
    BY <2>1, <2>2, <2>3 DEF Address!Init
<1>7. Numbers(x2.regions) /\ x2.id \in -1 .. 3
  <2>1. CASE x2 \in [id : -1 .. 3, regions : {<<>>}]
    BY <2>1 DEF Numbers
  <2>2. CASE x2 = [id |-> 0, regions |-> x1]
    BY <1>6, <2>2
  <2>3. CASE x2 = [id |-> 0, regions |-> <<Address!Region(0, None,
                [j \in DOMAIN x1[1].nodes |-> [x1[1].nodes[j] EXCEPT !.region = 0]])>>]
    <3> DEFINE moved == [j \in DOMAIN x1[1].nodes |-> [x1[1].nodes[j] EXCEPT !.region = 0]]
               q == Address!Region(0, None, moved)
    <3>1. ASSUME NEW j \in DOMAIN moved PROVE moved[j].region = 0
      <4> DEFINE m == x1[1].nodes[j]
      <4>1. m \in InfoNode
        BY <1>3 DEF InfoRegion
      <4>2. moved[j] = [m EXCEPT !.region = 0]
        OBVIOUS
      <4> HIDE DEF m
      <4> QED
        BY <4>1, <4>2 DEF InfoNode
    <3> HIDE DEF moved
    <3>2. q.id = 0 /\ q.nodes = moved
      BY DEF Address!Region
    <3>3. x2 = [id |-> 0, regions |-> <<q>>]
      BY <2>3 DEF moved
    <3> HIDE DEF q
    <3>4. Numbers(<<q>>)
      BY <3>1, <3>2 DEF Numbers
    <3> QED
      BY <3>3, <3>4
  <2> QED
    BY <2>1, <2>2, <2>3 DEF Address!Init
<1> QED
  BY <1>4, <1>5, <1>6, <1>7 DEF AddressInv, Address!Init

\* Every step keeps AddressInv.
LEMMA AddressStep ==
  ASSUME AddressInv, Address!Next \/ UNCHANGED xs PROVE AddressInv'
<1>1. CASE Address!Expands
  BY <1>1, ExpandedIsInfo, ExpandedNumbers DEF Address!Expands, AddressInv
<1>2. CASE Address!Resolves
  <2>1. Info(x5)
    BY <1>2, RoundTrip DEF Address!Resolves, AddressInv
  <2>2. Info(x2') /\ x4' = Address!Encoded(Address!Shortened(x2'))
    BY <1>2, <2>1, ExpandedIsInfo DEF Address!Resolves, AddressInv
  <2>3. x5 = Address!Parsed(Address!Encoded(x2)) /\ Info(x2) /\ x2.id \in -1 .. 3
    BY <1>2 DEF Address!Resolves, AddressInv
  <2>4. x5 # None /\ x5.id = x2.id
    BY <2>3, ParsedIsSome, ParsesBack
  <2>5. Numbers(x5.regions)
    BY <1>2 DEF Address!Resolves, Numbers
  <2>6. Numbers(x2'.regions) /\ x2'.id \in -1 .. 3
    BY <1>2, <2>1, <2>3, <2>4, <2>5, ExpandedNumbers DEF Address!Resolves, AddressInv
  <2> QED
    BY <1>2, <2>2, <2>4, <2>6 DEF Address!Resolves, AddressInv
<1>3. CASE Address!Encodes
  BY <1>3 DEF Address!Encodes, AddressInv
<1>4. CASE Address!Parses
  BY <1>4 DEF Address!Parses, AddressInv
<1>5. CASE UNCHANGED xs
  BY <1>5 DEF xs, AddressInv
<1> QED
  BY <1>1, <1>2, <1>3, <1>4, <1>5 DEF Address!Next

\* AddressInv says enough.
LEMMA AddressImplies ==
  ASSUME AddressInv PROVE Address!AddressRestores
<1>1. CASE x3 = "parsed"
  <2>1. Restores(x2, x4, x5)
    BY <1>1, RoundTrip DEF AddressInv
  <2> QED
    BY <2>1 DEF Restores, Address!AddressRestores
<1>2. CASE x3 = "done"
  <2> DEFINE ci == Address!Shortened(x2)
  <2>1. Info(ci) /\ x4 = Address!Encoded(ci) /\ x5 = Address!Parsed(x4)
    BY <1>2, ShortenedIsInfo DEF AddressInv
  <2> HIDE DEF ci
  <2>2. Restores(ci, x4, x5)
    BY <2>1, RoundTrip
  <2> QED
    BY <1>2, <2>2 DEF Restores, Address!AddressRestores
<1> QED
  BY <1>1, <1>2 DEF Address!AddressRestores

\* And that the types are what they should be.
LEMMA AddressTypes ==
  ASSUME AddressInv PROVE Address!TypeOK
<1>1. ASSUME NEW n \in InfoNode, n.region \in 0 .. 2 PROVE n \in Address!Node
  <2>1. /\ n = [key |-> n.key, name |-> n.name, host |-> n.host, region |-> n.region,
                stunOnly |-> n.stunOnly]
        /\ n.key \in Address!Key /\ n.name \in Address!Name
        /\ n.host \in BOOLEAN /\ n.stunOnly \in BOOLEAN
    <3> DEFINE K == Address!Key
               N == Address!Name
               B == BOOLEAN
               S == [key : K, name : N, host : B, region : Nat, stunOnly : B]
    <3>1. n \in S
      BY DEF InfoNode
    <3> HIDE DEF K, N, B
    <3>2. /\ n = [key |-> n.key, name |-> n.name, host |-> n.host, region |-> n.region,
                  stunOnly |-> n.stunOnly]
          /\ n.key \in K /\ n.name \in N /\ n.host \in B /\ n.stunOnly \in B
      BY <3>1
    <3> QED
      BY <3>2 DEF K, N, B
  <2> DEFINE N == Address!Name \cup {None}
             K == Address!Key
             R == 0 .. 2
             B == BOOLEAN
  <2>2. n.key \in K /\ n.name \in N /\ n.host \in B /\ n.region \in R /\ n.stunOnly \in B
    BY <1>1, <2>1
  <2> HIDE DEF N, K, R, B
  <2>3. n \in [key : K, name : N, host : B, region : R, stunOnly : B]
    BY <2>1, <2>2
  <2> QED
    BY <2>3 DEF Address!Node, N, K, R, B
<1>2. ASSUME NEW i \in DOMAIN x2.regions, NEW j \in DOMAIN x2.regions[i].nodes
      PROVE  x2.regions[i].nodes[j] \in Address!Node
  <2>1. x2.regions[i].nodes \in Seq(InfoNode)
    BY DEF AddressInv, Info, InfoRegions, InfoRegion
  <2> DEFINE s == x2.regions[i].nodes
  <2>2. s \in Seq(InfoNode) /\ j \in DOMAIN s /\ s[j].region \in 0 .. 2
    BY <2>1 DEF AddressInv, Numbers
  <2> HIDE DEF s
  <2>3. s[j] \in InfoNode
    BY <2>2
  <2> QED
    BY <1>1, <2>2, <2>3 DEF s
<1>5. /\ Info(x2) /\ x2.id \in Int
      /\ Info(Address!Shortened(x2)) /\ Address!Shortened(x2).id \in Int
  <2>1. Info(x2) /\ x2.id \in Int
    BY DEF AddressInv
  <2>2. Address!Shortened(x2).id = 0
    BY DEF Address!Shortened
  <2> QED
    BY <2>1, <2>2, ShortenedIsInfo
<1>3. x3 \in {"encoded", "parsed", "resolved", "done"} => x4 # None
  <2> QED
    BY <1>5, EncodedIsSome DEF AddressInv
<1>4. x3 \in {"parsed", "resolved", "done"} => x5 # None
  <2> QED
    BY <1>5, ParsedIsSome DEF AddressInv
<1> QED
  BY <1>2, <1>3, <1>4 DEF AddressInv, Info, Address!TypeOK

-----------------------------------------------------------------------------
(* The endpoint hints.  HintsInv says what an exit prints, and that a client that     *)
(* has read them has them all.                                                       *)

\* A sequence of hints, of whatever it is made.
ASeq(s) == DOMAIN s = 1 .. Len(s) /\ Len(s) \in Nat

\* What is vouched for is not at the proxy, if the port is pinned.
NoProxy(s) == x1.pinned => \A i \in DOMAIN s : s[i].tier = "trusted" => s[i].at[1] # "proxy"

\* What is kept of a sequence is one.
LEMMA KeptIsSeq ==
  ASSUME NEW s, s \in Seq({s[i] : i \in DOMAIN s}), NEW good
  PROVE  ASeq(Hints!Kept(s, good))
<1> DEFINE T == {s[i] : i \in DOMAIN s}
<1>1. s \in Seq(T)
  OBVIOUS
<1> HIDE DEF T
<1>2. Address!Kept(s, good) \in Seq(T \cap good) /\ Hints!Kept(s, good) = Address!Kept(s, good)
  BY <1>1, KeptIsSome, KeptSame
<1>3. Hints!Kept(s, good) \in Seq(T \cap good)
  BY <1>2
<1> QED
  BY DEF ASeq

\* The public hints are at most two, of which none is of the LAN.
LEMMA PublicHints ==
  ASSUME NEW s
  PROVE  LET pub == Hints!HintsV4(s) \o Hints!HintsV6 IN
         /\ ASeq(pub) /\ Len(pub) <= 2 /\ NoProxy(pub)
         /\ \A i \in DOMAIN pub : pub[i].at[1] # "lan"
<1> DEFINE Ok(h) == /\ h.at[1] # "lan"
                    /\ (x1.pinned /\ h.tier = "trusted") => h.at[1] # "proxy"
<1>1. \/ Hints!HintsV4(s) = <<>>
      \/ \E h : Hints!HintsV4(s) = <<h>> /\ Ok(h)
  <2>1. CASE Hints!Stun = None \/ x1.nat = "symmetric"
             \/ (x1.pinned /\ Hints!Stun[2] # Hints!Local)
    BY <2>1 DEF Hints!HintsV4
  <2>2. CASE ~ (Hints!Stun = None \/ x1.nat = "symmetric"
                \/ (x1.pinned /\ Hints!Stun[2] # Hints!Local))
    <3>1. Hints!Stun \in {<<"self", "listen">>, <<"router", "listen">>, <<"router", "other">>,
                          <<"proxy", "other">>}
      BY <2>2 DEF Hints!Stun, Hints!At, Hints!Local
    <3>2. Hints!Stun[1] # "lan" /\ (x1.pinned => Hints!Stun[1] # "proxy")
      BY <2>2, <3>1 DEF Hints!Local
    <3> DEFINE h == IF x1.advertised THEN Hints!Hint(Hints!At(Hints!Stun[1], "declared"), "trusted")
                    ELSE IF s.mapped THEN Hints!Hint(Hints!At(Hints!Stun[1], "mapped"), "trusted")
                    ELSE Hints!Hint(Hints!Stun, IF Hints!Stun[1] \in Hints!LocalPublic
                                                THEN "trusted" ELSE "effort")
    <3>3. Hints!HintsV4(s) = <<h>>
      BY <2>2 DEF Hints!HintsV4
    <3>4. h.at[1] = Hints!Stun[1]
      BY DEF Hints!Hint, Hints!At
    <3> HIDE DEF h
    <3> QED
      BY <3>2, <3>3, <3>4
  <2> QED
    BY <2>1, <2>2
<1>2. \/ Hints!HintsV6 = <<>>
      \/ \E h : Hints!HintsV6 = <<h>> /\ Ok(h)
  <2> DEFINE h == Hints!Hint(Hints!At("v6", x1.v6), "effort")
  <2>1. Hints!HintsV6 \in {<<>>, <<h>>}
    BY DEF Hints!HintsV6
  <2>2. Ok(h)
    BY DEF Hints!Hint, Hints!At
  <2> HIDE DEF h
  <2> QED
    BY <2>1, <2>2
<1> DEFINE a == Hints!HintsV4(s)
           b == Hints!HintsV6
           pub == a \o b
<1>0. ASSUME NEW q, q = <<>> \/ \E h : q = <<h>> /\ Ok(h)
      PROVE  ASeq(q) /\ Len(q) <= 1 /\ \A i \in DOMAIN q : Ok(q[i])
  <2>1. CASE q = <<>>
    BY <2>1 DEF ASeq
  <2>2. ASSUME NEW h, q = <<h>>, Ok(h) PROVE ASeq(q) /\ Len(q) <= 1 /\ \A i \in DOMAIN q : Ok(q[i])
    <3> HIDE DEF Ok
    <3>1. Len(q) = 1 /\ DOMAIN q = 1 .. Len(q) /\ q[1] = h
      BY <2>2
    <3>2. \A i \in DOMAIN q : i = 1
      BY <3>1
    <3> QED
      BY <2>2 DEF ASeq
  <2> QED
    BY <1>0, <2>1, <2>2
<1>3. ASeq(a) /\ Len(a) <= 1 /\ \A i \in DOMAIN a : Ok(a[i])
  BY <1>0, <1>1
<1>4. ASeq(b) /\ Len(b) <= 1 /\ \A i \in DOMAIN b : Ok(b[i])
  BY <1>0, <1>2
<1> HIDE DEF a, b
<1>5. ASeq(pub) /\ Len(pub) <= 2 /\ \A i \in DOMAIN pub : Ok(pub[i])
  <2> HIDE DEF Ok
  <2>1. DOMAIN pub = 1 .. Len(a) + Len(b) /\ Len(pub) = Len(a) + Len(b)
        /\ \A i \in 1 .. Len(a) + Len(b) : pub[i] = IF i <= Len(a) THEN a[i] ELSE b[i - Len(a)]
    OBVIOUS
  <2>2. ASSUME NEW i \in DOMAIN pub PROVE Ok(pub[i])
    <3>1. CASE i <= Len(a)
      <4>1. i \in DOMAIN a /\ pub[i] = a[i]
        BY <3>1
      <4> QED
        BY <1>3, <4>1
    <3>2. CASE ~ (i <= Len(a))
      <4>1. i - Len(a) \in DOMAIN b /\ pub[i] = b[i - Len(a)]
        BY <2>1, <3>2
      <4> QED
        BY <1>4, <4>1
    <3> QED
      BY <3>1, <3>2
  <2> QED
    BY <1>3, <1>4 DEF ASeq
<1> QED
  BY <1>5 DEF NoProxy, a, b

\* What an exit prints is short enough, keeps what is public, and vouches for no
\* address of a proxy.
LEMMA ClassifyHolds ==
  ASSUME NEW s, x1.manuals \in Manuals
  PROVE  LET c == Hints!Classify(s) IN
         /\ ASeq(c) /\ Len(c) <= MaxHints /\ NoProxy(c)
         /\ s.report => \A i \in DOMAIN (Hints!HintsV4(s) \o Hints!HintsV6) :
              i \in DOMAIN c /\ c[i] = (Hints!HintsV4(s) \o Hints!HintsV6)[i]
              /\ c[i].at[1] # "lan"
<1> DEFINE p == Hints!HintsV4(s) \o Hints!HintsV6
           a == IF s.report THEN p ELSE <<>>
           lan == Hints!HintsLan
           man == Hints!HintsManual
           ab == a \o lan
           all == ab \o man
           m == IF Len(all) < MaxHints THEN Len(all) ELSE MaxHints
           c == SubSeq(all, 1, m)
<1>1. ASeq(a) /\ Len(a) <= 2 /\ NoProxy(a) /\ \A i \in DOMAIN a : a[i].at[1] # "lan"
  <2>1. ASeq(<<>>) /\ Len(<<>>) = 0 /\ DOMAIN <<>> = {}
    BY DEF ASeq
  <2> QED
    BY <2>1, PublicHints DEF NoProxy
<1>2. ASeq(lan) /\ \A i \in DOMAIN lan : lan[i].tier = "lan"
  <2>1. ASeq(Hints!LocalLAN)
    BY KeptIsSeq, HintConstants DEF Hints!LocalLAN
  <2>2. CASE x1.pinned
    <3> DEFINE n == Len(Hints!LocalLAN)
               e(i) == Hints!Hint(Hints!At("lan", Hints!LocalLAN[i].name), "lan")
    <3>1. n \in Nat /\ lan = [i \in 1 .. n |-> e(i)]
      BY <2>2 DEF Hints!HintsLan
    <3>2. \A i : e(i).tier = "lan"
      BY DEF Hints!Hint
    <3> HIDE DEF n, e, lan
    <3> QED
      BY <3>1, <3>2 DEF ASeq
  <2>3. CASE ~ x1.pinned
    BY <2>3 DEF Hints!HintsLan, ASeq
  <2> QED
    BY <2>2, <2>3
<1>3. ASeq(man) /\ \A i \in DOMAIN man : man[i].tier = "manual"
  <2>1. ASeq(Hints!Manual)
    BY KeptIsSeq, HintConstants DEF Hints!Manual
  <2> DEFINE n == Len(Hints!Manual)
             e(i) == Hints!Hint(Hints!At("manual", Hints!Manual[i]), "manual")
  <2>2. n \in Nat /\ man = [i \in 1 .. n |-> e(i)]
    BY DEF Hints!HintsManual
  <2>3. \A i : e(i).tier = "manual"
    BY DEF Hints!Hint
  <2> HIDE DEF n, e, man
  <2> QED
    BY <2>2, <2>3 DEF ASeq
<1>4. Hints!Classify(s) = c
  BY DEF Hints!Classify, Hints!Cut
<1> HIDE DEF a, lan, man
<1>5. /\ DOMAIN ab = 1 .. Len(ab) /\ Len(ab) = Len(a) + Len(lan) /\ Len(ab) \in Nat
      /\ \A i \in 1 .. Len(ab) : ab[i] = IF i <= Len(a) THEN a[i] ELSE lan[i - Len(a)]
  OBVIOUS
<1>6. ASeq(ab) /\ NoProxy(ab) /\ \A i \in DOMAIN a : i \in DOMAIN ab /\ ab[i] = a[i]
  <2>1. \A i \in DOMAIN a : i \in DOMAIN ab /\ ab[i] = a[i]
    OBVIOUS
  <2>2. ASSUME NEW i \in DOMAIN ab
        PROVE  (i \in DOMAIN a /\ ab[i] = a[i]) \/ ab[i].tier = "lan"
    BY <1>2, <1>5
  <2> HIDE DEF ab
  <2> QED
    BY <1>1, <2>1, <2>2 DEF ASeq, NoProxy
<1> HIDE DEF ab
<1>7. /\ DOMAIN all = 1 .. Len(all) /\ Len(all) = Len(ab) + Len(man) /\ Len(all) \in Nat
      /\ \A i \in 1 .. Len(all) : all[i] = IF i <= Len(ab) THEN ab[i] ELSE man[i - Len(ab)]
  OBVIOUS
<1>8. ASeq(all) /\ NoProxy(all) /\ \A i \in DOMAIN ab : i \in DOMAIN all /\ all[i] = ab[i]
  <2>1. \A i \in DOMAIN ab : i \in DOMAIN all /\ all[i] = ab[i]
    OBVIOUS
  <2>2. ASSUME NEW i \in DOMAIN all
        PROVE  (i \in DOMAIN ab /\ all[i] = ab[i]) \/ all[i].tier = "manual"
    BY <1>3, <1>7
  <2> HIDE DEF all
  <2> QED
    BY <1>6, <2>1, <2>2 DEF ASeq, NoProxy
<1>9. Len(a) <= Len(all)
  BY <1>5
<1> HIDE DEF all
<1>10. m \in Nat /\ m <= MaxHints /\ m <= Len(all) /\ Len(a) <= m
  BY <1>1, <1>9, HintConstants
<1> HIDE DEF m
<1>11. DOMAIN c = 1 .. m /\ Len(c) = m /\ \A i \in 1 .. m : c[i] = all[i] /\ i \in DOMAIN all
  BY <1>10
<1>12. ASeq(c) /\ Len(c) <= MaxHints /\ NoProxy(c)
  BY <1>8, <1>10 DEF ASeq, NoProxy
<1>13. \A i \in DOMAIN a : i \in DOMAIN c /\ c[i] = a[i] /\ c[i].at[1] # "lan"
  BY <1>1, <1>6, <1>8, <1>10
<1>14. s.report => a = p
  BY DEF a
<1> HIDE DEF c, p
<1> QED
  BY <1>4, <1>12, <1>13, <1>14 DEF p

\* What was printed was made of what was seen, and what is used was printed.
HintsInv ==
  /\ x1.manuals \in Manuals
  /\ x3 # None => x3 = IF x1.enabled THEN Hints!Classify(x2) ELSE <<>>
  /\ x5 # None =>
       /\ x3 # None /\ ~ x5.refused
       /\ (x1.enabled /\ Hints!Fresh(x4.age) /\ x2.report)
            => {h.at : h \in Hints!ToSet(Hints!HintsV4(x2) \o Hints!HintsV6)} \subseteq x5.candidates

\* At first nothing is printed.
LEMMA HintsInit ==
  ASSUME Hints!Init PROVE HintsInv
  BY DEF Hints!Init, HintsInv

\* The hints depend on the exit and on what it saw.
LEMMA SameHints ==
  ASSUME UNCHANGED <<x1, x2>>
  PROVE  /\ Hints!Classify(x2)' = Hints!Classify(x2)
         /\ Hints!HintsV4(x2)' = Hints!HintsV4(x2) /\ Hints!HintsV6' = Hints!HintsV6
<1>1. Hints!Stun' = Hints!Stun /\ Hints!LocalPublic' = Hints!LocalPublic
      /\ Hints!Manual' = Hints!Manual
  BY DEF Hints!Stun, Hints!LocalPublic, Hints!Manual
<1>2. Hints!HintsV4(x2)' = Hints!HintsV4(x2) /\ Hints!HintsV6' = Hints!HintsV6
  BY <1>1 DEF Hints!HintsV4, Hints!HintsV6
<1>3. Hints!HintsLan' = Hints!HintsLan /\ Hints!HintsManual' = Hints!HintsManual
  BY <1>1 DEF Hints!HintsLan, Hints!HintsManual
<1> QED
  BY <1>2, <1>3 DEF Hints!Classify

\* A client reads all that was printed for it.
LEMMA ReadsAll ==
  ASSUME HintsInv, Hints!Reads PROVE HintsInv'
<1>1. x3 # None /\ UNCHANGED <<x1, x2, x3>> /\ x1.manuals \in Manuals
      /\ x3 = IF x1.enabled THEN Hints!Classify(x2) ELSE <<>>
  BY DEF Hints!Reads, HintsInv
<1>2. Len(x3) <= MaxHints /\ ~ (Len(x3) > MaxHints)
  <2>1. CASE x1.enabled
    <3>1. Len(x3) \in Nat /\ Len(x3) <= MaxHints
      BY <1>1, <2>1, ClassifyHolds
    <3> QED
      BY <3>1, HintConstants
  <2>2. CASE ~ x1.enabled
    BY <1>1, <2>2, HintConstants
  <2> QED
    BY <2>1, <2>2
<1>3. x5' = [refused |-> FALSE,
             candidates |-> Hints!Filtered(x4', x4'.learned \cup
               (IF Hints!Fresh(x4'.age) THEN {h.at : h \in Hints!ToSet(x3)} ELSE {}))]
  BY <1>2 DEF Hints!Reads
<1>4. ASSUME x1.enabled, Hints!Fresh(x4'.age), x2.report
      PROVE  {h.at : h \in Hints!ToSet(Hints!HintsV4(x2) \o Hints!HintsV6)} \subseteq x5'.candidates
  <2> DEFINE pub == Hints!HintsV4(x2) \o Hints!HintsV6
  <2>1. \A i \in DOMAIN pub : i \in DOMAIN x3 /\ x3[i] = pub[i] /\ x3[i].at[1] # "lan"
    BY <1>1, <1>4, ClassifyHolds
  <2> HIDE DEF pub
  <2>2. ASSUME NEW i \in DOMAIN pub PROVE pub[i].at \in x5'.candidates
    <3>1. x3[i] \in Hints!ToSet(x3) /\ pub[i] = x3[i] /\ x3[i].at[1] # "lan"
      BY <2>1 DEF Hints!ToSet
    <3>2. x3[i].at \in {h.at : h \in Hints!ToSet(x3)}
      BY <3>1
    <3> QED
      BY <1>3, <1>4, <3>1 DEF Hints!Filtered, Hints!Private
  <2>3. \A h \in Hints!ToSet(pub) : h.at \in x5'.candidates
    BY <2>2 DEF Hints!ToSet
  <2> QED
    BY <2>3 DEF pub
<1>5. (Hints!Fresh(x4.age))' = Hints!Fresh(x4'.age)
  OBVIOUS
<1> QED
  BY <1>1, <1>3, <1>4, SameHints DEF HintsInv

\* Every step keeps HintsInv.
LEMMA HintsStep ==
  ASSUME HintsInv, Hints!Next \/ UNCHANGED xs PROVE HintsInv'
<1>1. CASE Hints!Reports
  BY <1>1 DEF Hints!Reports, HintsInv
<1>2. CASE Hints!Maps
  BY <1>2 DEF Hints!Maps, HintsInv
<1>3. CASE Hints!Waits
  BY <1>3 DEF Hints!Waits, HintsInv
<1>4. CASE Hints!Prints
  BY <1>4, SameHints DEF Hints!Prints, HintsInv
<1>5. CASE Hints!Reads
  BY <1>5, ReadsAll
<1>6. CASE UNCHANGED xs
  BY <1>6, SameHints DEF xs, HintsInv
<1> QED
  BY <1>1, <1>2, <1>3, <1>4, <1>5, <1>6 DEF Hints!Next

\* What an exit saw, and whether its address was refused, have their types.
HintsTyped ==
  /\ HintsInv
  /\ x2 \in [report : BOOLEAN, mapped : BOOLEAN, waited : 0 .. 2]
  /\ x5 # None => x5.refused \in BOOLEAN

\* At first nothing was seen.
LEMMA HintsTypedInit ==
  ASSUME Hints!Init PROVE HintsTyped
<1>1. x2 \in [report : BOOLEAN, mapped : BOOLEAN, waited : 0 .. 2]
  BY DEF Hints!Init
<1> QED
  BY <1>1, HintsInit DEF Hints!Init, HintsTyped

\* Every step keeps HintsTyped.
LEMMA HintsTypedStep ==
  ASSUME HintsTyped, Hints!Next \/ UNCHANGED xs PROVE HintsTyped'
<1> DEFINE S == [report : BOOLEAN, mapped : BOOLEAN, waited : 0 .. 2]
           y == TRUE
<1>1. HintsInv' /\ x2 \in S /\ y \in BOOLEAN
  BY HintsStep DEF HintsTyped
<1> HIDE DEF y
<1>2. CASE Hints!Reports
  <2>1. x2' = [x2 EXCEPT !.report = y] /\ UNCHANGED x5
    BY <1>2 DEF Hints!Reports, y
  <2>2. x2' \in S
    BY <1>1, <2>1
  <2> QED
    BY <1>1, <2>1, <2>2 DEF HintsTyped
<1>3. CASE Hints!Maps
  <2>1. x2' = [x2 EXCEPT !.mapped = y] /\ UNCHANGED x5
    BY <1>3 DEF Hints!Maps, y
  <2>2. x2' \in S
    BY <1>1, <2>1
  <2> QED
    BY <1>1, <2>1, <2>2 DEF HintsTyped
<1>4. CASE Hints!Waits
  <2>1. x2' = [x2 EXCEPT !.waited = x2.waited + 1] /\ UNCHANGED x5 /\ x2.waited < 2
    BY <1>4 DEF Hints!Waits
  <2>2. x2.waited + 1 \in 0 .. 2
    BY <1>1, <2>1
  <2>3. x2' \in S
    BY <1>1, <2>1, <2>2
  <2> QED
    BY <1>1, <2>1, <2>3 DEF HintsTyped
<1>5. CASE Hints!Prints
  BY <1>1, <1>5 DEF Hints!Prints, HintsTyped
<1>6. CASE Hints!Reads
  <2>1. x5'.refused \in BOOLEAN
    BY <1>6 DEF Hints!Reads
  <2> QED
    BY <1>1, <1>6, <2>1 DEF Hints!Reads, HintsTyped
<1>7. CASE UNCHANGED xs
  BY <1>1, <1>7 DEF HintsTyped, xs
<1> QED
  BY <1>2, <1>3, <1>4, <1>5, <1>6, <1>7 DEF Hints!Next

\* HintsTyped says enough.
LEMMA HintsTypes ==
  ASSUME HintsTyped PROVE Hints!TypeOK
<1>1. ASSUME x3 # None PROVE Len(x3) <= MaxHints
  <2>1. x1.manuals \in Manuals /\ x3 = IF x1.enabled THEN Hints!Classify(x2) ELSE <<>>
    BY <1>1 DEF HintsTyped, HintsInv
  <2>2. CASE x1.enabled
    BY <2>1, <2>2, ClassifyHolds
  <2>3. CASE ~ x1.enabled
    BY <2>1, <2>3, HintConstants
  <2> QED
    BY <2>2, <2>3
<1> QED
  BY <1>1 DEF HintsTyped, Hints!TypeOK

\* HintsInv says enough.
LEMMA HintsImply ==
  ASSUME HintsInv PROVE Hints!WrittenIsRead
<1>1. ASSUME x3 # None, x1.pinned
      PROVE  \A h \in Hints!ToSet(x3) : h.tier = "trusted" => h.at[1] # "proxy"
  <2>1. CASE x1.enabled
    <3>1. NoProxy(x3)
      BY <1>1, <2>1, ClassifyHolds DEF HintsInv
    <3> QED
      BY <1>1, <3>1 DEF NoProxy, Hints!ToSet
  <2>2. CASE ~ x1.enabled
    BY <1>1, <2>2 DEF HintsInv, Hints!ToSet
  <2> QED
    BY <2>1, <2>2
<1> QED
  BY <1>1 DEF HintsInv, Hints!WrittenIsRead

-----------------------------------------------------------------------------
(* The ports of a server.  ServeInv says that its filter covers what was asked for.  *)

\* The ports that are asked for, in order.
Sorted(ports) == Server!Kept([i \in 1 .. MaxPort + 1 |-> i - 1], ports)

\* They are the ports, each once, from the least to the greatest.
LEMMA SortedPorts ==
  ASSUME NEW ports \in SUBSET Server!Port
  PROVE  /\ Sorted(ports) \in Seq(ports)
         /\ \A i, j \in DOMAIN Sorted(ports) : i < j => Sorted(ports)[i] < Sorted(ports)[j]
         /\ \A p \in ports : \E i \in DOMAIN Sorted(ports) : Sorted(ports)[i] = p
<1> DEFINE all == [i \in 1 .. MaxPort + 1 |-> i - 1]
           t == Sorted(ports)
<1>0. MaxPort \in Nat
  BY ServeConstants
<1>1. /\ all \in Seq(0 .. MaxPort) /\ DOMAIN all = 1 .. MaxPort + 1
      /\ \A v \in DOMAIN all : all[v] = v - 1
  BY <1>0
<1>2. t = Address!Kept(all, ports)
  <2> DEFINE T == 0 .. MaxPort
  <2>1. all \in Seq(T)
    BY <1>1
  <2> HIDE DEF all, T
  <2>2. Server!Kept(all, ports) = Address!Kept(all, ports)
    BY <2>1, KeptSame
  <2> QED
    BY <2>2 DEF Sorted, all
<1> HIDE DEF all, t
<1>3. /\ t \in Seq((0 .. MaxPort) \cap ports)
      /\ \A i, j \in DOMAIN t : i < j =>
           \E v, w \in DOMAIN all : v < w /\ t[i] = all[v] /\ t[j] = all[w]
  <2> DEFINE T == 0 .. MaxPort
  <2>0. all \in Seq(T)
    BY <1>1
  <2> HIDE DEF T
  <2>1. /\ Address!Kept(all, ports) \in Seq(T \cap ports)
        /\ \A i, j \in DOMAIN Address!Kept(all, ports) : i < j =>
             \E v, w \in DOMAIN all : v < w /\ Address!Kept(all, ports)[i] = all[v]
                                            /\ Address!Kept(all, ports)[j] = all[w]
    BY <2>0, KeptIsSome
  <2> QED
    BY <1>2, <2>1 DEF T
<1>4. \A v \in DOMAIN all : all[v] \in ports => \E i \in DOMAIN t : t[i] = all[v]
  <2> DEFINE T == 0 .. MaxPort
  <2>0. all \in Seq(T)
    BY <1>1
  <2> HIDE DEF T
  <2>1. \A v \in DOMAIN all : all[v] \in ports =>
          \E i \in DOMAIN Address!Kept(all, ports) : Address!Kept(all, ports)[i] = all[v]
    BY <2>0, KeptIsEvery
  <2> QED
    BY <1>2, <2>1
<1>5. t \in Seq(ports)
  <2>1. (0 .. MaxPort) \cap ports = ports
    BY DEF Server!Port
  <2> QED
    BY <1>3
<1>6. \A i, j \in DOMAIN t : i < j => t[i] < t[j]
  <2>1. \A v, w \in DOMAIN all : v < w => all[v] < all[w]
    BY <1>1
  <2> QED
    BY <1>3, <2>1
<1>7. ASSUME NEW p \in ports PROVE \E i \in DOMAIN t : t[i] = p
  <2>1. p + 1 \in DOMAIN all /\ all[p + 1] = p
    BY <1>0, <1>1 DEF Server!Port
  <2> QED
    BY <1>4, <2>1
<1> QED
  BY <1>5, <1>6, <1>7 DEF t

-----------------------------------------------------------------------------
PortRange == [first : Server!Port, last : Server!Port]

\* What portRanges does with one more port.
Widened(acc, p) ==
  IF acc # <<>> /\ (acc[Len(acc)].last + 1) % (MaxPort + 1) = p
  THEN [acc EXCEPT ![Len(acc)].last = p]
  ELSE Append(acc, [first |-> p, last |-> p])

\* That makes ranges of ranges.
LEMMA WidenedIsRanges ==
  ASSUME NEW acc \in Seq(PortRange), NEW p \in Server!Port
  PROVE  Widened(acc, p) \in Seq(PortRange)
<1> DEFINE n == Len(acc)
           u == [acc EXCEPT ![n].last = p]
<1>1. CASE acc # <<>>
  <2>1. n \in 1 .. Len(acc) /\ acc[n] \in PortRange
    BY <1>1
  <2>2. [acc[n] EXCEPT !.last = p] \in PortRange
    BY <2>1 DEF PortRange
  <2>3. u = [acc EXCEPT ![n] = [acc[n] EXCEPT !.last = p]]
    OBVIOUS
  <2>4. u \in Seq(PortRange)
    BY <2>1, <2>2, <2>3
  <2>5. [first |-> p, last |-> p] \in PortRange
    BY DEF PortRange
  <2>6. Append(acc, [first |-> p, last |-> p]) \in Seq(PortRange)
    BY <2>5
  <2> HIDE DEF u
  <2> QED
    BY <2>4, <2>6 DEF Widened, u
<1>2. CASE acc = <<>>
  <2>1. [first |-> p, last |-> p] \in PortRange
    BY DEF PortRange
  <2> QED
    BY <1>2, <2>1 DEF Widened
<1> QED
  BY <1>1, <1>2

\* The ranges of s, place by place.
RangesAlong(g, s, n) ==
  /\ g[0] = <<>>
  /\ \A k \in 0 .. n - 1 : g[k + 1] = Widened(g[k], s[k + 1])
  /\ Server!Ranges(s) = g[n]

\* Ranges goes through the ports one by one.
LEMMA RangesByPlaces ==
  ASSUME NEW s \in Seq(Server!Port)
  PROVE  \E g : RangesAlong(g, s, Len(s))
<1> DEFINE n == Len(s)
           st == [q \in Seq(PortRange) \X Server!Port |-> Widened(q[1], q[2])]
           f == CHOOSE f : f = [d \in SUBSET (1 .. n) |->
                  IF d = {} THEN <<>>
                  ELSE IF f[d \ {Top(d)}] # <<>>
                          /\ (f[d \ {Top(d)}][Len(f[d \ {Top(d)}])].last + 1) % (MaxPort + 1)
                             = s[Top(d)]
                       THEN [f[d \ {Top(d)}] EXCEPT ![Len(f[d \ {Top(d)}])].last = s[Top(d)]]
                       ELSE Append(f[d \ {Top(d)}], [first |-> s[Top(d)], last |-> s[Top(d)]])]
           g == [k \in 0 .. n |-> f[1 .. k]]
<1>0. n \in Nat /\ DOMAIN s = 1 .. n /\ \A i \in 1 .. n : s[i] \in Server!Port
  OBVIOUS
<1>1. f = [d \in SUBSET (1 .. n) |-> IF d = {} THEN <<>> ELSE Widened(f[d \ {Top(d)}], s[Top(d)])]
  <2>1. \A a \in Seq(PortRange), i \in 1 .. n : st[<<a, s[i]>>] = Widened(a, s[i])
    BY <1>0
  <2>2. <<>> \in Seq(PortRange)
        /\ \A a \in Seq(PortRange), i \in 1 .. n : st[<<a, s[i]>>] \in Seq(PortRange)
    <3> HIDE DEF st, n
    <3>1. ASSUME NEW a \in Seq(PortRange), NEW i \in 1 .. n
          PROVE  st[<<a, s[i]>>] \in Seq(PortRange)
      <4>1. st[<<a, s[i]>>] = Widened(a, s[i]) /\ s[i] \in Server!Port
        BY <1>0, <2>1
      <4>2. Widened(a, s[i]) \in Seq(PortRange)
        BY <4>1, WidenedIsRanges
      <4> QED
        BY <4>1, <4>2
    <3>2. <<>> \in Seq(PortRange)
      OBVIOUS
    <3> QED
      BY <3>1, <3>2
  <2> HIDE DEF st, n
  <2>3. PICK e \in [SUBSET (1 .. n) -> Seq(PortRange)] : Folding(e, st, <<>>, s, n)
    BY <1>0, <2>2, FoldExists DEF HasFold
  <2>4. ASSUME NEW d \in SUBSET (1 .. n), d # {}
        PROVE  st[<<e[d \ {Top(d)}], s[Top(d)]>>] = Widened(e[d \ {Top(d)}], s[Top(d)])
    <3>1. Top(d) \in 1 .. n
      BY <1>0, <2>4, TopThere
    <3>2. e[d \ {Top(d)}] \in Seq(PortRange)
      OBVIOUS
    <3> QED
      BY <2>1, <3>1, <3>2
  <2>5. e = [d \in SUBSET (1 .. n) |->
              IF d = {} THEN <<>> ELSE Widened(e[d \ {Top(d)}], s[Top(d)])]
    BY <2>3, <2>4 DEF Folding
  <2> HIDE DEF f
  <2>6. \E h : h = [d \in SUBSET (1 .. n) |->
                  IF d = {} THEN <<>>
                  ELSE IF h[d \ {Top(d)}] # <<>>
                          /\ (h[d \ {Top(d)}][Len(h[d \ {Top(d)}])].last + 1) % (MaxPort + 1)
                             = s[Top(d)]
                       THEN [h[d \ {Top(d)}] EXCEPT ![Len(h[d \ {Top(d)}])].last = s[Top(d)]]
                       ELSE Append(h[d \ {Top(d)}], [first |-> s[Top(d)], last |-> s[Top(d)]])]
    BY <2>5 DEF Widened
  <2>7. f = [d \in SUBSET (1 .. n) |->
                  IF d = {} THEN <<>>
                  ELSE IF f[d \ {Top(d)}] # <<>>
                          /\ (f[d \ {Top(d)}][Len(f[d \ {Top(d)}])].last + 1) % (MaxPort + 1)
                             = s[Top(d)]
                       THEN [f[d \ {Top(d)}] EXCEPT ![Len(f[d \ {Top(d)}])].last = s[Top(d)]]
                       ELSE Append(f[d \ {Top(d)}], [first |-> s[Top(d)], last |-> s[Top(d)]])]
    BY <2>6, Zenon DEF f
  <2> QED
    BY <2>7 DEF Widened
<1>2. Server!Ranges(s) = f[1 .. n]
  BY <1>0 DEF Server!Ranges, Server!FoldLeft, Server!MapThenFoldSet, Server!Max, Top
<1> HIDE DEF f, n
<1>3. g[0] = <<>>
  <2>1. 1 .. 0 = {} /\ {} \in SUBSET (1 .. n) /\ 0 \in 0 .. n
    BY <1>0
  <2> QED
    BY <2>1, <1>1
<1>4. ASSUME NEW k \in 0 .. n - 1
      PROVE  g[k + 1] = Widened(g[k], s[k + 1])
  <2>1. g[k] = f[1 .. k] /\ g[k + 1] = f[1 .. k + 1]
    BY <1>0
  <2>2. /\ 1 .. k + 1 \in SUBSET (1 .. n) /\ 1 .. k + 1 # {}
        /\ Top(1 .. k + 1) = k + 1 /\ (1 .. k + 1) \ {k + 1} = 1 .. k
    BY <1>0, Prefixes
  <2> DEFINE r == 1 .. k + 1
  <2> HIDE DEF g, r
  <2>3. f[r] = Widened(f[r \ {Top(r)}], s[Top(r)])
    BY <1>1, <2>2 DEF r
  <2> QED
    BY <2>1, <2>2, <2>3 DEF r
<1>5. g[n] = f[1 .. n]
  BY <1>0
<1> HIDE DEF g
<1> QED
  BY <1>2, <1>3, <1>4, <1>5 DEF RangesAlong, n

\* Ranges that let through the first k members of s and nothing else; the last one ends
\* where s does.
Covering(acc, s, k) ==
  /\ acc \in Seq(PortRange)
  /\ k > 0 => Len(acc) > 0 /\ acc[Len(acc)].last = s[k]
  /\ k = 0 => Len(acc) = 0
  /\ \A i \in 1 .. Len(acc) : acc[i].first <= acc[i].last
  /\ \A p \in Server!Port : (\E j \in 1 .. k : s[j] = p) <=>
                           \E i \in 1 .. Len(acc) : acc[i].first <= p /\ p <= acc[i].last

\* No port is followed by a lesser one, but the last.
LEMMA NextPort ==
  ASSUME NEW m \in Nat, NEW l \in 0 .. m - 1
  PROVE  (l + 1) % (m + 1) = l + 1
  BY SMTT(30)

\* One more port is covered, and nothing else.
LEMMA WidenedCovers ==
  ASSUME NEW s \in Seq(Server!Port), NEW k \in 0 .. Len(s) - 1, NEW acc,
         Covering(acc, s, k), \A j \in 1 .. Len(s) - 1 : s[j] < MaxPort
  PROVE  Covering(Widened(acc, s[k + 1]), s, k + 1)
<1> DEFINE p == s[k + 1]
           n == Len(acc)
<1>0. /\ MaxPort \in Nat /\ k \in Nat /\ k + 1 \in 1 .. Len(s) /\ p \in Server!Port
      /\ Server!Port = 0 .. MaxPort
  <2>1. k \in Nat /\ k + 1 \in 1 .. Len(s)
    OBVIOUS
  <2>2. s[k + 1] \in Server!Port
    OBVIOUS
  <2> QED
    BY ServeConstants, <2>1, <2>2 DEF Server!Port
<1>1. /\ acc \in Seq(PortRange) /\ n \in Nat
      /\ k > 0 => n > 0 /\ acc[n].last = s[k]
      /\ k = 0 => n = 0
      /\ \A i \in 1 .. n : acc[i].first <= acc[i].last
      /\ \A q \in Server!Port : (\E j \in 1 .. k : s[j] = q) <=>
                               \E i \in 1 .. n : acc[i].first <= q /\ q <= acc[i].last
  BY DEF Covering
<1>2. \A i \in 1 .. n : acc[i] \in PortRange
  BY <1>1
<1> HIDE DEF p, n
<1>3. \A q : (\E j \in 1 .. k + 1 : s[j] = q) <=> (q = p \/ \E j \in 1 .. k : s[j] = q)
  BY DEF p
<1>4. CASE acc # <<>> /\ (acc[n].last + 1) % (MaxPort + 1) = p
  <2> DEFINE u == [acc EXCEPT ![n].last = p]
  <2>1. n > 0 /\ k > 0
    BY <1>1, <1>4 DEF n
  <2>2. acc[n].last = s[k] /\ s[k] < MaxPort /\ s[k] \in Nat
    <3>1. k \in 1 .. Len(s) - 1 /\ k \in 1 .. Len(s)
      BY <2>1
    <3> QED
      BY <1>0, <1>1, <3>1
  <2>3. (s[k] + 1) % (MaxPort + 1) = s[k] + 1
    <3>1. s[k] \in 0 .. MaxPort - 1
      BY <1>0, <2>2
    <3> QED
      BY <1>0, <3>1, NextPort
  <2>4. p = acc[n].last + 1
    BY <1>4, <2>2, <2>3
  <2>5. /\ u \in Seq(PortRange) /\ Len(u) = n
        /\ u[n] = [first |-> acc[n].first, last |-> p]
        /\ \A i \in 1 .. n : i # n => u[i] = acc[i]
    <3>1. n \in 1 .. n /\ acc[n] \in PortRange
      BY <1>1, <1>2, <2>1
    <3>2. [acc[n] EXCEPT !.last = p] = [first |-> acc[n].first, last |-> p]
          /\ [first |-> acc[n].first, last |-> p] \in PortRange
      <4> DEFINE a == acc[n]
      <4>1. a \in PortRange
        BY <3>1
      <4> HIDE DEF a
      <4>2. [a EXCEPT !.last = p] = [first |-> a.first, last |-> p]
        BY <4>1 DEF PortRange
      <4>3. [first |-> a.first, last |-> p] \in PortRange
        BY <1>0, <4>1 DEF PortRange
      <4> QED
        BY <4>2, <4>3 DEF a
    <3>3. u = [acc EXCEPT ![n] = [first |-> acc[n].first, last |-> p]]
      BY <3>2
    <3> HIDE DEF u
    <3> QED
      BY <1>1, <3>1, <3>2, <3>3 DEF n
  <2> HIDE DEF u
  <2>6. \A i \in 1 .. n : u[i].first <= u[i].last
    <3>1. acc[n].first <= p
      <4>1. n \in 1 .. n
        BY <1>1, <2>1
      <4>2. acc[n].first \in Nat /\ acc[n].last \in Nat
        BY <1>0, <1>2, <4>1 DEF PortRange
      <4> QED
        BY <1>1, <2>4, <4>1, <4>2
    <3> QED
      BY <1>1, <2>5, <3>1
  <2>7. ASSUME NEW q \in Server!Port
        PROVE  (q = p \/ \E i \in 1 .. n : acc[i].first <= q /\ q <= acc[i].last)
                 <=> \E i \in 1 .. n : u[i].first <= q /\ q <= u[i].last
    <3>1. n \in 1 .. n /\ acc[n].first \in Nat /\ acc[n].last \in Nat /\ q \in Nat
          /\ acc[n].first <= acc[n].last /\ p \in Nat
      <4>1. n \in 1 .. n
        BY <1>1, <2>1
      <4> QED
        BY <1>0, <1>1, <1>2, <4>1 DEF PortRange
    <3>2. (acc[n].first <= q /\ q <= p) <=> (q = p \/ (acc[n].first <= q /\ q <= acc[n].last))
      BY <2>4, <3>1
    <3>3. u[n].first = acc[n].first /\ u[n].last = p
      BY <2>5
    <3> DEFINE Old(i) == acc[i].first <= q /\ q <= acc[i].last
               New(i) == u[i].first <= q /\ q <= u[i].last
    <3>4. (\A i \in 1 .. n : i # n => (New(i) <=> Old(i))) /\ (New(n) <=> (q = p \/ Old(n)))
      BY <2>5, <3>2
    <3> HIDE DEF Old, New
    <3>5. (q = p \/ \E i \in 1 .. n : Old(i)) <=> \E i \in 1 .. n : New(i)
      BY <3>1, <3>4
    <3> QED
      BY <3>5 DEF Old, New
  <2>8. Widened(acc, p) = u
    BY <1>4 DEF Widened, n, u
  <2>9. Covering(u, s, k + 1)
    <3>1. s[k + 1] = p /\ k + 1 > 0
      BY DEF p
    <3>2. \A q \in Server!Port : (\E j \in 1 .. k + 1 : s[j] = q) <=>
                                \E i \in 1 .. n : u[i].first <= q /\ q <= u[i].last
      BY <1>1, <1>3, <2>7
    <3>3. u[n].last = p
      BY <2>5
    <3>4. Len(u) = n /\ Len(u) > 0 /\ u[Len(u)].last = s[k + 1] /\ ~ (k + 1 = 0)
      BY <2>1, <2>5, <3>1
    <3>5. \A i \in 1 .. Len(u) : u[i].first <= u[i].last
      BY <2>6, <3>4
    <3>6. \A q \in Server!Port : (\E j \in 1 .. k + 1 : s[j] = q) <=>
                                \E i \in 1 .. Len(u) : u[i].first <= q /\ q <= u[i].last
      BY <3>2, <3>4
    <3> QED
      BY <2>5, <3>4, <3>5, <3>6, Zenon DEF Covering
  <2> QED
    BY <2>8, <2>9 DEF p
<1>5. CASE ~ (acc # <<>> /\ (acc[n].last + 1) % (MaxPort + 1) = p)
  <2> DEFINE r == [first |-> p, last |-> p]
             u == Append(acc, r)
  <2>1. r \in PortRange
    BY <1>0 DEF PortRange
  <2>2. /\ u \in Seq(PortRange) /\ Len(u) = n + 1 /\ u[n + 1] = r
        /\ \A i \in 1 .. n : u[i] = acc[i]
    BY <1>1, <2>1 DEF n
  <2> HIDE DEF u
  <2>3. \A i \in 1 .. n + 1 : i \in 1 .. n \/ i = n + 1
    BY <1>1
  <2>4. (\A i \in 1 .. n : i \in 1 .. n + 1) /\ n + 1 \in 1 .. n + 1
    BY <1>1
  <2>5. \A i \in 1 .. n + 1 : u[i].first <= u[i].last
    <3>1. r.first <= r.last
      BY <1>0
    <3> HIDE DEF r
    <3> QED
      BY <1>1, <2>2, <2>3, <3>1
  <2>6. ASSUME NEW q \in Server!Port
        PROVE  (q = p \/ \E i \in 1 .. n : acc[i].first <= q /\ q <= acc[i].last)
                 <=> \E i \in 1 .. n + 1 : u[i].first <= q /\ q <= u[i].last
    <3> DEFINE Has(i) == u[i].first <= q /\ q <= u[i].last
               Had(i) == acc[i].first <= q /\ q <= acc[i].last
    <3>1. (p <= q /\ q <= p) <=> q = p
      BY <1>0
    <3>2. u[n + 1].first = p /\ u[n + 1].last = p
      BY <2>2
    <3>3. Has(n + 1) <=> q = p
      BY <3>1, <3>2
    <3>4. \A i \in 1 .. n : Has(i) <=> Had(i)
      BY <2>2
    <3> HIDE DEF Has, Had
    <3>5. (q = p \/ \E i \in 1 .. n : Had(i)) <=> \E i \in 1 .. n + 1 : Has(i)
      BY <2>3, <2>4, <3>3, <3>4
    <3> QED
      BY <3>5, Zenon DEF Has, Had
  <2>7. Widened(acc, p) = u
    BY <1>5 DEF Widened, n, u
  <2>8. Covering(u, s, k + 1)
    <3>1. s[k + 1] = p /\ k + 1 > 0 /\ u[n + 1].last = p /\ n + 1 > 0
      BY <1>1, <2>2 DEF p
    <3>2. \A q \in Server!Port : (\E j \in 1 .. k + 1 : s[j] = q) <=>
                                \E i \in 1 .. n + 1 : u[i].first <= q /\ q <= u[i].last
      BY <1>1, <1>3, <2>6
    <3> QED
      BY <2>2, <2>5, <3>1, <3>2 DEF Covering
  <2> QED
    BY <2>7, <2>8 DEF p
<1> QED
  BY <1>4, <1>5

\* The ranges cover the ports, and nothing else.
LEMMA RangesCover ==
  ASSUME NEW s \in Seq(Server!Port), \A j \in 1 .. Len(s) - 1 : s[j] < MaxPort
  PROVE  Covering(Server!Ranges(s), s, Len(s))
<1> DEFINE n == Len(s)
<1>0. DOMAIN s = 1 .. n /\ n \in Nat
  OBVIOUS
<1>1. PICK g : RangesAlong(g, s, n)
  BY RangesByPlaces
<1>2. /\ g[0] = <<>>
      /\ \A k \in 0 .. n - 1 : g[k + 1] = Widened(g[k], s[k + 1])
      /\ Server!Ranges(s) = g[n]
  BY <1>1 DEF RangesAlong
<1> DEFINE P == {k \in 0 .. n : Covering(g[k], s, k)}
<1>3. 0 \in P
  <2>1. Covering(<<>>, s, 0)
    BY DEF Covering
  <2> QED
    BY <1>2, <2>1
<1>4. ASSUME NEW k \in 0 .. n - 1, k \in P PROVE k + 1 \in P
  <2>1. Covering(Widened(g[k], s[k + 1]), s, k + 1)
    BY <1>4, WidenedCovers
  <2>2. k + 1 \in 0 .. n
    OBVIOUS
  <2> QED
    BY <1>2, <2>1
<1> HIDE DEF P, n
<1>5. n \in P
  BY <1>0, <1>3, <1>4, Induction
<1> QED
  BY <1>2, <1>5 DEF P, n

-----------------------------------------------------------------------------
\* The ports served, for services s: those asked for, and 22.
LEMMA ServedPorts ==
  ASSUME x1.ports \in SUBSET Server!Port, NEW s
  PROVE  /\ Server!Served(s) \in Seq(Server!Port)
         /\ \A j \in 1 .. Len(Server!Served(s)) - 1 : Server!Served(s)[j] < MaxPort
         /\ \A p \in Server!Port : (\E j \in 1 .. Len(Server!Served(s)) : Server!Served(s)[j] = p)
              <=> (p \in x1.ports \/ (p = Ssh /\ Server!SshServices(s)))
<1> DEFINE ports == x1.ports
           t == Sorted(ports)
           u == Server!Served(s)
           n == Len(t)
<1>0. MaxPort \in Nat /\ Ssh \in Nat /\ Ssh < MaxPort /\ Server!Port = 0 .. MaxPort
  BY ServeConstants DEF Server!Port
<1>1. u = IF Server!SshServices(s) /\ Ssh \notin ports THEN <<Ssh>> \o t ELSE t
  BY DEF Server!Served, Sorted
<1>2. /\ t \in Seq(ports)
      /\ \A i, j \in DOMAIN t : i < j => t[i] < t[j]
      /\ \A p \in ports : \E i \in DOMAIN t : t[i] = p
  BY SortedPorts
<1> HIDE DEF t, u
<1>3. t \in Seq(Server!Port) /\ DOMAIN t = 1 .. n /\ n \in Nat /\ \A i \in 1 .. n : t[i] \in ports
  BY <1>2
<1>4. \A i \in 1 .. n : t[i] \in 0 .. MaxPort
  BY <1>0, <1>3
<1> HIDE DEF n, ports
<1>5. \A j \in 1 .. n - 1 : t[j] < MaxPort
  <2>1. ASSUME NEW j \in 1 .. n - 1 PROVE t[j] < MaxPort
    <3>1. j \in 1 .. n /\ n \in 1 .. n /\ j < n
      BY <1>3
    <3>2. t[j] < t[n] /\ t[j] \in 0 .. MaxPort /\ t[n] \in 0 .. MaxPort
      BY <1>2, <1>3, <1>4
    <3> QED
      BY <1>0, <3>2
  <2> QED
    BY <2>1
<1>6. \A p : (\E i \in 1 .. n : t[i] = p) <=> p \in ports
  BY <1>2, <1>3
<1>7. CASE Server!SshServices(s) /\ Ssh \notin ports
  <2>1. u = <<Ssh>> \o t
    BY <1>1, <1>7
  <2>2. /\ u \in Seq(Server!Port) /\ Len(u) = n + 1 /\ u[1] = Ssh
        /\ \A i \in 1 .. n : u[i + 1] = t[i]
    <3>1. <<Ssh>> \in Seq(Server!Port)
      BY <1>0
    <3> QED
      BY <1>3, <2>1, <3>1
  <2>3. ASSUME NEW j \in 1 .. Len(u) - 1 PROVE u[j] < MaxPort
    <3>1. CASE j = 1
      BY <1>0, <2>2, <3>1
    <3>2. CASE j # 1
      <4>1. j - 1 \in 1 .. n - 1 /\ j - 1 \in 1 .. n /\ (j - 1) + 1 = j
        BY <1>3, <2>2, <3>2
      <4> QED
        BY <1>5, <2>2, <4>1
    <3> QED
      BY <3>1, <3>2
  <2>4. ASSUME NEW p \in Server!Port
        PROVE  (\E j \in 1 .. Len(u) : u[j] = p) <=> (p = Ssh \/ \E i \in 1 .. n : t[i] = p)
    <3>1. \A j \in 1 .. n + 1 : j = 1 \/ (j - 1 \in 1 .. n /\ (j - 1) + 1 = j)
      BY <1>3
    <3>2. 1 \in 1 .. n + 1 /\ \A i \in 1 .. n : i + 1 \in 1 .. n + 1
      BY <1>3
    <3>3. ASSUME NEW j \in 1 .. n + 1, u[j] = p
          PROVE  p = Ssh \/ \E i \in 1 .. n : t[i] = p
      <4>1. CASE j = 1
        BY <2>2, <3>3, <4>1
      <4>2. CASE j # 1
        <5>1. j - 1 \in 1 .. n /\ (j - 1) + 1 = j
          BY <3>1, <4>2
        <5>2. u[(j - 1) + 1] = t[j - 1]
          BY <2>2, <5>1
        <5> QED
          BY <3>3, <5>1, <5>2
      <4> QED
        BY <4>1, <4>2
    <3> QED
      BY <2>2, <3>2, <3>3
  <2> QED
    BY <1>6, <1>7, <2>2, <2>3, <2>4 DEF u, ports
<1>8. CASE ~ (Server!SshServices(s) /\ Ssh \notin ports)
  <2>1. u = t
    BY <1>1, <1>8
  <2>2. \A p : (p \in ports \/ (p = Ssh /\ Server!SshServices(s))) <=> p \in ports
    BY <1>8
  <2>3. u \in Seq(Server!Port) /\ Len(u) = n
    BY <1>3, <2>1 DEF n
  <2>4. \A j \in 1 .. Len(u) - 1 : u[j] < MaxPort
    BY <1>5, <2>1, <2>3
  <2>5. \A p : (\E j \in 1 .. Len(u) : u[j] = p) <=> p \in ports
    BY <1>6, <2>1, <2>3
  <2> QED
    BY <2>2, <2>3, <2>4, <2>5 DEF u, ports
<1> QED
  BY <1>7, <1>8

\* A filter that lets these ports through, there being some, and no others.
LetsThrough(ranges, ports) ==
  /\ ranges \in Seq(PortRange) /\ Len(ranges) > 0
  /\ \A p \in Server!Port :
       p \in ports <=> \E i \in 1 .. Len(ranges) : ranges[i].first <= p /\ p <= ranges[i].last

\* What is decided with flags f.
Decided(f) ==
  LET s == Server!Services(f)
  IN /\ ~ Server!Fatal(f, s)
     /\ x3 = [services |-> s, keys |-> f.keys, only |-> f.command, term |-> f.term]
     /\ IF Server!OneShot(s) \/ s \cap {"exit-node", "exec"} # {} THEN x4 = None
        ELSE LetsThrough(x4, x1.ports \cup (IF Server!SshServices(s) THEN {Ssh} ELSE {}))

\* What was read are ports and services; a server that serves has decided by its flags.
ServeInv ==
  /\ x1.ports \in SUBSET Server!Port
  /\ x1.services \in SUBSET Server!Service
  /\ Server!Serving => \E f \in Server!Flags : Decided(f)

\* The rules filter the ports that are served, and there are some.
LEMMA ServeFilters ==
  ASSUME ServeInv, NEW f \in Server!Flags, ~ Server!Fatal(f, Server!Services(f)),
         ~ Server!OneShot(Server!Services(f)),
         Server!Services(f) \cap {"exit-node", "exec"} = {}
  PROVE  LetsThrough(Server!Ranges(Server!Served(Server!Services(f))),
                     x1.ports \cup (IF Server!SshServices(Server!Services(f)) THEN {Ssh} ELSE {}))
<1> DEFINE s == Server!Services(f)
           u == Server!Served(s)
           r == Server!Ranges(u)
<1>1. x1.ports \in SUBSET Server!Port /\ s \in SUBSET Server!Service
  BY DEF ServeInv, Server!Services, Server!Service
<1>2. x1.ports # {} \/ Server!SshServices(s)
  <2>1. ~ ("term" \in s /\ "exit-node" \notin s)
    BY DEF Server!Fatal, Server!Clashes
  <2>2. x1.ports # {} \/ s # {}
    BY DEF Server!OneShot
  <2>3. s \cap {"exit-node", "exec"} = {}
    OBVIOUS
  <2> HIDE DEF s
  <2> QED
    BY <1>1, <2>1, <2>2, <2>3 DEF Server!SshServices, Server!Service
<1> HIDE DEF s
<1>3. /\ u \in Seq(Server!Port)
      /\ \A j \in 1 .. Len(u) - 1 : u[j] < MaxPort
      /\ \A p \in Server!Port : (\E j \in 1 .. Len(u) : u[j] = p)
           <=> (p \in x1.ports \/ (p = Ssh /\ Server!SshServices(s)))
  BY <1>1, ServedPorts
<1> HIDE DEF u
<1>4. Covering(r, u, Len(u))
  BY <1>3, RangesCover
<1> HIDE DEF r
<1>5. /\ r \in Seq(PortRange)
      /\ Len(u) > 0 => Len(r) > 0
      /\ \A p \in Server!Port : (\E j \in 1 .. Len(u) : u[j] = p) <=>
                               \E i \in 1 .. Len(r) : r[i].first <= p /\ p <= r[i].last
  BY <1>4 DEF Covering
<1>6. Len(u) > 0
  <2>1. Ssh \in Server!Port
    <3>1. MaxPort \in Nat /\ Ssh \in Nat /\ Ssh < MaxPort
      BY ServeConstants
    <3> QED
      BY <3>1 DEF Server!Port
  <2>2. \E p \in Server!Port : p \in x1.ports \/ (p = Ssh /\ Server!SshServices(s))
    BY <1>1, <1>2, <2>1
  <2>3. \E j \in 1 .. Len(u) : TRUE
    BY <1>3, <2>2
  <2> QED
    BY <2>3
<1>7. \A p : p \in x1.ports \cup (IF Server!SshServices(s) THEN {Ssh} ELSE {})
             <=> (p \in x1.ports \/ (p = Ssh /\ Server!SshServices(s)))
  OBVIOUS
<1>8. LetsThrough(r, x1.ports \cup (IF Server!SshServices(s) THEN {Ssh} ELSE {}))
  BY <1>3, <1>5, <1>6 DEF LetsThrough
<1> QED
  BY <1>8 DEF r, u, s

\* At first there is no filter.
LEMMA ServeInit ==
  ASSUME Server!Init PROVE ServeInv
  BY DEF Server!Init, ServeInv, Server!Serving

\* ServeInv depends on the specification, the filter and what is served.
LEMMA ServeSame ==
  ASSUME ServeInv, UNCHANGED <<x1, x3, x4>>, Server!Serving' => Server!Serving
  PROVE  ServeInv'
<1>1. \A f : Decided(f) <=> Decided(f)'
  BY DEF Decided, Server!Services, Server!Fatal, Server!Clashes, Server!OneShot
<1> QED
  BY <1>1 DEF ServeInv

\* Every step keeps ServeInv.
LEMMA ServeKeeps ==
  ASSUME ServeInv, Server!Next \/ UNCHANGED xs
  PROVE  ServeInv'
<1>1. ASSUME NEW ports \in SUBSET Server!Port, NEW services \in SUBSET Server!Service,
             Server!Reads(ports, services)
      PROVE  ServeInv'
  <2>1. x1'.ports = x1.ports \cup ports /\ x1'.services = x1.services \cup services
    BY <1>1 DEF Server!Reads
  <2>2. ~ Server!Serving'
    BY <1>1 DEF Server!Reads, Server!Serving
  <2> QED
    BY <2>1, <2>2 DEF ServeInv
<1>2. ASSUME NEW f \in Server!Flags, Server!Decides(f)
      PROVE  ServeInv'
  <2>1. x1' = x1
    BY <1>2 DEF Server!Decides
  <2> DEFINE s == Server!Services(f)
             open == Server!OneShot(s) \/ s \cap {"exit-node", "exec"} # {}
  <2>2. CASE Server!Fatal(f, s)
    <3>1. ~ Server!Serving'
      BY <1>2, <2>2 DEF Server!Decides, Server!Serving
    <3> QED
      BY <2>1, <3>1 DEF ServeInv
  <2>3. CASE ~ Server!Fatal(f, s)
    <3>1. /\ x3' = [services |-> s, keys |-> f.keys, only |-> f.command, term |-> f.term]
          /\ x4' = IF open THEN None ELSE Server!Ranges(Server!Served(s))
      BY <1>2, <2>3 DEF Server!Decides
    <3>2. s' = s /\ ~ Server!Fatal(f, s)' /\ open' = open
      BY <2>1, <2>3 DEF Server!Services, Server!Fatal, Server!Clashes, Server!OneShot
    <3>3. ~ open => LetsThrough(x4, x1.ports \cup (IF Server!SshServices(s) THEN {Ssh} ELSE {}))'
      <4>1. SUFFICES ASSUME ~ open
                     PROVE  LetsThrough(x4, x1.ports \cup (IF Server!SshServices(s) THEN {Ssh} ELSE {}))'
        OBVIOUS
      <4>2. LetsThrough(x4', x1.ports \cup (IF Server!SshServices(s) THEN {Ssh} ELSE {}))
        BY <2>3, <3>1, <4>1, ServeFilters
      <4> HIDE DEF s
      <4> QED
        BY <2>1, <3>2, <4>2
    <3>4. Decided(f)'
      BY <3>1, <3>2, <3>3 DEF Decided
    <3> QED
      BY <2>1, <3>4 DEF ServeInv
  <2> QED
    BY <2>2, <2>3
<1>3. ASSUME NEW k \in Server!Kinds, NEW flag, Server!Keys(k, flag)
      PROVE  ServeInv'
  <2>1. UNCHANGED <<x1, x3, x4>> /\ Server!Serving
    BY <1>3 DEF Server!Keys, Server!Serving
  <2> QED
    BY <2>1, ServeSame
<1>4. CASE UNCHANGED xs
  BY <1>4, ServeSame DEF xs, Server!Serving
<1>5. ASSUME Server!ReadsWord PROVE ServeInv'
  <2>1. Server!Port \ {0} \in SUBSET Server!Port /\ {} \in SUBSET Server!Port
        /\ {} \in SUBSET Server!Service
        /\ \A w \in Server!Service : {w} \in SUBSET Server!Service
        /\ \A a, b \in Server!Port : Server!Ports(a, b) \in SUBSET Server!Port
    BY DEF Server!Ports
  <2>2. CASE Server!Reads(Server!Port \ {0}, {})
    BY <1>1, <2>2
  <2>3. CASE \E w \in Server!Service : Server!Reads({}, {w})
    BY <1>1, <2>3
  <2>4. CASE \E a, b \in Server!Port : Server!Reads(Server!Ports(a, b), {})
    <3>1. PICK a \in Server!Port, b \in Server!Port : Server!Reads(Server!Ports(a, b), {})
      BY <2>4
    <3>2. Server!Ports(a, b) \in SUBSET Server!Port
      BY DEF Server!Ports
    <3> QED
      BY <1>1, <3>1, <3>2
  <2> QED
    BY <1>5, <2>2, <2>3, <2>4 DEF Server!ReadsWord
<1> QED
  BY <1>2, <1>3, <1>4, <1>5 DEF Server!Next

\* What is decided, and the filter that is made of it, have their types.
LEMMA ServeTyped ==
  ASSUME ServeInv, Server!TypeOK, Server!Next \/ UNCHANGED xs
  PROVE  Server!TypeOK'
<1> DEFINE S == [words : 0 .. MaxWords, ports : SUBSET Server!Port, services : SUBSET Server!Service]
           T == [services : SUBSET Server!Service, keys : BOOLEAN, only : BOOLEAN, term : BOOLEAN]
           Filtering(x) == x = None \/ \A i \in DOMAIN x : x[i] \in PortRange
<1>1. /\ x1 \in S /\ x2 \in {"parses", "keyed", "serves", "fatal"}
      /\ x3 = None \/ x3 \in T
      /\ Filtering(x4)
  BY DEF Server!TypeOK, PortRange
<1>2. SUFFICES /\ x1' \in S /\ x2' \in {"parses", "keyed", "serves", "fatal"}
               /\ x3' = None \/ x3' \in T
               /\ Filtering(x4')
  BY DEF Server!TypeOK, PortRange
<1>3. ASSUME NEW ports \in SUBSET Server!Port, NEW services \in SUBSET Server!Service,
             Server!Reads(ports, services)
      PROVE  x1' \in S /\ UNCHANGED <<x2, x3, x4>>
  <2>1. /\ x1' = [words |-> x1.words + 1, ports |-> x1.ports \cup ports,
                  services |-> x1.services \cup services]
        /\ x1.words < MaxWords /\ UNCHANGED <<x2, x3, x4>>
    BY <1>3 DEF Server!Reads
  <2>2. /\ x1.words \in 0 .. MaxWords /\ x1.ports \in SUBSET Server!Port
        /\ x1.services \in SUBSET Server!Service
    BY <1>1
  <2>3. MaxWords \in Nat
    BY ServeConstants, Zenon
  <2>4. x1.words + 1 \in 0 .. MaxWords
    BY <2>1, <2>2, <2>3
  <2> QED
    BY <2>1, <2>2, <2>4
<1>4. CASE Server!ReadsWord
  <2>1. x1' \in S /\ UNCHANGED <<x2, x3, x4>>
    <3>1. CASE Server!Reads(Server!Port \ {0}, {})
      BY <1>3, <3>1
    <3>2. CASE \E w \in Server!Service : Server!Reads({}, {w})
      BY <1>3, <3>2
    <3>3. CASE \E a, b \in Server!Port : Server!Reads(Server!Ports(a, b), {})
      <4>1. PICK a \in Server!Port, b \in Server!Port : Server!Reads(Server!Ports(a, b), {})
        BY <3>3
      <4>2. Server!Ports(a, b) \in SUBSET Server!Port
        BY DEF Server!Ports
      <4> QED
        BY <1>3, <4>1, <4>2
    <3> QED
      BY <1>4, <3>1, <3>2, <3>3 DEF Server!ReadsWord
  <2> QED
    BY <1>1, <2>1
<1>5. ASSUME NEW f \in Server!Flags, Server!Decides(f)
      PROVE  /\ x1' \in S /\ x2' \in {"parses", "keyed", "serves", "fatal"}
             /\ x3' = None \/ x3' \in T
             /\ Filtering(x4')
  <2> DEFINE s == Server!Services(f)
  <2>1. CASE Server!Fatal(f, s)
    BY <1>1, <1>5, <2>1 DEF Server!Decides
  <2>2. CASE ~ Server!Fatal(f, s)
    <3> DEFINE open == Server!OneShot(s) \/ s \cap {"exit-node", "exec"} # {}
    <3>1. /\ x1' = x1 /\ x2' = "keyed"
          /\ x3' = [services |-> s, keys |-> f.keys, only |-> f.command, term |-> f.term]
          /\ x4' = IF open THEN None ELSE Server!Ranges(Server!Served(s))
      BY <1>5, <2>2 DEF Server!Decides
    <3>2. s \in SUBSET Server!Service
      <4>1. x1.services \in SUBSET Server!Service
        BY DEF ServeInv
      <4> QED
        BY <4>1 DEF Server!Services, Server!Service
    <3>3. Filtering(x4')
      <4>1. CASE open
        BY <3>1, <4>1
      <4>2. CASE ~ open
        <5> DEFINE r == Server!Ranges(Server!Served(s))
        <5>1. r \in Seq(PortRange)
          BY <2>2, <4>2, ServeFilters DEF LetsThrough
        <5>2. x4' = r
          BY <3>1, <4>2
        <5> HIDE DEF r
        <5> QED
          BY <5>1, <5>2
      <4> QED
        BY <4>1, <4>2
    <3> HIDE DEF s, Filtering
    <3>4. x3' \in T
      BY <3>1, <3>2 DEF Server!Flags
    <3> QED
      BY <1>1, <3>1, <3>3, <3>4
  <2> QED
    BY <2>1, <2>2
<1>6. ASSUME NEW k, NEW flag, Server!Keys(k, flag)
      PROVE  x2' \in {"fatal", "serves"} /\ UNCHANGED <<x1, x3, x4>>
  BY <1>6 DEF Server!Keys
<1>7. CASE UNCHANGED xs
  BY <1>1, <1>7 DEF xs
<1> HIDE DEF S, T, Filtering
<1>8. CASE \E k \in Server!Kinds, flag \in {"on", "off", "unset"} : Server!Keys(k, flag)
  BY <1>1, <1>6, <1>8
<1>9. CASE \E f \in Server!Flags : Server!Decides(f)
  BY <1>5, <1>9
<1> QED
  BY <1>4, <1>7, <1>8, <1>9 DEF Server!Next

\* At first nothing was read.
LEMMA ServeTypedInit ==
  ASSUME Server!Init PROVE Server!TypeOK
<1>1. MaxWords \in Nat
  BY ServeConstants, Zenon
<1> QED
  BY <1>1 DEF Server!Init, Server!TypeOK

\* A port is answered if one of the six would, with ssh only where SSH would.
LEMMA Answers ==
  ASSUME NEW p
  PROVE  LET s == x3.services
         IN  /\ Server!OnTCP(p) # None <=>
                  \/ "exit-node" \in s /\ x3.term /\ p = Term
                  \/ p = Ssh /\ Server!SshServices(s)
                  \/ p \in x1.ports
                  \/ s \cap {"exit-node", "exec"} # {}
                  \/ Server!OneShot(s)
             /\ Server!OnTCP(p) \in {"ssh shell", "ssh command"} =>
                  Server!SshServices(s) /\ Server!OnTCP(p) = Server!SSHConnHandler
<1> DEFINE s == x3.services
           ssh == Server!SSHConnHandler
           c1 == "exit-node" \in s /\ x3.term /\ p = Term
           c2 == p = Ssh /\ Server!SshServices(s)
           c3 == p \in x1.ports
           c4 == "exec" \in s
           c5 == "exit-node" \in s
           c6 == Server!OneShot(s)
           answers == << <<c1, "term">>, <<c2, ssh>>, <<c3, "local">>,
                         <<c4, "exec">>, <<c5, "local">>, <<c6, "stdout">> >>
           here == {i \in 1 .. 6 : answers[i][1]}
           who == Server!OnTCP(p)
<1>1. DOMAIN answers = 1 .. 6
  OBVIOUS
<1>2. who = IF here = {} THEN None ELSE answers[Server!Min(here)][2]
  BY <1>1 DEF Server!OnTCP
<1>3. ssh \in {"ssh files", "ssh command", "ssh shell"}
  BY DEF Server!SSHConnHandler
<1> HIDE DEF who, ssh
<1>4. here # {} => Server!Min(here) \in here
  <2> HIDE DEF here
  <2>1. here \subseteq Nat
    BY DEF here
  <2>2. here # {} => \E x \in here : \A y \in here : x <= y
    <3>1. here # {} => \E x \in here : \A y \in here : ~ (y < x)
      BY <2>1, NatMin
    <3> QED
      BY <2>1, <3>1
  <2> QED
    BY <2>2 DEF Server!Min
<1> HIDE DEF c1, c2, c3, c4, c5, c6
<1>5. here = {i \in {1} : c1} \cup {i \in {2} : c2} \cup {i \in {3} : c3}
             \cup {i \in {4} : c4} \cup {i \in {5} : c5} \cup {i \in {6} : c6}
  <2>1. \A i \in 1 .. 6 : i = 1 \/ i = 2 \/ i = 3 \/ i = 4 \/ i = 5 \/ i = 6
    OBVIOUS
  <2> QED
    OBVIOUS
<1>6. here = {} <=> ~ (c1 \/ c2 \/ c3 \/ c4 \/ c5 \/ c6)
  <2> HIDE DEF here
  <2> QED
    BY <1>5
<1>7. here # {} =>
        (c1 /\ who = "term") \/ (c2 /\ who = ssh) \/ who \in {"local", "exec", "stdout"}
  <2> DEFINE m == Server!Min(here)
  <2> SUFFICES ASSUME here # {}
               PROVE  (c1 /\ who = "term") \/ (c2 /\ who = ssh) \/ who \in {"local", "exec", "stdout"}
    OBVIOUS
  <2>1. m \in here /\ who = answers[m][2]
    BY <1>2, <1>4
  <2> HIDE DEF m
  <2>2. m \in 1 .. 6 /\ answers[m][1]
    BY <2>1
  <2>3. m = 1 \/ m = 2 \/ m = 3 \/ m = 4 \/ m = 5 \/ m = 6
    BY <2>2
  <2>4. CASE m = 1
    BY <2>1
  <2>5. CASE m = 2
    BY <2>1
  <2>6. CASE m \in {3, 4, 5, 6}
    BY <2>1
  <2> QED
    BY <2>3, <2>4, <2>5, <2>6
<1> HIDE DEF here
<1>8. who # None <=> c1 \/ c2 \/ c3 \/ c4 \/ c5 \/ c6
  BY <1>2, <1>3, <1>6, <1>7, ServeConstants
<1>9. who \in {"ssh shell", "ssh command"} => c2 /\ who = ssh
  BY <1>2, <1>7, ServeConstants
<1> QED
  BY <1>8, <1>9 DEF who, ssh, c1, c2, c3, c4, c5, c6

\* ServeInv says enough.
LEMMA ServeImplies ==
  ASSUME ServeInv
  PROVE  Server!PortsAnswerAsAsked
<1> SUFFICES ASSUME Server!Serving
             PROVE  /\ x4 # <<>>
                    /\ \A p \in Server!Port :
                         (Server!OnTCP(p) # None) <=>
                         (x4 = None \/ \E i \in DOMAIN x4 : x4[i].first <= p /\ p <= x4[i].last)
                    /\ Server!OnTCP(Ssh) = "ssh shell" => x3.keys \/ "no-auth-ssh" \in x1.services
                    /\ Server!OnTCP(Ssh) = "ssh command" => "files" \notin x3.services
  BY DEF Server!PortsAnswerAsAsked
<1>1. PICK f \in Server!Flags : Decided(f)
  BY DEF ServeInv
<1> DEFINE s == Server!Services(f)
           open == Server!OneShot(s) \/ s \cap {"exit-node", "exec"} # {}
           ports == x1.ports \cup (IF Server!SshServices(s) THEN {Ssh} ELSE {})
<1>2. /\ ~ Server!Fatal(f, s)
      /\ x3 = [services |-> s, keys |-> f.keys, only |-> f.command, term |-> f.term]
      /\ IF open THEN x4 = None ELSE LetsThrough(x4, ports)
  BY <1>1 DEF Decided
<1>3. x3.services = s /\ x3.keys = f.keys /\ x3.only = f.command
  BY <1>2
<1>4. open => x4 = None /\ x4 # <<>>
  <2>1. <<>> \in Seq([first : 0 .. MaxPort, last : 0 .. MaxPort])
    OBVIOUS
  <2> QED
    BY <1>2, <2>1, ServeConstants
<1>5. ~ open => /\ x4 # <<>> /\ x4 # None /\ DOMAIN x4 = 1 .. Len(x4)
                /\ LetsThrough(x4, ports)
  <2>1. SUFFICES ASSUME ~ open
                 PROVE  /\ x4 # <<>> /\ x4 # None /\ DOMAIN x4 = 1 .. Len(x4)
                        /\ LetsThrough(x4, ports)
    OBVIOUS
  <2>2. LetsThrough(x4, ports)
    BY <1>2, <2>1
  <2>3. x4 \in Seq(PortRange) /\ Len(x4) > 0
    BY <2>2 DEF LetsThrough
  <2>4. x4 \in Seq([first : 0 .. MaxPort, last : 0 .. MaxPort])
    BY <2>3 DEF PortRange, Server!Port
  <2>5. x4 # None
    BY <2>4, ServeConstants
  <2> QED
    BY <2>2, <2>3, <2>5
<1>6. ASSUME NEW p \in Server!Port
      PROVE  (Server!OnTCP(p) # None) <=>
             (x4 = None \/ \E i \in DOMAIN x4 : x4[i].first <= p /\ p <= x4[i].last)
  <2>1. Server!OnTCP(p) # None <=>
                  \/ "exit-node" \in s /\ x3.term /\ p = Term
                  \/ p = Ssh /\ Server!SshServices(s)
                  \/ p \in x1.ports
                  \/ s \cap {"exit-node", "exec"} # {}
                  \/ Server!OneShot(s)
    BY <1>3, Answers
  <2> HIDE DEF s
  <2>2. Server!OnTCP(p) # None <=> open \/ p \in ports
    BY <2>1
  <2>3. CASE open
    BY <1>4, <2>2, <2>3
  <2>4. CASE ~ open
    <3>1. p \in ports <=> \E i \in 1 .. Len(x4) : x4[i].first <= p /\ p <= x4[i].last
      BY <1>5, <2>4 DEF LetsThrough
    <3> QED
      BY <1>5, <2>2, <2>4, <3>1
  <2> QED
    BY <2>3, <2>4
<1>7. /\ Server!OnTCP(Ssh) = "ssh shell" => Server!SshServices(s) /\ Server!SSHConnHandler = "ssh shell"
      /\ Server!OnTCP(Ssh) = "ssh command" => Server!SshServices(s) /\ Server!SSHConnHandler = "ssh command"
  BY <1>3, Answers
<1>8. "no-auth-ssh" \in s => "no-auth-ssh" \in x1.services
  BY DEF Server!Services
<1>9. ("ssh" \in s => f.keys) /\ (f.command /\ s \cap {"ssh", "no-auth-ssh"} # {} => "files" \notin s)
  BY <1>2 DEF Server!Fatal, Server!Clashes
<1> HIDE DEF s
<1>10. Server!OnTCP(Ssh) = "ssh shell" => x3.keys \/ "no-auth-ssh" \in x1.services
  BY <1>3, <1>7, <1>8, <1>9 DEF Server!SSHConnHandler
<1>11. Server!OnTCP(Ssh) = "ssh command" => "files" \notin x3.services
  BY <1>3, <1>7, <1>9 DEF Server!SSHConnHandler
<1> QED
  BY <1>4, <1>5, <1>6, <1>10, <1>11

-----------------------------------------------------------------------------
(* The theorems *)

\* A session that is said to run had a reason to be, in what was written since the window of
\* its tick began, however long its sample took; and of agents in one line of processes the
\* deepest is named, if isDescendantOf looks as far as that line is long
\* (term_agent.go:59-125, 147-168): for any size of a table, any number of buckets, hops,
\* threshold and patience.
THEOREM GroundsOfVerdicts == PartsSpec => []VerdictHasGrounds
<1> DEFINE Inv == part = "agent" => AgentInv
<1>1. PartsInit => Inv
  BY AgentInit DEF PartsInit
<1>2. Inv /\ [PartsNext]_<<part, xs>> => Inv'
  BY PartsGoOn, AgentStep
<1>3. Inv => VerdictHasGrounds
  BY AgentImplies DEF VerdictHasGrounds
<1> QED
  BY <1>1, <1>2, <1>3, PTL DEF PartsSpec

\* An address restores the relays it was made of, in their order and by names of their own,
\* and is the same when written again (tailcat.go:1215-1218, wire.go:117-121), for any
\* number of keys and regions.
THEOREM RestoresAddress == PartsSpec => []AddressRestores
<1> DEFINE Inv == part = "address" => AddressInv
<1>1. PartsInit => Inv
  BY AddressInit DEF PartsInit
<1>2. Inv /\ [PartsNext]_<<part, xs>> => Inv'
  BY PartsGoOn, AddressStep
<1>3. Inv => AddressRestores
  BY AddressImplies DEF AddressRestores
<1> QED
  BY <1>1, <1>2, <1>3, PTL DEF PartsSpec

\* A client reads every address an exit prints for it, and none that is vouched for is the
\* proxy's when the port is pinned (endpointhint_cli.go:200-203, 283-285), for any
\* interfaces, any addresses set by hand and any room for two hints or more.
THEOREM ReadsWhatIsWritten == PartsSpec => []WrittenIsRead
<1> DEFINE Inv == part = "hints" => HintsInv
<1>1. PartsInit => Inv
  BY HintsInit DEF PartsInit
<1>2. Inv /\ [PartsNext]_<<part, xs>> => Inv'
  BY PartsGoOn, HintsStep
<1>3. Inv => WrittenIsRead
  BY HintsImply DEF WrittenIsRead
<1> QED
  BY <1>1, <1>2, <1>3, PTL DEF PartsSpec

\* The packet filter lets through the ports that are answered and no other, and SSH gives
\* what was asked for (cmd/tailcat/tailcat.go:1471-1481, 1594-1640), for every list of words
\* and flags, and any number of ports.
THEOREM AnswersAsAsked == PartsSpec => []PortsAnswerAsAsked
<1> DEFINE Inv == part = "serve" => ServeInv
<1>1. PartsInit => Inv
  BY ServeInit DEF PartsInit
<1>2. Inv /\ [PartsNext]_<<part, xs>> => Inv'
  BY PartsGoOn, ServeKeeps
<1>3. Inv => PortsAnswerAsAsked
  BY ServeImplies DEF PortsAnswerAsAsked
<1> QED
  BY <1>1, <1>2, <1>3, PTL DEF PartsSpec
====
