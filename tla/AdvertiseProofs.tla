---- MODULE AdvertiseProofs ----
(***************************************************************************)
(* No peer is left without an endpoint, for every number of peers, ports   *)
(* and goroutines, and every configuration.                                *)
(***************************************************************************)
EXTENDS Advertise, TLAPS

\* A goroutine is under way that will tell p of e.
Coming(p, e) ==
  \E r \in Routine :
    \/ routine[r].pc = "started"
    \/ routine[r].pc \in {"copied", "sending"} /\ p \in routine[r].todo /\ e \in routine[r].eps

\* What the filter keeps whatever is mapped.
Sure(e) ==
  \/ e.addr = "lan"
  \/ config.advertise # 0 /\ e.port = config.advertise
  \/ config.advertise = 0 /\ config.listen /\ e.port = config.bound

\* Every peer knows, or is about to be told.
ToldOrComing ==
  \A p \in peers, e \in eps : Sure(e) => e \in told[p] \/ Coming(p, e)

RoutineType == [pc : {"idle", "started", "copied", "sending"},
                eps : SUBSET Endpoint, todo : SUBSET Peer]

IInv == TypeOK /\ ToldOrComing

\* What is settled and kept is kept whatever is mapped.
LEMMA KeptIsSure ==
  ASSUME TypeOK, NEW e \in Endpoint, Settled(e)
  PROVE  (e \in Kept(eps) <=> e \in eps /\ Sure(e))
<1>1. config.bound \in Port /\ config.listen \in BOOLEAN /\ config.advertise \in {0} \cup Port
  BY AdvertiseAssumption DEF TypeOK
<1>2. config.bound # 0
  BY <1>1, AdvertiseAssumption DEF Port
<1>3. e.addr \in {"lan", "pub"}
  BY DEF Endpoint
<1> QED BY <1>1, <1>2, <1>3 DEF Settled, Kept, Sure, Pinned

\* The filter keeps what it is sure of.
LEMMA SureIsKept ==
  ASSUME TypeOK, NEW s \in SUBSET Endpoint, NEW e \in s, Sure(e)
  PROVE  e \in Kept(s)
<1>1. config.bound \in Port /\ config.listen \in BOOLEAN /\ config.advertise \in {0} \cup Port
  BY AdvertiseAssumption DEF TypeOK
<1>2. config.bound # 0
  BY <1>1, AdvertiseAssumption DEF Port
<1> QED BY <1>1, <1>2 DEF Kept, Sure, Pinned

-----------------------------------------------------------------------------
(* Types *)

LEMMA SpawnType ==
  ASSUME routine \in [Routine -> RoutineType], NEW r \in Routine, Spawn(r)
  PROVE  routine' \in [Routine -> RoutineType] /\ routine'[r].pc = "started"
BY DEF Spawn, RoutineType

LEMMA ComputedType ==
  ASSUME NEW c \in Config, config = c, NEW l \in SUBSET Endpoint, NEW m \in {0} \cup Port
  PROVE  Computed(l, m) \subseteq Endpoint
<1>1. config.advertise \in {0} \cup Port
  BY AdvertiseAssumption
<1>2. \A port \in Port : Public(port) \in Endpoint
  BY DEF Public, Endpoint
<1> QED BY <1>1, <1>2 DEF Computed

LEMMA ExternalType ==
  ASSUME TypeOK, NEW ext \in External PROVE ext \in {0} \cup Port
<1>1. config.bound \in Port /\ PortLimit \in Nat
  BY AdvertiseAssumption DEF TypeOK
<1>2. (config.bound + 1) % PortLimit \in 0 .. PortLimit - 1
  BY <1>1 DEF Port
<1> QED BY <1>1, <1>2 DEF External, Port

LEMMA InitIInv == Init => IInv
BY DEF Init, IInv, TypeOK, ToldOrComing, Idle

LEMMA NextTypeOK == TypeOK /\ [Next]_vars => TypeOK'
<1> SUFFICES ASSUME TypeOK, [Next]_vars PROVE TypeOK'
  OBVIOUS
<1>0. routine \in [Routine -> RoutineType]
  BY DEF TypeOK, RoutineType
<1>1. ASSUME NEW l \in Reports, LocalsChange(l) PROVE TypeOK'
  BY <1>1 DEF TypeOK, LocalsChange, Reports
<1>2. ASSUME NEW ext \in External, GetsMapped(ext) PROVE TypeOK'
  BY <1>2, ExternalType DEF TypeOK, GetsMapped
<1>3. CASE StatusReads
  <2>1. Computed(locals, mapped) \subseteq Endpoint
    BY ComputedType DEF TypeOK
  <2> QED BY <1>3, <2>1 DEF TypeOK, StatusReads
<1>4. CASE StatusSets
  <2>1. routine' \in [Routine -> RoutineType]
    BY <1>0, <1>4, SpawnType DEF StatusSets
  <2> QED BY <1>4, <2>1 DEF TypeOK, StatusSets, RoutineType
<1>5. CASE Rebinds
  <2>1. routine' \in [Routine -> RoutineType]
    BY <1>0, <1>5, SpawnType DEF Rebinds
  <2> QED BY <1>5, <2>1 DEF TypeOK, Rebinds, RoutineType
<1>6. ASSUME NEW p \in Peer, OnMeow(p) PROVE TypeOK'
  <2>1. routine' \in [Routine -> RoutineType]
    BY <1>0, <1>6, SpawnType DEF OnMeow
  <2> QED BY <1>6, <2>1 DEF TypeOK, OnMeow, RoutineType
<1>7. ASSUME NEW r \in Routine, Copies(r) PROVE TypeOK'
  BY <1>7 DEF TypeOK, Copies, Idle
<1>8. ASSUME NEW r \in Routine, Filters(r) PROVE TypeOK'
  BY ZenonT(30), <1>8 DEF TypeOK, Filters, Idle, Kept
<1>9. ASSUME NEW r \in Routine, NEW p \in Peer, Sends(r, p) PROVE TypeOK'
  BY <1>9 DEF TypeOK, Sends, Idle
<1>10. CASE UNCHANGED vars
  BY <1>10 DEF TypeOK, vars
<1> QED BY <1>1, <1>2, <1>3, <1>4, <1>5, <1>6, <1>7, <1>8, <1>9, <1>10 DEF Next

-----------------------------------------------------------------------------
(* Nobody is forgotten *)

\* A goroutine that has just started tells everybody of everything.
LEMMA StartedTellsAll ==
  ASSUME NEW r \in Routine, routine'[r].pc = "started" PROVE ToldOrComing'
BY DEF ToldOrComing, Coming

LEMMA NextToldOrComing == TypeOK /\ ToldOrComing /\ [Next]_vars => ToldOrComing'
<1> SUFFICES ASSUME TypeOK, ToldOrComing, [Next]_vars PROVE ToldOrComing'
  OBVIOUS
<1>0. routine \in [Routine -> RoutineType]
  BY DEF TypeOK, RoutineType
<1>1. CASE UNCHANGED <<config, eps, peers, routine, told>>
  BY <1>1 DEF ToldOrComing, Coming, Sure
<1>2. CASE StatusSets
  <2>1. CASE status.eps # eps /\ status.eps # {}
    BY <1>0, <1>2, <2>1, SpawnType, StartedTellsAll DEF StatusSets
  <2>2. CASE status.eps = eps \/ status.eps = {}
    <3>1. eps' = eps \/ eps' = {}
      BY <1>2, <2>2 DEF StatusSets
    <3>2. UNCHANGED <<config, peers, routine, told>>
      BY <1>2, <2>2 DEF StatusSets
    <3> QED BY <3>1, <3>2 DEF ToldOrComing, Coming, Sure
  <2> QED BY <2>1, <2>2
<1>3. ASSUME NEW p \in Peer, OnMeow(p) PROVE ToldOrComing'
  BY <1>0, <1>3, SpawnType, StartedTellsAll DEF OnMeow
<1>4. CASE Rebinds
  BY <1>0, <1>4, SpawnType, StartedTellsAll DEF Rebinds
<1>5. ASSUME NEW r \in Routine, Copies(r) PROVE ToldOrComing'
  <2>1. UNCHANGED <<config, eps, peers, told>>
    BY <1>5 DEF Copies
  <2>2. CASE eps = {} \/ peers = {}
    BY <2>1, <2>2 DEF ToldOrComing
  <2>3. CASE ~ (eps = {} \/ peers = {})
    <3>1. routine'[r] = [pc |-> "copied", eps |-> eps, todo |-> peers]
      BY <1>0, <1>5, <2>3 DEF Copies
    <3> QED BY <2>1, <3>1 DEF ToldOrComing, Coming
  <2> QED BY <2>2, <2>3
<1>6. ASSUME NEW r \in Routine, Filters(r) PROVE ToldOrComing'
  <2>1. UNCHANGED <<config, eps, peers, told>>
    BY <1>6 DEF Filters
  <2> SUFFICES ASSUME NEW p \in peers, NEW e \in eps, Sure(e), Coming(p, e)
               PROVE  Coming(p, e)'
    BY <2>1 DEF ToldOrComing, Sure
  <2>2. PICK q \in Routine :
          \/ routine[q].pc = "started"
          \/ routine[q].pc \in {"copied", "sending"} /\ p \in routine[q].todo
             /\ e \in routine[q].eps
    BY DEF Coming
  <2>3. CASE q # r
    <3>1. routine'[q] = routine[q]
      BY <1>0, <1>6, <2>3 DEF Filters
    <3> QED BY <2>2, <3>1 DEF Coming
  <2>4. CASE q = r
    <3>1. p \in routine[r].todo /\ e \in routine[r].eps
      BY <1>6, <2>2, <2>4 DEF Filters
    <3>2. e \in Kept(routine[r].eps)
      BY <1>0, <3>1, SureIsKept DEF RoutineType
    <3>3. routine'[r] = [routine[r] EXCEPT !.pc = "sending", !.eps = Kept(@)]
      BY <1>0, <1>6, <3>2 DEF Filters
    <3>4. routine'[r].pc = "sending" /\ routine'[r].todo = routine[r].todo
          /\ routine'[r].eps = Kept(routine[r].eps)
      BY <1>0, <3>3 DEF RoutineType
    <3> QED BY <3>1, <3>2, <3>4 DEF Coming
  <2> QED BY <2>3, <2>4
<1>7. ASSUME NEW r \in Routine, NEW to \in Peer, Sends(r, to) PROVE ToldOrComing'
  <2>1. UNCHANGED <<config, eps, peers>>
    BY <1>7 DEF Sends
  <2>2. told \in [Peer -> SUBSET Endpoint] /\ peers \subseteq Peer
    BY DEF TypeOK
  <2>3. \A p \in Peer : told[p] \subseteq told'[p]
    BY <1>7, <2>2 DEF Sends
  <2>4. routine[r].eps \subseteq told'[to]
    BY <1>7, <2>2 DEF Sends
  <2> SUFFICES ASSUME NEW p \in peers, NEW e \in eps, Sure(e), Coming(p, e),
                      e \notin told'[p]
               PROVE  Coming(p, e)'
    BY <2>1, <2>2, <2>3 DEF ToldOrComing, Sure
  <2>5. PICK q \in Routine :
          \/ routine[q].pc = "started"
          \/ routine[q].pc \in {"copied", "sending"} /\ p \in routine[q].todo
             /\ e \in routine[q].eps
    BY DEF Coming
  <2>6. CASE q # r
    <3>1. routine'[q] = routine[q]
      BY <1>0, <1>7, <2>6 DEF Sends
    <3> QED BY <2>5, <3>1 DEF Coming
  <2>7. CASE q = r
    <3>1. routine[r].pc = "sending" /\ p \in routine[r].todo /\ e \in routine[r].eps
      BY <1>7, <2>5, <2>7 DEF Sends
    <3>2. p # to
      BY <2>4, <3>1
    <3>3. routine'[r] = [routine[r] EXCEPT !.todo = @ \ {to}]
      BY <1>0, <1>7, <3>1, <3>2 DEF Sends
    <3>4. routine'[r].pc = "sending" /\ routine'[r].eps = routine[r].eps
          /\ p \in routine'[r].todo
      BY <1>0, <3>1, <3>2, <3>3 DEF RoutineType
    <3> QED BY <3>1, <3>4 DEF Coming
  <2> QED BY <2>6, <2>7
<1> QED BY <1>1, <1>2, <1>3, <1>4, <1>5, <1>6, <1>7
     DEF Next, vars, LocalsChange, GetsMapped, StatusReads

-----------------------------------------------------------------------------
(* The theorems *)

\* The inductive invariant: types, and nobody is forgotten, quiet or not.
THEOREM IInvHolds == Spec => []IInv
<1>1. IInv /\ [Next]_vars => IInv'
  BY NextTypeOK, NextToldOrComing DEF IInv
<1> QED BY <1>1, InitIInv, PTL DEF Spec

\* Every port is one, also the one after the last (portmapping.go:289).
THEOREM TypeCorrect == Spec => []TypeOK
<1>1. IInv => TypeOK
  BY DEF IInv
<1> QED BY <1>1, IInvHolds, PTL

\* Every peer is told every endpoint that does not hang on the mapping, whoever
\* comes first and however goroutines overtake each other (tailcat.go:1857-1864).
THEOREM EverybodyIsTold == Spec => []NobodyForgotten
<1>1. IInv => NobodyForgotten
  <2> SUFFICES ASSUME IInv, Quiet, NEW p \in peers, NEW e \in Kept(eps), Settled(e)
               PROVE  e \in told[p]
    BY DEF NobodyForgotten
  <2>1. e \in Endpoint /\ e \in eps
    BY DEF IInv, TypeOK, Kept
  <2>2. Sure(e)
    BY <2>1, KeptIsSure DEF IInv
  <2>3. ~ Coming(p, e)
    BY DEF Quiet, Coming
  <2> QED BY <2>1, <2>2, <2>3 DEF IInv, ToldOrComing
<1> QED BY <1>1, IInvHolds, PTL
====
