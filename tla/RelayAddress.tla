---- MODULE RelayAddress ----
(***************************************************************************)
(* How an address carries its relays: a ConnInfo is expanded from the map  *)
(* of relays (src/tailcat.go 1536-1616), perhaps resolved (1270-1287),     *)
(* encoded (1219-1261, src/wire.go) and parsed again (1319-1382).          *)
(*                                                                         *)
(* Names, codes and numbers a reader can restore are left out of the       *)
(* encoding, and so are nodes that do not relay.                           *)
(***************************************************************************)
EXTENDS Integers, Sequences, Filters

CONSTANTS
  Keys,  \* of the nodes of a region, in order: addresses, ports, certificates
  None

VARIABLES
  map,   \* the map of relays, one region per number
  info,  \* the ConnInfo
  step,  \* what was done with it
  addr,  \* its encoding
  read   \* the ConnInfo it was parsed to

vars == <<map, info, step, addr, read>>

Key == {Keys[i] : i \in DOMAIN Keys}
Name == {<<"own", k>> : k \in Key} \cup {<<"host", k>> : k \in Key}

\* tailcfg.DERPNode: a key stands for the fields that are carried as they are.
Node == [key : Key, name : Name \cup {None}, host : BOOLEAN, region : 0 .. 2,
         stunOnly : BOOLEAN]

\* What maps have: a name, and a host name unless the node is only an address.
MapNode(k, r, host, stunOnly) ==
  [key |-> k, name |-> <<"own", k>>, host |-> host, region |-> r, stunOnly |-> stunOnly]

MapNodes(r) ==
  {[i \in 1 .. n |-> MapNode(Keys[i], r, hosts, i \in stuns)] :
     n \in DOMAIN Keys, hosts \in BOOLEAN, stuns \in SUBSET DOMAIN Keys}

Region(id, code, nodes) == [id |-> id, code |-> code, nodes |-> nodes]

-----------------------------------------------------------------------------
(* wire.go and Addr *)

Relays(n) == ~ n.stunOnly
Relaying(nodes) == Kept(nodes, {n \in ToSet(nodes) : Relays(n)})

\* wireRegionOf drops the nodes that cannot relay, and the mark with them.
WireRegionOf(r) == [r EXCEPT !.nodes = Relaying(@)]

\* Addr: what ParseAddr restores is zero.
Encoded(ci) ==
  [id |-> ci.id,
   regions |-> [i \in DOMAIN ci.regions |->
      LET w == WireRegionOf(ci.regions[i]) IN
      Region(0, None,
        [j \in DOMAIN w.nodes |->
           [w.nodes[j] EXCEPT !.region = 0, !.name = IF w.nodes[j].host THEN None ELSE @]])]]

\* Mutant: a node keeps the name it has, or none.
ParsedNamed(w) ==
  [id |-> w.id,
   regions |-> [i \in DOMAIN w.regions |->
      LET id == IF w.regions[i].id = 0 THEN i ELSE w.regions[i].id IN
      Region(id, id,
        [j \in DOMAIN w.regions[i].nodes |->
           [w.regions[i].nodes[j] EXCEPT !.region = IF @ = 0 THEN id ELSE @]])]]

\* ParseAddr: regions are numbered, and a node without a name has its host's.
Parsed(w) ==
  [id |-> w.id,
   regions |-> [i \in DOMAIN w.regions |->
      LET id == IF w.regions[i].id = 0 THEN i ELSE w.regions[i].id IN
      Region(id, IF w.regions[i].code = None THEN id ELSE w.regions[i].code,
        [j \in DOMAIN w.regions[i].nodes |->
           LET n == w.regions[i].nodes[j] IN
           [n EXCEPT !.name = IF @ = None THEN <<"host", n.key>> ELSE @,
                     !.region = IF @ = 0 THEN id ELSE @]])]]

-----------------------------------------------------------------------------
(* Expand and Resolve *)

\* The regions a user wrote down get a number, as do their nodes.
Numbered(r) ==
  LET id == IF r.id = 0 THEN 1 ELSE r.id IN
  [r EXCEPT !.id = id,
            !.nodes = [j \in DOMAIN r.nodes |->
                         [r.nodes[j] EXCEPT !.region = IF @ = 0 THEN id ELSE @]]]

\* The nodes of a region, shuffled.
Shuffles(nodes) == {nodes, Reverse(nodes)}

\* Expand, with what it needs: nothing if there is a region or none is asked for;
\* for -1 the nearest or, if that is not known, any, its nodes shuffled; or the
\* one that is asked for.
Expansions(ci) ==
  IF ci.regions # <<>> \/ ci.id = 0
  THEN {[ci EXCEPT !.regions = [i \in DOMAIN @ |-> Numbered(@[i])]]}
  ELSE IF ci.id = -1
  THEN {[id |-> 0, regions |-> <<[map[pick[1]] EXCEPT !.nodes = pick[2]]>>] :
          pick \in UNION {{r} \X Shuffles(map[r].nodes) : r \in DOMAIN map}}
  ELSE IF ci.id \in DOMAIN map THEN {[ci EXCEPT !.regions = <<map[ci.id]>>]}
  ELSE {}

\* Resolve keeps the first two nodes.
Shortened(ci) ==
  [id |-> 0,
   regions |-> [i \in DOMAIN ci.regions |->
      [ci.regions[i] EXCEPT !.nodes = SubSeq(@, 1, IF Len(@) < 2 THEN Len(@) ELSE 2)]]]

Expands ==
  /\ step = "given"
  /\ info' \in Expansions(info)
  /\ step' = "expanded"
  /\ UNCHANGED <<map, addr, read>>

\* Resolve: an address that has its relays is returned as it is.
Resolves ==
  /\ step = "parsed" /\ read.regions = <<>>
  /\ \E ci \in Expansions(read) :
       /\ info' = ci
       /\ addr' = Encoded(Shortened(ci))
  /\ step' = "resolved"
  /\ UNCHANGED <<map, read>>

Encodes ==
  /\ step \in {"given", "expanded"}
  /\ addr' = Encoded(info)
  /\ step' = "encoded"
  /\ UNCHANGED <<map, info, read>>

Parses ==
  /\ step \in {"encoded", "resolved"}
  /\ read' = Parsed(addr)
  /\ step' = IF step = "encoded" THEN "parsed" ELSE "done"
  /\ UNCHANGED <<map, info, addr>>

\* A region of any nodes, and one of a single relay.
Maps ==
  {<<Region(1, "one", nodes), Region(2, "two", <<MapNode(Keys[1], 2, TRUE, FALSE)>>)>> :
     nodes \in MapNodes(1)}

\* A number without a region, or a region written down by hand.
Init ==
  /\ map \in Maps
  /\ info \in [id : -1 .. 3, regions : {<<>>}]
       \cup {[id |-> 0, regions |-> <<Region(0, None,
                [j \in DOMAIN map[1].nodes |-> [map[1].nodes[j] EXCEPT !.region = 0]])>>]}
       \cup {[id |-> 0, regions |-> map]}
  /\ step = "given"
  /\ addr = None /\ read = None

Next == Expands \/ Resolves \/ Encodes \/ Parses

Spec == Init /\ [][Next]_vars

-----------------------------------------------------------------------------
(* Properties *)

\* Every variable has its type.
TypeOK ==
  /\ step \in {"given", "expanded", "encoded", "parsed", "resolved", "done"}
  /\ info.id \in -1 .. 3
  /\ \A i \in DOMAIN info.regions :
       \A j \in DOMAIN info.regions[i].nodes : info.regions[i].nodes[j] \in Node
  /\ addr = None <=> step \in {"given", "expanded"}
  /\ read = None <=> step \in {"given", "expanded", "encoded"}

Carried(n) == <<n.key, n.host>>

RelayNodes(nodes) == [j \in DOMAIN Relaying(nodes) |-> Carried(Relaying(nodes)[j])]

\* What is parsed is the relays of the regions that were encoded, in their order
\* (tailcat.go:1215-1218, wire.go:117-121): numbered, each by a name of its own,
\* none of them unable to relay; and encoding it again gives the same address.
AddressRestores ==
  step \in {"parsed", "done"} =>
    /\ Encoded(read) = addr
    /\ step = "parsed" => Len(read.regions) = Len(info.regions)
    /\ \A i \in DOMAIN read.regions :
         LET r == read.regions[i] IN
         /\ step = "parsed" => RelayNodes(r.nodes) = RelayNodes(info.regions[i].nodes)
         /\ r.id > 0
         /\ \A j \in DOMAIN r.nodes : r.nodes[j].region = r.id /\ r.nodes[j].name \in Name
         /\ \A j, k \in DOMAIN r.nodes : r.nodes[j].name = r.nodes[k].name => j = k

\* Does not hold.  tailcat.go:1281: two relay nodes suffice, so a region that has a
\* relay has one in the address that was resolved from it.  The two that are kept
\* may be nodes that only answer STUN.
ResolvedHasRelay ==
  step = "resolved" =>
    \A i \in DOMAIN info.regions :
      (\E j \in DOMAIN info.regions[i].nodes : Relays(info.regions[i].nodes[j]))
        => addr.regions[i].nodes # <<>>

=============================================================================
