---- MODULE EndpointHints ----
(***************************************************************************)
(* An exit writes where it can be reached directly into its address: it    *)
(* waits for what it can observe of its network, rates the candidates      *)
(* (src/cmd/tailcat/endpointhint_cli.go) and prints the address; a client  *)
(* reads it, leaves out what is old, and on a cellular network what is     *)
(* private (src/endpointhint.go, src/endpointsched.go).                    *)
(***************************************************************************)
EXTENDS Integers, Sequences, Filters

CONSTANTS
  None,
  MaxHints,   \* MaxEndpointHints
  Interfaces, \* an exit's, in order: name, virtual, up, what its address is
  Manuals,    \* what --endpoint may be: sequences of entries, "bad" is none
  TTL         \* EndpointHintTTL, in units of the hour a clock may be ahead

VARIABLES
  exit,    \* its network, and how it was started
  seen,    \* EndpointHintObservation, and how long the exit has waited
  printed, \* the hints of the address, or None
  client,  \* its network, its clock, what it learned before, when it reads
  used     \* the candidates it takes, or None, or that it refuses the address

vars == <<exit, seen, printed, client, used>>

-----------------------------------------------------------------------------
(* The exit's network, and what STUN says of it *)

\* A candidate: whose address, and which port of it.
At(who, port) == <<who, port>>

\* "open" has a public interface; a "cone" NAT keeps the port, "remaps" does not;
\* "proxied" is sent again by a TUN proxy of the host, from sockets of its own.
NatKind == {"open", "cone", "remaps", "symmetric", "proxied", "blocked"}

\* The port the engine's socket has: the pinned one, or any.
Local == "listen"

Stun ==
  CASE exit.nat = "open" -> At("self", Local)
    [] exit.nat = "cone" -> At("router", Local)
    [] exit.nat \in {"remaps", "symmetric"} -> At("router", "other")
    [] exit.nat = "proxied" -> At("proxy", "other")
    [] OTHER -> None

Hint(at, tier) == [at |-> at, tier |-> tier]

\* localPublicAddrs: no NAT, no proxy, the host itself has the public address.
LocalPublic == IF exit.nat = "open" THEN {"self"} ELSE {}

\* Mutant: the evidence of a mapping goes before the check of the port.
HintsMappedFirst(s) ==
  IF Stun = None THEN <<>>
  ELSE IF exit.advertised THEN <<Hint(At(Stun[1], "declared"), "trusted")>>
  ELSE IF s.mapped THEN <<Hint(At(Stun[1], "mapped"), "trusted")>>
  ELSE IF exit.nat = "symmetric" \/ (exit.pinned /\ Stun[2] # Local) THEN <<>>
  ELSE <<Hint(Stun, IF Stun[1] \in LocalPublic THEN "trusted" ELSE "effort")>>

\* endpointClassify, of IPv4: none of a symmetric NAT, and none when the port was
\* rewritten on the way, whatever else speaks for one.
HintsV4(s) ==
  IF Stun = None \/ exit.nat = "symmetric" \/ (exit.pinned /\ Stun[2] # Local) THEN <<>>
  ELSE IF exit.advertised THEN <<Hint(At(Stun[1], "declared"), "trusted")>>
  ELSE IF s.mapped THEN <<Hint(At(Stun[1], "mapped"), "trusted")>>
  ELSE <<Hint(Stun, IF Stun[1] \in LocalPublic THEN "trusted" ELSE "effort")>>

\* Of IPv6: never trusted, and not with a port that was rewritten.
HintsV6 ==
  IF exit.v6 = None \/ (exit.pinned /\ exit.v6 # Local) THEN <<>>
  ELSE <<Hint(At("v6", exit.v6), "effort")>>

\* lanAddrsFromIfaces: private addresses of the physical interfaces that are up.
LocalLAN ==
  Kept(Interfaces, {i \in ToSet(Interfaces) : ~ i.virtual /\ i.up /\ i.address = "private"})

\* parseManualEndpoints ignores what is no endpoint.
Manual == Kept(exit.manuals, ToSet(exit.manuals) \ {"bad"})

\* The port of a LAN address is only known when it is pinned.
HintsLan ==
  IF exit.pinned
  THEN [i \in DOMAIN LocalLAN |-> Hint(At("lan", LocalLAN[i].name), "lan")]
  ELSE <<>>
HintsManual == [i \in DOMAIN Manual |-> Hint(At("manual", Manual[i]), "manual")]

\* No more than a client accepts; the last are cut.
Cut(hints) == SubSeq(hints, 1, IF Len(hints) < MaxHints THEN Len(hints) ELSE MaxHints)

Classify(s) ==
  Cut((IF s.report THEN HintsV4(s) \o HintsV6 ELSE <<>>) \o HintsLan \o HintsManual)

-----------------------------------------------------------------------------
(* Waiting, and printing *)

\* A netcheck report, and a port mapping, come in when they do.
Reports ==
  /\ exit.enabled /\ printed = None /\ ~ seen.report
  /\ seen' = [seen EXCEPT !.report = TRUE]
  /\ UNCHANGED <<exit, printed, client, used>>

Maps ==
  /\ exit.enabled /\ printed = None /\ exit.upnp /\ ~ seen.mapped
  /\ seen' = [seen EXCEPT !.mapped = TRUE]
  /\ UNCHANGED <<exit, printed, client, used>>

\* endpointHintUPnPGrace, then endpointHintDeadline.
Waits ==
  /\ exit.enabled /\ printed = None /\ seen.waited < 2
  /\ seen' = [seen EXCEPT !.waited = @ + 1]
  /\ UNCHANGED <<exit, printed, client, used>>

\* waitForEndpointHintObservation ends with a report of a network that works, and
\* a mapping or no more patience for one; or with what there is.
Enough ==
  \/ seen.report /\ (exit.nat # "blocked" \/ exit.v6 # None) /\ (seen.mapped \/ seen.waited >= 1)
  \/ seen.waited = 2

\* publishEndpointHints; without hints the address is the plain one.
Prints ==
  /\ printed = None
  /\ IF exit.enabled THEN Enough /\ printed' = Classify(seen) ELSE printed' = <<>>
  /\ UNCHANGED <<exit, seen, client, used>>

-----------------------------------------------------------------------------
(* The client *)

\* Fresh: of an unknown time, or not too old, and not far ahead.
Fresh(age) == age = None \/ (age < TTL /\ age > -1)

Private(at) == at[1] = "lan"

\* FilterHints, of what was learned and what was read.
Filtered(c, candidates) ==
  IF c.bearer = "cellular" THEN {at \in candidates : ~ Private(at)} ELSE candidates

\* ParseAddr refuses an address with too many hints.
Reads ==
  /\ printed # None /\ used = None
  /\ client' \in [bearer : {"cellular", "wifi"}, age : {None, 0, TTL, -2},
                  learned : {{}, {At("lan", "old")}}]
  /\ used' = IF Len(printed) > MaxHints THEN [refused |-> TRUE, candidates |-> {}]
             ELSE [refused |-> FALSE,
                   candidates |-> Filtered(client', client'.learned \cup
                     (IF Fresh(client'.age) THEN {h.at : h \in ToSet(printed)} ELSE {}))]
  /\ UNCHANGED <<exit, seen, printed>>

Init ==
  /\ exit \in [nat : NatKind, upnp : BOOLEAN, v6 : {None, Local}, pinned : BOOLEAN,
               advertised : BOOLEAN, manuals : Manuals, enabled : BOOLEAN]
  /\ seen = [report |-> FALSE, mapped |-> FALSE, waited |-> 0]
  /\ printed = None
  /\ client = None
  /\ used = None

Next == Reports \/ Maps \/ Waits \/ Prints \/ Reads

Spec == Init /\ [][Next]_vars

-----------------------------------------------------------------------------
(* Properties *)

\* Every variable has its type.
TypeOK ==
  /\ seen \in [report : BOOLEAN, mapped : BOOLEAN, waited : 0 .. 2]
  /\ printed # None => Len(printed) <= MaxHints
  /\ used # None => used.refused \in BOOLEAN

\* An address the exit prints is one a client accepts, and when hints must go it
\* is not the public ones (endpointhint_cli.go:283-285).  And with a pinned port, no
\* candidate an address vouches for is at the proxy's (200-203): the STUN address may
\* be the proxy's when the port was rewritten, and no mapping makes it reachable.
WrittenIsRead ==
  /\ used # None =>
       /\ ~ used.refused
       /\ (exit.enabled /\ Fresh(client.age) /\ seen.report)
            => {h.at : h \in ToSet(HintsV4(seen) \o HintsV6)} \subseteq used.candidates
  /\ (printed # None /\ exit.pinned) =>
       \A h \in ToSet(printed) : h.tier = "trusted" => h.at[1] # "proxy"

=============================================================================
