---- MODULE UdpForward ----
(***************************************************************************)
(* An exit forwards UDP through a SOCKS5 proxy (src/cmd/tailcat/           *)
(* proxyudp.go), with the client side of SOCKS5's UDP in socksudp.go.      *)
(*                                                                         *)
(* Whether the proxy carries UDP is found out by one probe that all flows  *)
(* share: one of them runs it, the others wait until it is done or until   *)
(* their own time is up.  The verdict is kept, and a supported one is      *)
(* dropped after Threshold failed dials.                                   *)
(***************************************************************************)
EXTENDS Naturals, Sequences

CONSTANTS
  Flow,       \* goroutines that forward a flow, each with its own time limit
  None,
  Mode,       \* of --forward-udp: a subset of "off", "auto", "on"
  Kind,       \* what a proxy may be like, see Rep
  Threshold,  \* udpReProbeAfterFailures
  Room,       \* maxSocks5UDPDatagram, in units
  Buffer,     \* what the caller of Read has room for
  MaxChanges  \* bound: of the proxy, while the exit runs

VARIABLES
  setup,    \* the mode, the proxy's URL, whether a relay has a literal address
  proxy,    \* its kind, and how often it has changed
  verdict,  \* udpProxyCache.status
  inflight, \* udpProxyCache.inflight: the flow that runs the probe
  flow      \* where a flow is, its control connection, what it has read

vars == <<setup, proxy, verdict, inflight, flow>>

-----------------------------------------------------------------------------
(* SOCKS5: what is sent, as a proxy that follows RFC 1928 reads it *)

\* appendSocks5UDPHeader
Header(to) == <<"rsv", "rsv", "frag", "atyp", to>>

\* socks5UDPAssociateOnce: the second attempt puts the header of a datagram
\* behind the three bytes of the request.
Request(bind) == <<"ver", "cmd", "rsv">>
                 \o IF bind = None THEN <<"atyp", None>> ELSE Header(bind)

\* The request names the target, where the proxy looks for it.
NamesTarget(request) == request[4] = "atyp" /\ request[5] # None

\* socks5Greet: a locked proxy asks for the name and the password of its URL.
Greets(kind) == kind = "locked" => setup.user

\* The proxy's reply.  0 is success, 7 and 2 are definite, the rest is retried.
Rep(kind, request) ==
  CASE kind = "refuses" -> 7
    [] kind = "wants" -> IF NamesTarget(request) THEN 0 ELSE 1
    [] OTHER -> 0

\* readSocks5Addr, behind every reply: an address of an unknown type is an error.
Readable(kind) == kind # "garbles"

\* socks5UDPAssociate: dial and negotiate, a first attempt and perhaps a second.
\* A relay at no address is one at the proxy's; without a port it is an error.
Associate(kind, hint) ==
  IF kind = "down" \/ ~ Greets(kind) \/ ~ Readable(kind) THEN "error"
  ELSE LET first == Rep(kind, Request(None))
           rep == IF first = 1 THEN Rep(kind, Request(hint)) ELSE first
       IN CASE rep # 0 -> IF rep = 7 THEN "refused" ELSE "failed"
            [] rep = 0 /\ kind = "portless" -> "error"
            [] OTHER -> "associated"

\* The reply to a datagram that was relayed: its header's address, whether it
\* is a fragment, and its payload.
HeaderLength == [v4 |-> 1, v6 |-> 2, domain |-> 3]
Datagram == [atyp : {"v4", "v6", "domain", "unknown"}, frag : BOOLEAN, payload : 0 .. Room]

LengthOf(d) == (IF d.atyp = "unknown" THEN 1 ELSE HeaderLength[d.atyp]) + d.payload

\* Mutant: a buffer filled to the last byte holds a whole datagram.
TakesFull(d) == d.atyp # "unknown" /\ ~ d.frag /\ d.payload <= Buffer

\* Read hands the payload over: nothing that filled the buffer and may have been
\* cut, no unknown header, no fragment, and nothing the caller has no room for.
Takes(d) ==
  LengthOf(d) < Room /\ d.atyp # "unknown" /\ ~ d.frag /\ d.payload <= Buffer

\* What the caller gets: of a datagram longer than the buffer, what was read.
Taken(d) == IF LengthOf(d) <= Room THEN "whole" ELSE "cut"

-----------------------------------------------------------------------------
(* The verdict *)

\* derpSTUNTargets, and getUDPProbeTargets, which falls back on an address of its
\* own: a probe is never without a target.
Targets == IF setup.literal THEN {"relay"} ELSE {"fallback"}

Verdict(state) == [state |-> state, fails |-> 0]

\* dialForwardUDP, once a verdict is there.
Follow(state) ==
  CASE state = "supported" -> "dials"
    [] state # "supported" /\ setup.mode = "on" -> "failed"
    [] OTHER -> "direct"

At(f, pc) == flow[f].pc = pc
Goes(f, pc) == flow' = [flow EXCEPT ![f].pc = pc]

\* Mutant: every flow that finds no verdict probes.
AsksAlone(f) ==
  /\ At(f, "asks")
  /\ IF verdict.state # "unknown"
     THEN Goes(f, Follow(verdict.state)) /\ UNCHANGED inflight
     ELSE inflight' = f /\ Goes(f, "probes")
  /\ UNCHANGED <<setup, proxy, verdict>>

\* udpProxyStatusNow, a turn of its loop.
Asks(f) ==
  /\ At(f, "asks")
  /\ IF verdict.state # "unknown"
     THEN Goes(f, Follow(verdict.state)) /\ UNCHANGED inflight
     ELSE IF inflight # None
     THEN Goes(f, "waits") /\ UNCHANGED inflight
     ELSE inflight' = f /\ Goes(f, "probes")
  /\ UNCHANGED <<setup, proxy, verdict>>

\* Its time is up while another probes: as if the probe had found nothing out.
GivesUp(f) ==
  /\ At(f, "waits")
  /\ Goes(f, Follow("unknown"))
  /\ UNCHANGED <<setup, proxy, verdict, inflight>>

\* The probe's end: its outcome is the verdict, whose channel wakes who waits.
Publishes(f, state) ==
  /\ verdict' = Verdict(state)
  /\ inflight' = None
  /\ flow' = [g \in Flow |->
       CASE g = f -> [flow[f] EXCEPT !.pc = Follow(state), !.control = FALSE]
         [] g # f /\ At(g, "waits") -> [flow[g] EXCEPT !.pc = "asks"]
         [] OTHER -> flow[g]]
  /\ UNCHANGED <<setup, proxy>>

\* probeUDPOverSOCKS5, to the association, whose first request names no target.
Probes(f) ==
  /\ At(f, "probes")
  /\ LET outcome == Associate(proxy.kind, None) IN
     CASE Targets = {} \/ outcome = "error" -> Publishes(f, "unknown")
       [] outcome = "refused" -> Publishes(f, "unsupported")
       [] outcome = "failed" -> Publishes(f, "unavailable")
       [] OTHER -> /\ flow' = [flow EXCEPT ![f].pc = "stuns", ![f].control = TRUE]
                   /\ UNCHANGED <<setup, proxy, verdict, inflight>>

\* stunProbeViaSOCKS: only an answer to this very request proves anything, and
\* even then the time the prober has left may be too short.
Stuns(f) ==
  /\ At(f, "stuns")
  /\ \/ proxy.kind \in {"relays", "locked"} /\ Publishes(f, "supported")
     \/ Publishes(f, "unavailable")

-----------------------------------------------------------------------------
(* A flow *)

\* dialForwardUDP, before the verdict is asked for.
Starts(f) ==
  /\ At(f, "new")
  /\ IF setup.mode = "off" \/ setup.scheme = "none" THEN Goes(f, "direct")
     ELSE IF setup.scheme = "http" THEN Goes(f, Follow("noproxy"))
     ELSE Goes(f, "asks")
  /\ UNCHANGED <<setup, proxy, verdict, inflight>>

\* noteUDPForwardFailure, also when the verdict is no longer the one the dial
\* was made for.
Noted == IF verdict.fails + 1 >= Threshold THEN Verdict("unknown")
         ELSE [verdict EXCEPT !.fails = @ + 1]

\* dialSOCKS5UDP.  A refusal returns without closing the control connection.
Dials(f) ==
  /\ At(f, "dials")
  /\ \E relayed \in BOOLEAN :
       LET outcome == Associate(proxy.kind, f)
           carried == outcome = "associated" /\ relayed
       IN /\ flow' = [flow EXCEPT ![f].pc = IF carried THEN "carried" ELSE "failed",
                                  ![f].control = carried \/ outcome \in {"refused", "failed"}]
          /\ verdict' = IF carried THEN verdict ELSE Noted
  /\ UNCHANGED <<setup, proxy, inflight>>

\* socksUDPConn.Read: a datagram is read, and handed over or dropped.
Reads(f) ==
  /\ At(f, "carried")
  /\ \E d \in Datagram :
       Takes(d) /\ flow' = [flow EXCEPT ![f].read = IF d.frag THEN "cut" ELSE Taken(d)]
  /\ UNCHANGED <<setup, proxy, verdict, inflight>>

\* socksUDPConn.Close, and the end of a flow that went another way.
Ends(f) ==
  /\ flow[f].pc \in {"carried", "direct"}
  /\ flow' = [flow EXCEPT ![f].pc = "ended", ![f].control = FALSE]
  /\ UNCHANGED <<setup, proxy, verdict, inflight>>

\* The proxy restarts, or another takes its place.
ProxyChanges ==
  /\ proxy.changes < MaxChanges
  /\ \E kind \in Kind \ {proxy.kind} :
       proxy' = [kind |-> kind, changes |-> proxy.changes + 1]
  /\ UNCHANGED <<setup, verdict, inflight, flow>>

Init ==
  /\ setup \in [mode : Mode, scheme : {"none", "http", "socks5"}, user : BOOLEAN,
             literal : BOOLEAN]
  /\ proxy \in [kind : Kind, changes : {0}]
  /\ verdict = Verdict("unknown")
  /\ inflight = None
  /\ flow = [f \in Flow |-> [pc |-> "new", control |-> FALSE, read |-> "nothing"]]

Next ==
  \/ ProxyChanges
  \/ \E f \in Flow :
       Starts(f) \/ Asks(f) \/ GivesUp(f) \/ Probes(f) \/ Stuns(f)
         \/ Dials(f) \/ Reads(f) \/ Ends(f)

Spec == Init /\ [][Next]_vars

-----------------------------------------------------------------------------
(* Properties *)

\* What is known of a flow.
FlowState ==
  [pc : {"new", "asks", "waits", "probes", "stuns", "dials", "carried", "direct", "failed", "ended"},
   control : BOOLEAN,
   read : {"nothing", "whole"}]

\* Every variable has its type; that of read has no part of a datagram, which is
\* never handed over as if it were one (socksudp.go:356-357, 389-416), whatever
\* header the proxy puts before it.
TypeOK ==
  /\ setup \in [mode : Mode, scheme : {"none", "http", "socks5"}, user : BOOLEAN,
             literal : BOOLEAN]
  /\ proxy \in [kind : Kind, changes : 0 .. MaxChanges]
  /\ verdict \in [state : {"unknown", "supported", "unsupported", "unavailable"},
                  fails : 0 .. Threshold - 1]
  /\ inflight \in Flow \cup {None}
  /\ flow \in [Flow -> FlowState]

\* The flows share one probe (proxyudp.go:144-176): the one that runs it is the
\* one the cache names, nobody else probes, and nobody waits for nobody.
ProbeIsShared ==
  /\ \A f \in Flow : flow[f].pc \in {"probes", "stuns"} <=> inflight = f
  /\ (\E f \in Flow : At(f, "waits")) => inflight # None

\* Does not hold.  "The caller closes it, also when rep # 0 (the proxy refuses)"
\* (socksudp.go:242-243): a flow that is over, however its dial went, holds no control
\* connection.  After a refusal dialSOCKS5UDP drops it (308).
ControlIsClosed == \A f \in Flow : flow[f].pc \in {"failed", "ended"} => ~ flow[f].control

=============================================================================
