# tailcat in TLA+

tailcat connects two programs through a WireGuard tunnel that needs no control
plane: a *server* prints an address (a token), a *client* opens it, and the two
find each other over a DERP relay and then, where the network allows it,
directly. `cmd/tailcat` builds on it a CLI with, among others, a terminal
service whose sessions outlive the connections attached to them.

This directory holds the models of its parts, the TLC runs that check them on
small instances, and proofs of nearly all their safety properties, and of one
refinement, for every value of the constants. Line numbers refer to the commit this was written for.

## 1. Inventory

| Part | Source | State it keeps | Operations | What is hard |
|---|---|---|---|---|
| Terminal history and replay | `cmd/tailcat/term_service.go` 319-643 | ring, its start and length, size epochs, the attached connection and its offset | pump, attach with replay, deliver, resize, finish | wrap-around, a slow reader overrun by the ring, a replay cut short, a frame failing anywhere |
| Terminal service | `term_service.go` 273-316, 645-1117 | registry of named sessions; per session its process, PTY, pump, place in `finish` | HELLO, attach, KILL, LIST, exit, Close | pump, KILL, Close and attach race, each in several critical sections; a process may ignore SIGHUP |
| Mode scanner, STATE frames, focus | `term_modes.go`, `term_frames.go`, `term_service.go` 538-637, 690-800 | scanner state, modes, title; what the client was told last | byteIn, pump, attach, detach, sample | sequences cut anywhere by a read; several changes in one read |
| Agent state | `term_agent*.go`, `term_service.go` 356-390, 736-796 | output by the second, CPU, quiet samples | classifyAgent, sample | reused buckets, two clocks, process tables in any order |
| Server: meow and admission | `tailcat.go` 751-850, 1152-1166, 1623-1731, 1999-2180 | clients, allowed clients, network map, index of unregistered peers | Start, onMeow, peerConfig, noteLazyPeer, peerByIP | lost and late packets, two doors for a client, a bounded index, restart |
| Client | `tailcat.go` 2300-2712, `directconnect.go` | meowWait, upDone, background registration | Ping, up, raceFirst, meowBackground, Close | race of probe, ack and timeouts; retries that must go on, and end |
| Endpoint advertising and hints | `tailcat.go` 1790-1985, `endpoint*.go`, `localaddr.go` | current endpoints, what was sent | onEngineStatus, advertiseEndpoints, FilterHints | goroutines that overtake each other |
| UPnP | `portmapping.go` | mappedPort | request and renewal | a mapping that lapses, port arithmetic |
| Listeners, packet filter | `listen.go`, `tailcat.go` 939-1035 | listeners by port | Listen, handle, Accept, Close | a connection handed over while its listener closes |
| Egress bind | `egressbind*.go` | bound interface, failures, netns switch | evaluate, apply, monitor | hysteresis; process-wide state set in several steps |
| DERP map cache | `tailcat.go` 1392-1512, `cmd/tailcat/tailcat.go` 865-911 | a map, its etag and its age | fetch, revalidate | concurrent fetches, two files |
| UDP over a proxy | `proxyudp.go`, `socksudp.go` | verdict, failures, probe in flight | probe, note failure | shared probe, stale verdict |
| Address format | `wire.go`, `tailcat.go` 1219-1617 | none | encode, decode, expand | fields that must survive |
| TCP/UDP proxying, DrainTCP | `tailcat.go` 1057-1138, 2844-3068, `forward.go`, `proxyforward.go` | two connections and their copies; idle deadline per flow | copy, half-close, drain, touch, checkIdle | a FIN lost at the end; timer against traffic |
| Served commands | `tailcat_exec.go`, `tailcat_ssh*.go` | a process, its pipes, PTY or pseudoconsole | start, copy in and out, drain, wait, close | an order of closing in which nobody waits for the other and no output is lost |
| File service | `tailcat_sftp.go`, `tailcat_files.go` | what a session wrote, by path | put, get, stat, setstat, mkdir, rename, remove | several sessions and the owner on one directory |
| CLI | `cmd/tailcat` | services, filter, key, address | serve, client, forward, ... | two results worked out apart that must agree |
| Web, local DNS, build tools | `web`, `internal`, `tool`, `tools` | none | layout, one name, scripts | |

How they interact: the server's and the client's `locoBackend` own the
WireGuard engine, magicsock and netstack of the Tailscale libraries and talk to
them by calls and callbacks (`onDERPRecv`, `peerConfig`, `peerByIP`,
`onEngineStatus`); server and client talk by packets over the relay; a flow
that arrives through the tunnel is handed to a listener or a handler on a
goroutine of its own, and the terminal service's connections are such flows.
Shared state is guarded by `locoBackend.mu`, `lazyMu`, `listenerMu`,
`termService.mu` and `termSession.mu`.

What makes each part correct: the replayed and live bytes are the session's
own, in order (history); a session is reachable until it owns nothing, nobody who
listens is forgotten, the code a client is given is true of what happened, KILL
works (service); what a client believes of the server
is true and outsiders stay out (rendezvous); a peer ends up with the newest
endpoints (advertising); a connection is accepted or closed, never lost
(listeners); a flow in use is not closed (idle flows); no torn map is used, and
in memory none the server did not stand by (DERP map); one probe, and nobody
left waiting for it (proxy); a binding is not given up for one lost answer
(egress bind); an address brings back what it left out (address format); what a
session shows is what its program said and did (scanner, agent); each peer of a
carried connection gets all of it and is told the end, or the wait for it ran out
(proxying, served commands); a drop box opens nothing
of others for writing, and a flat one shows and changes nothing of them (files); the filter lets through what is answered (CLI).
`PROJECT.json` lists the hazards one by one, with the properties that cover
them.

## 2. Modules

| Module | Models | Checked by | Proved in |
|---|---|---|---|
| `TermHistory` | output path of one terminal session | `MCTermHistory` | `TermHistoryProofs` |
| `TermService` | registry and life of all sessions | `MCTermService`, `MCLive` | `TermServiceProofs`, `TermServiceRefinesProofs` |
| `TerminalContract` | what the service promises, abstractly | `MCTermService` | `TermServiceRefinesProofs` |
| `TermServiceRefines` | the mapping from one to the other | `MCTermService` | `TermServiceRefinesProofs` |
| `Rendezvous` | server, clients and relay until a client is a peer | `MCRendezvous`, `MCLive` | `RendezvousProofs` |
| `Listeners` | listeners, packet filter, hand-over of flows, idle timer | `MCLive` | `ListenersProofs` |
| `Advertise` | endpoints, UPnP's port, and who is told of them | `MCAdvertise` | `AdvertiseProofs` |
| `UdpForward` | UDP of an exit through a SOCKS5 proxy | `MCParts` | `PartsProofs` |
| `EgressBind` | binding an exit's sockets to an interface | `MCParts` | `PartsProofs` |
| `RelayMap` | fetch and cache of the DERP map | `MCParts` | `PartsProofs` |
| `RelayAddress` | the relays of an address: expand, encode, parse | `MCParts` | `PartsListProofs` |
| `EndpointHints` | the endpoint hints of an address | `MCParts` | `PartsListProofs` |
| `TermScan` | mode scanner, STATE frames, focus events | `MCParts` | `PartsProofs` |
| `ProcessTable`, `TermAgent` | which agent runs in a session, and is it busy | `MCParts` | `PartsListProofs` |
| `DropBox` | the rooted file service | `MCParts` | `PartsProofs` |
| `Proxying` | one connection carried between two peers | `MCParts`, `HalfCloseIsCarried` | `PartsProofs` |
| `ServedCommand` | a command run for one client | `MCParts`, `MCLive`, `ExecCloses` | `PartsProofs` |
| `Serve` | what the serve command makes of its words and flags | `MCParts` | `PartsListProofs`, `PartsProofs` |
| `Filters` | two loops of the source, as folds | with its users | `PartsListProofs` |

The table names where a module's own properties are proved. `PartsProofs` also has
the types of all parts, and `ListenersProofs` those of the parts `MCLive` runs.

`Parts` holds the modules from `UdpForward` on, as instances over the shared
variables `x1` to `x9` and with constants of their own. The parts do not
interact there: `PartsInit` picks one and the behaviour is that part's. `MCParts`
gives the constants that are not numbers their values: it is one TLC run in place
of eleven, and what holds of a part is a theorem of `PartsSpec`. `MCLive` does
the same for the four modules that have fairness.

What the proofs need of the constants stands in `Parts` as named assumptions, one
a part, and no more than the code has: bounds are numbers, `None` is no value of
any other kind, the keys of relay nodes differ, the hints have room for the two
public ones, the count of quiet samples goes beyond the number that degrades a
verdict (`Degrade < MaxQuiet`; 99 in the code), a verdict looks at one second at
least, a title has room for one letter, the program writes sequences that are
sequences (`ScanTokens`: some of all there are, of any length), port 22 is a port
and not the last one. `MCLive` needs that `None` is none of its names
(`LiveAssumption`).

Definitions that begin with a comment "Mutant:" are not part of the models.
Each is a plausible bug in the definition after it, kept to show that a
property notices it.

### TermHistory

One action is one critical section of `termSession.mu`. The code keeps that
lock during the frame writes of a replay and of a delivery, so these are one
action each, with a choice of the frame at which they fail.

| Model | Code |
|---|---|
| `hist` (`ring`, `start`, `written`) | the fields of `termSession`; offsets are absolute, a byte is in slot `offset % History` |
| `stream` | history variable: everything the PTY output |
| `client[c].off`, `recv`, `replayed`, `truncated` | `termClient.off`, and what the connection was sent |
| `AppendLocked`, `ReadLocked`, `ReplayStart`, `DeliverLocked`, `AttachLocked` | the functions of those names |
| `Pump`, `Resize`, `Finish`, `FreeRing`, `Leave` | `pump`, `resize`, the two sections of `finish`, the deferred function of `stream` |

Left out: STATE frames (they carry no output), the mode scanner, and time: the
replay's budget may end after any whole chunk.

### TermService

One action is one critical section of `termService.mu` or `termSession.mu`, or
one call outside the locks (close of the master, wait, signal). `session[s]` is
a session with its process (`running`, `exited`, `reaped`), the strongest
signal it was sent, whether any process still holds the PTY, its pump, and how
far `finish` is. `conn` is a connection with what it was told; `kill` a KILL
request; `closing` the loop of `Close`. Process and PTY are the environment:
`Exit` and `LetGo` may happen at any time.

A process exits with a status or dies of a signal, and `ExitCode` is what Go makes
of that: a code that is not negative, or -1. `finish` sends it as it is, and as a
code of ENDED -1 is the one for "replaced", so that `session[s].code` is `"exited"`
or `"replaced"`. `TruthfulEnd` says what is true of each code, with -1 being either
of the two things; `ReplacedByAnother` says what the source says of -1, and does not
hold.

`NoSilentClient` is about steps: after each one, whoever listens is attached to its
session, and if the step ended the session nobody listens to it any more. So
whichever section ends a session or gives it to another lets go of the client that
was there. It says nothing of a client that attaches when the session is done
already, which is the state `RemovedIsLetGo` is about.

Left out: LIST (it changes nothing), the sampler's STATE frames except that
one may fail, and the failure of `Setsize` in the middle of a spawn. In the
program's own server, `Close` is deferred in a function that never returns
(`select {}`), so only tests and embedders run it.

### Rendezvous

The server is its `Start` in three sections (relay connected, `nm` installed,
magicsock and engine configured), `onMeow`, `AddAllowedClient`, the two engine
callbacks `peerConfig` (`Handshake`) and `peerByIP` (`Routes`), and a restart
that keeps nothing but its key and list. A client is its `Client` object:
`meowWait`, `upDone`, `meowedOnce`, the background goroutine and one call in
progress. The relay is two sets, `pings` and `acks`: a delivery may leave the
packet there, so it is lost, repeated, delayed and reordered as it likes.

`raceFirst` is what can decide it: the ack, the probe through the tunnel (which
needs a session and a way back), or its timeout. Its retries are left out, as
they change nothing. `lazy` is a sequence, oldest first, in place of time
stamps; an entry expires in that order, and one of a client in use does not,
because it is refreshed far more often than the 24 hours of `lazyPeerTTL`. A
user who has closed a client does not go on using it. Magicsock hands pings
over from `SetDERPMap` on, which is before `Start` installs its network map:
the window is short, and `MapStaysComplete` says what is true outside it.
`advertiseEndpoints` is left to a module of its own.

### Listeners

The listener maps and the filter change in one section of `listenerMu`, so
`Listen` and `Close` are one action each; `Server.Close` is two, the maps (in
which it leaves the filter alone, since the engine goes next) and the engine.
`Listen` is the second section of the function: the first, under `startMu`, has
started the server, which may be closed by the time of the second. A port
stands for a port of one protocol.

`flow[f]` is the goroutine netstack starts for a flow: `found` is one that
waits in `handle`, `taken` one a handler or an Accept has. `HandOver` is the
unbuffered channel: both sides move at once. Closing `closedc` takes every
blocked `handle` and Accept off that channel, and whoever comes later finds
`closedc` ready and no partner, so `HandOver` requires an open listener.

`timer[f]` is `idlePacketConn`: `armed` is the Go timer, `checks` the number of
goroutines it has started that did not get to `checkIdle`'s lock, `late`
whether the deadline is past, `io` a Read or Write that succeeded and has not
reached `touch`. Time itself is not modelled, only whether it is past the
deadline. `ClosedWhenIdle` says of the timer that what it closes is late: a touch
that crosses a goroutine of the timer keeps the flow. What it does not promise is
that a Read or Write on its way to `touch` is seen.

Left out: forwarded flows (exit node), which pass no listener.

### Advertise

A section of `b.mu` is an action: `StatusReads` (the report, and `mappedPort`)
and `StatusSets` (the comparison with `b.eps`) of `onEngineStatus`, `OnMeow`,
`Copies` (`b.eps` and the peers) and `Filters` (the pinned port, which is read
anew) of `advertiseEndpoints`, and one `Sends` per peer. `routine` is the set of
goroutines, any number of which may be under way and overtake each other.
`config` is what the user set and the port magicsock got. Ports are numbers
modulo `PortLimit`, as `uint16` wraps. An endpoint is `lan` or `pub` (learnt by
STUN, with any port). `told` is a history variable: what each peer was sent.

`NobodyForgotten` speaks of the endpoints that are kept whatever is mapped. With
neither `AdvertiseUDPPort` nor `ListenPort` it does not hold of public ones: if
STUN reports two ports and the mapping goes from one to the other, `b.eps` does
not change, so no goroutine starts, and the endpoint that is now pinned was
filtered out of all that was sent. It takes a second report to be different, and
the code promises nothing about it.

Left out: the exclusion of unreachable local addresses, and `advertiseFailed`,
which only decides what is logged. A list of endpoints is a value here: that the
filter's copy and `b.eps` share no array is assumed, and nothing is claimed of it.

### TerminalContract and TermServiceRefines

The contract has five variables and six actions: a name is given to a session
(`Spawn`), its process dies (`Dies`), a client joins or parts (`Joins`,
`Parts`), the session is brought to its end (`Ends`), and its name is free again
(`Reclaims`). `ServesNames` says that every step of `TermService` is one of these
or none, with the mapping in `TermServiceRefines`: `registry` is `serves`; a
process is alive until somebody has waited for it, and then dead, or slain if it
died of a signal, whose client may be told `"replaced"`; `done` is `over`; `attached`
is `audience`; the last frame of a connection is `heard`. What it adds to the
invariants is that the limit counts sessions until they are reclaimed, that a
client changes hands in one step, and that each is told one word. That a client
may join a session which is over is part of the contract, since the service
allows it: `RemovedIsLetGo` is about that.

### UdpForward

`flow[f]` is a flow from `dialForwardUDP` on: it asks for the verdict, waits for
the probe of another, runs it (`probes`, `stuns`), dials with one or two
requests, reads, ends. `verdict` and `inflight` are `udpProxyCache`. A proxy is
of a kind (it relays, is deaf, wants the client's address, refuses, is down,
gives no port, asks for a password it was not given, garbles its answer) and
may change. A datagram is its header's kind and its length against the buffer.
Left out: DNS resolution of the proxy, and time, except that a waiter's may run
out at any time. A connection nobody refers to is open until somebody closes it:
the garbage collector, which closes it at some time, is left out.

### EgressBind

`bound` and `failed` are `egressBindSt` and the monitor's count; `netns` the
process-wide switch; `socket` where the engine's sockets are. `createEngine` is
three steps (asks, disables netns, makes the sockets), the monitor three
(waits, evaluates, switches), so that they interleave. The network changes at
any time; `sticky` is that `switchDwellTime` has not passed. `Pins` is TRUE on
systems where the binding pins sockets to an interface.

### RelayMap

One fetch per `Fetcher`, step by step: read the map, look at its age, read its
etag, ask, store. The answer is a new map, a 304 for the etag that was sent, or
an error. In memory a store is one step; on disk it is a cut of the file, the
map, the etag, a process may die between them, and files have no lock. A torn
file does not decode.

### RelayAddress

The map of relays is drawn in `Init` (nodes with and without a relay, with a
name or one a reader can restore), and one `ConnInfo` goes through `Expands`,
perhaps `Resolves`, `Encodes` and `Parses`. Encoding drops what is restored by
the reader: it is modelled by what it drops, not as the identity. Left out: keys
and capabilities, which are copied, and the bytes of CBOR and base64.

### EndpointHints

The exit sees a STUN report, a mapping, its interfaces, waits for as long as
`waited` allows, classifies and prints; the client reads after some age, on some
network. Addresses are classes (`private`, `carrier`, public by STUN or through
the proxy) with a port that is pinned or not.

### TermScan, ProcessTable, TermAgent

`scan` has the fields of `termScan`; a byte is a letter of a token (`ESC`, `[`,
`?`, a parameter, `sep` for the semicolon, a final byte, ...), tokens are cut by
reads of any length and may exceed the buffers' limits. `Token` is every sequence
of the kinds the code tells apart; which of them the program writes is a constant,
and `SomeTokens` in `MCParts` are the ones TLC tries. `program` is a history variable: the modes
and the title its tokens mean. `told` is what the client was told last. ATTACHED
carries no title, so a client knows none until it changes (`Greeted`), and
`ClientIsTold` promises only the titles that came after it was attached; `told.at`
is a history variable, the scanner's title when the client was last told anything.

`ProcessTable` has no state: `Outcome` is what `classifyAgent` returns over every
table of a number of processes, in any order, and `TermAgent` takes its samples
from it. The walk from a process up to an ancestor stops after `Hops` parents, 16
in the code; a table with a longer line is `tall`, and the deepest agent is
promised of the others.

There are two clocks in `TermAgent`. `ticks` is the ticker's channel and the tick
that is being worked on, each with the time it was made at; the pump counts by
`now`. A sample sums the buckets as they are when it has the lock, from the first
second of its tick's window on and without a last one. So `VerdictHasGrounds` says
that a session which is said to run had its reason since the window of one of the
last ticks began, and `TalksInWindow`, that this was in one window, does not hold.
`wrote`, `cause` and `found` are history variables.

### DropBox

A path is in the root, or in one of two directories; `names` is the directory,
`object` every file and directory ever made. Sessions put, write, read, stat,
set attributes, make, remove and rename in the four modes, and the owner
takes files out at any time (`Takes`). An object is `touched` if somebody wrote
into it, cut it or set its attributes whose it is not; a Setstat with a size is one
way to. `BoxHolds` promises that of a flat box nothing is, and `OnlyOwnTouched`,
which promises it of both, does not hold. `told` compares an answer with the
one an empty box would have given. Symbolic links out of the root are refused by
`os.Root` and are not in the model.

### Proxying

A connection has two ends, `a` and `b`; `Role` says who carries it (`forward`,
`serve`, an UDP flow, client mode, the one-shot server), which decides which end
is in the process's own stack, how many copies there are and what is waited
for. What the own stack was given comes by steps of its own (`Arrives`), then its FIN
(`FinComes`), for as long as the connection or the process is there. `fin[e]` is our
FIN to an end. `closeProxyConn` and `DrainTCP` wait for it five seconds at most:
`ClosesLate` is the timer of the first, `ExitsLate` the cap of the callers of the
second, and either may come at any time while its wait goes on, with the peer still
there. `late` remembers it, and what is under way may then be lost. So
`WholeBothWays` promises what the tunnel's peer sent in any case, and what goes to
it, FIN included, only if no such wait was given up. Bytes are units, `MaxSent` per
peer.

### ServedCommand

`main` is the handler: the steps of its start, each of which may fail, then
`Order`, which differs between a pseudoconsole and the rest. `writers` are those
who hold the command's output, so that a child may outlive it. `Room` is what a
pipe holds. The client may send, shut its side, or leave.

### Serve

The words of the list are read one at a time in any order; then the flags decide
on services (`Services`), on what ends the program (`Fatal`), on the filter
(`Ranges`, with ports that wrap) and, from the same, on who answers a port
(`OnTCP`); then the key decides on the PSK and relay of server and address. Left
out: the files mode, `--allow` and ports to listen on.

## 3. Runs

| Run | States | Question |
|---|---|---|
| `MCTermHistory` | 784,308 | is output delivered faithfully |
| `ReplayKeepsTail` | counterexample | what a replay gives up when its time ends |
| `MCTermService` | about a million | are sessions owned and ended right, and is the contract kept |
| `RemovedIsLetGo` | counterexample | is a late client told of the end |
| `MCRendezvous` | 2,089,352 | is what a client believes true |
| `EvictedOnlyWhenFull` | counterexample | is a client in use evicted without need |
| `MCAdvertise` | 1,581,480 | is every peer told of every endpoint |
| `MappedIsTold` | counterexample | is a mapped port told when a port is fixed |
| `MCParts` | 185,457 | does each of the smaller parts keep its promise |
| `MCLive` | 46,333 | does what must happen happen, in the parts with fairness |
| `ExecCloses` | counterexample | does a connection end with its command |
| `HalfCloseIsCarried` | counterexample | does a half-close pass a proxied target |

Bounds and why they are enough:

* History: a ring of 3 bytes, reads of up to 4, 4 bytes of output, replay
  window 2, chunks of 1, one size epoch, two clients. The ring wraps, a read
  overwrites itself, a slow client is overrun, the window cuts the epoch, and a
  replay is cut short. The alphabet is the newline, ESC and one other byte,
  the three the code tells apart. The clients are symmetric.
* Service: two names, two session objects, two connections, one KILL, a limit
  of one session. Each of the races is between two of these. The refinement is
  checked on the same instance. In `MCLive` there is one name and one
  connection, so the second session reuses the name.
* Rendezvous: two direct-first clients and an index of one entry (two in the
  counterexample), so that it is full at once. The server is restarted once;
  the safety run follows it while it starts (the constraint `Explored`),
  since two of its four properties are about the first run only, and `MCLive`
  follows it further, with one client that may also be pinged by its user.
* Listeners (`MCLive`): one TCP and one UDP port, the UDP one also served by
  `OnUDP` and the TCP one by listeners only; two listener objects, so that a
  port is reused while the old listener is still being let go of; one flow, one
  Accept, and up to two goroutines of its timer, since a third adds nothing
  that the second does not: each only looks at the deadline.
* Served commands (`MCLive`): the four ways to run one, a pipe of two units,
  two units of output, one child. Output may be queued when its writer exits.
* Advertise: one peer, two goroutines, two ports, so that the next port of the
  second wraps; four configurations (a fixed port, the same at the last port, a
  forwarded one, neither). The goroutines are symmetric.
* `MCParts`. Proxy: two flows, eight kinds of proxy and one change, a verdict
  dropped after two failures, a buffer of two units. Egress: a physical and a
  virtual interface, two failures in a row, three changes of network. Map: two
  fetchers in memory or on disk, two versions, one ageing. Address: three keys,
  up to two nodes a region. Hints: three fit, five interfaces of which one is
  virtual and one down. Scanner: two tokens, a CSI buffer of four bytes and an
  OSC buffer of six, which both can exceed, two clients. Agent: four buckets,
  a window of three seconds, the seconds 0 to 4, so that buckets are reused; four
  processes and a walk of two hops, so that a line of them can be too long for it. Drop
  box: two sessions, three objects. Proxying: five roles, one unit a peer.
  Serve: two words, ports 0 to 4, so that a range ends at the last one. Served
  commands: as in `MCLive`, for what safety they have.

### Fairness

`TermService`: the goroutines of the service go on (`MustGoOn`), SIGKILL ends a
process, and a PTY is not kept open by anything once the process is gone. A
process may ignore SIGHUP and a client may stay for ever. Each of these steps
is taken finitely often, so weak fairness of their disjunction is enough. The
second assumption is one about the environment: a daemon that keeps the PTY
open keeps the pump reading.

`Rendezvous`: the relay delivers what is sent over and over (strong fairness of
the deliveries), an attempt sends at once (`ping` sends before it waits) and
sees an ack that has come, timers fire (weak fairness), and a client in use
shakes hands again once its session is gone (`handshakeheal.go`, and
WireGuard's own timers). Nothing makes a server come back that is not started
again, or a timeout late.

`Listeners`: a goroutine whose `select` is ready goes on, and timers fire (weak
fairness). Nobody has to call Accept, and traffic may stop or not.

`ServedCommand`: the handler and its copies go on when they can, and a command
and its child exit in the end (weak fairness of each). Nothing is assumed of the
client, who may stay connected and silent: that is what `ExecCloses` shows.

### Where code and words disagree

1. `ReplayKeepsTail` (`term_service.go` 616): a replay out of time is said to
   drop the head and keep the tail. It sends from the head and skips the tail.
2. `RemovedIsLetGo` (647): `finish` is said to answer ENDED. A client that
   attaches after its first section is attached to a session that goes away
   under it and is told nothing.
3. `EvictedOnlyWhenFull` (`tailcat.go` 1662, 489, 493, and
   `lazy_peer_cap_test.go` 4): the cap is there to keep the index from growing
   and leaves active entries alone. A refresh of a key already in a full index
   evicts another client in use, and the index ends below its cap.
4. `MappedIsTold` (`tailcat.go` 442, `portmapping.go` 319): a mapped port is
   said to be advertised. With a `ListenPort` set, as the CLI does by default,
   and a router that gives the next port, `pinnedEndpointPort` prefers the
   bound port and the filter drops the mapped endpoint from every message.
5. `ExecCloses` (`tailcat_exec.go` 24, 95): a connection is said to be closed
   once its command has exited, the copy of the input finishing on its own. It
   finishes when something is written: an idle client keeps the handler, the
   process unwaited for, and the connection.
6. `HalfCloseIsCarried` (`tailcat.go` 2859): the half-close is said to be
   propagated. The connections `dialForward` makes through a proxy are wrapped
   in types without `CloseWrite`, so the target is closed altogether and a
   response is cut.

Stated in the modules, violated by their models, and without a run of their own
(each under a comment "Does not hold"):

* `CloseReclaims` (`TermService`; `term_service.go` 301, 312): `Close` stays in
  the first session whose process ignores SIGHUP.
* `FocusIsGivenBack` (`TermScan`; `term_service.go` 566, 988): one of the ways
  to detach does not write focus-out.
* `BoundMeansEnabled` (`EgressBind`; `tailcat.go` 2269): the monitor's binding
  may come between the question and the answer of `createEngine`.
* `ResolvedHasRelay` (`RelayAddress`; `tailcat.go` 1281): of a resolved region
  two nodes are kept, which may both be STUN-only.
* `ReplacedByAnother` (`TermService`; `term_frames.go` 70-72, `term_service.go`
  729): a code of ENDED that is not negative is said to be the exit code, and -1 to
  mean that another client was attached. The exit code of a process that died of a
  signal is -1, and is sent as it is.
* `TalksInWindow` (`TermAgent`; `term_service.go` 379, 385): the output counted is
  said to be that of the last seconds, and is that from their first on, up to whenever
  the sampler gets to it.
* `OnlyOwnTouched` (`DropBox`; `tailcat_sftp.go` 250): a session is said to touch only
  what it wrote. That is known by name, and in a recursive box the name may by then be
  another's file, which a Setstat with a size cuts.
* `ControlIsClosed` (`UdpForward`; `socksudp.go` 242, 308): the control connection is
  said to be the caller's to close when the proxy refuses. The caller drops it.

`ConfirmedIsCurrent` (`RelayMap`) holds of the cache in memory and is checked as
part of `MapsAreWhole`; on disk, where map and etag are two files, it does not.

## 4. Proofs

The proofs hold for all values of the constants under the module's `ASSUME`:
any number of clients, sessions, names and bytes, any sizes. TLC has checked
each invariant first.

* `TermHistoryProofs`. The inductive invariant is the type, the ring, that a
  live client is the attached one and caught up, and of every connection that
  what it was sent is a piece of the stream in order, with the gaps allowed,
  and ends right before its offset: without that, a second delivery could
  repeat bytes. It rests on two lemmas: `AppendHolds`, that appending keeps
  "slot `o % History` holds byte `o`" for the newest bytes, however long the
  read; and `BlockIsOutput`, that a block read from the ring is a piece of the
  stream.
  `NoGapWhereReadsFit` goes further than a run can: with the program's sizes,
  where a read fits the history, only a flagged replay has a gap.
* `TermServiceProofs`. The invariant ties the registry to the sessions in both
  directions, `attached` to the connection that streams, and says that the
  process was waited for before a session is reclaimed. `SessionsBounded`
  needs cardinalities: the registry is a bijection between used names and
  sessions that own something, and only `HelloCreates`, behind its guard, adds
  one.
* `RendezvousProofs`. The invariant is that of the checked properties plus
  what makes them inductive: an outsider of a restricted server is not
  registered, has no session and no ack.
* `ListenersProofs`. The invariant splits into one of the listeners and one of
  the flows, and no action disturbs both. The first needs that an unopened
  listener is not closed; the second, that a flow that has not come has no
  timer and that only a flow somebody handles is open. `ClosedWhenIdle` is
  inductive with these: no touch reaches a flow that is closed, so that late it stays.
  `LiveTyped` is about `MCLive`: whichever of its parts runs, its variables keep
  their types. The rendezvous and the service there are instances, for which their
  own proofs hold: `MeowProved` and `TermProved` are instances of the modules with
  the proofs, and `MeowSame` and `TermSame` say that these are the same. For the
  command, `CommandTyped` adds to the types what they need. The parts' constants are
  those of `MCLive`; ports, listeners and flows are any.
* `AdvertiseProofs`. The invariant says of each peer and each endpoint the
  filter is sure to keep that the peer was told or a goroutine is on its way: it
  has just started, or has both in hand. A step of another goroutine disturbs
  nothing of it, which is why overtaking is harmless to it.
* `TermServiceRefinesProofs`. `TruthfulEnd` needs, on top of the invariant of
  `TermServiceProofs`, where each reason comes from: a KILL in hand has found its
  session (`KillsFound`), the end of the process is told by a pump that waited
  (`PumpWaited`), with the code its process left, the end of the service by a loop
  `Close` was called for (`CloseCalled`), a session that never started has nothing to finish
  (`NeverStarted`); and that a connection is told once and in order. With that,
  the refinement of `TerminalContract` goes action by action, one lemma for
  each of its actions (`RefinesHello`, `RefinesSession`, `RefinesKilling`,
  `RefinesAttach`, `RefinesLetGo`, `RefinesFinish`, `RefinesRemove`): the other
  steps leave the mapping as it is. `TerminalContract` has no fairness, so this
  is all of `ServesNames`.
* `PartsProofs`. A part's invariant is proved over its own variables and carried
  to `PartsSpec` by one lemma, that `part` never changes and that a step is the
  part's own. `WholeInv` says that a peer has what its copy moved, and, while
  nobody cuts a connection, that a copy ends only with all it copies, that both
  connections are open until then, and that a FIN is on its way before its
  connection is closed and has come when the tunnel's is, but for a wait that was
  given up (`late`), which only `ClosesLate` and `ExitsLate` set. `OutputInv`
  counts a command's output (what is sent and what is queued is what was written)
  and says that the copy of the output ends only when nobody writes any more, and
  which phase of the session waits for what; the handles of a start that fails are those of the steps before.
  `GivenUpInv` says that the count of a binding never exceeds the failures in a
  row and that nobody evaluates a binding whose count is short; `MapInv` that a
  copy a fetcher asks with is a map, and that in memory a map and its ETag are
  one version; `BoxInv` that in a write-only box a handle names an object of its
  session, and that a flat one remembers names that are its session's for good
  (`FlatOwn`). `ProbeIsShared` is inductive with its types; `AddressIsEnough` follows
  from the state a command starts in.

  `ScanFollows` compares what the scanner has made of the output, byte by byte,
  with what the program's sequences mean, sequence by sequence. `FollowInv` says it
  of every state and not only of one that has caught up: if the scanner read all
  that is still on its way, it would be outside of any sequence and know what the
  program means (`Meant(Run(scan, rest), program)`). Reading then changes nothing,
  since a run of two pieces is a run of the first and then of the second
  (`RunsOn`), which is why it does not matter where the reads cut. Writing a
  sequence is a run of its opening, its payload and its end (`RunsThrough`): the
  opening leaves the scanner in the sequence with an empty buffer (`RunsBegin`), the
  payload fills the buffer as far as there is room and marks what did not fit
  (`RunsInside`, by induction over its length), and the end finishes it. That leaves
  the meaning of one finished buffer, which is where the scanner's splitting at
  semicolons meets the program's list of parameters.

  `PartsTyped` puts the types of all eleven parts together. Some need more than
  themselves: no bucket of the agent counts past the threshold and its counters of
  quiet and of causes stay in their ranges (`AgentTyped`), the relays of an address keep small
  numbers through expanding and shortening (`Numbers`, a conjunct of `AddressInv`)
  and what is encoded or read is never `None`, what an exit prints comes from what it
  saw (`HintsTyped`), and the words and ranges of `serve` stay inside of the ports
  (the lemma `ServeTyped`).
* `PartsListProofs`, which `PartsProofs` extends. Here the steps are folds and recursive functions over
  sequences. The library states induction with an operator as parameter, which
  no prover here can instantiate; `NatMin` and `Induction` state it of sets of
  numbers and serve instead. From them `FoldExists` shows that the recursive
  function a fold is defined by exists, and then what `Kept` (a filter) and
  `Total` (a sum) return is known place by place. On these rest: `ToldInv` (in
  `PartsProofs`, with the rest of the scanner), that the client knows what the
  scanner knows, because no byte changes the title without raising `changed`;
  `CountInv`, that no bucket counts more than was
  written in its second, so that a sum without a last second is no more than what was
  written since the first; and `NamedIsDeepest`, that below the agent the walk over
  the processes names there is no other, where every ancestor is near enough to be
  found; `AddressInv`, that
  `Parsed` undoes `Encoded` for every ConnInfo a server can have, whose lists
  of nodes stay well formed through expanding and shortening; `HintsInv`, that
  `Classify` keeps the public addresses whatever the limit; `ServeInv`, that
  what is served was decided by one set of flags, and `RangesCover`, that the
  ranges made of sorted ports cover these ports and nothing else.

Some invariants are proved and no run lists them any more, because another
property that is checked says more: `BoundedSessions` (`ServesNames`),
`OneLiveClient` (`LiveIsCaughtUp`, `NoSilentClient`), `Watched` (`IdleIsClosed`),
`LazyBounded`, and the type invariants of all but `TermHistory`, which
`TypesHold` repeats for the modules of `MCLive` and `MCParts`.

Only model-checked are the liveness properties of `MCLive` (`NobodyWaitsOnClosed`,
`IdleIsClosed`, `RegistersInBackground`, `SessionReturns`, `EndedIsReclaimed`,
`ExitIsTold`) and all that needs `ENABLED`: out of the prover's reach. Every
invariant and every action property of the passing runs is a theorem, for all values
of the constants; of `MCLive`'s `TypesHold` that is so of the constants it leaves
open.

## 5. Not modelled, and the plan

Not modelled:

* The engine, magicsock, netstack and SSH themselves: libraries, seen through
  the calls the source makes.
* Client: the failure of `ensureStarted` and its retry.
* Advertising and rendezvous composed: a client that restarts under a key the
  server knows is not sent the endpoints again (`tailcat.go` 2128). Both modules
  are at the size TLC can bear; it takes a smaller abstraction of each.
* The exclusion of unreachable local addresses (`localaddr.go`), the pick of a
  region by latency, SSDP and SOAP, the byte layout of frames and of CBOR: pure
  functions or I/O with little to go wrong between steps.
* Host keys and authorized keys, the other commands of the CLI, the local DNS
  name, the web front end, build tools: sequential or thin layers.

The plan, most important first:

1. The composition of advertising and rendezvous, and `TermHistory` as the
   output of one session of `TermService`.
