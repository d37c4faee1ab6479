---- MODULE Serve ----
(***************************************************************************)
(* What the serve command makes of its words and flags                     *)
(* (src/cmd/tailcat/tailcat.go, server): which ports it answers and how,   *)
(* which the packet filter in front of them lets through, and which key    *)
(* and relay region the address it prints carries.                         *)
(***************************************************************************)
EXTENDS Naturals, Sequences, Filters

CONSTANTS
  MaxPort,  \* ports are 0 .. MaxPort, of a width they wrap at
  Ssh,      \* port 22
  Term,     \* the terminal service's
  None,
  MaxWords  \* bound: words of the serve list

VARIABLES
  spec,   \* the words read so far: how many, their ports, their services
  phase,  \* "parses", "keyed", "serves" or "fatal"
  serve,  \* the services, and the handlers' options
  filter, \* Server.ServedTCPPorts: None, or ranges
  key,    \* the PSK and the relays the server runs with
  addr    \* those of the address it prints

vars == <<spec, phase, serve, filter, key, addr>>

-----------------------------------------------------------------------------
(* parsePortSet *)

Port == 0 .. MaxPort
Service == {"ssh", "no-auth-ssh", "files", "exit-node", "exec", "term"}

\* A port or a range, either way round.
Ports(a, b) == {p \in Port : (a <= p /\ p <= b) \/ (b <= p /\ p <= a)}

Reads(ports, services) ==
  /\ phase = "parses" /\ spec.words < MaxWords
  /\ spec' = [words |-> spec.words + 1, ports |-> spec.ports \cup ports,
              services |-> spec.services \cup services]
  /\ UNCHANGED <<phase, serve, filter, key, addr>>

ReadsWord ==
  \/ Reads(Port \ {0}, {})
  \/ \E w \in Service : Reads({}, {w})
  \/ \E a, b \in Port : Reads(Ports(a, b), {})

-----------------------------------------------------------------------------
(* The rules of the services *)

\* Mutant: ports two apart are one range.
RangesLoose(ports) ==
  FoldLeft(LAMBDA acc, p :
             IF acc # <<>> /\ p \in {acc[Len(acc)].last + 1, acc[Len(acc)].last + 2}
             THEN [acc EXCEPT ![Len(acc)].last = p]
             ELSE Append(acc, [first |-> p, last |-> p]), <<>>, ports)

\* portRanges
Ranges(ports) ==
  FoldLeft(LAMBDA acc, p :
             IF acc # <<>> /\ (acc[Len(acc)].last + 1) % (MaxPort + 1) = p
             THEN [acc EXCEPT ![Len(acc)].last = p]
             ELSE Append(acc, [first |-> p, last |-> p]), <<>>, ports)

\* With a command, the service is exec unless SSH sessions run it; and an exit node
\* serves files unless it is told not to.
Services(f) ==
  LET asked == spec.services
               \cup (IF f.command /\ spec.services \cap {"ssh", "no-auth-ssh"} = {} THEN {"exec"} ELSE {})
               \cup (IF f.files THEN {"files"} ELSE {})
  IN asked \cup (IF "exit-node" \in asked /\ ~ f.filesOff /\ f.build THEN {"files"} ELSE {})

\* What ends the server before it starts, the keys apart.
Clashes(f, s) ==
  \/ ~ f.build /\ (spec.services \cap {"ssh", "no-auth-ssh", "files"} # {} \/ f.files \/ f.keys)
  \/ ~ f.command /\ "exec" \in spec.services
  \/ "term" \in s /\ "exit-node" \notin s
  \/ {"ssh", "no-auth-ssh"} \subseteq s
  \/ f.command /\ "files" \in s /\ s \cap {"ssh", "no-auth-ssh"} # {}

\* Keys go with ssh, and with nothing else.
Fatal(f, s) == Clashes(f, s) \/ ("ssh" \in s) # f.keys

SshServices(s) == s \cap {"ssh", "no-auth-ssh", "files"} # {}
OneShot(s) == spec.ports = {} /\ s = {}

\* The ports served, 22 first if it is not one of them.
Served(s) ==
  LET sorted == Kept([i \in 1 .. MaxPort + 1 |-> i - 1], spec.ports)
  IN IF SshServices(s) /\ Ssh \notin spec.ports THEN <<Ssh>> \o sorted ELSE sorted

Flags == [command : BOOLEAN, files : BOOLEAN, keys : BOOLEAN, filesOff : BOOLEAN, build : BOOLEAN, term : BOOLEAN]

Decides(f) ==
  /\ phase = "parses"
  /\ LET s == Services(f)
     IN IF Fatal(f, s) THEN phase' = "fatal" /\ UNCHANGED <<serve, filter>>
        ELSE /\ phase' = "keyed"
             /\ serve' = [services |-> s, keys |-> f.keys,
                          only |-> f.command, term |-> f.term]
             /\ filter' = IF OneShot(s) \/ s \cap {"exit-node", "exec"} # {} THEN None
                          ELSE Ranges(Served(s))
  /\ UNCHANGED <<spec, key, addr>>

\* SSHConnHandler: with a command there is nothing but the command.
SSHConnHandler ==
  IF serve.services \cap {"ssh", "no-auth-ssh"} = {} THEN "ssh files"
  ELSE IF serve.only THEN "ssh command" ELSE "ssh shell"

\* Who answers on a port: the first of these that does.
OnTCP(port) ==
  LET s == serve.services
      answers == << <<"exit-node" \in s /\ serve.term /\ port = Term, "term">>,
                    <<port = Ssh /\ SshServices(s), SSHConnHandler>>,
                    <<port \in spec.ports, "local">>,
                    <<"exec" \in s, "exec">>,
                    <<"exit-node" \in s, "local">>,
                    <<OneShot(s), "stdout">> >>
      here == {i \in DOMAIN answers : answers[i][1]}
  IN IF here = {} THEN None ELSE answers[Min(here)][2]

-----------------------------------------------------------------------------
(* The key, the relay region and the address *)

\* A new key has a PSK; a saved one may come without, or with relays of its own, which
\* no map knows.
Kinds == {k \in [saved : BOOLEAN, psk : BOOLEAN, custom : BOOLEAN] : k.saved \/ (k.psk /\ ~ k.custom)}

\* --psk is on unless given; a saved key made without a PSK then needs none.
UsesPsk(k, flag) == flag = "on" \/ (flag = "unset" /\ k.psk)

LacksPsk(k, flag) == UsesPsk(k, flag) /\ ~ k.psk

\* Mutant: the relays are written out if asked for.
EmbedsAsked(k, dev, full) == dev \/ full

\* The relays are written out if asked for, and if no number leads to them.
Embeds(k, dev, full) == dev \/ full \/ k.custom

\* Server.Start: a server that may use a PSK and is given none makes one up.
Started(k, flag) == IF ~ UsesPsk(k, flag) THEN "none" ELSE IF k.psk THEN "key's" ELSE "new"

Keys(k, flag) ==
  /\ phase = "keyed"
  /\ IF LacksPsk(k, flag) THEN phase' = "fatal" /\ UNCHANGED <<key, addr>>
     ELSE \E dev, full \in BOOLEAN :
            /\ phase' = "serves"
            /\ key' = [psk |-> Started(k, flag),
                       relay |-> IF dev THEN "dev" ELSE IF k.custom THEN "own" ELSE "map"]
            /\ addr' = [psk |-> IF UsesPsk(k, flag) /\ k.psk THEN "key's" ELSE "none",
                        relay |-> IF Embeds(k, dev, full) THEN "embedded" ELSE "number"]
  /\ UNCHANGED <<spec, serve, filter>>

Init ==
  /\ spec = [words |-> 0, ports |-> {}, services |-> {}]
  /\ phase = "parses"
  /\ serve = None
  /\ filter = None
  /\ key = None
  /\ addr = None

Next ==
  \/ ReadsWord
  \/ \E f \in Flags : Decides(f)
  \/ \E k \in Kinds, flag \in {"on", "off", "unset"} : Keys(k, flag)

Spec == Init /\ [][Next]_vars

-----------------------------------------------------------------------------
(* Properties *)

Serving == phase \in {"keyed", "serves"}

\* Every variable has its type.
TypeOK ==
  /\ spec \in [words : 0 .. MaxWords, ports : SUBSET Port, services : SUBSET Service]
  /\ phase \in {"parses", "keyed", "serves", "fatal"}
  /\ filter = None \/ \A i \in DOMAIN filter : filter[i] \in [first : Port, last : Port]
  /\ serve = None \/ serve \in [services : SUBSET Service, keys : BOOLEAN, only : BOOLEAN, term : BOOLEAN]

\* The packet filter lets through exactly the ports that OnTCP answers, for every list
\* of words and flags a server starts with: the two are worked out apart
\* (cmd/tailcat/tailcat.go:1471-1481, 1594-1640), and a range list that came out empty would be a
\* filter that lets everything through.  What answers on the SSH port is what was asked
\* for: a shell is given to clients that show no key only where no-auth-ssh names it,
\* and a server whose command is to be all that SSH runs gives neither shell nor files.
PortsAnswerAsAsked ==
  Serving =>
    /\ filter # <<>>
    /\ \A p \in Port :
         (OnTCP(p) # None) <=>
         (filter = None \/ \E i \in DOMAIN filter : filter[i].first <= p /\ p <= filter[i].last)
    /\ OnTCP(Ssh) = "ssh shell" => serve.keys \/ "no-auth-ssh" \in spec.services
    /\ OnTCP(Ssh) = "ssh command" => "files" \notin serve.services

\* With the address a client has all it needs of this server: the PSK the server runs
\* with, and relays that it can look up or that are written out.
AddressIsEnough ==
  phase = "serves" =>
    /\ addr.psk = key.psk
    /\ addr.relay = "number" => key.relay = "map"

=============================================================================
