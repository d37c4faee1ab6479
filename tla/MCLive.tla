---- MODULE MCLive ----
(***************************************************************************)
(* What must eventually happen, for TLC: the parts with fairness, in one   *)
(* run.  They share nothing, so a behaviour is one of a single part: part  *)
(* says which.  Listeners has its own variables, which stay at their       *)
(* initial values beside the other parts; these have theirs in xs.         *)
(***************************************************************************)
EXTENDS Listeners

VARIABLES part, x1, x2, x3, x4, x5, x6, x7, x8, x9, x10, x11

xs == <<x1, x2, x3, x4, x5, x6, x7, x8, x9, x10, x11>>

\* None is none of the names, sessions and clients below.
ASSUME LiveAssumption == None \notin {"n1", "s1", "s2", "c1"}

\* A command run for a client.
Command == INSTANCE ServedCommand WITH
  Mode <- {"exec", "pipes", "pty", "conpty"}, Room <- 2, MaxOut <- 2,
  mode <- x1, main <- x2, handles <- x3, writers <- x4, out <- x5, copies <- x6,
  client <- x7, window <- x8

\* The rendezvous, with one client and a restart of the server.
Meow == INSTANCE Rendezvous WITH
  Client <- {"c1"}, DirectClient <- {"c1"}, PingClient <- {"c1"}, LazyMax <- 1,
  MaxRuns <- 2,
  server <- x1, restricted <- x2, allowed <- x3, clients <- x4, nm <- x5,
  magic <- x6, lazy <- x7, session <- x8, node <- x9, pings <- x10, acks <- x11

\* The terminal service, with one name.
Term == INSTANCE TermService WITH
  Name <- {"n1"}, Session <- {"s1", "s2"}, Client <- {"c1"}, Killer <- {"k1"},
  MaxSessions <- 1,
  registry <- x1, session <- x2, conn <- x3, kill <- x4, closing <- x5

-----------------------------------------------------------------------------
\* What a part leaves of them.
After5 == <<x6, x7, x8, x9, x10, x11>>
After8 == <<x9, x10, x11>>

Unused8 == x9 = None /\ x10 = None /\ x11 = None
Unused5 == x6 = None /\ x7 = None /\ x8 = None /\ Unused8
Unused0 == x1 = None /\ x2 = None /\ x3 = None /\ x4 = None /\ x5 = None /\ Unused5

LiveInit ==
  /\ Init
  /\ \/ part = "listeners" /\ Unused0
     \/ part = "command" /\ Command!Init /\ Unused8
     \/ part = "rdv" /\ Meow!Init
     \/ part = "term" /\ Term!Init /\ Unused5

LiveNext ==
  \/ part = "listeners" /\ Next /\ UNCHANGED <<part, xs>>
  \/ part = "command" /\ Command!Next /\ UNCHANGED <<part, After8, vars>>
  \/ part = "rdv" /\ Meow!Next /\ UNCHANGED <<part, vars>>
  \/ part = "term" /\ Term!Next /\ UNCHANGED <<part, After5, vars>>
First5 == <<x1, x2, x3, x4, x5>>
First8 == <<x1, x2, x3, x4, x5, x6, x7, x8>>

\* As in the modules of the parts, each while it is the one that runs.
LiveFairness ==
  /\ \A f \in Flow :
       /\ WF_vars(part = "listeners" /\ HandleCloses(f))
       /\ WF_vars(part = "listeners" /\ Timing(f))
  /\ \A a \in Accepter : WF_vars(part = "listeners" /\ AcceptFails(a))
  /\ WF_xs(part = "rdv" /\ Meow!Starting)
  /\ SF_xs(part = "rdv" /\ Meow!SendPing("c1"))
  /\ SF_xs(part = "rdv" /\ Meow!OnMeow("c1"))
  /\ SF_xs(part = "rdv" /\ Meow!OnMeowed("c1"))
  /\ SF_xs(part = "rdv" /\ Meow!BackgroundSucceeds("c1"))
  /\ WF_xs(part = "rdv" /\ Meow!BackgroundRetries("c1"))
  /\ WF_xs(part = "rdv" /\ Meow!BackgroundStops("c1"))
  /\ SF_xs(part = "rdv" /\ Meow!Handshake("c1"))
  /\ WF_First5(part = "term" /\ Term!MustGoOn)
  /\ WF_First8(part = "command" /\ Command!Handler)
  /\ WF_First8(part = "command" /\ Command!CopiesIn)
  /\ WF_First8(part = "command" /\ Command!CopiesOut)
  /\ WF_First8(part = "command" /\ Command!OutputEnds)
  /\ \A w \in {"proc", "heir"} : WF_First8(part = "command" /\ Command!Exits(w))

LiveSpec == LiveInit /\ [][LiveNext]_<<part, xs, vars>> /\ LiveFairness

-----------------------------------------------------------------------------
(* Properties *)

\* Every part's variables have their types.
TypesHold ==
  /\ TypeOK
  /\ part = "command" => Command!TypeOK
  /\ part = "rdv" => Meow!TypeOK
  /\ part = "term" => Term!TypeOK

\* Each of these is what the module of its part says under the same name, of the
\* code that module models; where another part runs there is nothing to wait for.
ExitIsTold ==
  (part = "command" /\ Command!Over) ~> (part = "command" /\ Command!Told)

RegistersInBackground ==
  (part = "rdv" /\ Meow!Registering("c1")) ~> (part = "rdv" /\ Meow!NeedsNone("c1"))

SessionReturns ==
  (part = "rdv" /\ Meow!Used("c1")) ~> (part = "rdv" /\ Meow!Connected("c1"))

EndedIsReclaimed ==
  \A s \in {"s1", "s2"} :
    /\ (part = "term" /\ Term!Killed(s)) ~> (part = "term" /\ Term!ReclaimedOrClosing(s))
    /\ (part = "term" /\ Term!Exited(s)) ~> (part = "term" /\ Term!Reclaimed(s))

=============================================================================
