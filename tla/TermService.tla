---- MODULE TermService ----
(***************************************************************************)
(* The terminal service of cmd/tailcat/term_service.go: the registry of    *)
(* named sessions, the connections attached to them, KILL, and the two     *)
(* ways a session ends (its pump finds the PTY closed, or the service is   *)
(* closed).                                                                *)
(*                                                                         *)
(* An action is one critical section of termService.mu or termSession.mu,  *)
(* or one call outside the locks.  What a session outputs is in            *)
(* TermHistory; here a session is its process, its PTY, its pump and its   *)
(* way through finish.                                                     *)
(***************************************************************************)
EXTENDS Naturals, Sequences, FiniteSets

CONSTANTS
  Name,        \* session names
  Session,     \* termSession objects; each is spawned at most once
  Client,      \* connections that send a HELLO
  Killer,      \* KILL requests, of any connection
  MaxSessions, \* termConfig.maxSessions
  None         \* no session, no client, no name

ASSUME ServiceAssumption ==
  /\ None \notin Name \cup Session \cup Client
  /\ IsFiniteSet(Session)
  /\ MaxSessions \in Nat \ {0}

VARIABLES
  registry, \* termService.sessions
  session,  \* per session: its fields, process, PTY, pump and place in finish
  conn,     \* per connection: where ServeConn is and what the client was told
  kill,     \* per KILL: where kill is
  closing   \* termService.Close: whether it was called, and what it has left

vars == <<registry, session, conn, kill, closing>>

-----------------------------------------------------------------------------
(* State *)

\* finish runs through these once; done is set on the first.
Phase == {"none", "told", "closed", "reclaimed", "removed"}

\* The codes a client can be given in ENDED: an exit status, which is "exited" here
\* and not negative, or -2, -3 and -1.
Reason == {"exited", "killed", "service_stopped", "replaced"}

\* What ProcessState.ExitCode() can be: a status, or for a process that died of a
\* signal -1, which as a code of ENDED is termEndReplaced.
ExitCode == {"exited", "replaced"}

SessionState ==
  [name : Name \cup {None},          \* None: not spawned
   attached : Client \cup {None},
   killed : BOOLEAN,
   phase : Phase,
   finisher : {"none", "pump", "close"},
   process : {"running", "exited", "reaped"},
   code : ExitCode,                  \* of the process, once it is not running
   signal : {"none", "hup", "kill"}, \* the strongest signal it was sent
   held : BOOLEAN,                   \* a process has the PTY open
   pump : {"read", "wait", "finish", "ended"}]

ConnState ==
  [pc : {"idle", "found", "stream", "gone"},
   on : Session \cup {None},
   open : BOOLEAN,
   told : Seq({"attached"} \cup Reason)]

KillState ==
  [pc : {"idle", "found", "signal", "grace", "accepted", "refused"},
   on : Session \cup {None}]

Spawned(s) == session[s].name # None
Done(s) == session[s].phase # "none"
Registered == {n \in Name : registry[n] # None}

-----------------------------------------------------------------------------
(* HELLO *)

\* spawnLocked: the process has the PTY, and the pump reads it.
Started(n) ==
  [name |-> n, attached |-> None, killed |-> FALSE, phase |-> "none",
   finisher |-> "none", process |-> "running", code |-> "exited", signal |-> "none",
   held |-> TRUE, pump |-> "read"]

Found(c, s) == conn' = [conn EXCEPT ![c].pc = "found", ![c].on = s]

\* attachOrCreate finds the session, whether or not it is being finished.
HelloFinds(c, n) ==
  /\ conn[c].pc = "idle"
  /\ registry[n] # None
  /\ Found(c, registry[n])
  /\ UNCHANGED <<registry, session, kill, closing>>

\* Mutant: sessions are created without counting them.
HelloCreatesUnbounded(c, n) ==
  LET fresh == {s \in Session : ~ Spawned(s)}
      s == CHOOSE t \in fresh : TRUE
  IN  /\ conn[c].pc = "idle"
      /\ registry[n] = None
      /\ fresh # {}
      /\ registry' = [registry EXCEPT ![n] = s]
      /\ session' = [session EXCEPT ![s] = Started(n)]
      /\ Found(c, s)
      /\ UNCHANGED <<kill, closing>>

\* ... creates it under the same lock, while there is room ...
HelloCreates(c, n) ==
  LET fresh == {s \in Session : ~ Spawned(s)}
      s == CHOOSE t \in fresh : TRUE
  IN  /\ conn[c].pc = "idle"
      /\ registry[n] = None
      /\ Cardinality(Registered) < MaxSessions
      /\ fresh # {}
      /\ registry' = [registry EXCEPT ![n] = s]
      /\ session' = [session EXCEPT ![s] = Started(n)]
      /\ Found(c, s)
      /\ UNCHANGED <<kill, closing>>

\* ... or answers with an error: no_session (the client does not ask for one),
\* too_many or spawn_failed.
HelloRefused(c, n) ==
  /\ conn[c].pc = "idle"
  /\ registry[n] = None
  /\ conn' = [conn EXCEPT ![c].pc = "gone", ![c].open = FALSE]
  /\ UNCHANGED <<registry, session, kill, closing>>

-----------------------------------------------------------------------------
(* A connection on its session *)

\* The connections after c has been told the reasons and closed.
Closed(cs, c, reasons) ==
  [cs EXCEPT ![c].told = @ \o reasons, ![c].open = FALSE]

\* The connections after the attached one of s, if any, was told and closed.
Let(s, reason) ==
  IF session[s].attached = None THEN conn
  ELSE Closed(conn, session[s].attached, <<reason>>)

\* Mutant: the client attached until now is not told and not closed.
AttachKeepsOld(c) ==
  LET s == conn[c].on
  IN  /\ conn[c].pc = "found"
      /\ session' = [session EXCEPT ![s].attached = c]
      /\ conn' = [conn EXCEPT ![c].pc = "stream", ![c].told = <<"attached">>]
      /\ UNCHANGED <<registry, kill, closing>>

\* stream: the section of attachLocked.  It replaces the client attached until
\* now and does not look at done.
Attach(c) ==
  LET s == conn[c].on
  IN  /\ conn[c].pc = "found"
      /\ session' = [session EXCEPT ![s].attached = c]
      /\ conn' = [Let(s, "replaced") EXCEPT ![c].pc = "stream", ![c].told = <<"attached">>]
      /\ UNCHANGED <<registry, kill, closing>>

\* A frame of the attach fails: stream returns without its deferred function.
AttachFails(c) ==
  LET s == conn[c].on
  IN  /\ conn[c].pc = "found"
      /\ session' = [session EXCEPT ![s].attached = None]
      /\ conn' = [Let(s, "replaced") EXCEPT ![c].pc = "gone", ![c].open = FALSE]
      /\ UNCHANGED <<registry, kill, closing>>

\* The read loop of stream ends, because the peer is gone or detachLocked has
\* closed the connection: the deferred function lets go of the session.
StreamEnds(c) ==
  LET s == conn[c].on
  IN  /\ conn[c].pc = "stream"
      /\ session' = [session EXCEPT ![s].attached = IF @ = c THEN None ELSE @]
      /\ conn' = [conn EXCEPT ![c].pc = "gone", ![c].open = FALSE]
      /\ UNCHANGED <<registry, kill, closing>>

\* A frame of the pump (while it reads) or of the sampler (until done) fails.
FrameFails(s) ==
  /\ Spawned(s)
  /\ session[s].attached # None
  /\ session[s].pump = "read" \/ ~ Done(s)
  /\ session' = [session EXCEPT ![s].attached = None]
  /\ conn' = Closed(conn, session[s].attached, << >>)
  /\ UNCHANGED <<registry, kill, closing>>

-----------------------------------------------------------------------------
(* The process and the operating system *)

\* The process exits: of itself, or of a signal.
Exit(s) ==
  /\ Spawned(s)
  /\ session[s].process = "running"
  /\ \E code \in ExitCode :
       session' = [session EXCEPT ![s].process = "exited", ![s].code = code]
  /\ UNCHANGED <<registry, conn, kill, closing>>

\* The last process that had the PTY open lets go of it.
LetGo(s) ==
  /\ Spawned(s)
  /\ session[s].held
  /\ session' = [session EXCEPT ![s].held = FALSE]
  /\ UNCHANGED <<registry, conn, kill, closing>>

\* A signal reaches a process that has not been waited for.
Signalled(ss, sig) ==
  IF ss.process = "reaped" \/ ss.signal = "kill" THEN ss ELSE [ss EXCEPT !.signal = sig]

-----------------------------------------------------------------------------
(* finish *)

\* Mutant: the exit code goes before a KILL.
TellExitCode(s, who) ==
  /\ ~ Done(s)
  /\ session' = [session EXCEPT ![s].phase = "told", ![s].finisher = who,
                                ![s].attached = None,
                                ![s].pump = IF who = "pump" THEN "ended" ELSE @]
  /\ conn' = Let(s, IF who = "close" THEN "service_stopped" ELSE session[s].code)

\* Its first section: done, ENDED to the attached client, detach.  The reason
\* of the service goes before a KILL, and a KILL before the exit code, which is sent
\* as it is, also where it is negative.
Tell(s, who) ==
  LET reason == IF who = "close" THEN "service_stopped"
                ELSE IF session[s].killed THEN "killed" ELSE session[s].code
  IN  /\ ~ Done(s)
      /\ session' = [session EXCEPT ![s].phase = "told", ![s].finisher = who,
                                    ![s].attached = None,
                                    ![s].pump = IF who = "pump" THEN "ended" ELSE @]
      /\ conn' = Let(s, reason)

\* The master is closed, which hangs up on the processes of the PTY.
CloseMaster(s) ==
  /\ session[s].phase = "told"
  /\ session' = [session EXCEPT ![s] = [Signalled(@, "hup") EXCEPT !.phase = "closed"]]
  /\ UNCHANGED <<registry, conn, kill, closing>>

\* waitOnce: whoever comes first waits, the other for it.  Then the section
\* that releases the ring: nothing here looks at the session in between.
FinishWait(s) ==
  /\ session[s].phase = "closed"
  /\ session[s].process # "running"
  /\ session' = [session EXCEPT ![s].process = "reaped", ![s].phase = "reclaimed"]
  /\ UNCHANGED <<registry, conn, kill, closing>>

\* Mutant: the session is taken out before its process is waited for.
RemoveEarly(s) ==
  /\ session[s].phase \in {"closed", "reclaimed"}
  /\ session' = [session EXCEPT ![s].phase = "removed"]
  /\ registry' = [n \in Name |-> IF n = session[s].name /\ registry[n] = s
                                 THEN None ELSE registry[n]]
  /\ UNCHANGED <<conn, kill, closing>>

\* remove: only this session, never a later one of its name.
Remove(s) ==
  /\ session[s].phase = "reclaimed"
  /\ session' = [session EXCEPT ![s].phase = "removed"]
  /\ registry' = [n \in Name |-> IF n = session[s].name /\ registry[n] = s
                                 THEN None ELSE registry[n]]
  /\ UNCHANGED <<conn, kill, closing>>

-----------------------------------------------------------------------------
(* The pump *)

\* Read fails once nothing has the PTY open, or the master is closed.
PumpReadFails(s) ==
  /\ Spawned(s)
  /\ session[s].pump = "read"
  /\ ~ session[s].held \/ session[s].phase \notin {"none", "told"}
  /\ session' = [session EXCEPT ![s].pump = "wait"]
  /\ UNCHANGED <<registry, conn, kill, closing>>

PumpWait(s) ==
  /\ session[s].pump = "wait"
  /\ session[s].process # "running"
  /\ session' = [session EXCEPT ![s].process = "reaped", ![s].pump = "finish"]
  /\ UNCHANGED <<registry, conn, kill, closing>>

\* Mutant: the pump leaves the session to whoever closes it.
PumpFinishNever(s) ==
  /\ session[s].pump = "finish"
  /\ session' = [session EXCEPT ![s].pump = "ended"]
  /\ UNCHANGED <<registry, conn, kill, closing>>

\* finish(0): nothing to do where the service was faster.
PumpFinish(s) ==
  /\ session[s].pump = "finish"
  /\ \/ /\ Done(s)
        /\ session' = [session EXCEPT ![s].pump = "ended"]
        /\ UNCHANGED conn
     \/ Tell(s, "pump")
  /\ UNCHANGED <<registry, kill, closing>>

-----------------------------------------------------------------------------
(* KILL *)

KillLookup(k, n) ==
  /\ kill[k].pc = "idle"
  /\ kill' = [kill EXCEPT ![k].pc = IF registry[n] = None THEN "refused" ELSE "found",
                          ![k].on = registry[n]]
  /\ UNCHANGED <<registry, session, conn, closing>>

\* killed is set even on a session that is done.
KillMark(k) ==
  LET s == kill[k].on
  IN  /\ kill[k].pc = "found"
      /\ session' = [session EXCEPT ![s].killed = TRUE]
      /\ kill' = [kill EXCEPT ![k].pc = IF Done(s) THEN "refused" ELSE "signal"]
      /\ UNCHANGED <<registry, conn, closing>>

\* SIGHUP to the process group; where that fails, Process.Kill.  No lock is held.
KillSignal(k) ==
  /\ kill[k].pc = "signal"
  /\ \E sig \in {"hup", "kill"} :
       session' = [session EXCEPT ![kill[k].on] = Signalled(@, sig)]
  /\ kill' = [kill EXCEPT ![k].pc = "grace"]
  /\ UNCHANGED <<registry, conn, closing>>

\* Mutant: the grace period ends with another SIGHUP.
KillGraceAsks(k) ==
  LET s == kill[k].on
  IN  /\ kill[k].pc = "grace"
      /\ session' = [session EXCEPT ![s] = IF Done(s) THEN @ ELSE Signalled(@, "hup")]
      /\ kill' = [kill EXCEPT ![k].pc = "accepted"]
      /\ UNCHANGED <<registry, conn, closing>>

\* After the grace period, SIGKILL unless the session is done.
KillGrace(k) ==
  LET s == kill[k].on
  IN  /\ kill[k].pc = "grace"
      /\ session' = [session EXCEPT ![s] = IF Done(s) THEN @ ELSE Signalled(@, "kill")]
      /\ kill' = [kill EXCEPT ![k].pc = "accepted"]
      /\ UNCHANGED <<registry, conn, closing>>

-----------------------------------------------------------------------------
(* Close *)

\* The sessions of this moment are finished one after the other.
CloseStarts ==
  /\ ~ closing.called
  /\ closing' = [called |-> TRUE, left |-> {registry[n] : n \in Registered}]
  /\ UNCHANGED <<registry, session, conn, kill>>

CloseFinishes(s) ==
  /\ s \in closing.left
  /\ \A t \in Session : session[t].finisher = "close" => session[t].phase = "removed"
  /\ closing' = [closing EXCEPT !.left = @ \ {s}]
  /\ IF Done(s) THEN UNCHANGED <<session, conn>> ELSE Tell(s, "close")
  /\ UNCHANGED <<registry, kill>>

-----------------------------------------------------------------------------
NotSpawned == [Started(None) EXCEPT !.held = FALSE, !.pump = "ended"]

Init ==
  /\ registry = [n \in Name |-> None]
  /\ session = [s \in Session |-> NotSpawned]
  /\ conn = [c \in Client |-> [pc |-> "idle", on |-> None, open |-> TRUE, told |-> << >>]]
  /\ kill = [k \in Killer |-> [pc |-> "idle", on |-> None]]
  /\ closing = [called |-> FALSE, left |-> {}]

Finishing(s) == CloseMaster(s) \/ FinishWait(s) \/ Remove(s)

Pumping(s) == PumpReadFails(s) \/ PumpWait(s) \/ PumpFinish(s)

Killing(k) == KillMark(k) \/ KillSignal(k) \/ KillGrace(k)

Next ==
  \/ \E c \in Client :
       \/ \E n \in Name : HelloFinds(c, n) \/ HelloCreates(c, n) \/ HelloRefused(c, n)
       \/ Attach(c) \/ AttachFails(c) \/ StreamEnds(c)
  \/ \E s \in Session :
       \/ FrameFails(s) \/ Exit(s) \/ LetGo(s)
       \/ Pumping(s) \/ Finishing(s) \/ CloseFinishes(s)
  \/ \E k \in Killer : Killing(k) \/ \E n \in Name : KillLookup(k, n)
  \/ CloseStarts

Spec == Init /\ [][Next]_vars

\* What must not stop: the goroutines of the service, and of the environment
\* that SIGKILL ends a process and that nothing keeps the PTY of a process that
\* is gone open.  A process may ignore SIGHUP and a client may stay forever.
\* Every step is taken finitely often, so fairness to the whole is enough.
MustGoOn ==
  \/ \E c \in Client :
       Attach(c) \/ AttachFails(c) \/ (StreamEnds(c) /\ ~ conn[c].open)
  \/ \E s \in Session :
       \/ Pumping(s) \/ Finishing(s) \/ CloseFinishes(s)
       \/ Exit(s) /\ session[s].signal = "kill"
       \/ LetGo(s) /\ session[s].process # "running"
  \/ \E k \in Killer : Killing(k)

FairSpec == Spec /\ WF_vars(MustGoOn)

-----------------------------------------------------------------------------
(* Properties *)

TypeOK ==
  /\ registry \in [Name -> Session \cup {None}]
  /\ session \in [Session -> SessionState]
  /\ conn \in [Client -> ConnState]
  /\ kill \in [Killer -> KillState]
  /\ closing \in [called : BOOLEAN, left : SUBSET Session]

\* A session that still owns something (its process not waited for, its master
\* open, its ring held) is in the registry under its own name, where LIST and
\* KILL find it, and a session taken out of it owns nothing any more.
RegisteredUntilReclaimed ==
  \A s \in Session :
    Spawned(s) =>
      \/ session[s].phase # "removed" /\ registry[session[s].name] = s
      \/ session[s].phase = "removed" /\ session[s].process = "reaped"

\* No more than MaxSessions sessions own something at a time, those being
\* finished included.
BoundedSessions ==
  Cardinality({s \in Session : Spawned(s) /\ session[s].phase # "removed"}) <= MaxSessions

\* c is connected and waits for the output of s.
ListensTo(c, s) == conn[c].pc = "stream" /\ conn[c].open /\ conn[c].on = s

\* Whoever listens is the one its session writes to, and was closed, with a reason,
\* by the section that ended its session or gave it to another: after no step is
\* there a client left connected that nothing will be written to.  One is excepted:
\* who attaches to a session that is done already, of which RemovedIsLetGo tells.
NoSilentClient ==
  [][\A c \in Client, s \in Session :
       ListensTo(c, s)' => session'[s].attached = c /\ (Done(s)' => Done(s))]_vars

\* d came to the session of c as well, to be attached to it.
CameToo(d, c) == d # c /\ conn[d].on = conn[c].on /\ conn[d].pc \in {"stream", "gone"}

\* The code a client was given last is true of its session: the exit status of
\* a process that was waited for and whose session no KILL had been accepted
\* on, a KILL, the end of the service, or -1, which is that of another client in its
\* place or of such a process that died of a signal.  It is the last thing the client
\* was told, and its connection is closed.
TruthfulEnd ==
  \A c \in Client :
    LET told == conn[c].told
        s    == conn[c].on
        over(code) == /\ session[s].process = "reaped" /\ session[s].code = code
                      /\ \A k \in Killer : kill[k].on = s => kill[k].pc \in {"found", "refused"}
    IN  \A i \in DOMAIN told \ {1} :
          /\ i = Len(told) /\ ~ conn[c].open
          /\ told[i] = "exited" => over("exited")
          /\ told[i] = "replaced" => over("replaced") \/ \E d \in Client : CameToo(d, c)
          /\ told[i] = "killed" => session[s].killed /\ session[s].finisher = "pump"
          /\ told[i] = "service_stopped" => closing.called /\ session[s].finisher = "close"

\* Does not hold.  What the comment at term_frames.go:70-72 says of the codes of ENDED:
\* one that is not negative is the exit status of the process, a negative one a reason
\* of the service, and -1 that another client was attached.
ReplacedByAnother ==
  \A c \in Client :
    \A i \in DOMAIN conn[c].told :
      conn[c].told[i] = "replaced" => \E d \in Client : CameToo(d, c)

\* A session somebody accepted a KILL of is taken out of the registry with its
\* process waited for, though the process may ignore SIGHUP; unless Close runs.
\* So is one whose process exits, whoever is finishing what.
Killed(s) == session[s].killed
Exited(s) == session[s].process # "running"
Reclaimed(s) == session[s].phase = "removed"
ReclaimedOrClosing(s) == Reclaimed(s) \/ closing.called
EndedIsReclaimed ==
  \A s \in Session :
    /\ Killed(s) ~> ReclaimedOrClosing(s)
    /\ Exited(s) ~> Reclaimed(s)

\* What the comment at term_service.go:647 says of finish: a client of a
\* session is told of its end, so nobody is attached to one that is gone.
RemovedIsLetGo ==
  \A s \in Session : session[s].phase = "removed" => session[s].attached = None

\* Does not hold.  What the comment at term_service.go:301 says of Close: every session
\* it found goes through the same reclaiming.  A child that ignores SIGHUP keeps Close
\* in its session for ever (term_service.go:312, 674).
CloseReclaims ==
  \A s \in Session :
    (closing.called /\ s \in closing.left) ~> session[s].phase = "removed"
====
