---- MODULE TerminalContract ----
(***************************************************************************)
(* What the terminal service promises to those who use it: a name stands   *)
(* for one session, from its spawn until it is over and its process has    *)
(* been waited for; there are no more than MaxSessions of them; a session  *)
(* has one client at a time, and a client one session in its life; and     *)
(* whom it lets go of it tells why, once, by a code that is true of what   *)
(* happened, though one code has two meanings: -1, which is "replaced",    *)
(* is also the exit code of a process that died of a signal.  How the      *)
(* service gets there, in which critical sections and on which goroutines, *)
(* is TermService's; TermServiceRefines shows that it does.                *)
(***************************************************************************)
EXTENDS Naturals, FiniteSets

CONSTANTS Name, Session, Client, MaxSessions, None

VARIABLES
  serves,   \* the session a name stands for
  process,  \* of a session: "unborn", "alive"; waited for: "dead", or "slain" if it
            \* died of a signal; "gone"
  over,     \* whether a session was brought to its end
  audience, \* the client a session writes to
  heard     \* what a client was told last

vars == <<serves, process, over, audience, heard>>

Ending == {"exited", "killed", "service_stopped", "replaced"}

\* The client of s, if it has one, hears a word.
Hears(s, word) ==
  heard' = IF audience[s] = None THEN heard ELSE [heard EXCEPT ![audience[s]] = word]

Spawn(n, s) ==
  /\ serves[n] = None /\ process[s] = "unborn"
  /\ Cardinality({m \in Name : serves[m] # None}) < MaxSessions
  /\ serves' = [serves EXCEPT ![n] = s]
  /\ process' = [process EXCEPT ![s] = "alive"]
  /\ UNCHANGED <<over, audience, heard>>

Dies(s) ==
  /\ process[s] = "alive"
  /\ \E way \in {"dead", "slain"} : process' = [process EXCEPT ![s] = way]
  /\ UNCHANGED <<serves, over, audience, heard>>

\* A client takes the place of the one before it, also in a session that is over:
\* its name is looked up before it is attached.
Joins(c, s) ==
  /\ process[s] # "unborn" /\ heard[c] = None
  /\ heard' = [d \in Client |-> IF d = c THEN "attached"
                                ELSE IF d = audience[s] THEN "replaced" ELSE heard[d]]
  /\ audience' = [audience EXCEPT ![s] = c]
  /\ UNCHANGED <<serves, process, over>>

\* A client goes, or its connection fails, or one that was to replace it fails.
Parts(s) ==
  /\ audience[s] # None
  /\ UNCHANGED heard \/ Hears(s, "replaced")
  /\ audience' = [audience EXCEPT ![s] = None]
  /\ UNCHANGED <<serves, process, over>>

\* The session is brought to its end.  Only of a dead process is it said to have
\* exited, and "replaced" is said of one that was slain.
Ends(s) ==
  /\ process[s] \in {"alive", "dead", "slain"} /\ ~ over[s]
  /\ over' = [over EXCEPT ![s] = TRUE]
  /\ \E word \in Ending :
       /\ word = "exited" => process[s] = "dead"
       /\ word = "replaced" => process[s] = "slain"
       /\ Hears(s, word)
  /\ audience' = [audience EXCEPT ![s] = None]
  /\ UNCHANGED <<serves, process>>

\* Its name is free again.
Reclaims(n) ==
  /\ serves[n] # None
  /\ over[serves[n]] /\ process[serves[n]] \in {"dead", "slain"}
  /\ process' = [process EXCEPT ![serves[n]] = "gone"]
  /\ serves' = [serves EXCEPT ![n] = None]
  /\ UNCHANGED <<over, audience, heard>>

Init ==
  /\ serves = [n \in Name |-> None]
  /\ process = [s \in Session |-> "unborn"]
  /\ over = [s \in Session |-> FALSE]
  /\ audience = [s \in Session |-> None]
  /\ heard = [c \in Client |-> None]

Next ==
  \/ \E n \in Name : Reclaims(n) \/ \E s \in Session : Spawn(n, s)
  \/ \E s \in Session : Dies(s) \/ Parts(s) \/ Ends(s) \/ \E c \in Client : Joins(c, s)

Spec == Init /\ [][Next]_vars

=============================================================================
