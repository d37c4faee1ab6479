---- MODULE TermServiceRefines ----
(***************************************************************************)
(* TermService implements TerminalContract.                                *)
(***************************************************************************)
EXTENDS TermService

\* A process counts as alive until somebody has waited for it.
Life(s) ==
  IF ~ Spawned(s) THEN "unborn"
  ELSE IF session[s].phase = "removed" THEN "gone"
  ELSE IF session[s].process # "reaped" THEN "alive"
  ELSE IF session[s].code = "exited" THEN "dead" ELSE "slain"

LastWord(c) ==
  LET told == conn[c].told IN IF told = << >> THEN None ELSE told[Len(told)]

Contract == INSTANCE TerminalContract WITH
  serves <- registry,
  process <- [s \in Session |-> Life(s)],
  over <- [s \in Session |-> Done(s)],
  audience <- [s \in Session |-> session[s].attached],
  heard <- [c \in Client |-> LastWord(c)]

\* Whatever the pump, a KILL, Close and the connections do to each other, each of
\* their critical sections (term_service.go:273-316, 645-1117) is one step of the
\* contract or none: names stand for sessions that own something, no more than
\* MaxSessions, and clients are let go of with one code, that of what happened.
ServesNames == Contract!Spec

=============================================================================
