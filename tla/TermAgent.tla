---- MODULE TermAgent ----
(***************************************************************************)
(* What a terminal session is at (src/cmd/tailcat/term_agent.go): a ticker *)
(* has its foreground process group looked up in a table of processes, the *)
(* deepest agent in it is named, and the session is said to run, wait or   *)
(* idle by the bytes it wrote in the last seconds, by its CPU time if it   *)
(* is no agent, and with some patience.  The last seconds are those before *)
(* the tick.  The table is read after it, which takes a while, and the     *)
(* pump goes on counting by a clock of its own.                            *)
(***************************************************************************)
EXTENDS Integers, Filters

CONSTANTS
  Outcome,     \* what a table of processes can be taken for: ProcessTable's Outcome
  Buckets,     \* len(outBuckets)
  Window,      \* agentOutWindowSec
  Threshold,   \* agentOutThreshold, in units of output
  Degrade,     \* agentQuietDegrade
  MaxQuiet,    \* where the count of quiet samples stops: 99
  MaxTime      \* bound: seconds

VARIABLES
  now,
  buckets, \* outBuckets: the second, and what was written in it
  agent,   \* the verdict: agent, state, and the CPU ticks and quiet samples it keeps
  wrote,   \* what was really written, per second
  cause,   \* samples since one had a reason to call the session running
  found,   \* what the table was last taken for
  ticks    \* times of the ticks: of one that is worked on, of one in the channel

vars == <<now, buckets, agent, wrote, cause, found, ticks>>

-----------------------------------------------------------------------------
(* The output of the last seconds *)

\* countOutLocked: into this second's bucket, or that of the oldest.
Counted(n) ==
  LET mine == {i \in 1 .. Buckets : buckets[i].sec = now}
      oldest == CHOOSE i \in 1 .. Buckets :
                  \A j \in 1 .. Buckets :
                    buckets[i].sec < buckets[j].sec \/ (buckets[i].sec = buckets[j].sec /\ i <= j)
  IN IF mine # {} THEN [buckets EXCEPT ![Min(mine)].n = @ + n]
     ELSE [buckets EXCEPT ![oldest] = [sec |-> now, n |-> n]]

\* Mutant: a window of one second more.
OutBytesWide(at) ==
  Total([i \in 1 .. Buckets |-> IF buckets[i].sec >= at - Window THEN buckets[i].n ELSE 0])

\* outBytesLocked, which has a first second and no last one.
OutBytes(at) ==
  Total([i \in 1 .. Buckets |-> IF buckets[i].sec >= at - Window + 1 THEN buckets[i].n ELSE 0])

\* What was really written from the first second of a window to another.
WrittenTo(at, last) ==
  Total([i \in 1 .. MaxTime + 1 |->
          IF i - 1 > at - Window /\ i - 1 <= last THEN wrote[i - 1] ELSE 0])
Written(at) == WrittenTo(at, now)

-----------------------------------------------------------------------------

\* agentNames
Agent == {"codex", "claude"}

Unknown == [agent |-> "unknown", state |-> "unknown", quiet |-> 0]
NotFound == [who |-> "unknown", deeper |-> {}, tall |-> FALSE]

\* classifyAgent, for a group that was found.  busy: its CPU ticks are more than
\* those of the sample before, whichever group that was of.
Verdict(who, talks, busy) ==
  LET working == talks \/ (who \notin Agent /\ busy)
      quiet == IF working THEN 0 ELSE IF agent.quiet < MaxQuiet THEN agent.quiet + 1 ELSE MaxQuiet
      holds == agent.state = "running" /\ quiet <= Degrade
  IN [agent |-> who,
      state |-> IF working \/ holds THEN "running" ELSE IF who \in Agent THEN "waiting" ELSE "idle",
      quiet |-> quiet]

\* pump: output comes in.  Bound: no more than the threshold in a window.
Writes ==
  /\ Written(now) < Threshold
  /\ buckets' = Counted(1)
  /\ wrote' = [wrote EXCEPT ![now] = @ + 1]
  /\ UNCHANGED <<now, agent, cause, found, ticks>>

\* The ticker, which drops what does not fit its channel.
TickerFires ==
  /\ Len(ticks) < 2
  /\ ticks' = Append(ticks, now)
  /\ UNCHANGED <<now, buckets, agent, wrote, cause, found>>

\* sampleOnce of the tick that was received first: the table could not be read, or
\* the group is not in it ...
SamplesNothing ==
  /\ ticks # <<>> /\ ticks' = Tail(ticks)
  /\ agent' = Unknown /\ found' = NotFound
  /\ cause' = IF cause > Degrade THEN cause ELSE cause + 1
  /\ UNCHANGED <<now, buckets, wrote>>

\* ... or it is.
Samples ==
  /\ ticks # <<>> /\ ticks' = Tail(ticks)
  /\ \E o \in Outcome, busy \in BOOLEAN :
       /\ agent' = Verdict(o.who, OutBytes(Head(ticks)) >= Threshold, busy)
       /\ found' = o
       /\ cause' = IF Written(Head(ticks)) >= Threshold \/ (o.who = "other" /\ busy) THEN 0
                   ELSE IF cause > Degrade THEN cause ELSE cause + 1
  /\ UNCHANGED <<now, buckets, wrote>>

Tick ==
  /\ now < MaxTime
  /\ now' = now + 1
  /\ UNCHANGED <<buckets, agent, wrote, cause, found, ticks>>

Init ==
  /\ now = 0
  /\ buckets = [i \in 1 .. Buckets |-> [sec |-> 0 - Buckets, n |-> 0]]
  /\ agent = Unknown
  /\ wrote = [t \in 0 .. MaxTime |-> 0]
  /\ cause = 0
  /\ found = NotFound
  /\ ticks = <<>>

Next == Writes \/ TickerFires \/ SamplesNothing \/ Samples \/ Tick

Spec == Init /\ [][Next]_vars

-----------------------------------------------------------------------------
(* Properties *)

\* Every variable has its type.
TypeOK ==
  /\ now \in 0 .. MaxTime
  /\ buckets \in [1 .. Buckets -> [sec : (0 - Buckets) .. MaxTime, n : 0 .. Threshold]]
  /\ agent.agent \in Agent \cup {"other", "unknown"}
  /\ agent.state \in {"unknown", "running", "waiting", "idle"} /\ agent.quiet \in 0 .. MaxQuiet
  /\ cause \in 0 .. Degrade + 1
  /\ found \in {NotFound} \cup Outcome
  /\ ticks \in Seq(0 .. MaxTime) /\ Len(ticks) <= 2

\* A session that is said to run had a reason to be at one of the last samples
\* (term_agent.go:59-78, 147-168): as much output as the threshold, by the true count,
\* since the window of the tick began, or CPU time if it is no agent.  What was written
\* after the tick counts too: see TalksInWindow.  And of agents in one line of
\* processes the deepest is named (term_agent.go:113-125), in whatever order the
\* table has them, if no line is longer than isDescendantOf looks.
VerdictHasGrounds ==
  /\ agent.state = "running" => cause <= Degrade
  /\ ~ found.tall => found.deeper = {}

\* Does not hold.  "outBytesLocked: the bytes put out in the last
\* agentOutWindowSec seconds, this one included" (term_service.go:379), of which
\* term_agent.go:147 says that an agent talks: one starts to run only if as much as the
\* threshold was written in some Window seconds.  But the sum has no last second
\* (term_service.go:385), and the tick's is not the pump's (745, 703).
TalksInWindow ==
  [][agent'.state = "running" /\ agent.state # "running" /\ agent'.agent \in Agent =>
       \E last \in 0 .. now : WrittenTo(last, last) >= Threshold]_vars

=============================================================================
