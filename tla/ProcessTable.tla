---- MODULE ProcessTable ----
(***************************************************************************)
(* What the foreground process group of a terminal session is taken for    *)
(* (src/cmd/tailcat/term_agent.go), given a table of its processes: pure   *)
(* operators, over all tables of Procs processes.                          *)
(***************************************************************************)
EXTENDS Integers, Sequences, SequencesExt, FiniteSetsExt

CONSTANTS
  None,
  Procs,       \* processes are 1 .. Procs, parents before their children
  Hops         \* how many parents isDescendantOf looks at: 16

\* A word of a command line: the agent its base name is, whether it has a path, is
\* a runner's name, or is an option.
Word(name, path, runner, option) ==
  [name |-> name, path |-> path, runner |-> runner, option |-> option]
Plain == Word(None, FALSE, FALSE, FALSE)
Runner == Word(None, FALSE, TRUE, FALSE)

\* agentOfCommand: the program itself, a script with its path, or a bare name that
\* a runner runs; an argument that only looks like one is none.
AgentOfCommand(words) ==
  IF words = <<>> THEN None
  ELSE IF words[1].name # None THEN words[1].name
  ELSE LET hits == {i \in 2 .. Len(words) :
             /\ ~ words[i].option /\ words[i].name # None
             /\ words[i].path \/ words[i - 1].runner}
       IN IF hits = {} THEN None ELSE words[Min(hits)].name

\* npx codex, node --x .../claude.js, and grep codex or a shell
Command ==
  {<<Runner, Word("codex", FALSE, FALSE, FALSE)>>,
   <<Plain, Word(None, FALSE, FALSE, TRUE), Word("claude", TRUE, FALSE, FALSE)>>,
   <<Plain, Word("codex", FALSE, FALSE, FALSE)>>}

\* The parents of a process, theirs, and so on to one the table does not have.
Ancestors(p, parent) ==
  LET up[q \in 0 .. Procs] == IF q = 0 THEN {} ELSE {parent[q]} \cup up[parent[q]]
  IN up[p]

\* isDescendantOf: up from parent to parent, but not for ever.
IsDescendantOf(p, q, parent) ==
  LET cur[hops \in 0 .. Hops] ==
        IF hops = 0 THEN p ELSE IF cur[hops - 1] = 0 THEN 0 ELSE parent[cur[hops - 1]]
  IN \E hops \in 1 .. Hops : cur[hops] = q

\* A process has an ancestor that is further up than it looks.
Tall(parent) ==
  \E p, q \in 1 .. Procs : q \in Ancestors(p, parent) /\ ~ IsDescendantOf(p, q, parent)

\* classifyAgent: of the members of the group that match, in the table's order,
\* each that is below the one named so far takes its place.
Named(order, parent, command) ==
  LET step(best, p) ==
        IF AgentOfCommand(command[p]) # None
           /\ (best = None \/ IsDescendantOf(p, best, parent))
        THEN p ELSE best
  IN FoldLeft(step, None, order)

\* Matches below the one that is named, however far.
Deeper(named, parent, command) ==
  {p \in 1 .. Procs : named # None /\ AgentOfCommand(command[p]) # None
                      /\ named \in Ancestors(p, parent)}

\* The orders a table can have them in.
Orders == {s \in [1 .. Procs -> 1 .. Procs] : \A p \in 1 .. Procs : \E i \in 1 .. Procs : s[i] = p}

\* A process has its parent before it, which is 0 if it is not in the table.
Parents == {up \in [1 .. Procs -> 0 .. Procs] : \A p \in 1 .. Procs : up[p] < p}

\* What a table of processes is taken for, in any order and of any shape.  The
\* shell alone, which is called by another name, is "other" too.
Outcome ==
  {LET named == Named(t[1], t[2], t[3])
   IN [who |-> IF named = None THEN "other" ELSE AgentOfCommand(t[3][named]),
       deeper |-> Deeper(named, t[2], t[3]), tall |-> Tall(t[2])] :
     t \in Orders \X Parents \X [1 .. Procs -> Command]}

=============================================================================
