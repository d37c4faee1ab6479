---- MODULE ServedCommand ----
(***************************************************************************)
(* A command run for one client: behind a plain connection (exec, in       *)
(* src/tailcat_exec.go), or in an SSH session with pipes, with a           *)
(* pseudo-terminal, or with a Windows pseudoconsole (src/tailcat_ssh*.go). *)
(* Two copies run beside the handler, and the command may leave a child    *)
(* that still holds its output.                                            *)
(***************************************************************************)
EXTENDS Naturals, Sequences

CONSTANTS
  Mode,   \* a subset of "exec", "pipes", "pty", "conpty"
  Room,   \* what a pipe or a terminal holds before its writer waits
  MaxOut  \* bound: units of output the command writes

VARIABLES
  mode,
  main,     \* the handler: the phase it is in
  handles,  \* what it has open of a terminal or of a pseudoconsole
  writers,  \* who holds the command's output: "proc", "heir"
  out,      \* output written, queued in the pipe, and come to the client
  copies,   \* the copies that still run: "in", "out"
  client,   \* what the client does with its side: "open", "eof" or "gone"
  window    \* whether size changes may still come

vars == <<mode, main, handles, writers, out, copies, client, window>>

-----------------------------------------------------------------------------
(* Start *)

Step(opens, closes, undoes) == [opens |-> opens, closes |-> closes, undoes |-> undoes]

\* What each step of startConPTY opens, what it closes when it succeeds, and what it
\* closes of the earlier ones when it fails.
ConPTY ==
  << Step({"inRead", "inWrite"}, {}, {}),
     Step({"outRead", "outWrite"}, {}, {"inRead", "inWrite"}),
     Step({"hpc"}, {"inRead", "outWrite"}, {"inRead", "outWrite", "inWrite", "outRead"}),
     Step({"proc"}, {}, {"hpc", "inWrite", "outRead"}) >>

PTY == << Step({"ptmx", "tty"}, {}, {}), Step({"winch"}, {"tty"}, {"ptmx", "tty"}) >>

\* Pipes are os/exec's, which closes them itself when a step fails.
Pipes == << Step({}, {}, {}) >>

Steps == IF mode = "conpty" THEN ConPTY ELSE IF mode = "pty" THEN PTY ELSE Pipes

\* What the handler does once the command runs.  A pseudoconsole is closed once its
\* process has exited, which is what lets the copy of its output end; Wait closes the
\* pipes, so that they are drained first.
Phases(console, others) == IF mode = "conpty" THEN console ELSE others

\* Mutants: the command is waited for before its output is drained; the output of a
\* pseudoconsole is drained before it is closed.
OrderWaits == Phases(<<"waits", "closes", "drains", "ended">>, <<"waits", "drains", "ended">>)
OrderDrains == Phases(<<"waits", "drains", "closes", "ended">>, <<"drains", "waits", "ended">>)
Order == Phases(<<"waits", "closes", "drains", "ended">>, <<"drains", "waits", "ended">>)

After(phase) == Order[1 + CHOOSE i \in DOMAIN Order : Order[i] = phase]

\* One step of pty.Open, startConPTY or cmd.Start, which may fail.
Starts(i) ==
  /\ main = <<"starts", i>>
  /\ \/ /\ handles' = (handles \cup Steps[i].opens) \ Steps[i].closes
        /\ IF i < Len(Steps)
           THEN main' = <<"starts", i + 1>> /\ UNCHANGED <<writers, copies>>
           ELSE main' = <<Order[1], 0>> /\ writers' = {"proc"} /\ copies' = {"in", "out"}
     \/ /\ handles' = handles \ Steps[i].undoes
        /\ main' = <<"ended", 0>>
        /\ UNCHANGED <<writers, copies>>
  /\ UNCHANGED <<mode, out, client, window>>

-----------------------------------------------------------------------------
(* The command, and its client *)

\* It writes, or leaves its output to a child that does.
Writes ==
  /\ writers # {} /\ main[1] # "ended"
  /\ out.wrote < MaxOut /\ out.queued < Room
  /\ out' = [out EXCEPT !.wrote = @ + 1, !.queued = @ + 1]
  /\ UNCHANGED <<mode, main, handles, writers, copies, client, window>>

Forks ==
  /\ writers = {"proc"}
  /\ writers' = {"proc", "heir"}
  /\ UNCHANGED <<mode, main, handles, out, copies, client, window>>

Exits(w) ==
  /\ w \in writers
  /\ writers' = writers \ {w}
  /\ UNCHANGED <<mode, main, handles, out, copies, client, window>>

\* The client shuts its sending side, or goes away; either ends the copy of its input.
Leaves(how) ==
  /\ client = "open" \/ (client = "eof" /\ how = "gone")
  /\ client' = how
  /\ UNCHANGED <<mode, main, handles, writers, out, copies, window>>

InputEnds ==
  /\ "in" \in copies
  /\ copies' = copies \ {"in"}
  /\ UNCHANGED <<mode, main, handles, writers, out, client, window>>

\* io.Copy of the input: it ends at the end of what the client sends, or when the
\* client does send something and the command is gone.
CopiesIn == client # "open" /\ InputEnds
Sends == client = "open" /\ main[1] # "ended" /\ "proc" \notin writers /\ InputEnds

\* Mutant: the whole buffer is sent, not what was read into it.
CopiesOutBuffer ==
  /\ "out" \in copies /\ out.queued > 0
  /\ IF client = "gone"
     THEN out' = [out EXCEPT !.queued = @ - 1] /\ copies' = copies \ {"out"}
     ELSE out' = [out EXCEPT !.queued = @ - 1, !.sent = @ + Room] /\ UNCHANGED copies
  /\ UNCHANGED <<mode, main, handles, writers, client, window>>

\* io.Copy of the output.
CopiesOut ==
  /\ "out" \in copies /\ out.queued > 0
  /\ IF client = "gone"
     THEN out' = [out EXCEPT !.queued = @ - 1] /\ copies' = copies \ {"out"}
     ELSE out' = [out EXCEPT !.queued = @ - 1, !.sent = @ + 1] /\ UNCHANGED copies
  /\ UNCHANGED <<mode, main, handles, writers, client, window>>

\* A pipe or a terminal ends when nobody writes to it any more, a pseudoconsole's
\* output when it is closed.
OutputEnds ==
  /\ "out" \in copies /\ out.queued = 0
  /\ IF mode = "conpty" THEN "hpc" \notin handles ELSE writers = {}
  /\ copies' = copies \ {"out"}
  /\ UNCHANGED <<mode, main, handles, writers, out, client, window>>

-----------------------------------------------------------------------------
(* The handler *)

Drained == IF mode = "exec" THEN copies = {} ELSE "out" \notin copies

\* The next phase; at the end come the deferred closes, but the descriptor a terminal's
\* size changes go through is their goroutine's.
PhaseEnds(phase, left) ==
  /\ main' = <<After(phase), 0>>
  /\ handles' = IF After(phase) = "ended" THEN left \cap {"winch"} ELSE left

Drains ==
  /\ main[1] = "drains" /\ Drained
  /\ PhaseEnds("drains", handles)
  /\ UNCHANGED <<mode, writers, out, copies, client, window>>

\* Wait closes the pipes of a process that has exited.
Waits ==
  /\ main[1] = "waits" /\ "proc" \notin writers
  /\ PhaseEnds("waits", handles)
  /\ IF mode \in {"exec", "pipes"}
     THEN out' = [out EXCEPT !.queued = 0] /\ copies' = copies \ {"out"}
     ELSE UNCHANGED <<out, copies>>
  /\ UNCHANGED <<mode, writers, client, window>>

\* CloseConsole takes its clients with it, and blocks until its output is read.
ClosesConsole ==
  /\ main[1] = "closes"
  /\ out.queued = 0
  /\ PhaseEnds("closes", handles \ {"hpc"})
  /\ writers' = {}
  /\ UNCHANGED <<mode, out, copies, client, window>>

\* winCh is closed with the session's channel; the goroutine lets its descriptor go.
WindowEnds ==
  /\ window = "open" /\ (main[1] = "ended" \/ client = "gone")
  /\ window' = "shut"
  /\ UNCHANGED <<mode, main, handles, writers, out, copies, client>>

WindowReturns ==
  /\ window = "shut" /\ "winch" \in handles
  /\ handles' = handles \ {"winch"}
  /\ UNCHANGED <<mode, main, writers, out, copies, client, window>>

Init ==
  /\ mode \in Mode
  /\ main = <<"starts", 1>>
  /\ handles = {}
  /\ writers = {}
  /\ out = [wrote |-> 0, queued |-> 0, sent |-> 0]
  /\ copies = {}
  /\ client = "open"
  /\ window = "open"

Handler == Drains \/ Waits \/ ClosesConsole
Copier == CopiesIn \/ CopiesOut \/ OutputEnds

Next ==
  \/ \E i \in 1 .. 4 : Starts(i)
  \/ Writes \/ Forks
  \/ \E w \in {"proc", "heir"} : Exits(w)
  \/ \E how \in {"eof", "gone"} : Leaves(how)
  \/ Sends \/ Copier \/ Handler \/ WindowEnds \/ WindowReturns

Spec == Init /\ [][Next]_vars

\* The handler's and the copies' goroutines run, and a command exits in the end.
Fairness ==
  /\ WF_vars(Handler) /\ WF_vars(CopiesIn) /\ WF_vars(CopiesOut) /\ WF_vars(OutputEnds)
  /\ \A w \in {"proc", "heir"} : WF_vars(Exits(w))

FairSpec == Spec /\ Fairness

-----------------------------------------------------------------------------
(* Properties *)

\* Every variable has its type.
TypeOK ==
  /\ mode \in Mode
  /\ main \in {<<"starts", i>> : i \in 1 .. 4} \cup {<<p, 0>> : p \in {"drains", "waits", "closes", "ended"}}
  /\ handles \subseteq UNION {{"ptmx", "tty", "winch"}, {"inRead", "inWrite", "outRead", "outWrite", "hpc", "proc"}}
  /\ writers \subseteq {"proc", "heir"}
  /\ out \in [wrote : 0 .. MaxOut, queued : 0 .. Room, sent : 0 .. MaxOut]
  /\ copies \subseteq {"in", "out"}
  /\ client \in {"open", "eof", "gone"} /\ window \in {"open", "shut"}

\* A client that is there has all that was written by the time it is told the end
\* (tailcat_ssh.go:233-238, tailcat_exec.go:93-96): neither Wait nor the end of the
\* console loses the output of a command that exits fast, or of its child.  And
\* whatever step of its start failed, a session leaves nothing open of its terminal
\* or of its pseudoconsole (tailcat_ssh_windows.go:171-273).
WholeOutput ==
  main[1] = "ended" =>
    /\ client # "gone" => out.sent = out.wrote
    /\ handles \subseteq {"winch"}

\* What keeps WholeOutput.  Of what was written nothing is lost, unless the client is
\* gone; what a start that got so far has open; the copy of the output is over only
\* when nobody writes any more; and a phase comes after what it waits for.
Counted ==
  /\ out.sent + out.queued <= out.wrote
  /\ client # "gone" => out.sent + out.queued = out.wrote

OpenBefore ==
  IF mode = "conpty" THEN << {}, {"inRead", "inWrite"}, {"inRead", "inWrite", "outRead", "outWrite"},
                             {"inWrite", "outRead", "hpc"} >>
  ELSE IF mode = "pty" THEN << {}, {"ptmx", "tty"} >> ELSE << {} >>

Starting ==
  main[1] = "starts" =>
    /\ main[2] <= Len(Steps) /\ handles = OpenBefore[main[2]]
    /\ writers = {} /\ copies = {} /\ out.queued = 0

CopiedToTheEnd == "out" \notin copies /\ client # "gone" => writers = {} /\ out.queued = 0

Ordered ==
  /\ main[1] = "closes" => mode = "conpty"
  /\ mode # "conpty" /\ main[1] = "waits" => "out" \notin copies
  /\ mode = "conpty" /\ main[1] \in {"waits", "closes"} => "hpc" \in handles
  /\ mode = "conpty" /\ main[1] = "drains" => writers = {}
  /\ main[1] = "ended" => "out" \notin copies /\ handles \subseteq {"winch"}

OutputInv == TypeOK /\ Counted /\ Starting /\ CopiedToTheEnd /\ Ordered

\* The session of a command that has exited, and whose client stays, comes to its end:
\* nothing waits for an output that ends only with what waits for it.
Over == mode # "exec" /\ copies # {} /\ writers = {}
Told == main[1] = "ended" \/ client = "gone"
ExitIsTold == Over ~> Told

\* tailcat_exec.go:24-25: the connection is closed once the command has exited.
ExecCloses ==
  (mode = "exec" /\ copies # {} /\ writers = {}) ~> (main[1] = "ended")

=============================================================================
