---- MODULE TermScan ----
(***************************************************************************)
(* What a terminal session knows of the program that runs in it without    *)
(* consuming a byte (src/cmd/tailcat/term_modes.go): the scanner that      *)
(* reads modes and title out of the output, cut anywhere by the reads; the *)
(* STATE frames that tell the attached client; and the focus events that   *)
(* tell the program whether somebody looks (term_service.go 550-580).      *)
(***************************************************************************)
EXTENDS Integers, Sequences, Filters

CONSTANTS
  Client,
  None,
  MaxCSI,    \* termScanMaxCSI, in units of a parameter or a separator
  MaxOSC,    \* termScanMaxOSC
  TitleMax,  \* termTitleMax
  Tokens,    \* the sequences the program may write, some of Token
  MaxTokens  \* bound: of sequences the program writes

VARIABLES
  scan,     \* termScan
  output,   \* bytes written and not yet read, and sequences written so far
  program,  \* what it wants: modes and title, and the focus it was last told of
  activity, \* agent and state of the session, as one value
  attached, \* the client, or None
  told      \* what its frames told it: activity, title (None until a STATE frame comes);
            \* and the title there was at the last of them

vars == <<scan, output, program, activity, attached, told>>

-----------------------------------------------------------------------------
(* What a program writes, and what it means *)

Mode == {"focus", "alt"}
Activity == {"idle", "running"}

\* The units of the output: a parameter, a code or a letter is one, and so is a
\* semicolon ("sep").
Final == {"h", "l", "m"}
Param == Mode \cup {"other"}
Code == {"0", "2", "52"}
Letter == {"a", "b", "ctl"}
Byte == Final \cup Param \cup Code \cup Letter \cup {"esc", "bel", "[", "]", "\\", "?", "sep"}

Csi(private, params, final) ==
  [kind |-> "csi", private |-> private, params |-> params, final |-> final]
Osc(code, text, end) == [kind |-> "osc", code |-> code, text |-> text, end |-> end]

\* Text, an escape of another kind, and sequences of any length.  An OSC that is broken
\* off has no end.
Token ==
  [kind : {"text", "escape"}]
  \cup [kind : {"csi"}, private : BOOLEAN, params : Seq(Param), final : Final]
  \cup [kind : {"osc"}, code : Code, text : Seq(Letter), end : {"bel", "st", "cut"}]

\* Parameters, with their separators.
Joined(params) ==
  [i \in 1 .. 2 * Len(params) - 1 |-> IF i % 2 = 1 THEN params[(i + 1) \div 2] ELSE "sep"]

Payload(t) ==
  IF t.kind = "csi" THEN (IF t.private THEN <<"?">> ELSE <<>>) \o Joined(t.params)
  ELSE <<t.code, "sep">> \o t.text

\* How it ends.
End(t) ==
  IF t.kind = "csi" THEN <<t.final>>
  ELSE IF t.end = "bel" THEN <<"bel">>
  ELSE IF t.end = "st" THEN <<"esc", "\\">> ELSE <<"esc", "other">>

Bytes(t) ==
  CASE t.kind = "text" -> <<"h", "sep", "bel">>
    [] t.kind = "escape" -> <<"esc", "other">>
    [] OTHER -> <<"esc", IF t.kind = "csi" THEN "[" ELSE "]">> \o Payload(t) \o End(t)

\* sanitizeTitle
SanitizeTitle(text) ==
  LET clean == Kept(text, Byte \ {"ctl"})
  IN SubSeq(clean, 1, IF Len(clean) < TitleMax THEN Len(clean) ELSE TitleMax)

\* What a sequence means, whole and no longer than the limits.
Means(p, t) ==
  CASE t.kind = "csi" /\ t.private /\ Len(Payload(t)) <= MaxCSI /\ t.final = "h" ->
         [p EXCEPT !.modes = @ \cup (ToSet(t.params) \cap Mode)]
    [] t.kind = "csi" /\ t.private /\ Len(Payload(t)) <= MaxCSI /\ t.final = "l" ->
         [p EXCEPT !.modes = @ \ ToSet(t.params)]
    [] t.kind = "osc" /\ t.code \in {"0", "2"} /\ t.end # "cut" /\ Len(Payload(t)) <= MaxOSC ->
         [p EXCEPT !.title = SanitizeTitle(t.text)]
    [] OTHER -> p

-----------------------------------------------------------------------------
(* The scanner *)

Push(s, b, max) ==
  IF Len(s.buf) >= max THEN [s EXCEPT !.tooLong = TRUE] ELSE [s EXCEPT !.buf = Append(@, b)]

\* splitSemi: the parameters there are, of which the order does not matter.
SplitSemi(buf) == {buf[i] : i \in DOMAIN buf} \ {"sep"}

\* Mutant: whether this sequence changed anything replaces what others did.
FinishCSILast(s, final) ==
  IF final \notin {"h", "l"} \/ s.buf = <<>> \/ s.buf[1] # "?" THEN s
  ELSE LET bits == SplitSemi(Tail(s.buf)) \cap Mode
           modes == IF final = "h" THEN s.modes \cup bits ELSE s.modes \ bits
       IN [s EXCEPT !.modes = modes, !.changed = modes # s.modes]

\* finishCSI: private modes are set or reset, one after the other.
FinishCSI(s, final) ==
  IF final \notin {"h", "l"} \/ s.buf = <<>> \/ s.buf[1] # "?" THEN s
  ELSE LET bits == SplitSemi(Tail(s.buf)) \cap Mode
           modes == IF final = "h" THEN s.modes \cup bits ELSE s.modes \ bits
       IN [s EXCEPT !.modes = modes, !.changed = @ \/ modes # s.modes]

\* finishOSC
FinishOSC(s) ==
  IF Len(s.buf) < 2 \/ s.buf[2] # "sep" \/ s.buf[1] \notin {"0", "1", "2"} THEN s
  ELSE LET title == SanitizeTitle(SubSeq(s.buf, 3, Len(s.buf)))
       IN [s EXCEPT !.title = title, !.changed = @ \/ title # s.title]

\* Mutant: a sequence that was too long spoils the ones after it.
BeginsSpoilt(s, st) == [s EXCEPT !.st = st, !.buf = <<>>]

Begins(s, st) == [s EXCEPT !.st = st, !.buf = <<>>, !.tooLong = FALSE]

Ended(s) == [s EXCEPT !.st = "none"]

\* byteIn
ByteIn(s, b) ==
  CASE s.st = "none" -> IF b = "esc" THEN [s EXCEPT !.st = "esc"] ELSE s
    [] s.st = "esc" -> IF b = "[" THEN Begins(s, "csi")
                       ELSE IF b = "]" THEN Begins(s, "osc") ELSE Ended(s)
    [] s.st = "csi" -> IF b \in Final
                       THEN Ended(IF s.tooLong THEN s ELSE FinishCSI(s, b))
                       ELSE Push(s, b, MaxCSI)
    [] s.st = "osc" -> IF b = "bel" THEN Ended(IF s.tooLong THEN s ELSE FinishOSC(s))
                       ELSE IF b = "esc" THEN [s EXCEPT !.st = "oscEsc"]
                       ELSE Push(s, b, MaxOSC)
    [] OTHER -> Ended(IF b = "\\" /\ ~ s.tooLong THEN FinishOSC(s) ELSE s)

-----------------------------------------------------------------------------
(* The session *)

\* focusNudgeLocked: only a program that asked for focus events gets one.
Nudged(s, p, to) == IF "focus" \in s.modes THEN [p EXCEPT !.focus = to] ELSE p

\* encState, and encAttached, which has no title.
Told(s, act) == [activity |-> act, title |-> s.title, at |-> s.title]
Greeted(s, act) == [Told(s, act) EXCEPT !.title = None]

\* detachLocked of the attached client, after a frame could not be written.
Detach(s) ==
  /\ attached' = None
  /\ told' = None
  /\ program' = Nudged(s, program, "out")

\* pushStateLocked, if there is anything to push, and deliverLocked.
Pushes(s, act, changed) ==
  IF attached = None THEN UNCHANGED <<attached, told, program>>
  ELSE \/ /\ told' = IF changed THEN Told(s, act) ELSE told
          /\ UNCHANGED <<attached, program>>
       \/ Detach(s)

\* The program writes a sequence.  A mode it resets, it is told nothing of.
Writes ==
  /\ output.tokens < MaxTokens
  /\ \E t \in Tokens :
       /\ output' = [rest |-> output.rest \o Bytes(t), tokens |-> output.tokens + 1]
       /\ program' = Means(program, t)
  /\ UNCHANGED <<scan, activity, attached, told>>

\* pump: as many bytes as there are, or fewer.
Pump ==
  /\ output.rest # <<>>
  /\ \E n \in 1 .. Len(output.rest) :
       LET s == FoldLeft(ByteIn, scan, SubSeq(output.rest, 1, n)) IN
       /\ scan' = [s EXCEPT !.changed = FALSE]
       /\ output' = [output EXCEPT !.rest = SubSeq(@, n + 1, Len(@))]
       /\ Pushes(s, activity, s.changed)
  /\ UNCHANGED activity

\* sample, whose verdict TermAgent models.
Sample ==
  /\ \E act \in Activity \ {activity} : activity' = act /\ Pushes(scan, act, TRUE)
  /\ UNCHANGED <<scan, output>>

\* attachLocked: the one before is detached, this one gets ATTACHED and is replayed to,
\* and the program is told that somebody looks; or a frame fails.
AttachLocked(c) ==
  /\ attached # c
  /\ LET before == IF attached = None THEN program ELSE Nudged(scan, program, "out") IN
     \/ /\ attached' = c
        /\ told' = Greeted(scan, activity)
        /\ program' = Nudged(scan, before, "in")
     \/ /\ attached' = None
        /\ told' = None
        /\ program' = Nudged(scan, before, "out")
  /\ UNCHANGED <<scan, output, activity>>

\* stream's deferred end, when the client closes or breaks off: it lets go of the
\* session by itself.
StreamEnds ==
  /\ attached # None
  /\ attached' = None
  /\ told' = None
  /\ UNCHANGED <<scan, output, program, activity>>

Init ==
  /\ scan = [st |-> "none", buf |-> <<>>, tooLong |-> FALSE, modes |-> {},
             title |-> <<>>, changed |-> FALSE]
  /\ output = [rest |-> <<>>, tokens |-> 0]
  /\ program = [modes |-> {}, title |-> <<>>, focus |-> None]
  /\ activity = "idle"
  /\ attached = None /\ told = None

Next == Writes \/ Pump \/ Sample \/ StreamEnds \/ \E c \in Client : AttachLocked(c)

Spec == Init /\ [][Next]_vars

-----------------------------------------------------------------------------
(* Properties *)

\* Every variable has its type.
TypeOK ==
  /\ scan.st \in {"none", "esc", "csi", "osc", "oscEsc"}
  /\ scan.buf \in Seq(Byte) /\ Len(scan.buf) <= MaxCSI + MaxOSC
  /\ scan.tooLong \in BOOLEAN /\ scan.modes \subseteq Mode /\ ~ scan.changed
  /\ scan.title \in Seq(Byte) /\ Len(scan.title) <= TitleMax
  /\ output.rest \in Seq(Byte) /\ output.tokens \in 0 .. MaxTokens
  /\ activity \in Activity
  /\ attached \in Client \cup {None}
  /\ attached = None <=> told = None

\* Whatever the reads cut (term_modes.go:10), once they have caught up the scanner
\* knows the modes and the title the program's sequences mean.
ScanFollows ==
  output.rest = <<>> => scan.modes = program.modes /\ scan.title = program.title

\* The attached client is told every change of agent, state or title since it was attached
\* (term_service.go:709-712, 788-795), also when one read holds several: it knows the
\* activity, and the title if that has changed since.  The title there was when it was
\* attached it is not told (term_frames.go:209).
ClientIsTold ==
  attached # None =>
    /\ told.activity = activity
    /\ told.title \in {None, scan.title} /\ told.at = scan.title

\* Does not hold.  term_service.go:566: focus-out is written at a detach, so a
\* program that has focus events on and nobody attached was not last told that it
\* has the focus.  The deferred function of stream (986-992) lets go without it.
FocusIsGivenBack ==
  attached = None /\ "focus" \in scan.modes => program.focus # "in"

=============================================================================
