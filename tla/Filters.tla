---- MODULE Filters ----
(***************************************************************************)
(* Two loops the source has again and again: one that appends what passes  *)
(* a test and goes on with the rest (src/wire.go, endpointhint_cli.go and  *)
(* portSet in cmd/tailcat/tailcat.go), and one that adds up.               *)
(***************************************************************************)
EXTENDS SequencesExt

\* The members of s that are in good, in their order: what SelectSeq gives, as a
\* fold over the sequence, which can be reasoned about.
Kept(s, good) ==
  FoldLeft(LAMBDA kept, x : IF x \in good THEN Append(kept, x) ELSE kept, <<>>, s)

\* The sum of the members of s.
Total(s) == FoldLeft(LAMBDA sum, n : sum + n, 0, s)

=============================================================================
