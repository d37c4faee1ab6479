---- MODULE MCTermHistory ----
(* TermHistory on a ring of three bytes fed by reads of up to four. *)
EXTENDS TermHistory, TLC

Symmetry == Permutations(Client)
====
