---- MODULE MCTermService ----
(* TermService with two names, two sessions, two connections and one KILL. *)
EXTENDS TermServiceRefines, TLC

\* The names and the clients are interchangeable; HELLO chooses among the sessions.
Symmetry == Permutations(Name) \cup Permutations(Client)
====
