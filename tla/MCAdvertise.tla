---- MODULE MCAdvertise ----
(* Advertise for TLC.  Two servers with a fixed port, of which one is the last, *)
(* one with a forwarded port, and one with neither.                            *)
EXTENDS Advertise, TLC
Configs ==
  {[advertise |-> 0, listen |-> TRUE, bound |-> 1],
   [advertise |-> 0, listen |-> TRUE, bound |-> 2],
   [advertise |-> 2, listen |-> TRUE, bound |-> 1],
   [advertise |-> 0, listen |-> FALSE, bound |-> 1]}
Symmetry == Permutations(Routine)
====
