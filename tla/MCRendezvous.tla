---- MODULE MCRendezvous ----
(* Rendezvous for TLC.  No client is distinguished, where all are direct-first.
   The second run of the server is followed while it starts and its network map
   is not installed yet: pings to the first one are handled by then. *)
EXTENDS Rendezvous
Symmetry == Permutations(Client)
Explored == server.run = 1 \/ server.phase \in {"down", "relayed"}
====
