-------------------------- MODULE MCUnicastQueue --------------------------
(* UnicastQueue with clients that TLC may exchange for one another. *)
EXTENDS UnicastQueue

Sockets == Permutations(Clients)
=============================================================================
