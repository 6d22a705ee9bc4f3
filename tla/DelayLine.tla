------------------------------ MODULE DelayLine ------------------------------
(***************************************************************************)
(* What the ring of a descrambled channel promises to its stream: packets  *)
(* come in, are released to be sent in groups, and go out one at a time,   *)
(* every one of them once, in the order they came in.  Packets are known   *)
(* by their rank; out is the rank of the one that left last.               *)
(***************************************************************************)
EXTENDS Naturals

VARIABLES arrived, released, out

vars == <<arrived, released, out>>

Init == arrived = 0 /\ released = 0 /\ out = 0

Arrive ==
    /\ arrived' = arrived + 1
    /\ UNCHANGED <<released, out>>

Release ==
    /\ \E r \in released + 1 .. arrived : released' = r
    /\ UNCHANGED <<arrived, out>>

Emit ==
    /\ out < released
    /\ out' = out + 1
    /\ UNCHANGED <<arrived, released>>

Next == Arrive \/ Release \/ Emit

Spec == Init /\ [][Next]_vars
=============================================================================
