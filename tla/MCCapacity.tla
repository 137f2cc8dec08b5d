----------------------------- MODULE MCCapacity ------------------------------
(* Capacity for TLC: a request whose model is given too large a weight, and *)
(* one whose weight is right.                                               *)
EXTENDS Capacity

CONSTANTS r1, r2

MCCost == [r \in Requests |-> 1]
MCWeight == [r \in Requests |-> IF r = r1 THEN 2 ELSE 1]
=============================================================================
