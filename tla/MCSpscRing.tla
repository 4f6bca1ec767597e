----------------------------- MODULE MCSpscRing -----------------------------
(* SpscRing with three distinguishable items and four slots: both indices  *)
(* wrap, the ring fills up and runs empty in every position.               *)
EXTENDS SpscRing

CONSTANTS a, b, c

MCItem == {a, b, c}
MCCapacity == 4
=============================================================================
