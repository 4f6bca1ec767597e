----------------------------- MODULE MCShaping -----------------------------
(* A ring of two slots that wraps, packets of which two do not fit the       *)
(* smallest bucket together and one size no slot holds, and rates below and  *)
(* above the one at which the bucket starts to grow.                         *)
EXTENDS Shaping

MCRate == {1, 4}
MCSize == {1, 2, 3}
=============================================================================
