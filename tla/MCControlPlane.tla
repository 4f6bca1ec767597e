--------------------------- MODULE MCControlPlane ---------------------------
(***************************************************************************)
(* Two services, the control thread and up to two GUI edits over pools with *)
(* bounds in 1..3.  Two services are enough for one thread to take the      *)
(* token another was told of.                                               *)
(***************************************************************************)
EXTENDS ControlPlane

CONSTANTS s1, s2

MCService == {s1, s2}
MCAddr == 1 .. 3
MCLease == {1, 2}
=============================================================================
