---------------------------- MODULE MCShutdown ----------------------------
(* Instance of Shutdown for TLC: two pools, the first of them the default.   *)
EXTENDS Shutdown
CONSTANTS p1, p2
MCPool == {p1, p2}
=============================================================================
