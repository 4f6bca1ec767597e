---------------------------- MODULE MCNatEngine ----------------------------
(***************************************************************************)
(* Two slots, two ports and two flows to the same remote endpoint, with the  *)
(* same hash; packets also come from another endpoint.  The cursor wraps     *)
(* after two sessions, so four sessions reach a port held twice and a        *)
(* takeover of the older holder.                                             *)
(***************************************************************************)
EXTENDS NatEngine

MCFlow == {"a", "b"}
MCEndpoint == {"server", "other"}
MCRemote == [f \in MCFlow |-> "server"]
MCHome == [f \in MCFlow |-> 0]
====
