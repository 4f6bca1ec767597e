---------------------------- MODULE MCL2Forward ----------------------------
(* Instance of L2Forward for TLC. *)
EXTENDS L2Forward
CONSTANTS gw, host
MCIp == {gw, host}
MCOnLink == {host}
=============================================================================
