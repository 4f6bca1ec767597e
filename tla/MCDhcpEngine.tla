---------------------------- MODULE MCDhcpEngine ----------------------------
(* DhcpEngine with more clients than leases, pools that are larger than the *)
(* lease table, overlap and can be given the wrong way round, and a clock   *)
(* that passes the expiry of a lease.                                       *)
EXTENDS DhcpEngine, TLC

CONSTANTS m1, m2

MCMac == {m1, m2}
MCAddr == 1 .. 3
MCRouter == {1}
MCDuration == {1, 2}
MCSymmetry == Permutations(MCMac)
=============================================================================
