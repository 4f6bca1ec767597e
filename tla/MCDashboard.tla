---------------------------- MODULE MCDashboard ----------------------------
(* Frames of both lanes and one that the steps before the routing take; a    *)
(* table of two devices and ARP scans of up to three rows.                   *)
EXTENDS Dashboard, TLC
CONSTANTS ip1, ip2, m1, m2
MCFrames == {[kind |-> "dhcp", size |-> 1], [kind |-> "icmp", size |-> 1], [kind |-> "tcp", size |-> 3]}
MCIp == {ip1, ip2}
MCMac == {m1, m2}
Symmetry == Permutations(MCIp) \cup Permutations(MCMac)
=============================================================================
