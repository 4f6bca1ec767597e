---------------------------- MODULE MCLanConfig ----------------------------
(* Two edits, so that one falls into the handling of the other; pools whose  *)
(* subnets have every prefix length, a program start with a pool that is     *)
(* refused, a LAN interface that another program changes, and two changes of *)
(* the WAN address, so that one falls between the tracker's read and store.  *)
EXTENDS LanConfig

MCPools == {[start |-> 2, end |-> 3], [start |-> 5, end |-> 7], [start |-> 1, end |-> 6]}
MCBoots == MCPools \cup {[start |-> 2, end |-> 2], [start |-> 5, end |-> 3],
                         [start |-> 5, end |-> Missing]}
MCDefault == [start |-> 4, end |-> 7]
MCGarbled == {Bad, 4}
MCForeign == {None, 6}
MCWanAddr == {3, 5, 7}

\* The two interfaces share nothing but the program's start, so the changes of
\* the LAN side are left to the behaviours without NAT.
OneInterface == \/ Restart \/ Control \/ Worker \/ Tracker
                \/ ~enable_nat /\ Gui
                \/ ~enable_nat /\ \E a \in Foreign : ForeignChange(a)
                \/ \E a \in WanAddr \cup {None} : ForeignWanChange(a)

OneInterfaceSpec == /\ LanInit /\ [][OneInterface]_lanVars
                    /\ WF_lanVars(Control) /\ WF_lanVars(Worker) /\ WF_lanVars(Tracker)
=============================================================================
