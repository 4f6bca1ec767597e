-------------------------------- MODULE Nat --------------------------------
(***************************************************************************)
(* The NAT engine whole: the tables for TCP and UDP (NatEngine) and for     *)
(* ICMP echo (NatIcmp) with their one clock.  process_outbound and          *)
(* process_inbound hand a packet to the one or the other by its protocol,   *)
(* on the same two threads.                                                 *)
(***************************************************************************)
EXTENDS NatTables

CONSTANTS EchoHome, EchoProbe, IdFirst, AllocTries, EchoTakes

VARIABLES icmp_last, icmp_id_cursor, icmp_flow, icmp_now, icmp_n, icmp_tries, icmp_slot,
          icmp_new, icmp_takes

E == INSTANCE NatIcmp WITH
       Flow <- EchoFlow, Endpoint <- EchoEndpoint, Remote <- EchoRemote, Home <- EchoHome,
       Slots <- EchoSlots, Probe <- EchoProbe, MaxTakes <- EchoTakes,
       active <- icmp_active, seq <- icmp_seq, key <- icmp_key, ext <- icmp_ext,
       last <- icmp_last, index <- icmp_id_to_index, cursor <- icmp_id_cursor,
       pc <- icmp_pc, flow <- icmp_flow, now <- icmp_now, n <- icmp_n, tries <- icmp_tries,
       slot <- icmp_slot, new <- icmp_new, r <- icmp_r, installed <- icmp_installed,
       takes <- icmp_takes

ASSUME NatAssumption == NatConstants /\ E!IcmpConstants /\ MaxTick < TickMod /\ MaxTakes \in Nat

ports == <<table, last, cursor, w, r, history>>
echoes == <<icmp_active, icmp_seq, icmp_key, icmp_ext, icmp_last, icmp_id_to_index, icmp_id_cursor,
            icmp_pc, icmp_flow, icmp_now, icmp_n, icmp_tries, icmp_slot, icmp_new, icmp_r,
            icmp_installed, icmp_takes>>

NatInit == Init /\ E!Init

\* A core has one packet in hand, of the one or the other protocol.
TcpUdp == /\ (icmp_pc = "idle" /\ Writer) \/ (icmp_r.pc = "idle" /\ Reader)
          /\ UNCHANGED echoes
Icmp == /\ (w.pc = "idle" /\ E!Writer) \/ (r.pc = "idle" /\ E!Reader)
        /\ UNCHANGED ports
Clock == Tick /\ UNCHANGED echoes

NatNext == TcpUdp \/ Icmp \/ Clock
NatSpec == NatInit /\ [][NatNext]_<<vars, echoes>>
=============================================================================
