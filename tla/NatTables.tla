----------------------------- MODULE NatTables -----------------------------
(***************************************************************************)
(* The two session tables of the NAT engine side by side: the one for TCP   *)
(* and UDP (NatEngine) and the one for ICMP echo (EchoTable), and what the  *)
(* engine promises of both.                                                 *)
(***************************************************************************)
EXTENDS NatEngine

CONSTANTS EchoFlow, EchoEndpoint, EchoRemote, EchoSlots, IdLo, IdHi

VARIABLES icmp_active, icmp_seq, icmp_key, icmp_ext, icmp_id_to_index, icmp_pc, icmp_r,
          icmp_installed

T == INSTANCE EchoTable WITH
       Flow <- EchoFlow, Endpoint <- EchoEndpoint, Remote <- EchoRemote, Slots <- EchoSlots,
       active <- icmp_active, seq <- icmp_seq, key <- icmp_key, ext <- icmp_ext,
       index <- icmp_id_to_index, pc <- icmp_pc, r <- icmp_r, installed <- icmp_installed

\* Two active echo sessions never share an external identifier, as in EchoTable.
IdsUnique == T!IdsUnique

\* Between two packets icmp_id_to_index and the active echo sessions are inverse
\* to each other, as in EchoTable.
IndexExact == T!IndexExact

\* An echo reply only reaches a flow that was given its identifier, as in
\* EchoTable.
EchoDnatExact == T!DnatExact

\* Both tables implement NatMap: process_inbound translates as if it looked at
\* its table at one instant, and a table never shows it half a session.
TranslatesAtomically == IsNatMap /\ T!IsNatMap
=============================================================================
