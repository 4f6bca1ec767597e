------------------------------ MODULE Shaping ------------------------------
(***************************************************************************)
(* A shaper together with the hand-off of its rate from the GUI through the *)
(* QoS service.  Three threads take part: the GUI thread stores a cap, the  *)
(* service thread's tick passes it on with set_rate_limit, and the          *)
(* processing thread applies it at its next refill, between packets it is   *)
(* sending at the old rate.                                                 *)
(***************************************************************************)
EXTENDS Shaper

CONSTANT Edits

ASSUME ShapingConstants == Edits \in Nat

VARIABLES gpc, cap, qos_global_mbps_pending, qos_global_bw_dirty, tpc, base, edits

handoff == <<gpc, cap, qos_global_mbps_pending, qos_global_bw_dirty, tpc, base, edits>>

Qos == INSTANCE QosHandoff WITH Cap <- Rate

ShapingInit == Init /\ Qos!Start(bucket.rate)

SetRate == Qos!SetRate /\ SetRateLimit(base)

ShapingNext == \/ Process /\ UNCHANGED handoff
               \/ Qos!Internal /\ UNCHANGED vars
               \/ SetRate

ShapingSpec == ShapingInit /\ [][ShapingNext]_<<vars, handoff>>

-----------------------------------------------------------------------------

\* No cap is lost on the way: when the GUI and the service are at rest and
\* the flag is down, the shaper runs at the cap the user chose last, or will
\* from its next refill, in whatever order the threads took their steps.
CapsApplied == Qos!Settled => requested = cap \/ (requested = NoRate /\ bucket.rate = cap)
=============================================================================
