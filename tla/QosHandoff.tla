----------------------------- MODULE QosHandoff -----------------------------
(***************************************************************************)
(* How a bandwidth cap chosen in the GUI reaches the shaper of a direction: *)
(* QosPage (src/GUI/Dashboard.cpp) stores the cap and raises a dirty flag,  *)
(* and QosController::tick1Hz (src/ParameterServices.cpp) takes the flag    *)
(* down and copies the cap, each side one atomic access at a time.  The     *)
(* release store of the flag and its acq_rel exchange order the relaxed     *)
(* accesses to the cap, so interleaving is enough here.                     *)
(*                                                                          *)
(* The two directions share the flag and differ in nothing else; one is     *)
(* modelled.  Shaping joins this module with that direction's shaper.       *)
(***************************************************************************)
EXTENDS Naturals

CONSTANTS Cap,   \* bandwidth caps the dialog accepts
          Edits  \* bound on the user's changes

VARIABLES gpc,   \* the GUI thread, in on_apply_global_bw
          cap,   \* what the user chose last
          qos_global_mbps_pending, qos_global_bw_dirty,
          tpc,   \* the QoS service, in tick1Hz
          base,  \* base_dl_ or base_ul_
          edits

\* App::start publishes the configured cap before any thread runs.
Start(c) == /\ gpc = "idle" /\ cap = c /\ edits = 0
            /\ qos_global_mbps_pending = c /\ qos_global_bw_dirty = FALSE
            /\ tpc = "sleep" /\ base = c

(***************************************************************************)
(* on_apply_global_bw, once the input is accepted.                         *)
(***************************************************************************)
StoreCap(c) == /\ gpc = "idle" /\ edits < Edits /\ gpc' = "dirty"
               /\ cap' = c /\ edits' = edits + 1 /\ qos_global_mbps_pending' = c
               /\ UNCHANGED <<qos_global_bw_dirty, tpc, base>>

RaiseDirty == /\ gpc = "dirty" /\ gpc' = "idle" /\ qos_global_bw_dirty' = TRUE
              /\ UNCHANGED <<cap, qos_global_mbps_pending, tpc, base, edits>>

(***************************************************************************)
(* tick1Hz; the caps' part.                                                *)
(***************************************************************************)
TakeDirty == /\ tpc = "sleep" /\ qos_global_bw_dirty
             /\ qos_global_bw_dirty' = FALSE /\ tpc' = "load"
             /\ UNCHANGED <<gpc, cap, qos_global_mbps_pending, base, edits>>

LoadCap == /\ tpc = "load" /\ tpc' = "set" /\ base' = qos_global_mbps_pending
           /\ UNCHANGED <<gpc, cap, qos_global_mbps_pending, qos_global_bw_dirty, edits>>

SetRateThenClear == /\ tpc = "set" /\ tpc' = "sleep" /\ qos_global_bw_dirty' = FALSE
                    /\ UNCHANGED <<gpc, cap, qos_global_mbps_pending, base, edits>>

\* The call of set_rate_limit(base), whose effect is the shaper's.
SetRate == /\ tpc = "set" /\ tpc' = "sleep"
           /\ UNCHANGED <<gpc, cap, qos_global_mbps_pending, qos_global_bw_dirty, base, edits>>

\* All steps but the call.
Internal == (\E c \in Cap : StoreCap(c)) \/ RaiseDirty \/ TakeDirty \/ LoadCap

\* Neither thread is in the middle of its steps and nothing is pending.
Settled == gpc = "idle" /\ tpc = "sleep" /\ ~qos_global_bw_dirty
=============================================================================
