------------------------------- MODULE NatMap -------------------------------
(***************************************************************************)
(* What address translation promises: a table of sessions, each a flow     *)
(* behind the router with the port or echo identifier it uses outside, and *)
(* inbound packets translated in one instant by a session the table has at *)
(* that instant.  With Exclusive no two sessions share an external value,  *)
(* so the table is a partial map from external values to flows.            *)
(***************************************************************************)
CONSTANTS Flow, External, Endpoint,
          Slot,       \* names of sessions
          Remote,     \* the remote endpoint of a flow
          Exclusive

VARIABLES sessions,   \* the established sessions
          translated  \* the inbound packet in hand, once it has a destination

vars == <<sessions, translated>>

Session == [slot : Slot, flow : Flow, ext : External]

Init == sessions = {} /\ translated = {}

Open(s) == /\ \A t \in sessions : t.slot # s.slot /\ (Exclusive => t.ext # s.ext)
           /\ sessions' = sessions \cup {s}
           /\ UNCHANGED translated

Close(s) == /\ sessions' = sessions \ {s}
            /\ UNCHANGED translated

\* A packet from an endpoint to an external value.
Translate(from, x) ==
  /\ translated = {}
  /\ \E s \in sessions :
       /\ s.ext = x /\ Remote[s.flow] = from
       /\ translated' = {[from |-> from, ext |-> x, flow |-> s.flow]}
  /\ UNCHANGED sessions

Done == translated' = {} /\ UNCHANGED sessions

Next == \/ \E s \in Session : Open(s) \/ Close(s)
        \/ \E from \in Endpoint, x \in External : Translate(from, x)
        \/ Done

Spec == Init /\ [][Next]_vars
=============================================================================
