------------------------------ MODULE Pipeline ------------------------------
(***************************************************************************)
(* PacketConsumer (src/App.cpp): what the two data-plane cores do with a    *)
(* frame once it is parsed, namely hand DHCP to the local server, classify  *)
(* (include/Processor.hpp), route by lane and mode, and count; and how the  *)
(* counters reach the header of the GUI: commit_batch (include/Telemetry    *)
(* .hpp) and Dashboard::timerEvent (src/GUI/Dashboard.cpp).                 *)
(*                                                                          *)
(* Address translation and the Ethernet rewrite are in NatEngine, NatIcmp   *)
(* and L2Forward; here the rewrite step only may drop the frame.            *)
(***************************************************************************)
EXTENDS Naturals

CONSTANTS Threshold, \* LARGE_PACKET_THRESHOLD
          Frame,     \* the frames that may arrive
          Batch,     \* frames per telemetry batch; 32 in the code
          Frames     \* bound on frames

\* What ParsedPacket::parse tells apart.  cut: a UDP frame too short for its
\* header; other: an IPv4 protocol without a handler of its own.
Kind == {"not_ipv4", "icmp", "tcp", "other", "cut", "udp", "dns", "dhcp"}

ASSUME PipelineConstants ==
  /\ Frame \subseteq [kind : Kind, size : Nat \ {0}] /\ Threshold \in Nat
  /\ Batch \in Nat \ {0} /\ Frames \in Nat

Core == {2, 3}        \* WAN to LAN, LAN to WAN
High == 0
Normal == 1
Prio == {High, Normal}

VARIABLES pc,       \* each core's position in on_packet_event
          pkt,      \* its frame
          stats,    \* its BatchStats
          routed,   \* bytes it has counted by lane, over all batches
          lane,     \* where its frame went: "none", "fast", "shaped"
          metrics,  \* core_metrics
          bridge,   \* effective_bridge_mode
          gpc,      \* the GUI thread: position in timerEvent
          cur,      \* cur_b2 and cur_b3
          last_bytes,
          sum,      \* cur_high and cur_norm, over both cores
          last_sum, \* last_high_bytes and last_normal_bytes
          frames

data == <<pc, pkt, stats, routed, lane, metrics, frames>>
gui == <<gpc, cur, last_bytes, sum, last_sum>>
vars == <<data, bridge, gui>>

NoStats == [pkts |-> 0, bytes |-> 0, prio_bytes |-> [p \in Prio |-> 0]]
NoFrame == [kind |-> "not_ipv4", size |-> 0]

Init == /\ pc = [c \in Core |-> "idle"] /\ pkt = [c \in Core |-> NoFrame]
        /\ stats = [c \in Core |-> NoStats]
        /\ routed = [c \in Core |-> [p \in Prio |-> 0]]
        /\ lane = [c \in Core |-> "none"]
        /\ metrics = [c \in Core |-> [bytes |-> 0, prio_bytes |-> [p \in Prio |-> 0]]]
        /\ bridge \in BOOLEAN
        /\ gpc = "idle" /\ cur = [c \in Core |-> 0] /\ last_bytes = [c \in Core |-> 0]
        /\ sum = [p \in Prio |-> 0] /\ last_sum = [p \in Prio |-> 0]
        /\ frames = 0

(***************************************************************************)
(* HeuristicProcessor::process.                                            *)
(***************************************************************************)
BySize(f) == IF f.size < Threshold THEN High ELSE Normal

process(f) == CASE f.kind \in {"not_ipv4", "cut"} -> Normal
                [] f.kind \in {"icmp", "dns"} -> High
                [] OTHER -> BySize(f)

(***************************************************************************)
(* on_packet_event.                                                        *)
(***************************************************************************)
Receive(c, f) == /\ pc[c] = "idle" /\ frames < Frames
                 /\ pc' = [pc EXCEPT ![c] = "steps"] /\ pkt' = [pkt EXCEPT ![c] = f]
                 /\ frames' = frames + 1
                 /\ UNCHANGED <<stats, routed, lane, metrics, bridge, gui>>

\* A step before the last one handled the frame: DHCP from the LAN goes to
\* the local server, an upstream frame without next hop is dropped.
Handled(c) == /\ pc[c] = "steps" /\ c = 3 /\ pkt[c].kind # "not_ipv4"
              /\ pc' = [pc EXCEPT ![c] = "batch"]
              /\ UNCHANGED <<pkt, stats, routed, lane, metrics, frames, bridge, gui>>

\* step_qos_routing: classify, count, and route by the mode of the moment.
Route(c) ==
  LET f == pkt[c]
      p == process(f)
  IN /\ pc[c] = "steps" /\ ~(c = 3 /\ f.kind = "dhcp")
     /\ stats' = [stats EXCEPT ![c].pkts = @ + 1, ![c].bytes = @ + f.size,
                               ![c].prio_bytes[p] = @ + f.size]
     /\ routed' = [routed EXCEPT ![c][p] = @ + f.size]
     /\ lane' = [lane EXCEPT ![c] = IF bridge \/ p = High THEN "fast" ELSE "shaped"]
     /\ pc' = [pc EXCEPT ![c] = "batch"]
     /\ UNCHANGED <<pkt, metrics, frames, bridge, gui>>

Return(c) == /\ pc' = [pc EXCEPT ![c] = "idle"] /\ pkt' = [pkt EXCEPT ![c] = NoFrame]
             /\ lane' = [lane EXCEPT ![c] = "none"]

NoBatch(c) == /\ pc[c] = "batch" /\ stats[c].pkts % Batch # 0 /\ Return(c)
              /\ UNCHANGED <<stats, routed, metrics, frames, bridge, gui>>

\* commit_batch adds one counter after the other.
CommitBytes(c) == /\ pc[c] = "batch" /\ stats[c].pkts % Batch = 0
                  /\ metrics' = [metrics EXCEPT ![c].bytes = @ + stats[c].bytes]
                  /\ pc' = [pc EXCEPT ![c] = "high"]
                  /\ UNCHANGED <<pkt, stats, routed, lane, frames, bridge, gui>>

CommitPrio(c, p) == /\ pc[c] = IF p = High THEN "high" ELSE "normal"
                    /\ metrics' = [metrics EXCEPT ![c].prio_bytes[p] = @ + stats[c].prio_bytes[p]]
                    /\ pc' = [pc EXCEPT ![c] = IF p = High THEN "normal" ELSE "reset"]
                    /\ UNCHANGED <<pkt, stats, routed, lane, frames, bridge, gui>>

ResetCountOnly(c) == /\ pc[c] = "reset" /\ stats' = [stats EXCEPT ![c].pkts = 0] /\ Return(c)
                     /\ UNCHANGED <<routed, metrics, frames, bridge, gui>>

Reset(c) == /\ pc[c] = "reset" /\ stats' = [stats EXCEPT ![c] = NoStats] /\ Return(c)
            /\ UNCHANGED <<routed, metrics, frames, bridge, gui>>

\* QosController stores a new mode.
SwitchMode == /\ bridge' = ~bridge /\ UNCHANGED <<data, gui>>

(***************************************************************************)
(* Dashboard::timerEvent: the header's rates of the two directions and the *)
(* chart's rates of the two lanes.                                         *)
(***************************************************************************)
LoadDown == /\ gpc = "idle" /\ gpc' = "up"
            /\ cur' = [cur EXCEPT ![2] = metrics[2].bytes]
            /\ UNCHANGED <<data, bridge, last_bytes, sum, last_sum>>

LoadUpByLane == /\ gpc = "up" /\ gpc' = "high2"
                /\ cur' = [cur EXCEPT ![3] = metrics[3].prio_bytes[High] + metrics[3].prio_bytes[Normal]]
                /\ UNCHANGED <<data, bridge, last_bytes, sum, last_sum>>

LoadUp == /\ gpc = "up" /\ cur' = [cur EXCEPT ![3] = metrics[3].bytes] /\ gpc' = "high2"
          /\ UNCHANGED <<data, bridge, last_bytes, sum, last_sum>>

AddLane(from, c, p, to) == /\ gpc = from /\ gpc' = to
                           /\ sum' = [sum EXCEPT ![p] = @ + metrics[c].prio_bytes[p]]
                           /\ UNCHANGED <<data, bridge, cur, last_bytes, last_sum>>

LoadLanes == \/ AddLane("high2", 2, High, "high3") \/ AddLane("high3", 3, High, "normal2")
             \/ AddLane("normal2", 2, Normal, "normal3") \/ AddLane("normal3", 3, Normal, "rates")

\* The differences cur - last_bytes and sum - last_sum go to the labels and
\* the chart.
Rates == /\ gpc = "rates" /\ gpc' = "last"
         /\ last_sum' = sum /\ sum' = [p \in Prio |-> 0]
         /\ UNCHANGED <<data, bridge, cur, last_bytes>>

\* The counters are loaded anew for the next delta.
Snapshot == /\ gpc = "last" /\ gpc' = "idle"
            /\ last_bytes' = [c \in Core |-> metrics[c].bytes]
            /\ cur' = [c \in Core |-> 0]
            /\ UNCHANGED <<data, bridge, sum, last_sum>>

Consumer(c) == \/ \E f \in Frame : Receive(c, f)
               \/ Handled(c) \/ Route(c) \/ NoBatch(c) \/ CommitBytes(c)
               \/ (\E p \in Prio : CommitPrio(c, p)) \/ Reset(c)
Loads == LoadDown \/ LoadUp \/ LoadLanes
Next == (\E c \in Core : Consumer(c)) \/ SwitchMode \/ Loads \/ Rates \/ Snapshot
Spec == Init /\ [][Next]_vars

-----------------------------------------------------------------------------

\* Between two frames, a core's shared counters and its current batch add up
\* to every byte it has routed, in each lane: no batch is committed twice or
\* lost, and the lanes always sum to the total.
CountersConserve ==
  \A c \in Core : pc[c] = "idle" =>
    /\ \A p \in Prio : metrics[c].prio_bytes[p] + stats[c].prio_bytes[p] = routed[c][p]
    /\ metrics[c].bytes + stats[c].bytes = routed[c][High] + routed[c][Normal]

\* The unsigned differences cur - last_bytes and sum - last_sum never wrap,
\* so the header and the chart never show a huge rate, although the counters
\* move between the loads of one event.
RatesNeverWrap == gpc = "rates" => /\ \A c \in Core : cur[c] >= last_bytes[c]
                                   /\ \A p \in Prio : sum[p] >= last_sum[p]
=============================================================================
