----------------------------- MODULE L2Forward -----------------------------
(***************************************************************************)
(* ForwardingState_util (src/ForwardingState_util.cpp) and the two Ethernet *)
(* rewrite steps of the packet pipeline (src/App.cpp).  refresh_l2, called  *)
(* by App::start and then every five seconds by the L2 service, fills the   *)
(* inactive one of two snapshots and makes it active; the two data-plane    *)
(* cores copy MAC addresses from the active snapshot without any lock.      *)
(*                                                                          *)
(* A MAC address is represented by the number of the refresh that obtained  *)
(* it, 0 for one never obtained: what matters is whether the addresses in   *)
(* one frame belong together.  A buffer keeps what earlier refreshes left   *)
(* in the fields the current one does not write.                            *)
(***************************************************************************)
EXTENDS Naturals

CONSTANTS Ip,       \* unicast destinations
          Gw,       \* the default gateway, one of them
          OnLink,   \* destinations inside the WAN subnet
          Group,    \* a broadcast or multicast destination
          Refreshes \* bound on refreshes

ASSUME L2Constants == /\ Gw \in Ip /\ OnLink \subseteq Ip
                      /\ Group \notin Ip
                      /\ Refreshes \in Nat

Dst == Ip \cup {Group}
Up == "lan_to_wan"
Down == "wan_to_lan"
Core == {Up, Down}
AsIs == [rewritten |-> FALSE, src |-> 0, dest |-> 0, gen |-> 0]

VARIABLES snap,    \* snap_: the two L2Snapshots, with the refresh that filled each
          active,  \* active_
          gen,     \* number of the current or last refresh
          wpc, lan_ok, wan_ok,   \* position and locals of refresh_l2
          rpc,     \* each core's position in its rewrite step
          frame,   \* each core's frame: destination, snapshot in use, its refresh, source MAC
          out      \* the frame that last went on to the QoS step, until the next is taken

writer == <<wpc, gen, lan_ok, wan_ok>>
cores == <<rpc, frame, out>>
l2vars == <<snap, active, writer, cores>>

Empty == [lan_hw |-> 0, wan_hw |-> 0, gw_hw |-> 0, gw_hw_valid |-> FALSE,
          wan_cfg_valid |-> FALSE, default_gw_ip_configured |-> FALSE,
          arp |-> [a \in Ip |-> 0], ready |-> FALSE, gen |-> 0]

NoFrame == [dst |-> Group, b |-> 0, gen |-> 0, src |-> 0]

L2Init == /\ snap = [b \in {0, 1} |-> Empty] /\ active = 0
          /\ gen = 0 /\ wpc = "sleep" /\ lan_ok = FALSE /\ wan_ok = FALSE
          /\ rpc = [c \in Core |-> "idle"] /\ frame = [c \in Core |-> NoFrame]
          /\ out = AsIs

(***************************************************************************)
(* refresh_l2.                                                             *)
(***************************************************************************)
TargetInPlace == active

Target == 1 - active

\* Refreshes are five seconds apart and a lookup takes microseconds on a core
\* of its own, so no core still uses the snapshot that was active before the
\* last refresh ended.
Quiet == \A c \in Core : rpc[c] # "idle" => frame[c].b = active

\* The two interface addresses; a failed ioctl leaves the old bytes.
RefreshHw(lan, wan) ==
  /\ wpc = "sleep" /\ gen < Refreshes /\ Quiet
  /\ gen' = gen + 1 /\ lan_ok' = lan /\ wan_ok' = wan
  /\ snap' = [snap EXCEPT ![Target].gen = gen + 1,
                          ![Target].lan_hw = IF lan THEN gen + 1 ELSE @,
                          ![Target].wan_hw = IF wan THEN gen + 1 ELSE @]
  /\ wpc' = "wan"
  /\ UNCHANGED <<active, cores>>

RefreshWan(valid) ==
  /\ wpc = "wan" /\ wpc' = "gw"
  /\ snap' = [snap EXCEPT ![Target].wan_cfg_valid = valid]
  /\ UNCHANGED <<active, gen, lan_ok, wan_ok, cores>>

\* known: the addresses read_arp_table returned.
RefreshGateway(configured, known) ==
  /\ wpc = "gw" /\ wpc' = "arp"
  /\ LET valid == configured /\ Gw \in known
     IN snap' = [snap EXCEPT ![Target].default_gw_ip_configured = configured,
                             ![Target].gw_hw_valid = valid,
                             ![Target].gw_hw = IF valid THEN gen ELSE @,
                             ![Target].arp = [a \in Ip |-> IF a \in known THEN gen ELSE 0]]
  /\ UNCHANGED <<active, gen, lan_ok, wan_ok, cores>>

RefreshReady ==
  /\ wpc = "arp" /\ wpc' = "flip"
  /\ snap' = [snap EXCEPT ![Target].ready =
                lan_ok /\ wan_ok /\ (snap[Target].gw_hw_valid \/ snap[Target].wan_cfg_valid)]
  /\ UNCHANGED <<active, gen, lan_ok, wan_ok, cores>>

Flip == /\ wpc = "flip" /\ wpc' = "sleep" /\ active' = Target
        /\ lan_ok' = FALSE /\ wan_ok' = FALSE
        /\ UNCHANGED <<snap, gen, cores>>

(***************************************************************************)
(* step_eth_rewrite_lan_to_wan and step_eth_rewrite_wan_to_lan.            *)
(***************************************************************************)
Used(c) == snap[frame[c].b]

\* snapshot(): a reference to the active buffer.
Snapshot(c, dst) ==
  /\ rpc[c] = "idle" /\ rpc' = [rpc EXCEPT ![c] = "ready"]
  /\ frame' = [frame EXCEPT ![c] = [dst |-> dst, b |-> active, gen |-> snap[active].gen, src |-> 0]]
  /\ out' = AsIs
  /\ UNCHANGED <<snap, active, writer>>

\* The frame goes on with the given rewrite, or is dropped.
Done(c) == rpc' = [rpc EXCEPT ![c] = "idle"] /\ frame' = [frame EXCEPT ![c] = NoFrame]
Pass(c, o) == out' = o /\ Done(c)
Drop(c) == out' = AsIs /\ Done(c)
Rewritten(c, src, dest) == [rewritten |-> TRUE, src |-> src, dest |-> dest, gen |-> frame[c].gen]

NotReady(c) == /\ rpc[c] = "ready" /\ (~Used(c).ready \/ frame[c].dst = Group)
               /\ Pass(c, AsIs) /\ UNCHANGED <<snap, active, writer>>

\* Upstream the source address is copied before the destination is known.
Ready(c) == /\ rpc[c] = "ready" /\ Used(c).ready /\ frame[c].dst # Group
            /\ rpc' = [rpc EXCEPT ![c] = "mac"]
            /\ frame' = [frame EXCEPT ![c].src = IF c = Up THEN Used(c).wan_hw ELSE 0]
            /\ UNCHANGED <<snap, active, writer, out>>

ArpHit(c) == Used(c).arp[frame[c].dst] # 0

\* Upstream: the ARP entry of an on-link destination, else the gateway.
LanToWan ==
  /\ rpc[Up] = "mac"
  /\ IF Used(Up).wan_cfg_valid /\ frame[Up].dst \in OnLink
     THEN IF ArpHit(Up)
          THEN Pass(Up, Rewritten(Up, frame[Up].src, Used(Up).arp[frame[Up].dst]))
          ELSE Drop(Up)
     ELSE IF Used(Up).default_gw_ip_configured /\ Used(Up).gw_hw_valid
          THEN Pass(Up, Rewritten(Up, frame[Up].src, Used(Up).gw_hw))
          ELSE Drop(Up)
  /\ UNCHANGED <<snap, active, writer>>

\* Downstream: a frame without ARP entry goes on as it came.
WanToLan ==
  /\ rpc[Down] = "mac"
  /\ IF ArpHit(Down)
     THEN Pass(Down, Rewritten(Down, Used(Down).lan_hw, Used(Down).arp[frame[Down].dst]))
     ELSE Pass(Down, AsIs)
  /\ UNCHANGED <<snap, active, writer>>

L2Next == \/ \E lan, wan \in BOOLEAN : RefreshHw(lan, wan)
          \/ \E v \in BOOLEAN : RefreshWan(v)
          \/ \E configured \in BOOLEAN, known \in SUBSET Ip : RefreshGateway(configured, known)
          \/ RefreshReady \/ Flip
          \/ \E c \in Core, dst \in Dst : Snapshot(c, dst)
          \/ \E c \in Core : NotReady(c) \/ Ready(c)
          \/ LanToWan \/ WanToLan

L2Spec == L2Init /\ [][L2Next]_l2vars

-----------------------------------------------------------------------------

\* Both addresses of a rewritten frame were obtained by the one refresh that
\* filled the snapshot the core took: never a mixture of two refreshes, and
\* never an address left in the buffer by the refresh before last, whichever
\* of the lookups failed since.
RewriteFromOneRefresh ==
  out.rewritten => out.src = out.gen /\ out.dest = out.gen
=============================================================================
