----------------------------- MODULE LanConfig -----------------------------
(***************************************************************************)
(* The addresses of the two interfaces and the engines that use them.       *)
(*                                                                          *)
(* LAN: NetworkConfig::sync (src/NetworkConfig.cpp) keeps the interface's   *)
(* address, the DHCP pool and the gateway handed to DHCP clients together.  *)
(* It runs once in App::init(), where a failure ends the program, and again *)
(* on the control thread after every pool the GUI applies, where a failure  *)
(* is only logged and the configuration is saved all the same.  The GUI     *)
(* assigns the two strings of the pool while the control thread may be      *)
(* reading them.  Meanwhile the DHCP worker copies the kernel's address to  *)
(* the engine every five seconds.                                           *)
(*                                                                          *)
(* WAN: App::init() hands the interface's address to the NAT engine, or     *)
(* ends the program if it has none to use, and from then on NatWanTracker   *)
(* (src/ParameterServices.cpp) follows the kernel every five seconds.       *)
(*                                                                          *)
(* Addresses are Width-bit numbers in host order; the code's 32 is Width.   *)
(* The text of an address is its number, or Bad if it does not parse.       *)
(***************************************************************************)
EXTENDS Integers, FiniteSetsExt

CONSTANTS Width,      \* bits of an address
          RouterIp,   \* Config::ROUTER_IP
          Apply,      \* Config::APPLY_ROUTER_IP_TO_LAN
          Pools,      \* the pools the GUI may apply
          Boots,      \* what the configuration file may hold at the first start
          Default,    \* the pool of Config.hpp, for lines the file does not have
          Garbled,    \* what a string may be read as while it is being assigned
          Foreign,    \* addresses that other programs give the LAN interface
          WanAddr,    \* addresses a DHCP client or others give the WAN interface
          Loopback,   \* the one of them inside 127.0.0.0/8
          IoctlFails, \* whether the interface ioctls may fail
          SaveFails,  \* whether the configuration file may be unwritable, or the disk full
          Edits,      \* bound on applied pools
          Changes,    \* bound on foreign changes of the LAN interface
          WanChanges, \* and of the WAN interface
          Restarts    \* bound on restarts

\* 1u << n.
Pow2[n \in Nat] == IF n = 0 THEN 1 ELSE 2 * Pow2[n - 1]

Ipv4 == 0 .. Pow2[Width] - 1
None == -1            \* the interface has no IPv4 address
Unset == 0            \* wan_ip_nbo of an engine without address
PoolRange == [start : Ipv4, end : Ipv4]
Bad == -2             \* a text that is no address
Torn == -3            \* a string that is being assigned
Missing == -4         \* a line that the file does not have
Text == Ipv4 \cup {Bad}
Lines == [start : Text \cup {Missing}, end : Text \cup {Missing}]

ASSUME LanConstants ==
  /\ Width \in Nat \ {0} /\ RouterIp \in Ipv4 /\ Apply \in BOOLEAN
  /\ Pools \subseteq {p \in PoolRange : p.start < p.end}   \* checked by on_apply
  /\ Boots \subseteq Lines /\ Boots # {} /\ Default \in PoolRange
  /\ Garbled \subseteq Text /\ Garbled # {} /\ SaveFails \in BOOLEAN
  /\ Foreign \subseteq Ipv4 \cup {None}
  /\ WanAddr \subseteq Ipv4 \ {Unset} /\ Loopback \in WanAddr /\ IoctlFails \in BOOLEAN
  /\ Edits \in Nat /\ Changes \in Nat /\ WanChanges \in Nat /\ Restarts \in Nat

VARIABLES phase,    \* "init": in App::init; "up": threads run; "refused": init failed
          pool,     \* Config::DHCP_POOL_START and _END
          pending,  \* dhcp_cfg_efd_ is readable
          gpc,      \* position of the GUI thread in on_apply
          draft,    \* the pool in the dialog's fields
          file,     \* the pool's lines of config/config.txt
          unsaved,  \* history: the last save_config left out a line, or all of them
          kernel,   \* the IPv4 address of the LAN interface
          leased,   \* the pool the DHCP engine leases from
          gateway,  \* DhcpEngine::router_ip
          pc,       \* position in applyDhcpConfig and sync
          s,        \* the pool that applyDhcpConfig, then sync parsed, and sync's kern
          wpc,      \* position of the DHCP worker in refresh_router
          e,        \* the worker's local: the address it read
          left,     \* edits, foreign changes and restarts left
          enable_nat,
          kernel_wan,  \* the IPv4 address of the WAN interface
          wan_ip,      \* NatEngine::wan_ip_nbo
          tpc, source  \* the tracker's position and the address it read

gui == <<gpc, draft>>
disk == <<file, unsaved>>
wan == <<enable_nat, kernel_wan, wan_ip, tpc, source>>
lanVars == <<phase, pool, pending, gui, disk, kernel, leased, gateway, pc, s, wpc, e, left, wan>>

(***************************************************************************)
(* Subnet arithmetic of src/Network_util.cpp.                              *)
(***************************************************************************)
Bit(a, p) == (a \div Pow2[Width - 1 - p]) % 2

InferPrefixPastBit(a, b) ==
  IF a = b THEN Width ELSE Min({p \in 0 .. Width - 1 : Bit(a, p) # Bit(b, p)}) + 1

\* infer_prefix_covering_pool: the position of the first bit that differs.
infer_prefix_covering_pool(a, b) ==
  IF a = b THEN Width ELSE Min({p \in 0 .. Width - 1 : Bit(a, p) # Bit(b, p)})

ipv4_in_subnet(ip, prefix, anchor) ==
  ip \div Pow2[Width - prefix] = anchor \div Pow2[Width - prefix]

InPoolSubnet(ip, p) ==
  ipv4_in_subnet(ip, infer_prefix_covering_pool(p.start, p.end), p.start)

\* get_local_ip: the empty string, here None, when there is no address or
\* the socket cannot be used.
get_local_ip(address) == {address} \cup (IF IoctlFails THEN {None} ELSE {})
LocalIp == get_local_ip(kernel)

\* set_iface_ipv4_and_prefix(RouterIp, prefix): it refuses prefix 0, and the
\* ioctl that sets the mask may fail after the one that set the address.
SetIface(ok) ==
  LET prefix == infer_prefix_covering_pool(s.pool.start, s.pool.end)
  IN \/ prefix > 0 /\ ok /\ kernel' = RouterIp
     \/ prefix = 0 /\ ~ok /\ kernel' = kernel
     \/ prefix > 0 /\ IoctlFails /\ ~ok /\ kernel' \in {kernel, RouterIp}

(***************************************************************************)
(* The program starts with the file's pool and runs sync() from App::init. *)
(***************************************************************************)
Loaded(lines) ==
  [start |-> IF lines.start = Missing THEN Default.start ELSE lines.start,
   end |-> IF lines.end = Missing THEN Default.end ELSE lines.end]

LanInit == /\ phase = "init" /\ file \in Boots /\ unsaved = FALSE
           /\ pool = Loaded(file) /\ leased = pool
           /\ gateway = RouterIp /\ pending = FALSE /\ gpc = "idle" /\ draft = Default
           /\ kernel \in Foreign \cup {None}
           /\ pc = "parse" /\ s = [pool |-> Default, kern |-> None]
           /\ wpc = "sleep" /\ e = None
           /\ left = [edits |-> Edits, changes |-> Changes,
                      wan |-> WanChanges, restarts |-> Restarts]
           /\ enable_nat \in BOOLEAN
           /\ kernel_wan \in IF enable_nat THEN WanAddr \cup {None} ELSE {None}
           /\ wan_ip = Unset /\ tpc = "sleep" /\ source = None

\* The program dies at any point and is started again.  The save of an
\* orderly end is the subject of Shutdown.
Restart == /\ phase = "up" /\ left.restarts > 0
           /\ phase' = "init" /\ pool' = Loaded(file) /\ leased' = pool' /\ unsaved' = FALSE
           /\ gateway' = RouterIp /\ pending' = FALSE /\ gpc' = "idle"
           /\ pc' = "parse" /\ wpc' = "sleep" /\ e' = None
           /\ left' = [left EXCEPT !.restarts = @ - 1]
           /\ wan_ip' = Unset /\ tpc' = "sleep" /\ source' = None
           /\ UNCHANGED <<file, draft, kernel, s, enable_nat, kernel_wan>>

\* Another program (netplan, an administrator) changes the interface.
ForeignChange(a) == /\ left.changes > 0 /\ kernel' = a
                    /\ left' = [left EXCEPT !.changes = @ - 1]
                    /\ UNCHANGED <<phase, pool, pending, gui, disk, leased, gateway, pc, s, wpc, e, wan>>

\* Without NAT nothing reads the address, so its changes are left out.
ForeignWanChange(a) == /\ enable_nat /\ left.wan > 0 /\ kernel_wan' = a
                       /\ left' = [left EXCEPT !.wan = @ - 1]
                       /\ UNCHANGED <<phase, pool, pending, gui, disk, kernel, leased, gateway, pc, s, wpc, e,
                                      enable_nat, wan_ip, tpc, source>>

(***************************************************************************)
(* on_apply in the GUI thread: a pool that passed its checks is assigned,  *)
(* string by string, and then the event is written.                        *)
(***************************************************************************)
ApplyPool(p) == /\ phase = "up" /\ gpc = "idle" /\ left.edits > 0
                /\ gpc' = "start" /\ draft' = p /\ pool' = [pool EXCEPT !.start = Torn]
                /\ left' = [left EXCEPT !.edits = @ - 1]
                /\ UNCHANGED <<phase, pending, disk, kernel, leased, gateway, pc, s, wpc, e, wan>>

AssignStart == /\ gpc = "start" /\ gpc' = "end"
               /\ pool' = [start |-> draft.start, end |-> Torn]
               /\ UNCHANGED <<phase, pending, draft, disk, kernel, leased, gateway, pc, s, wpc, e, left, wan>>

AssignEnd == /\ gpc = "end" /\ gpc' = "signal"
             /\ pool' = [pool EXCEPT !.end = draft.end]
             /\ UNCHANGED <<phase, pending, draft, disk, kernel, leased, gateway, pc, s, wpc, e, left, wan>>

SignalControl == /\ gpc = "signal" /\ gpc' = "idle" /\ pending' = TRUE
                 /\ UNCHANGED <<phase, pool, draft, disk, kernel, leased, gateway, pc, s, wpc, e, left, wan>>

Gui == (\E p \in Pools : ApplyPool(p)) \/ AssignStart \/ AssignEnd \/ SignalControl

(***************************************************************************)
(* The control thread: control_event_loop, applyDhcpConfig.  A string that *)
(* does not parse, or a pool that reconfigure() refuses, ends the handling *)
(* of the event.                                                           *)
(***************************************************************************)
WakeControl == /\ phase = "up" /\ pc = "idle" /\ pending
               /\ pending' = FALSE /\ pc' = "start"
               /\ UNCHANGED <<phase, pool, gui, disk, kernel, leased, gateway, s, wpc, e, left, wan>>

Reads(string) == IF string = Torn THEN Garbled ELSE {string}

ReadStart == /\ pc = "start"
             /\ \E a \in Reads(pool.start) :
                  \/ a = Bad /\ pc' = "idle" /\ s' = s
                  \/ a # Bad /\ pc' = "end" /\ s' = [s EXCEPT !.pool.start = a]
             /\ UNCHANGED <<phase, pool, pending, gui, disk, kernel, leased, gateway, wpc, e, left, wan>>

ReadEnd == /\ pc = "end"
           /\ \E a \in Reads(pool.end) :
                \/ a = Bad /\ pc' = "idle" /\ s' = s
                \/ a # Bad /\ pc' = "reconfigure" /\ s' = [s EXCEPT !.pool.end = a]
           /\ UNCHANGED <<phase, pool, pending, gui, disk, kernel, leased, gateway, wpc, e, left, wan>>

ReconfigureLeases ==
  /\ pc = "reconfigure"
  /\ \/ s.pool.end < s.pool.start /\ leased' = leased /\ pc' = "idle"
     \/ s.pool.end >= s.pool.start /\ leased' = s.pool /\ pc' = "parse"
  /\ UNCHANGED <<phase, pool, pending, gui, disk, kernel, gateway, s, wpc, e, left, wan>>

(***************************************************************************)
(* The dhcp_applied callback saves whether or not sync() succeeded.  A     *)
(* file that cannot be opened is only logged; a line that cannot be        *)
(* written is not even noticed.                                            *)
(***************************************************************************)
Opens == \/ /\ file' = [start |-> Missing, end |-> Missing] /\ unsaved' = FALSE
            /\ pc' = "save_start"
         \/ SaveFails /\ file' = file /\ unsaved' = TRUE /\ pc' = "idle"

SaveOpenSynced == /\ pc = "save"
                  /\ IF gateway = s.kern THEN Opens ELSE pc' = "idle" /\ UNCHANGED disk
                  /\ UNCHANGED <<phase, pool, pending, gui, kernel, leased, gateway, s, wpc, e, left, wan>>

SaveOpen == /\ pc = "save" /\ Opens
            /\ UNCHANGED <<phase, pool, pending, gui, kernel, leased, gateway, s, wpc, e, left, wan>>

SaveStart == /\ pc = "save_start" /\ pc' = "save_end"
             /\ \/ \E a \in Reads(pool.start) : file' = [file EXCEPT !.start = a] /\ unsaved' = unsaved
                \/ SaveFails /\ file' = file /\ unsaved' = TRUE
             /\ UNCHANGED <<phase, pool, pending, gui, kernel, leased, gateway, s, wpc, e, left, wan>>

SaveEnd == /\ pc = "save_end" /\ pc' = "idle"
           /\ \/ \E a \in Reads(pool.end) : file' = [file EXCEPT !.end = a] /\ unsaved' = unsaved
              \/ SaveFails /\ file' = file /\ unsaved' = TRUE
           /\ UNCHANGED <<phase, pool, pending, gui, kernel, leased, gateway, s, wpc, e, left, wan>>

(***************************************************************************)
(* NetworkConfig::sync, in App::init or on the control thread.             *)
(***************************************************************************)
Return(ok) == IF phase = "init"
              THEN phase' = (IF ok THEN "init" ELSE "refused") /\ pc' = (IF ok THEN "wan" ELSE "idle")
              ELSE phase' = phase /\ pc' = "save"

Goto(label) == pc' = label /\ phase' = phase

SyncParse == /\ pc = "parse"
             /\ \E a \in Reads(pool.start) :
                  \/ a = Bad /\ Return(FALSE) /\ s' = s
                  \/ a # Bad /\ Goto("parse_end") /\ s' = [s EXCEPT !.pool.start = a]
             /\ UNCHANGED <<pool, pending, gui, disk, kernel, leased, gateway, wpc, e, left, wan>>

SyncParseEnd ==
  /\ pc = "parse_end"
  /\ \E a \in Reads(pool.end) :
       \/ a = Bad /\ Return(FALSE) /\ s' = s
       \/ /\ a # Bad /\ s' = [s EXCEPT !.pool.end = a]
          /\ IF s.pool.start > a THEN Return(FALSE) ELSE Goto(IF Apply THEN "set" ELSE "read")
  /\ UNCHANGED <<pool, pending, gui, disk, kernel, leased, gateway, wpc, e, left, wan>>

\* With APPLY_ROUTER_IP_TO_LAN, a failure to set the address is only logged.
SyncSet == /\ pc = "set" /\ Goto("read") /\ \E ok \in BOOLEAN : SetIface(ok)
           /\ UNCHANGED <<pool, pending, gui, disk, leased, gateway, s, wpc, e, left, wan>>

Aligned(a) == a # None /\ InPoolSubnet(a, s.pool)

SyncRead == /\ pc = "read"
            /\ \E a \in LocalIp :
                 /\ s' = [s EXCEPT !.kern = a]
                 /\ IF Aligned(a) THEN Goto("publish")
                    ELSE IF InPoolSubnet(RouterIp, s.pool) THEN Goto("reset")
                    ELSE Return(FALSE)
            /\ UNCHANGED <<pool, pending, gui, disk, kernel, leased, gateway, wpc, e, left, wan>>

SyncReset == /\ pc = "reset"
             /\ \E ok \in BOOLEAN : SetIface(ok) /\ IF ok THEN Goto("reread") ELSE Return(FALSE)
             /\ UNCHANGED <<pool, pending, gui, disk, leased, gateway, s, wpc, e, left, wan>>

SyncRereadTrusting == /\ pc = "reread" /\ Goto("publish")
                      /\ s' = [s EXCEPT !.kern = kernel]
                      /\ UNCHANGED <<pool, pending, gui, disk, kernel, leased, gateway, wpc, e, left, wan>>

SyncReread == /\ pc = "reread"
              /\ \E a \in LocalIp :
                   /\ s' = [s EXCEPT !.kern = a]
                   /\ IF Aligned(a) THEN Goto("publish") ELSE Return(FALSE)
              /\ UNCHANGED <<pool, pending, gui, disk, kernel, leased, gateway, wpc, e, left, wan>>

SyncPublish == /\ pc = "publish" /\ gateway' = s.kern /\ Return(TRUE)
               /\ UNCHANGED <<pool, pending, gui, disk, kernel, leased, s, wpc, e, left, wan>>

(***************************************************************************)
(* The rest of App::init: the WAN address, without which NAT refuses to    *)
(* start.                                                                  *)
(***************************************************************************)
Usable(a) == a \notin {None, Unset, Loopback}

InitNatUnchecked ==
  /\ pc = "wan" /\ pc' = "idle" /\ phase' = "up"
  /\ IF enable_nat THEN \E a \in get_local_ip(kernel_wan) : wan_ip' = (IF a = None THEN Unset ELSE a)
     ELSE wan_ip' = Unset
  /\ UNCHANGED <<pool, pending, gui, disk, kernel, leased, gateway, s, wpc, e, left,
                 enable_nat, kernel_wan, tpc, source>>

InitNat ==
  /\ pc = "wan" /\ pc' = "idle"
  /\ \/ ~enable_nat /\ phase' = "up" /\ wan_ip' = Unset
     \/ /\ enable_nat
        /\ \E a \in get_local_ip(kernel_wan) :
             IF Usable(a) THEN phase' = "up" /\ wan_ip' = a
             ELSE phase' = "refused" /\ wan_ip' = wan_ip
  /\ UNCHANGED <<pool, pending, gui, disk, kernel, leased, gateway, s, wpc, e, left,
                 enable_nat, kernel_wan, tpc, source>>

Control == \/ WakeControl \/ ReadStart \/ ReadEnd \/ ReconfigureLeases
           \/ SaveOpen \/ SaveStart \/ SaveEnd \/ SyncParse \/ SyncParseEnd \/ SyncSet
           \/ SyncRead \/ SyncReset \/ SyncReread \/ SyncPublish \/ InitNat

(***************************************************************************)
(* The DHCP worker's five-second tick: read the kernel's address, compare  *)
(* it with the engine's, store it.  Each engine access takes the mutex on  *)
(* its own, so the control thread may come between them.                   *)
(***************************************************************************)
RefreshRead == /\ phase = "up" /\ wpc = "sleep"
               /\ \E a \in LocalIp : a # None /\ e' = a
               /\ wpc' = "compare"
               /\ UNCHANGED <<phase, pool, pending, gui, disk, kernel, leased, gateway, pc, s, left, wan>>

RefreshCompareConfig == /\ wpc = "compare" /\ e' = None
                        /\ wpc' = "sleep"
                        /\ gateway' = IF gateway = RouterIp THEN e ELSE gateway
                        /\ UNCHANGED <<phase, pool, pending, gui, disk, kernel, leased, pc, s, left, wan>>

RefreshCompare == /\ wpc = "compare"
                  /\ wpc' = IF e # gateway THEN "store" ELSE "sleep"
                  /\ e' = IF e # gateway THEN e ELSE None
                  /\ UNCHANGED <<phase, pool, pending, gui, disk, kernel, leased, gateway, pc, s, left, wan>>

RefreshStore == /\ wpc = "store" /\ gateway' = e /\ wpc' = "sleep" /\ e' = None
                /\ UNCHANGED <<phase, pool, pending, gui, disk, kernel, leased, pc, s, left, wan>>

Worker == RefreshRead \/ RefreshCompare \/ RefreshStore

(***************************************************************************)
(* NatWanTracker::tick5s: the address it reads may be gone when it stores. *)
(***************************************************************************)
TrackReadUnset == /\ phase = "up" /\ tpc = "sleep" /\ enable_nat
                  /\ \E a \in get_local_ip(kernel_wan) :
                       /\ Usable(a) /\ wan_ip = Unset
                       /\ tpc' = "store" /\ source' = a
                  /\ UNCHANGED <<phase, pool, pending, gui, disk, kernel, leased, gateway, pc, s, wpc, e, left,
                                 enable_nat, kernel_wan, wan_ip>>

TrackRead == /\ phase = "up" /\ tpc = "sleep" /\ enable_nat
             /\ \E a \in get_local_ip(kernel_wan) :
                  /\ Usable(a) /\ a # wan_ip
                  /\ tpc' = "store" /\ source' = a
             /\ UNCHANGED <<phase, pool, pending, gui, disk, kernel, leased, gateway, pc, s, wpc, e, left,
                            enable_nat, kernel_wan, wan_ip>>

TrackStore == /\ tpc = "store" /\ tpc' = "sleep" /\ wan_ip' = source /\ source' = None
              /\ UNCHANGED <<phase, pool, pending, gui, disk, kernel, leased, gateway, pc, s, wpc, e, left,
                             enable_nat, kernel_wan>>

Tracker == TrackRead \/ TrackStore

LanNext == \/ Restart \/ Gui \/ Control \/ Worker \/ Tracker
           \/ \E a \in Foreign : ForeignChange(a)
           \/ \E a \in WanAddr \cup {None} : ForeignWanChange(a)

LanSpec == LanInit /\ [][LanNext]_lanVars

\* The control thread, the worker and the tracker share cores 0 and 1 with the GUI at
\* normal priority (set_current_thread_affinity_control), so each runs on; a
\* failing read of the address is a tick without effect, and not every one fails.
LanFairSpec == LanSpec /\ WF_lanVars(Control) /\ WF_lanVars(Worker) /\ WF_lanVars(Tracker)

-----------------------------------------------------------------------------

\* infer_prefix_covering_pool yields the longest prefix whose subnet holds
\* the whole pool: a longer mask would put part of the pool off-link, a
\* shorter one would accept a gateway that is not.
SubnetCoversPool ==
  \A q \in 0 .. Width :
    (\A a \in s.pool.start .. s.pool.end : ipv4_in_subnet(a, q, s.pool.start))
      <=> (q <= infer_prefix_covering_pool(s.pool.start, s.pool.end) \/ s.pool.start > s.pool.end)

\* sync() hands the engine only a gateway inside the subnet of the pool it
\* parsed, whatever the ioctls and other programs do to the interface
\* between its steps.
PublishedInPool == pc = "publish" => Aligned(s.kern)

\* Whenever the GUI and the control thread rest with no event pending, the
\* pool being leased from is the configured one, and so is the pool a restart
\* would load, unless the last save could not write the file: however the
\* GUI's assignments fell between the reads of applyDhcpConfig, sync() and
\* save_config(), and whether or not sync() succeeded.
ServedIsSaved == phase = "up" /\ gpc = "idle" /\ ~pending /\ pc = "idle" =>
                   leased = pool /\ (unsaved \/ Loaded(file) = pool)

\* The gateway handed to DHCP clients ends up being the kernel's LAN address:
\* the worker's stale read may overwrite what sync() published, but a later
\* tick repairs it.
GatewayFollowsKernel == <>[](phase = "up" /\ kernel # None => gateway = kernel)

\* With NAT on, the running engine always has an address that packets can
\* carry, and with NAT off it has none: App::init refuses to start without
\* one, and the tracker keeps the last good one while the interface has
\* none or only a loopback address.
NatAddressUsable == phase = "up" => IF enable_nat THEN Usable(wan_ip) ELSE wan_ip = Unset

\* The NAT engine ends up with the kernel's WAN address, whenever that is
\* usable, although the tracker may store one that is already gone.
WanFollowsKernel == <>[](phase = "up" /\ enable_nat /\ Usable(kernel_wan) => wan_ip = kernel_wan)
=============================================================================
