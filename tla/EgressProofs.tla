---------------------------- MODULE EgressProofs ----------------------------
(***************************************************************************)
(* The two steps a packet passes on its way out: the Ethernet rewrite       *)
(* (L2Forward) and the traffic shaper (Shaping).                            *)
(*                                                                          *)
(* L2Forward, for every network and any number of refreshes: a rewritten    *)
(* frame carries addresses of one refresh.  RewriteFromOneRefresh speaks of *)
(* the last frame out, so it is not inductive: L2Inv adds that every        *)
(* snapshot a core may use is complete and of one refresh (Complete), that  *)
(* the one being filled is so as far as it is filled and is used by no core *)
(* (Filling), and that a frame under way belongs to its snapshot (Held).    *)
(*                                                                          *)
(* Shaping, for every set of rates and packet sizes, every ring size and    *)
(* every interleaving of the three threads: a packet is never duplicated,   *)
(* reordered or forgotten, no more leaves than the rate allows, no packet   *)
(* blocks the queue for ever, and no cap the user chose is lost.  None of   *)
(* the four is inductive.  DeliveredInOrder needs Queued: the ring holds    *)
(* the packets accepted last, consecutively, and everything before them is  *)
(* sent or lost.  RateCapped needs Metered, in which a packet that is being *)
(* sent, the tokens in the bucket and the time not yet credited count as    *)
(* spent.  CapsApplied needs HandoffInv: where a cap is while it is on its  *)
(* way.                                                                     *)
(***************************************************************************)
EXTENDS L2Forward, Shaping, TLAPS

-----------------------------------------------------------------------------
(***************************************************************************)
(* L2Forward.                                                              *)
(***************************************************************************)

Buffer == {0, 1}
SnapType == [lan_hw : Nat, wan_hw : Nat, gw_hw : Nat, gw_hw_valid : BOOLEAN,
             wan_cfg_valid : BOOLEAN, default_gw_ip_configured : BOOLEAN,
             arp : [Ip -> Nat], ready : BOOLEAN, gen : Nat]
FrameType == [dst : Dst, b : Buffer, gen : Nat, src : Nat]

L2TypeOK == /\ snap \in [Buffer -> SnapType] /\ active \in Buffer
            /\ gen \in Nat /\ lan_ok \in BOOLEAN /\ wan_ok \in BOOLEAN
            /\ wpc \in {"sleep", "wan", "gw", "arp", "flip"}
            /\ rpc \in [Core -> {"idle", "ready", "mac"}]
            /\ frame \in [Core -> FrameType]

\* The next-hop addresses of a snapshot are the ones its own refresh obtained,
\* or absent.
NextHopOf(s) == /\ s.gw_hw_valid => s.gw_hw = s.gen
                /\ \A a \in Ip : s.arp[a] \in {0, s.gen}

\* A snapshot a core would use holds addresses of one refresh only.
OneRefresh(s) == s.ready => s.lan_hw = s.gen /\ s.wan_hw = s.gen /\ NextHopOf(s)

\* While refresh_l2 runs: what it has written so far is of this refresh, and no
\* core uses the buffer it fills.
Filling == wpc # "sleep" =>
  /\ snap[Target].gen = gen
  /\ lan_ok => snap[Target].lan_hw = gen
  /\ wan_ok => snap[Target].wan_hw = gen
  /\ wpc \in {"arp", "flip"} => NextHopOf(snap[Target])
  /\ wpc = "flip" => OneRefresh(snap[Target])
  /\ Quiet

\* Between refreshes both buffers are complete; the active one always is.
Complete == OneRefresh(snap[active]) /\ (wpc = "sleep" => OneRefresh(snap[Target]))

\* A core's frame belongs to the snapshot it holds.
Held == \A c \in Core :
  /\ rpc[c] # "idle" => frame[c].gen = Used(c).gen
  /\ rpc[c] = "mac" => /\ Used(c).ready /\ frame[c].dst \in Ip
                       /\ c = Up => frame[c].src = frame[c].gen

L2Inv == L2TypeOK /\ Filling /\ Complete /\ Held /\ RewriteFromOneRefresh

\* Two empty snapshots, neither of them ready.
LEMMA L2Start == L2Init => L2Inv
<1> SUFFICES ASSUME L2Init PROVE L2Inv
  OBVIOUS
<1>1. L2TypeOK
  BY Zenon DEF L2Init, L2TypeOK, Buffer, SnapType, FrameType, Empty, NoFrame, Core, Dst
<1>2. Filling /\ Complete /\ Held /\ RewriteFromOneRefresh
  BY DEF L2Init, Filling, Complete, Held, RewriteFromOneRefresh, OneRefresh, NextHopOf,
         Empty, NoFrame, AsIs, Target
<1> QED
  BY <1>1, <1>2 DEF L2Inv

\* refresh_l2 writes the buffer that is not active.
LEMMA TargetInactive == ASSUME active \in Buffer PROVE Target \in Buffer /\ Target # active
BY DEF Buffer, Target

\* What a step of refresh_l2 leaves alone: the active buffer and all a core
\* may be using.
LEMMA WriterKeeps ==
  ASSUME L2Inv, NEW b \in SnapType, snap' = [snap EXCEPT ![Target] = b], Quiet,
         UNCHANGED <<active, rpc, frame, out>>
  PROVE  /\ snap' \in [Buffer -> SnapType] /\ snap'[Target'] = b
         /\ Held' /\ OneRefresh(snap[active])' /\ Quiet' /\ RewriteFromOneRefresh'
BY TargetInactive
   DEF L2Inv, L2TypeOK, Complete, Held, Used, Quiet, OneRefresh, NextHopOf, Target,
       RewriteFromOneRefresh, FrameType

\* Every step of refresh_l2 preserves the invariant.
LEMMA L2WriterStep ==
  ASSUME L2Inv, \/ \E lan, wan \in BOOLEAN : RefreshHw(lan, wan)
                \/ \E v \in BOOLEAN : RefreshWan(v)
                \/ \E configured \in BOOLEAN, known \in SUBSET Ip : RefreshGateway(configured,
                     known)
                \/ RefreshReady \/ Flip
  PROVE  L2Inv'
<1>0. /\ L2TypeOK /\ Filling /\ Complete /\ Held /\ RewriteFromOneRefresh
      /\ Target \in Buffer /\ Target # active /\ snap[Target] \in SnapType
  BY TargetInactive DEF L2Inv, L2TypeOK
<1>1. ASSUME NEW lan \in BOOLEAN, NEW wan \in BOOLEAN, RefreshHw(lan, wan) PROVE L2Inv'
  <2> DEFINE b == [snap[Target] EXCEPT !.gen = gen + 1,
                                       !.lan_hw = IF lan THEN gen + 1 ELSE @,
                                       !.wan_hw = IF wan THEN gen + 1 ELSE @]
  <2>1. b \in SnapType /\ b.gen = gen + 1 /\ (lan => b.lan_hw = gen + 1)
          /\ (wan => b.wan_hw = gen + 1)
    <3>1. gen + 1 \in Nat /\ (IF lan THEN gen + 1 ELSE snap[Target].lan_hw) \in Nat
                         /\ (IF wan THEN gen + 1 ELSE snap[Target].wan_hw) \in Nat
      BY <1>0 DEF SnapType, L2TypeOK
    <3> QED
      BY <1>0, <3>1, Zenon DEF SnapType
  <2>2. snap' = [snap EXCEPT ![Target] = b]
    BY <1>0, <1>1, Zenon DEF RefreshHw, L2TypeOK, SnapType
  <2> HIDE DEF b
  <2>3. /\ snap' \in [Buffer -> SnapType] /\ snap'[Target'] = b
        /\ Held' /\ OneRefresh(snap[active])' /\ Quiet' /\ RewriteFromOneRefresh'
    BY <1>1, <2>1, <2>2, WriterKeeps, Zenon DEF RefreshHw, cores
  <2>4. L2TypeOK'
    <3>1. gen' = gen + 1 /\ wpc' = "wan" /\ active' = active
      BY <1>1, Zenon DEF RefreshHw
    <3>2. lan_ok' \in BOOLEAN /\ wan_ok' \in BOOLEAN /\ UNCHANGED cores
      BY <1>1, Zenon DEF RefreshHw
    <3> QED
      BY <1>0, <2>3, <3>1, <3>2 DEF L2TypeOK, cores
  <2>5. Filling' /\ Complete'
    BY <1>1, <2>1, <2>3, Zenon DEF RefreshHw, Filling, Complete
  <2> QED
    BY <2>3, <2>4, <2>5 DEF L2Inv
<1>2. ASSUME NEW v \in BOOLEAN, RefreshWan(v) PROVE L2Inv'
  <2> DEFINE b == [snap[Target] EXCEPT !.wan_cfg_valid = v]
  <2>1. b \in SnapType /\ b.gen = snap[Target].gen /\ b.lan_hw = snap[Target].lan_hw
          /\ b.wan_hw = snap[Target].wan_hw
    BY <1>0 DEF SnapType
  <2>2. snap' = [snap EXCEPT ![Target] = b]
    BY <1>0, <1>2 DEF RefreshWan
  <2> HIDE DEF b
  <2>3. /\ snap' \in [Buffer -> SnapType] /\ snap'[Target'] = b
        /\ Held' /\ OneRefresh(snap[active])' /\ Quiet' /\ RewriteFromOneRefresh'
    BY <1>0, <1>2, <2>1, <2>2, WriterKeeps, Zenon DEF RefreshWan, cores, Filling
  <2>4. L2TypeOK'
    BY <1>0, <1>2, <2>3 DEF RefreshWan, L2TypeOK, cores
  <2>5. Filling' /\ Complete'
    BY <1>0, <1>2, <2>1, <2>3 DEF RefreshWan, Filling, Complete
  <2> QED
    BY <2>3, <2>4, <2>5 DEF L2Inv
<1>3. ASSUME NEW configured \in BOOLEAN, NEW known \in SUBSET Ip, RefreshGateway(configured,
        known) PROVE L2Inv'
  <2> DEFINE valid == configured /\ Gw \in known
             b == [snap[Target] EXCEPT !.default_gw_ip_configured = configured,
                             !.gw_hw_valid = valid,
                             !.gw_hw = IF valid THEN gen ELSE @,
                             !.arp = [a \in Ip |-> IF a \in known THEN gen ELSE 0]]
  <2>1. b \in SnapType /\ b.gen = snap[Target].gen /\ b.lan_hw = snap[Target].lan_hw
          /\ b.wan_hw = snap[Target].wan_hw
        /\ (b.gw_hw_valid => b.gw_hw = gen) /\ \A a \in Ip : b.arp[a] \in {0, gen}
    BY <1>0, Zenon DEF SnapType, L2TypeOK
  <2>2. snap' = [snap EXCEPT ![Target] = b]
    BY <1>0, <1>3, Zenon DEF RefreshGateway
  <2> HIDE DEF b
  <2>3. /\ snap' \in [Buffer -> SnapType] /\ snap'[Target'] = b
        /\ Held' /\ OneRefresh(snap[active])' /\ Quiet' /\ RewriteFromOneRefresh'
    BY <1>0, <1>3, <2>1, <2>2, WriterKeeps, Zenon DEF RefreshGateway, cores, Filling
  <2>4. L2TypeOK'
    BY <1>0, <1>3, <2>3, Zenon DEF RefreshGateway, L2TypeOK, cores
  <2>5. Filling' /\ Complete'
    BY <1>0, <1>3, <2>1, <2>3, Zenon DEF RefreshGateway, Filling, Complete, NextHopOf
  <2> QED
    BY <2>3, <2>4, <2>5 DEF L2Inv
<1>4. CASE RefreshReady
  <2> DEFINE b == [snap[Target] EXCEPT !.ready = lan_ok /\ wan_ok
      /\ (snap[Target].gw_hw_valid \/ snap[Target].wan_cfg_valid)]
  <2>1. b \in SnapType /\ b.gen = snap[Target].gen /\ b.lan_hw = snap[Target].lan_hw
          /\ b.wan_hw = snap[Target].wan_hw
        /\ b.gw_hw_valid = snap[Target].gw_hw_valid /\ b.gw_hw = snap[Target].gw_hw
             /\ b.arp = snap[Target].arp
        /\ (b.ready => lan_ok /\ wan_ok)
    BY <1>0 DEF SnapType, L2TypeOK
  <2>2. snap' = [snap EXCEPT ![Target] = b]
    BY <1>0, <1>4 DEF RefreshReady
  <2> HIDE DEF b
  <2>3. /\ snap' \in [Buffer -> SnapType] /\ snap'[Target'] = b
        /\ Held' /\ OneRefresh(snap[active])' /\ Quiet' /\ RewriteFromOneRefresh'
    BY <1>0, <1>4, <2>1, <2>2, WriterKeeps, Zenon DEF RefreshReady, cores, Filling
  <2>4. L2TypeOK'
    BY <1>0, <1>4, <2>3 DEF RefreshReady, L2TypeOK, cores
  <2>5. Filling' /\ Complete'
    BY <1>0, <1>4, <2>1, <2>3, Zenon
       DEF RefreshReady, Filling, Complete, NextHopOf, OneRefresh
  <2> QED
    BY <2>3, <2>4, <2>5 DEF L2Inv
<1>5. CASE Flip
  <2>1. active' = Target /\ Target' = active
    BY <1>0, <1>5 DEF Flip, Target, L2TypeOK, Buffer
  <2>2. L2TypeOK' /\ Filling'
    BY <1>0, <1>5, <2>1, Zenon DEF Flip, L2TypeOK, cores, Filling
  <2>3. Complete'
    BY <1>0, <1>5, <2>1 DEF Flip, Filling, Complete, OneRefresh, NextHopOf
  <2>4. Held' /\ RewriteFromOneRefresh'
    BY <1>0, <1>5 DEF Flip, cores, Held, Used, RewriteFromOneRefresh
  <2> QED
    BY <2>2, <2>3, <2>4 DEF L2Inv
<1> QED
  BY <1>1, <1>2, <1>3, <1>4, <1>5

\* A step of the core c that changes neither the snapshots nor the other core.
LEMMA CoreKeeps ==
  ASSUME L2Inv, NEW c \in Core, NEW at \in {"idle", "ready", "mac"}, NEW f \in FrameType,
         rpc' = [rpc EXCEPT ![c] = at], frame' = [frame EXCEPT ![c] = f],
         UNCHANGED <<snap, active, writer>>,
         at # "idle" => f.gen = snap[f.b].gen /\ (wpc # "sleep" => f.b = active),
         at = "mac" => snap[f.b].ready /\ f.dst \in Ip /\ (c = Up => f.src = f.gen)
  PROVE  L2TypeOK' /\ Filling' /\ Complete' /\ Held'
<1>0. L2TypeOK /\ Filling /\ Complete /\ Held
  BY DEF L2Inv
<1>1. L2TypeOK'
  BY <1>0 DEF L2TypeOK, writer
<1>2. ASSUME NEW d \in Core
      PROVE  /\ d # c => rpc'[d] = rpc[d] /\ frame'[d] = frame[d]
             /\ d = c => rpc'[d] = at /\ frame'[d] = f
  BY <1>0 DEF L2TypeOK
<1>3. Held'
  BY <1>0, <1>2 DEF Held, Used
<1>4. wpc # "sleep" => Quiet'
  BY <1>0, <1>2 DEF Filling, Quiet
<1>5. Filling' /\ Complete'
  BY <1>0, <1>4 DEF Filling, Complete, Target, writer, OneRefresh, NextHopOf
<1> QED
  BY <1>1, <1>3, <1>5

\* Every step of a core's rewrite preserves the invariant.
LEMMA L2CoreStep ==
  ASSUME L2Inv, \/ \E c \in Core, dst \in Dst : Snapshot(c, dst)
                \/ \E c \in Core : NotReady(c) \/ Ready(c)
                \/ LanToWan \/ WanToLan
  PROVE  L2Inv'
<1>0. /\ L2TypeOK /\ Filling /\ Complete /\ Held /\ RewriteFromOneRefresh
      /\ Up \in Core /\ Down \in Core /\ Up # Down
      /\ NoFrame \in FrameType
  BY DEF L2Inv, Core, Up, Down, NoFrame, FrameType, Dst, Buffer
<1>1. ASSUME NEW c \in Core, NEW dst \in Dst, Snapshot(c, dst) PROVE L2Inv'
  <2> DEFINE f == [dst |-> dst, b |-> active, gen |-> snap[active].gen, src |-> 0]
  <2>1. f \in FrameType /\ f.gen = snap[f.b].gen /\ f.b = active
    BY <1>0 DEF FrameType, L2TypeOK, SnapType
  <2>2. rpc' = [rpc EXCEPT ![c] = "ready"] /\ frame' = [frame EXCEPT ![c] = f] /\ out' = AsIs
        /\ UNCHANGED <<snap, active, writer>>
    BY <1>1 DEF Snapshot
  <2> HIDE DEF f
  <2>3. L2TypeOK' /\ Filling' /\ Complete' /\ Held'
    BY <2>1, <2>2, CoreKeeps, Zenon
  <2> QED
    BY <2>2, <2>3 DEF L2Inv, RewriteFromOneRefresh, AsIs
\* The frame leaves the rewrite step.
<1>2. ASSUME NEW c \in Core, Done(c), UNCHANGED <<snap, active, writer>>
      PROVE  L2TypeOK' /\ Filling' /\ Complete' /\ Held'
  BY <1>0, <1>2, CoreKeeps, Zenon DEF Done
<1>3. ASSUME NEW c \in Core, NotReady(c) PROVE L2Inv'
  BY <1>2, <1>3 DEF NotReady, Pass, L2Inv, RewriteFromOneRefresh, AsIs
<1>4. ASSUME NEW c \in Core, Ready(c) PROVE L2Inv'
  <2> DEFINE src == IF c = Up THEN Used(c).wan_hw ELSE 0
             f == [frame[c] EXCEPT !.src = src]
  <2>1. frame[c] \in FrameType /\ Used(c) \in SnapType /\ OneRefresh(Used(c))
        /\ frame[c].gen = Used(c).gen /\ (wpc # "sleep" => frame[c].b = active)
    BY <1>0, <1>4
       DEF Ready, Used, L2TypeOK, FrameType, Buffer, Complete, Target, Held, Filling, Quiet
  <2>2. src \in Nat /\ (c = Up => src = Used(c).gen)
    BY <1>4, <2>1 DEF Ready, OneRefresh, SnapType
  <2>3. f \in FrameType /\ f.gen = frame[c].gen /\ f.b = frame[c].b /\ f.dst = frame[c].dst
          /\ f.src = src
    BY <2>1, <2>2 DEF FrameType
  <2>4. f.dst \in Ip
    BY <1>4, <2>3 DEF Ready, FrameType, Dst
  <2>5. rpc' = [rpc EXCEPT ![c] = "mac"] /\ frame' = [frame EXCEPT ![c] = f]
        /\ UNCHANGED <<snap, active, writer, out>>
    BY <1>4 DEF Ready
  <2> HIDE DEF f, src
  <2>6. L2TypeOK' /\ Filling' /\ Complete' /\ Held'
    <3>1. Used(c).ready /\ Used(c) = snap[frame[c].b]
      BY <1>4 DEF Ready, Used
    <3> QED
      BY <2>1, <2>2, <2>3, <2>4, <2>5, <3>1, CoreKeeps, Zenon
  <2> QED
    BY <1>0, <2>5, <2>6 DEF L2Inv, RewriteFromOneRefresh
\* What a core that is about to rewrite finds in its snapshot.
<1>5. ASSUME NEW c \in Core, rpc[c] = "mac"
      PROVE  /\ OneRefresh(Used(c)) /\ Used(c).ready /\ frame[c].gen = Used(c).gen
             /\ c = Up => frame[c].src = frame[c].gen
             /\ frame[c].dst \in Ip
  BY <1>0, <1>5
     DEF Used, L2TypeOK, FrameType, Buffer, Complete, Target, Held, Filling, Quiet
<1>6. CASE LanToWan
  <2>1. Done(Up) /\ UNCHANGED <<snap, active, writer>>
    BY <1>6 DEF LanToWan, Pass, Drop
  <2>2. \/ out' = AsIs
        \/ out' = Rewritten(Up, frame[Up].src, Used(Up).arp[frame[Up].dst])
             /\ Used(Up).arp[frame[Up].dst] # 0
        \/ out' = Rewritten(Up, frame[Up].src, Used(Up).gw_hw) /\ Used(Up).gw_hw_valid
    BY <1>6 DEF LanToWan, Pass, Drop, ArpHit
  <2>3. RewriteFromOneRefresh'
    BY <1>0, <1>5, <1>6, <2>2
       DEF LanToWan, RewriteFromOneRefresh, AsIs, Rewritten, OneRefresh, NextHopOf
  <2> QED
    BY <1>0, <1>2, <2>1, <2>3 DEF L2Inv
<1>7. CASE WanToLan
  <2>1. Done(Down) /\ UNCHANGED <<snap, active, writer>>
    BY <1>7 DEF WanToLan, Pass
  <2>2. \/ out' = AsIs
        \/ out' = Rewritten(Down, Used(Down).lan_hw, Used(Down).arp[frame[Down].dst])
           /\ Used(Down).arp[frame[Down].dst] # 0
    BY <1>7 DEF WanToLan, Pass, ArpHit
  <2>3. RewriteFromOneRefresh'
    BY <1>0, <1>5, <1>7, <2>2
       DEF WanToLan, RewriteFromOneRefresh, AsIs, Rewritten, OneRefresh, NextHopOf
  <2> QED
    BY <1>0, <1>2, <2>1, <2>3 DEF L2Inv
<1> QED
  BY <1>1, <1>3, <1>4, <1>6, <1>7

\* Both addresses of a rewritten frame were obtained by the refresh that filled
\* the core's snapshot, for every network and any number of refreshes.
THEOREM OneRefreshPerFrame == L2Spec => []RewriteFromOneRefresh
<1>1. L2Inv /\ [L2Next]_l2vars => L2Inv'
  <2> SUFFICES ASSUME L2Inv, [L2Next]_l2vars PROVE L2Inv'
    OBVIOUS
  <2>1. CASE UNCHANGED l2vars
    BY <2>1
       DEF l2vars, writer, cores, L2Inv, L2TypeOK, Filling, Complete, Held,
           RewriteFromOneRefresh, Target, Quiet, Used, OneRefresh, NextHopOf
  <2> QED
    BY <2>1, L2WriterStep, L2CoreStep DEF L2Next
<1>2. L2Inv => RewriteFromOneRefresh
  BY DEF L2Inv
<1> QED
  BY <1>1, <1>2, L2Start, PTL DEF L2Spec

-----------------------------------------------------------------------------
(***************************************************************************)
(* Shaping.                                                                *)
(***************************************************************************)

Packet == [id : Nat, size : Nat]
Bucket == [tokens : Nat, capacity : Nat, rate : Nat, accrued : Nat]

RingType == /\ pool \in [Slots -> Packet]
            /\ head \in Slots /\ tail \in Slots /\ count \in 0 .. RingSize

BucketType == /\ bucket \in Bucket
              /\ bytes \in Nat /\ allowance \in Nat
              /\ requested \in Rate \cup {NoRate}

HistoryType == /\ accepted \in Nat /\ sent \in Seq(Nat) /\ lost \subseteq Nat
               /\ pkt \in Packet /\ pc \in {"idle", "next", "send"}

\* The slot of the packet that i others are ahead of.
SlotAt(h, i) == IF h + i >= RingSize THEN h + i - RingSize ELSE h + i

\* What is in the ring: the packets accepted last.
Queued == /\ tail = (IF count = RingSize THEN head ELSE SlotAt(head, count))
          /\ count <= accepted
          /\ \A i \in 0 .. count - 1 : /\ pool[SlotAt(head, i)].id = accepted - count + i + 1
                                       /\ pool[SlotAt(head, i)].size <= MaxFrame

\* What is not: each of the earlier packets is sent, in order, or lost.
Departed == /\ \A i, j \in 1 .. Len(sent) : i < j => sent[i] < sent[j]
            /\ Range(sent) \cup lost = 1 .. accepted - count
            /\ Range(sent) \cap lost = {}

\* The packet being sent is still the front of the ring.
Sending == pc = "send" => count > 0 /\ pkt = pool[head]

InFlight == IF pc = "send" THEN pkt.size ELSE 0

Metered == /\ bytes + InFlight + bucket.tokens + bucket.accrued <= bucket.capacity + allowance
           /\ MinBurst <= bucket.capacity

IInv == RingType /\ BucketType /\ HistoryType /\ Queued /\ Departed /\ Sending /\ Metered

-----------------------------------------------------------------------------

\* Indices around the ring, without the modulus.
LEMMA SlotValue ==
  ASSUME NEW h \in Slots, NEW i \in Slots
  PROVE  (h + i) % RingSize = SlotAt(h, i) /\ SlotAt(h, i) \in Slots
<1>1. (h + i) % RingSize = SlotAt(h, i)
  BY ShaperConstants, Z3 DEF Slots, SlotAt
<1>2. SlotAt(h, i) \in Slots
  BY ShaperConstants DEF Slots, SlotAt
<1> QED
  BY <1>1, <1>2

LEMMA NextSlotValue ==
  ASSUME NEW h \in Slots
  PROVE  NextSlot(h) = (IF h + 1 = RingSize THEN 0 ELSE h + 1) /\ NextSlot(h) \in Slots
<1>1. NextSlot(h) = IF h + 1 = RingSize THEN 0 ELSE h + 1
  BY ShaperConstants, Z3 DEF Slots, NextSlot
<1> QED
  BY <1>1, ShaperConstants DEF Slots

LEMMA NewBucket ==
  ASSUME NEW r \in Rate
  PROVE  /\ ApplyNewRate(r) \in Bucket
         /\ ApplyNewRate(r).tokens = ApplyNewRate(r).capacity
         /\ ApplyNewRate(r).accrued = 0 /\ ApplyNewRate(r).rate = r
         /\ MinBurst <= ApplyNewRate(r).capacity
<1>1. r \in Nat /\ r * BurstTicks \in Nat
  BY ShaperConstants
<1>2. Burst(r) \in Nat /\ MinBurst <= Burst(r)
  BY <1>1, ShaperConstants DEF Burst, MaxOf
<1> QED
  BY <1>1, <1>2 DEF ApplyNewRate, Bucket

LEMMA ShaperStart == Init => IInv
<1> SUFFICES ASSUME Init PROVE IInv
  OBVIOUS
<1>1. RingType
  BY ShaperConstants DEF Init, RingType, Slots, NoPacket, Packet
<1>2. PICK r \in Rate : bucket = ApplyNewRate(r)
  BY DEF Init
<1>3. BucketType /\ Metered
  BY <1>2, NewBucket, ShaperConstants DEF Init, BucketType, Bucket, Metered, InFlight
<1>4. HistoryType
  BY DEF Init, HistoryType, NoPacket, Packet
<1>5. Queued /\ Sending
  BY ShaperConstants DEF Init, Queued, Sending, SlotAt
<1>6. Departed
  BY DEF Init, Departed, Range
<1> QED
  BY <1>1, <1>3, <1>4, <1>5, <1>6 DEF IInv

\* Steps that leave the ring and the packets alone.
LEMMA RingKeeps ==
  ASSUME IInv, UNCHANGED <<ring, accepted, sent, lost>>
  PROVE  RingType' /\ Queued' /\ Departed'
BY DEF IInv, RingType, Queued, Departed, ring, SlotAt

LEMMA RefilledFacts ==
  ASSUME BucketType, Metered
  PROVE  LET b == IF requested = NoRate THEN bucket ELSE ApplyNewRate(requested)
         IN  /\ Refilled \in Bucket /\ Refilled.accrued = 0
             /\ Refilled.capacity = b.capacity /\ MinBurst <= b.capacity
             /\ Refilled.rate = b.rate /\ b \in Bucket
             /\ Refilled.tokens <= b.tokens + b.accrued
             /\ requested # NoRate => Refilled.tokens <= b.capacity
<1> DEFINE b == IF requested = NoRate THEN bucket ELSE ApplyNewRate(requested)
<1>1. b \in Bucket /\ MinBurst <= b.capacity
  BY NewBucket DEF BucketType, Metered
<1>2. Refilled = [b EXCEPT !.tokens = MinOf(b.capacity, b.tokens + b.accrued), !.accrued = 0]
  BY DEF Refilled
<1> HIDE DEF b
<1>3. b.tokens \in Nat /\ b.capacity \in Nat /\ b.accrued \in Nat /\ b.rate \in Nat
  BY <1>1 DEF Bucket
<1>4. /\ MinOf(b.capacity, b.tokens + b.accrued) \in Nat
      /\ MinOf(b.capacity, b.tokens + b.accrued) <= b.tokens + b.accrued
      /\ MinOf(b.capacity, b.tokens + b.accrued) <= b.capacity
  BY <1>3 DEF MinOf
<1>5. /\ Refilled \in Bucket /\ Refilled.accrued = 0
      /\ Refilled.capacity = b.capacity /\ Refilled.rate = b.rate
      /\ Refilled.tokens = MinOf(b.capacity, b.tokens + b.accrued)
  BY <1>1, <1>2, <1>4, Zenon DEF Bucket
<1> QED
  BY <1>1, <1>4, <1>5 DEF b

\* enqueue_normal puts the packet behind all others.
LEMMA EnqueueStep ==
  ASSUME IInv, NEW size \in Size, EnqueueNormal(size)
  PROVE  IInv'
<1>0. RingType /\ BucketType /\ HistoryType /\ Queued /\ Departed /\ Metered /\ size \in Nat
  BY ShaperConstants DEF IInv
<1>1. /\ count \in 0 .. RingSize - 1 /\ count' = count + 1 /\ accepted' = accepted + 1
      /\ size <= MaxFrame /\ head' = head /\ pc = "idle" /\ pc' = "idle"
      /\ pool' = [pool EXCEPT ![tail] = [id |-> accepted + 1, size |-> size]]
      /\ UNCHANGED <<bucket, requested, pkt, sent, lost, bytes, allowance>>
      /\ tail' = NextSlot(tail)
  BY <1>0, ShaperConstants DEF EnqueueNormal, RingType, meter
<1>2. tail = SlotAt(head, count) /\ tail \in Slots /\ head \in Slots /\ count \in Nat
        /\ accepted \in Nat
  BY <1>0, <1>1, ShaperConstants DEF RingType, Queued, HistoryType
<1>3. tail' = (IF count' = RingSize THEN head ELSE SlotAt(head, count'))
  BY <1>1, <1>2, NextSlotValue, ShaperConstants DEF SlotAt, Slots
<1>4. RingType'
  BY <1>0, <1>1, <1>2, NextSlotValue, ShaperConstants DEF RingType, Packet
<1>5. ASSUME NEW i \in 0 .. count
      PROVE  pool'[SlotAt(head, i)] = IF i = count THEN [id |-> accepted + 1, size |-> size]
                                      ELSE pool[SlotAt(head, i)]
  <2>1. i \in Slots /\ SlotAt(head, i) \in Slots
    BY <1>1, <1>2, ShaperConstants, SlotValue DEF Slots
  <2>2. SlotAt(head, i) = tail <=> i = count
    BY <1>1, <1>2, <2>1, ShaperConstants DEF SlotAt, Slots
  <2> QED
    BY <1>0, <1>1, <1>2, <2>1, <2>2 DEF RingType
<1>6. ASSUME NEW i \in 0 .. count
      PROVE  /\ pool'[SlotAt(head, i)].id = accepted' - count' + i + 1
             /\ pool'[SlotAt(head, i)].size <= MaxFrame
  <2>1. CASE i = count
    BY <1>1, <1>2, <1>5, <2>1
  <2>2. CASE i # count
    <3>1. i \in 0 .. count - 1 /\ accepted' - count' = accepted - count
      BY <1>1, <1>2, <2>2
    <3> QED
      BY <1>0, <1>5, <2>2, <3>1 DEF Queued
  <2> QED
    BY <2>1, <2>2
<1>7. Queued'
  BY <1>0, <1>1, <1>2, <1>3, <1>6 DEF Queued, SlotAt
<1>8. Departed'
  <2>1. accepted' - count' = accepted - count
    BY <1>1, <1>2
  <2> QED
    BY <1>0, <1>1, <2>1 DEF Departed
<1>9. BucketType' /\ HistoryType' /\ Sending' /\ Metered'
  BY <1>0, <1>1, <1>2 DEF BucketType, HistoryType, Sending, Metered, InFlight
<1> QED
  BY <1>4, <1>7, <1>8, <1>9 DEF IInv

\* The front of the ring.
LEMMA FrontFacts ==
  ASSUME IInv, count > 0
  PROVE  /\ pool[head] \in Packet /\ pool[head].size <= MaxFrame
         /\ pool[head].id = accepted - count + 1
<1>1. SlotAt(head, 0) = head /\ 0 \in 0 .. count - 1 /\ head \in Slots
  BY ShaperConstants DEF IInv, RingType, SlotAt, Slots
<1>2. pool[head].id = accepted - count + 0 + 1 /\ pool[head].size <= MaxFrame
  BY <1>1 DEF IInv, Queued
<1> QED
  BY <1>1, <1>2 DEF IInv, RingType, HistoryType

\* The front leaves the ring, sent or lost; the others move up.
LEMMA PopStep ==
  ASSUME IInv, pc = "send", Pop, accepted' = accepted,
         \/ sent' = Append(sent, pkt.id) /\ lost' = lost
         \/ sent' = sent /\ lost' = lost \cup {pkt.id}
  PROVE  RingType' /\ Queued' /\ Departed' /\ sent' \in Seq(Nat) /\ lost' \subseteq Nat
<1>0. /\ RingType /\ HistoryType /\ Queued /\ Departed
      /\ count > 0 /\ pkt = pool[head] /\ pkt.id = accepted - count + 1
      /\ count \in Nat /\ accepted \in Nat /\ count <= accepted
      /\ head \in Slots /\ tail \in Slots /\ sent \in Seq(Nat) /\ lost \subseteq Nat
  BY FrontFacts DEF IInv, Sending, RingType, HistoryType, Queued
<1> DEFINE n == accepted - count
<1>1. /\ head' = NextSlot(head) /\ count' = count - 1 /\ pool' = pool /\ tail' = tail
      /\ accepted' - count' = n + 1 /\ n \in Nat /\ pkt.id = n + 1
  BY <1>0 DEF Pop
<1>2. RingType'
  BY <1>0, <1>1, NextSlotValue, ShaperConstants DEF RingType
<1>h. /\ head' = (IF head + 1 = RingSize THEN 0 ELSE head + 1)
      /\ head \in 0 .. RingSize - 1 /\ count \in 1 .. RingSize /\ count' = count - 1
      /\ RingSize \in Nat \ {0}
  BY <1>0, <1>1, NextSlotValue, ShaperConstants DEF RingType, Slots
<1>3. \A i \in 0 .. count - 2 : SlotAt(head', i) = SlotAt(head, i + 1)
  BY <1>h DEF SlotAt
<1>4. tail' = (IF count' = RingSize THEN head' ELSE SlotAt(head', count'))
  <2>1. tail' = (IF count = RingSize THEN head ELSE SlotAt(head, count))
    BY <1>0, <1>1 DEF Queued
  <2> QED
    BY <1>h, <2>1 DEF SlotAt
<1>5. ASSUME NEW i \in 0 .. count' - 1
      PROVE  /\ pool'[SlotAt(head', i)].id = accepted' - count' + i + 1
             /\ pool'[SlotAt(head', i)].size <= MaxFrame
  <2>1. i + 1 \in 0 .. count - 1 /\ i \in 0 .. count - 2
    BY <1>h
  <2>2. SlotAt(head', i) = SlotAt(head, i + 1)
    BY <1>3, <2>1
  <2>3. accepted - count + (i + 1) + 1 = accepted' - count' + i + 1
    BY <1>0, <1>h, <2>1
  <2> QED
    BY <1>0, <1>1, <2>1, <2>2, <2>3 DEF Queued
<1>6. Queued'
  BY <1>0, <1>1, <1>4, <1>5 DEF Queued, SlotAt
<1>7. Departed' /\ sent' \in Seq(Nat) /\ lost' \subseteq Nat
  <2>1. /\ \A i, j \in 1 .. Len(sent) : i < j => sent[i] < sent[j]
        /\ Range(sent) \cup lost = 1 .. n /\ Range(sent) \cap lost = {}
    BY <1>0 DEF Departed
  <2>2. 1 .. n + 1 = (1 .. n) \cup {n + 1} /\ n + 1 \notin 1 .. n
    BY <1>1
  <2>3. CASE sent' = Append(sent, pkt.id) /\ lost' = lost
    <3>1. /\ sent' \in Seq(Nat) /\ Len(sent') = Len(sent) + 1 /\ Len(sent) \in Nat
          /\ sent'[Len(sent) + 1] = n + 1 /\ DOMAIN sent' = 1 .. Len(sent) + 1
          /\ \A i \in 1 .. Len(sent) : sent'[i] = sent[i] /\ i \in DOMAIN sent
      BY <1>0, <1>1, <2>3
    <3>2. \A i \in 1 .. Len(sent) : sent[i] \in 1 .. n
      BY <2>1, <3>1 DEF Range
    <3>3. ASSUME NEW i \in 1 .. Len(sent'), NEW j \in 1 .. Len(sent'), i < j
          PROVE  sent'[i] < sent'[j]
      <4>1. i \in 1 .. Len(sent) /\ (j = Len(sent) + 1 \/ j \in 1 .. Len(sent))
        BY <3>1, <3>3
      <4>2. CASE j = Len(sent) + 1
        BY <1>1, <3>1, <3>2, <4>1, <4>2
      <4>3. CASE j \in 1 .. Len(sent)
        BY <2>1, <3>1, <3>3, <4>1, <4>3
      <4> QED
        BY <4>1, <4>2, <4>3
    <3>4. DOMAIN sent = 1 .. Len(sent)
      BY <1>0
    <3>5. Range(sent') = Range(sent) \cup {n + 1}
      BY <3>1, <3>4 DEF Range
    <3> QED
      BY <1>0, <1>1, <2>1, <2>2, <2>3, <3>1, <3>3, <3>5 DEF Departed
  <2>4. CASE sent' = sent /\ lost' = lost \cup {pkt.id}
    BY <1>0, <1>1, <2>1, <2>2, <2>4 DEF Departed
  <2> QED
    BY <2>3, <2>4
<1> QED
  BY <1>2, <1>6, <1>7

\* The section of process_queue that refills, pays for the front and copies it.
LEMMA TakeFrontStep == ASSUME IInv, TakeFront PROVE IInv'
<1>0. /\ RingType /\ BucketType /\ HistoryType /\ Metered
      /\ bucket \in Bucket /\ bytes \in Nat /\ allowance \in Nat
  BY DEF IInv, BucketType
<1> DEFINE b == IF requested = NoRate THEN bucket ELSE ApplyNewRate(requested)
           R == Refilled
           front == pool[head]
<1>1. /\ R \in Bucket /\ R.accrued = 0 /\ R.capacity = b.capacity /\ MinBurst <= b.capacity
      /\ b \in Bucket /\ R.tokens <= b.tokens + b.accrued
      /\ requested # NoRate => R.tokens <= b.capacity
      /\ requested = NoRate => b = bucket
  BY <1>0, RefilledFacts
<1>2. /\ pc = "next" /\ count > 0 /\ requested' = NoRate
      /\ requested = NoRate => bytes' = bytes /\ allowance' = allowance
      /\ requested # NoRate => bytes' = 0 /\ allowance' = 0
      /\ \/ R.tokens >= front.size /\ bucket' = Consumed(R, front.size) /\ pkt' = front
           /\ pc' = "send"
         \/ bucket' = R /\ pkt' = pkt /\ pc' = "idle"
      /\ UNCHANGED <<ring, accepted, sent, lost>>
  BY DEF TakeFront, meter
<1>3. front \in Packet /\ front.size \in Nat
  BY <1>2, FrontFacts DEF Packet
<1> HIDE DEF R, front
<1>4. bytes' + R.tokens <= R.capacity + allowance' /\ bytes' \in Nat /\ allowance' \in Nat
  <2>1. CASE requested = NoRate
    <3>1. bytes + InFlight + bucket.tokens + bucket.accrued <= bucket.capacity + allowance
            /\ InFlight = 0
      BY <1>0, <1>2 DEF Metered, InFlight
    <3> QED
      BY <1>0, <1>1, <1>2, <2>1, <3>1 DEF Bucket
  <2>2. CASE requested # NoRate
    BY <1>1, <1>2, <2>2 DEF Bucket
  <2> QED
    BY <2>1, <2>2
<1> HIDE DEF b
<1>5. BucketType' /\ Metered'
  <2>1. CASE R.tokens >= front.size /\ bucket' = Consumed(R, front.size) /\ pkt' = front
          /\ pc' = "send"
    <3>1. R.tokens - front.size \in Nat
      BY <1>1, <1>3, <2>1 DEF Bucket
    <3>2. /\ bucket' \in Bucket /\ bucket'.tokens = R.tokens - front.size
          /\ bucket'.capacity = R.capacity /\ bucket'.accrued = 0
      BY <1>1, <2>1, <3>1 DEF Consumed, Bucket
    <3>3. InFlight' = front.size
      BY <2>1 DEF InFlight
    <3>4. bytes' + front.size + (R.tokens - front.size) + 0 <= R.capacity + allowance'
      BY <1>1, <1>3, <1>4 DEF Bucket
    <3> QED
      BY <1>1, <1>2, <1>4, <3>2, <3>3, <3>4 DEF BucketType, Metered
  <2>2. CASE bucket' = R /\ pkt' = pkt /\ pc' = "idle"
    <3>1. bytes' + 0 + R.tokens + 0 <= R.capacity + allowance'
      BY <1>1, <1>4 DEF Bucket
    <3> QED
      BY <1>1, <1>2, <1>4, <2>2, <3>1 DEF BucketType, Metered, InFlight
  <2> QED
    BY <1>2, <2>1, <2>2
<1>6. HistoryType'
  BY <1>0, <1>2, <1>3 DEF HistoryType
<1>7. Sending'
  BY <1>2 DEF Sending, ring, front
<1> QED
  BY <1>2, <1>5, <1>6, <1>7, RingKeeps DEF IInv

LEMMA ShaperStep == IInv /\ [Next]_vars => IInv'
<1> SUFFICES ASSUME IInv, [Next]_vars PROVE IInv'
  OBVIOUS
<1>0. RingType /\ BucketType /\ HistoryType /\ Queued /\ Departed /\ Sending /\ Metered
  BY DEF IInv
<1>t. /\ bucket \in Bucket /\ bytes \in Nat /\ allowance \in Nat /\ pkt \in Packet
      /\ bucket.tokens \in Nat /\ bucket.capacity \in Nat /\ bucket.rate \in Nat
      /\ bucket.accrued \in Nat /\ pkt.size \in Nat
  BY <1>0 DEF BucketType, HistoryType, Bucket, Packet
<1>r. pc = "send" => /\ Refunded \in Bucket /\ Refunded.capacity = bucket.capacity
                     /\ Refunded.accrued = bucket.accrued
                     /\ Refunded.tokens <= bucket.tokens + pkt.size
  <2> DEFINE m == MinOf(bucket.capacity, bucket.tokens + pkt.size)
  <2>1. m \in Nat /\ m <= bucket.tokens + pkt.size
    BY <1>t DEF MinOf
  <2>2. Refunded = [bucket EXCEPT !.tokens = m]
    BY DEF Refunded
  <2> HIDE DEF m
  <2> QED
    BY <1>t, <2>1, <2>2 DEF Bucket
<1>1. CASE Tick
  <2>1. /\ bucket' = [bucket EXCEPT !.accrued = bucket.accrued + bucket.rate]
        /\ allowance' = allowance + bucket.rate
        /\ UNCHANGED <<ring, requested, pc, pkt, accepted, sent, lost, bytes>>
    BY <1>1 DEF Tick
  <2>2. /\ bucket' \in Bucket /\ bucket'.accrued = bucket.accrued + bucket.rate
        /\ bucket'.tokens = bucket.tokens /\ bucket'.capacity = bucket.capacity
    BY <1>t, <2>1 DEF Bucket
  <2>3. BucketType'
    BY <1>0, <1>t, <2>1, <2>2 DEF BucketType
  <2>4. InFlight' = InFlight /\ InFlight \in Nat
    BY <1>t, <2>1 DEF InFlight
  <2>5. Metered'
    BY <1>0, <1>t, <2>1, <2>2, <2>4 DEF Metered
  <2>6. HistoryType' /\ Sending'
    BY <1>0, <2>1 DEF HistoryType, Sending, ring
  <2> QED
    BY <2>1, <2>3, <2>5, <2>6, RingKeeps DEF IInv
<1>2. ASSUME NEW size \in Size, EnqueueNormal(size) PROVE IInv'
  BY <1>2, EnqueueStep
<1>3. CASE ProcessQueue \/ QueueEmpty
  <2>1. /\ pc \in {"idle", "next"} /\ pc' \in {"idle", "next"}
        /\ UNCHANGED <<ring, bucket, requested, pkt, accepted, sent, lost, bytes, allowance>>
    BY <1>3 DEF ProcessQueue, QueueEmpty, meter
  <2>2. BucketType' /\ HistoryType' /\ Sending' /\ Metered'
    BY <1>0, <2>1 DEF BucketType, HistoryType, Sending, Metered, InFlight
  <2> QED
    BY <2>1, <2>2, RingKeeps DEF IInv
<1>4. CASE TakeFront
  BY <1>4, TakeFrontStep
<1>5. CASE SendSuccess
  <2>1. /\ pc = "send" /\ pc' = "next" /\ bytes' = bytes + pkt.size
        /\ UNCHANGED <<bucket, requested, pkt, accepted, lost, allowance>>
    BY <1>5 DEF SendSuccess
  <2>2. RingType' /\ Queued' /\ Departed' /\ sent' \in Seq(Nat)
    BY <1>5, PopStep DEF SendSuccess
  <2>3. Metered'
    BY <1>0, <1>t, <2>1 DEF Metered, InFlight
  <2>4. BucketType' /\ HistoryType' /\ Sending'
    BY <1>0, <1>t, <2>1, <2>2 DEF BucketType, HistoryType, Sending
  <2> QED
    BY <2>2, <2>3, <2>4 DEF IInv
<1>6. CASE SendCongested
  <2>1. /\ pc = "send" /\ pc' = "idle" /\ bucket' = Refunded
        /\ UNCHANGED <<ring, requested, pkt, accepted, sent, lost, bytes, allowance>>
    BY <1>6 DEF SendCongested, meter
  <2>2. Metered'
    BY <1>0, <1>t, <1>r, <2>1 DEF Metered, InFlight, Bucket
  <2>3. BucketType' /\ HistoryType' /\ Sending'
    BY <1>0, <1>r, <2>1 DEF BucketType, HistoryType, Sending
  <2> QED
    BY <2>1, <2>2, <2>3, RingKeeps DEF IInv
<1>7. CASE SendFatal
  <2>1. /\ pc = "send" /\ pc' = "next" /\ bucket' = Refunded
        /\ UNCHANGED <<requested, pkt, accepted, sent, bytes, allowance>>
    BY <1>7 DEF SendFatal, meter
  <2>2. RingType' /\ Queued' /\ Departed' /\ lost' \subseteq Nat
    BY <1>7, PopStep DEF SendFatal
  <2>3. Metered'
    BY <1>0, <1>t, <1>r, <2>1 DEF Metered, InFlight, Bucket
  <2>4. BucketType' /\ HistoryType' /\ Sending'
    BY <1>0, <1>r, <2>1, <2>2 DEF BucketType, HistoryType, Sending
  <2> QED
    BY <2>2, <2>3, <2>4 DEF IInv
<1>8. ASSUME NEW r \in Rate, SetRateLimit(r) PROVE IInv'
  <2>1. requested' = r
          /\ UNCHANGED <<ring, bucket, pc, pkt, accepted, sent, lost, bytes, allowance>>
    BY <1>8 DEF SetRateLimit, meter
  <2>2. BucketType' /\ HistoryType' /\ Sending' /\ Metered'
    BY <1>0, <2>1 DEF BucketType, HistoryType, Sending, Metered, InFlight, ring
  <2> QED
    BY <2>1, <2>2, RingKeeps DEF IInv
<1>9. CASE UNCHANGED vars
  <2>1. UNCHANGED <<ring, bucket, requested, pc, pkt, accepted, sent, lost, bytes, allowance>>
    BY <1>9 DEF vars, meter
  <2>2. BucketType' /\ HistoryType' /\ Sending' /\ Metered'
    BY <1>0, <2>1 DEF BucketType, HistoryType, Sending, Metered, InFlight, ring
  <2> QED
    BY <2>1, <2>2, RingKeeps DEF IInv
<1> QED
  BY <1>1, <1>2, <1>3, <1>4, <1>5, <1>6, <1>7, <1>8, <1>9 DEF Next, Process

\* Waiting without the modulus: the numbers of the packets accepted last.
LEMMA WaitingFacts ==
  ASSUME IInv
  PROVE  /\ Waiting \in Seq(Nat) /\ Len(Waiting) = count
         /\ \A i \in 1 .. count : Waiting[i] = accepted - count + i
         /\ \A i \in 1 .. count : pool[(head + i - 1) % RingSize].size <= MaxFrame
<1>0. /\ head \in Slots /\ count \in 0 .. RingSize /\ accepted \in Nat /\ count <= accepted
      /\ RingSize \in Nat \ {0} /\ Queued
  BY ShaperConstants DEF IInv, RingType, HistoryType, Queued
<1>1. ASSUME NEW i \in 1 .. count
      PROVE  /\ pool[(head + i - 1) % RingSize].id = accepted - count + i
             /\ pool[(head + i - 1) % RingSize].size <= MaxFrame
  <2>1. i - 1 \in Slots /\ i - 1 \in 0 .. count - 1 /\ head + (i - 1) = head + i - 1
    BY <1>0 DEF Slots
  <2>2. (head + i - 1) % RingSize = SlotAt(head, i - 1)
    BY <1>0, <2>1, SlotValue
  <2>3. accepted - count + (i - 1) + 1 = accepted - count + i
    BY <1>0
  <2> QED
    BY <1>0, <2>1, <2>2, <2>3 DEF Queued
<1>2. \A i \in 1 .. count : Waiting[i] = accepted - count + i /\ Waiting[i] \in Nat
  BY <1>0, <1>1 DEF Waiting
<1>3. Waiting \in [1 .. count -> Nat] /\ count \in Nat
  BY <1>0, <1>2 DEF Waiting
<1>4. Waiting \in Seq(Nat) /\ Len(Waiting) = count
  BY <1>3
<1> QED
  BY <1>1, <1>2, <1>4

LEMMA LineItems ==
  ASSUME NEW p \in Seq(Nat), NEW q \in Seq(Nat)
  PROVE  /\ p \o q \in Seq(Nat) /\ Len(p \o q) = Len(p) + Len(q)
         /\ \A i \in 1 .. Len(p) + Len(q) :
              (p \o q)[i] = IF i <= Len(p) THEN p[i] ELSE q[i - Len(p)]
OBVIOUS

LEMMA LineInOrder == IInv => DeliveredInOrder
<1> SUFFICES ASSUME IInv PROVE DeliveredInOrder
  OBVIOUS
<1> DEFINE line == sent \o Waiting
           n == accepted - count
<1>1. /\ sent \in Seq(Nat) /\ Len(sent) \in Nat /\ n \in Nat /\ count \in Nat /\ accepted \in Nat
      /\ accepted = n + count
  BY DEF IInv, HistoryType, RingType, Queued
<1>2. /\ \A i, j \in 1 .. Len(sent) : i < j => sent[i] < sent[j]
      /\ Range(sent) \cup lost = 1 .. n /\ Range(sent) \cap lost = {}
  BY DEF IInv, Departed
<1>3. /\ Waiting \in Seq(Nat) /\ Len(Waiting) = count
      /\ \A i \in 1 .. count : Waiting[i] = n + i
  BY WaitingFacts
<1> HIDE DEF n
<1>4. /\ line \in Seq(Nat) /\ Len(line) = Len(sent) + count
      /\ \A i \in 1 .. Len(line) :
           line[i] = IF i <= Len(sent) THEN sent[i] ELSE Waiting[i - Len(sent)]
  <2>1. /\ line \in Seq(Nat) /\ Len(line) = Len(sent) + Len(Waiting)
        /\ \A i \in 1 .. Len(sent) + Len(Waiting) :
             line[i] = IF i <= Len(sent) THEN sent[i] ELSE Waiting[i - Len(sent)]
    BY <1>1, <1>3, LineItems, Zenon
  <2> QED
    BY <1>3, <2>1, Zenon
<1> HIDE DEF line
<1>5. \A i \in 1 .. Len(sent) : i \in 1 .. Len(line) /\ line[i] = sent[i] /\ sent[i] \in 1 .. n
  <2>1. \A i \in 1 .. Len(sent) : sent[i] \in Range(sent)
    BY <1>1 DEF Range
  <2> QED
    BY <1>1, <1>2, <1>4, <2>1
<1>6. ASSUME NEW i \in 1 .. count
      PROVE  Len(sent) + i \in 1 .. Len(line) /\ line[Len(sent) + i] = n + i
  <2>1. Len(sent) + i \in 1 .. Len(line) /\ ~(Len(sent) + i <= Len(sent))
          /\ Len(sent) + i - Len(sent) = i
    BY <1>1, <1>4
  <2> QED
    BY <1>3, <1>4, <2>1
<1>7. \A i \in 1 .. Len(line) : i \in 1 .. Len(sent) \/ (i - Len(sent) \in 1 .. count
        /\ line[i] = n + (i - Len(sent)))
  BY <1>1, <1>3, <1>4
<1>8. ASSUME NEW i \in 1 .. Len(line), NEW j \in 1 .. Len(line), i < j PROVE line[i] < line[j]
  <2>0. Len(line) \in Nat
    BY <1>1, <1>4
  <2>1. CASE j \in 1 .. Len(sent)
    <3>1. i \in 1 .. Len(sent)
      BY <1>1, <1>8, <2>0, <2>1
    <3> QED
      BY <1>2, <1>5, <1>8, <2>1, <3>1
  <2>2. CASE j \notin 1 .. Len(sent) /\ i \in 1 .. Len(sent)
    BY <1>1, <1>5, <1>7, <2>0, <2>2
  <2>3. CASE j \notin 1 .. Len(sent) /\ i \notin 1 .. Len(sent)
    BY <1>1, <1>7, <1>8, <2>0, <2>3
  <2> QED
    BY <2>1, <2>2, <2>3
<1>9. Range(line) = Range(sent) \cup (n + 1 .. accepted)
  <2>0. DOMAIN line = 1 .. Len(line) /\ DOMAIN sent = 1 .. Len(sent)
    BY <1>1, <1>4
  <2>1. ASSUME NEW x \in Range(line) PROVE x \in Range(sent) \cup (n + 1 .. accepted)
    <3>1. PICK i \in 1 .. Len(line) : line[i] = x
      BY <2>0, <2>1 DEF Range
    <3>2. CASE i \in 1 .. Len(sent)
      BY <1>5, <2>0, <3>1, <3>2 DEF Range
    <3>3. CASE i \notin 1 .. Len(sent)
      BY <1>1, <1>7, <3>1, <3>3
    <3> QED
      BY <3>2, <3>3
  <2>2. ASSUME NEW x \in Range(sent) PROVE x \in Range(line)
    BY <1>5, <2>0 DEF Range
  <2>3. ASSUME NEW x \in n + 1 .. accepted PROVE x \in Range(line)
    <3>1. x - n \in 1 .. count /\ n + (x - n) = x
      BY <1>1
    <3>2. Len(sent) + (x - n) \in 1 .. Len(line) /\ line[Len(sent) + (x - n)] = x
      BY <1>6, <3>1
    <3> QED
      BY <2>0, <3>2 DEF Range
  <2> QED
    BY <2>1, <2>2, <2>3
<1>10. 1 .. accepted = (1 .. n) \cup (n + 1 .. accepted) /\ (1 .. n) \cap (n + 1 .. accepted) = {}
  BY <1>1
<1>11. Range(line) \cup lost = 1 .. accepted /\ Range(line) \cap lost = {}
  BY <1>2, <1>9, <1>10
<1> QED
  BY <1>8, <1>11 DEF DeliveredInOrder, line

LEMMA MeterFacts == IInv => RateCapped /\ FrontAffordable
<1> SUFFICES ASSUME IInv PROVE RateCapped /\ FrontAffordable
  OBVIOUS
<1>0. /\ bucket \in Bucket /\ bytes \in Nat /\ allowance \in Nat /\ pkt \in Packet
      /\ bytes + InFlight + bucket.tokens + bucket.accrued <= bucket.capacity + allowance
      /\ MinBurst <= bucket.capacity
  BY DEF IInv, BucketType, HistoryType, Metered
<1>1. RateCapped
  BY <1>0 DEF RateCapped, InFlight, Bucket, Packet
<1>2. ASSUME NEW i \in 1 .. count PROVE pool[(head + i - 1) % RingSize].size <= bucket.capacity
  <2> DEFINE k == (head + i - 1) % RingSize
  <2>1. pool[k].size <= MaxFrame
    BY WaitingFacts
  <2>2. pool[k].size \in Nat
    <3>1. head \in Slots /\ i - 1 \in Slots /\ head + (i - 1) = head + i - 1
            /\ pool \in [Slots -> Packet]
      BY ShaperConstants DEF IInv, RingType, Slots
    <3>2. k \in Slots
      BY <3>1, SlotValue
    <3> QED
      BY <3>1, <3>2 DEF Packet
  <2> HIDE DEF k
  <2>3. pool[k].size <= bucket.capacity
    BY <1>0, <2>1, <2>2, ShaperConstants DEF Bucket
  <2> QED
    BY <2>3 DEF k
<1> QED
  BY <1>1, <1>2 DEF FrontAffordable

-----------------------------------------------------------------------------

\* The rate the shaper runs at, or will from its next refill.
Effective == IF requested = NoRate THEN bucket.rate ELSE requested

\* Where the cap is on its way from the GUI to the shaper.
HandoffInv == /\ cap \in Rate /\ base \in Rate /\ qos_global_mbps_pending = cap
              /\ tpc \in {"sleep", "load", "set"}
              /\ gpc = "idle" /\ ~qos_global_bw_dirty =>
                   /\ tpc = "set" => base = cap
                   /\ tpc = "sleep" => Effective = cap

LEMMA HandoffStart == ShapingInit => HandoffInv
<1> SUFFICES ASSUME ShapingInit PROVE HandoffInv
  OBVIOUS
<1>1. PICK r \in Rate : bucket = ApplyNewRate(r)
  BY DEF ShapingInit, Init
<1>2. bucket.rate \in Rate
  BY <1>1, NewBucket
<1> QED
  BY <1>2 DEF ShapingInit, Init, Qos!Start, HandoffInv, Effective

\* The steps of the shaper keep the rate in effect.
LEMMA EffectiveKept == ASSUME IInv, Process \/ UNCHANGED vars PROVE Effective' = Effective
<1>0. /\ bucket \in Bucket /\ BucketType /\ Metered
      /\ requested \in Rate \cup {NoRate} /\ NoRate \notin Rate
  BY ShaperConstants DEF IInv, BucketType
<1>1. CASE Tick
  BY <1>0, <1>1 DEF Tick, Effective, Bucket
<1>2. ASSUME NEW size \in Size, EnqueueNormal(size) PROVE Effective' = Effective
  BY <1>2 DEF EnqueueNormal, Effective
<1>3. CASE ProcessQueue \/ QueueEmpty \/ SendSuccess
  BY <1>3 DEF ProcessQueue, QueueEmpty, SendSuccess, Effective
<1>4. CASE SendCongested \/ SendFatal
  <2>1. Refunded.rate = bucket.rate
    BY <1>0 DEF Refunded, Bucket
  <2> QED
    BY <1>4, <2>1 DEF SendCongested, SendFatal, Effective
<1>5. CASE TakeFront
  <2>1. /\ Refilled \in Bucket
        /\ Refilled.rate = (IF requested = NoRate THEN bucket ELSE ApplyNewRate(requested)).rate
    BY <1>0, RefilledFacts
  <2>2. Refilled.rate = Effective
    BY <1>0, <2>1, NewBucket DEF Effective
  <2>3. Consumed(Refilled, pool[head].size).rate = Refilled.rate
    BY <2>1 DEF Consumed, Bucket
  <2>4. requested' = NoRate /\ (bucket' = Refilled \/ bucket' = Consumed(Refilled, pool[head].size))
    BY <1>5 DEF TakeFront
  <2>5. bucket'.rate = Refilled.rate
    BY <2>3, <2>4
  <2> QED
    BY <2>2, <2>4, <2>5 DEF Effective
<1>6. CASE UNCHANGED vars
  BY <1>6 DEF vars, Effective
<1> QED
  BY <1>1, <1>2, <1>3, <1>4, <1>5, <1>6 DEF Process

LEMMA HandoffStep == IInv /\ HandoffInv /\ [ShapingNext]_<<vars, handoff>> => HandoffInv'
<1> SUFFICES ASSUME IInv, HandoffInv, [ShapingNext]_<<vars, handoff>> PROVE HandoffInv'
  OBVIOUS
<1>1. CASE (Process \/ UNCHANGED vars) /\ UNCHANGED handoff
  BY <1>1, EffectiveKept DEF handoff, HandoffInv
<1>2. CASE Qos!Internal /\ UNCHANGED vars
  <2>1. Effective' = Effective
    BY <1>2, EffectiveKept
  <2> QED
    BY <1>2, <2>1
       DEF Qos!Internal, Qos!StoreCap, Qos!RaiseDirty, Qos!TakeDirty, Qos!LoadCap,
           HandoffInv
<1>3. CASE SetRate
  BY <1>3, ShaperConstants DEF SetRate, Qos!SetRate, SetRateLimit, HandoffInv, Effective
<1> QED
  BY <1>1, <1>2, <1>3 DEF ShapingNext

LEMMA ShaperSteps == HandoffInv /\ [ShapingNext]_<<vars, handoff>> => [Next]_vars
BY DEF ShapingNext, SetRate, HandoffInv, Next

LEMMA ShapingInvariant == ShapingSpec => [](IInv /\ HandoffInv)
<1>1. ShapingInit => IInv /\ HandoffInv
  BY ShaperStart, HandoffStart DEF ShapingInit
<1>2. IInv /\ HandoffInv /\ [ShapingNext]_<<vars, handoff>> => (IInv /\ HandoffInv)'
  BY ShaperStep, ShaperSteps, HandoffStep
<1> QED
  BY <1>1, <1>2, PTL DEF ShapingSpec

\* The shaper under the QoS service is a shaper: the service never asks for a
\* rate outside those the GUI can set, nor touches anything but the request.
THEOREM ServedShaperIsShaper == ShapingSpec => Spec
<1>1. ShapingInit => Init
  BY DEF ShapingInit
<1> QED
  BY <1>1, ShapingInvariant, ShaperSteps, PTL DEF ShapingSpec, Spec

\* process_queue and enqueue_normal: every accepted packet is sent, lost to a
\* fatal error or waiting, exactly once, and packets leave in order.
THEOREM PacketsInOrder == ShapingSpec => []DeliveredInOrder
BY ShapingInvariant, LineInOrder, PTL

\* TokenBucket: what left since the rate was last applied is within one
\* bucket and the time passed, with refunds and uncredited time in between.
THEOREM RateIsCapped == ShapingSpec => []RateCapped
BY ShapingInvariant, MeterFacts, PTL

\* No waiting packet costs more than a full bucket.
THEOREM NoPacketBlocks == ShapingSpec => []FrontAffordable
BY ShapingInvariant, MeterFacts, PTL

\* on_apply_global_bw and tick1Hz: no cap is lost between the GUI's two stores
\* and the service's exchange and load.
THEOREM NoCapLost == ShapingSpec => []CapsApplied
<1>1. IInv /\ HandoffInv => CapsApplied
  BY DEF HandoffInv, CapsApplied, Effective, Qos!Settled
<1> QED
  BY <1>1, ShapingInvariant, PTL
=============================================================================
