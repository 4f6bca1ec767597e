-------------------------- MODULE DashboardProofs --------------------------
(***************************************************************************)
(* What the GUI thread shows, for every set of frames, batch size and table *)
(* size: the shared counters lose no byte, no rate wraps below zero, and a  *)
(* device page at rest is the table.                                        *)
(*                                                                          *)
(* CountersConserve only speaks of a core between two frames.  Ledger adds  *)
(* what each counter still lacks while commit_batch is half done.  For the  *)
(* rates, LaneLoads follows a lane's sum through the two loads, between     *)
(* which the counters may grow.                                             *)
(*                                                                          *)
(* SettledPageIsCurrent only speaks of two threads at rest.  PageReads      *)
(* follows the page through its loads: what it has read is what is in the   *)
(* table unless the scan under way has changed an entry, and then the scan  *)
(* ends with a revision the page has not seen.                              *)
(***************************************************************************)
EXTENDS Dashboard, Sequences, TLAPS

Bytes(c) == metrics[c].bytes
Lane(c, p) == metrics[c].prio_bytes[p]

CorePC == {"idle", "steps", "batch", "high", "normal", "reset"}
GuiPC == {"idle", "up", "high2", "high3", "normal2", "normal3", "rates", "last"}
LaneBytes == [Prio -> Nat]
Counters == [bytes : Nat, prio_bytes : LaneBytes]
BatchStats == [pkts : Nat, bytes : Nat, prio_bytes : LaneBytes]
TypeOK == /\ pc \in [Core -> CorePC] /\ pkt \in [Core -> [kind : Kind, size : Nat]]
          /\ stats \in [Core -> BatchStats]
          /\ routed \in [Core -> LaneBytes]
          /\ metrics \in [Core -> Counters]
          /\ gpc \in GuiPC /\ cur \in [Core -> Nat] /\ last_bytes \in [Core -> Nat]
          /\ sum \in LaneBytes /\ last_sum \in LaneBytes

\* What the batch still owes the shared counters.
OwedBytes(c) == IF pc[c] \in {"high", "normal", "reset"} THEN 0 ELSE stats[c].bytes
OwedHigh(c) == IF pc[c] \in {"normal", "reset"} THEN 0 ELSE stats[c].prio_bytes[High]
OwedNormal(c) == IF pc[c] = "reset" THEN 0 ELSE stats[c].prio_bytes[Normal]

Ledger(c) == /\ Bytes(c) + OwedBytes(c) = routed[c][High] + routed[c][Normal]
             /\ Lane(c, High) + OwedHigh(c) = routed[c][High]
             /\ Lane(c, Normal) + OwedNormal(c) = routed[c][Normal]

\* The direction's counter is loaded and the snapshot not yet taken.
Loaded(c) == gpc \in {"high2", "high3", "normal2", "normal3", "rates"} \/ (c = 2 /\ gpc = "up")

ByteLoads(c) == /\ last_bytes[c] <= Bytes(c)
                /\ Loaded(c) => last_bytes[c] <= cur[c]

\* The lane's first counter is loaded, and both are.
Half(p) == gpc = IF p = High THEN "high3" ELSE "normal3"
Full(p) == gpc = "rates" \/ (p = High /\ gpc \in {"normal2", "normal3"})

LaneLoads(p) ==
  /\ last_sum[p] <= Lane(2, p) + Lane(3, p)
  /\ Half(p) => sum[p] <= Lane(2, p) /\ last_sum[p] <= sum[p] + Lane(3, p)
  /\ Full(p) => last_sum[p] <= sum[p] /\ sum[p] <= Lane(2, p) + Lane(3, p)
  /\ ~Half(p) /\ ~Full(p) => sum[p] = 0

Books == \A c \in Core : Ledger(c) /\ ByteLoads(c)
IInv == TypeOK /\ Books /\ \A p \in Prio : LaneLoads(p)

LEMMA InitIInv == Init => IInv
<1> SUFFICES ASSUME Init PROVE IInv
  OBVIOUS
<1> USE DEF Init, NoStats, NoFrame, Prio, High, Normal, Core
<1>1. TypeOK
  BY DEF TypeOK, CorePC, GuiPC, LaneBytes, Counters, BatchStats, Kind
<1>2. Books
  BY DEF Books, Ledger, OwedBytes, OwedHigh, OwedNormal, ByteLoads, Loaded, Bytes, Lane
<1>3. ASSUME NEW p \in Prio PROVE LaneLoads(p)
  BY <1>3 DEF LaneLoads, Half, Full, Lane
<1> QED
  BY <1>1, <1>2, <1>3 DEF IInv

\* Adding to one lane, and to one counter of a core.
LEMMA AddToLane ==
  ASSUME NEW f \in LaneBytes, NEW p \in Prio, NEW n \in Nat
  PROVE  [f EXCEPT ![p] = @ + n] \in LaneBytes
BY DEF LaneBytes

LEMMA AddToCounters ==
  ASSUME NEW m \in Counters, NEW p \in Prio, NEW n \in Nat
  PROVE  /\ [m EXCEPT !.bytes = @ + n] \in Counters
         /\ [m EXCEPT !.prio_bytes[p] = @ + n] \in Counters
<1>1. m.bytes + n \in Nat /\ m.prio_bytes \in LaneBytes
  BY DEF Counters
<1>2. [m.prio_bytes EXCEPT ![p] = @ + n] \in LaneBytes
  BY <1>1, AddToLane
<1>3. /\ [m EXCEPT !.bytes = @ + n] = [m EXCEPT !.bytes = m.bytes + n]
      /\ [m EXCEPT !.prio_bytes[p] = @ + n] =
           [m EXCEPT !.prio_bytes = [m.prio_bytes EXCEPT ![p] = @ + n]]
  BY DEF Counters
<1> QED
  BY <1>1, <1>2, <1>3 DEF Counters

LEMMA AddToStats ==
  ASSUME NEW s \in BatchStats, NEW p \in Prio, NEW n \in Nat
  PROVE  [s EXCEPT !.pkts = @ + 1, !.bytes = @ + n, !.prio_bytes[p] = @ + n] \in BatchStats
<1>1. s.pkts + 1 \in Nat /\ s.bytes + n \in Nat /\ s.prio_bytes \in LaneBytes
  BY DEF BatchStats
<1>2. [s.prio_bytes EXCEPT ![p] = @ + n] \in LaneBytes
  BY <1>1, AddToLane
<1>3. [s EXCEPT !.pkts = @ + 1, !.bytes = @ + n, !.prio_bytes[p] = @ + n]
        = [s EXCEPT !.pkts = s.pkts + 1, !.bytes = s.bytes + n,
                    !.prio_bytes = [s.prio_bytes EXCEPT ![p] = @ + n]]
  BY DEF BatchStats
<1> QED
  BY <1>1, <1>2, <1>3, Zenon DEF BatchStats

LEMMA Classified == ASSUME NEW f \in [kind : Kind, size : Nat] PROVE process(f) \in Prio
BY PipelineConstants DEF process, BySize, Prio, Kind

(***************************************************************************)
(* The type, one step per action.                                          *)
(***************************************************************************)
LEMMA ConsumerType ==
  ASSUME TypeOK, NEW c \in Core, Consumer(c)
  PROVE  TypeOK'
<1> USE DEF TypeOK, CorePC, gui
<1>1. ASSUME NEW f \in Frame, Receive(c, f) PROVE TypeOK'
  <2>1. f \in [kind : Kind, size : Nat]
    BY PipelineConstants
  <2> QED
    BY <1>1, <2>1 DEF Receive
<1>2. CASE Handled(c)
  BY <1>2 DEF Handled
<1>3. CASE Route(c)
  <2> DEFINE f == pkt[c]
             p == process(f)
  <2>1. f \in [kind : Kind, size : Nat] /\ p \in Prio
    BY Classified
  <2>2. routed' \in [Core -> LaneBytes]
    BY <1>3, <2>1 DEF Route, LaneBytes
  <2>3. [stats[c] EXCEPT !.pkts = @ + 1, !.bytes = @ + f.size, !.prio_bytes[p] = @ + f.size]
          \in BatchStats
    <3>1. stats[c] \in BatchStats /\ f.size \in Nat
      BY <2>1
    <3> QED
      BY <2>1, <3>1, AddToStats, Zenon
  <2>4. stats' = [stats EXCEPT ![c] = [stats[c] EXCEPT !.pkts = @ + 1, !.bytes = @ + f.size,
          !.prio_bytes[p] = @ + f.size]]
    BY <1>3, Zenon DEF Route
  <2>5. stats' \in [Core -> BatchStats]
    BY <2>3, <2>4
  <2> QED
    BY <1>3, <2>2, <2>5 DEF Route
<1>4. CASE NoBatch(c)
  BY <1>4 DEF NoBatch, Return, NoFrame, Kind
<1>5. CASE CommitBytes(c)
  <2>1. metrics' \in [Core -> Counters]
    <3>1. metrics[c] \in Counters /\ stats[c].bytes \in Nat
      BY DEF BatchStats
    <3>2. [metrics[c] EXCEPT !.bytes = @ + stats[c].bytes] \in Counters
      BY <3>1, AddToCounters, Zenon DEF Prio
    <3>3. metrics' = [metrics EXCEPT ![c] = [metrics[c] EXCEPT !.bytes = @ + stats[c].bytes]]
      BY <1>5 DEF CommitBytes
    <3> QED
      BY <3>2, <3>3
  <2> QED
    BY <1>5, <2>1 DEF CommitBytes
<1>6. ASSUME NEW p \in Prio, CommitPrio(c, p) PROVE TypeOK'
  <2>1. metrics' \in [Core -> Counters]
    <3>1. metrics[c] \in Counters /\ stats[c].prio_bytes[p] \in Nat
      BY DEF LaneBytes, BatchStats
    <3>2. [metrics[c] EXCEPT !.prio_bytes[p] = @ + stats[c].prio_bytes[p]] \in Counters
      BY <3>1, AddToCounters, Zenon
    <3>3. metrics' = [metrics EXCEPT ![c] =
                        [metrics[c] EXCEPT !.prio_bytes[p] = @ + stats[c].prio_bytes[p]]]
      BY <1>6 DEF CommitPrio
    <3> QED
      BY <3>2, <3>3
  <2> QED
    BY <1>6, <2>1 DEF CommitPrio
<1>7. CASE Reset(c)
  <2>1. stats' \in [Core -> BatchStats]
    BY <1>7 DEF Reset, NoStats, LaneBytes, BatchStats
  <2> QED
    BY <1>7, <2>1 DEF Reset, Return, NoFrame, Kind
<1> QED
  BY <1>1, <1>2, <1>3, <1>4, <1>5, <1>6, <1>7 DEF Consumer

LEMMA GuiType ==
  ASSUME TypeOK, Loads \/ Rates \/ Snapshot
  PROVE  TypeOK'
<1> USE DEF TypeOK, GuiPC, LaneBytes, Core, data
<1>1. CASE LoadDown \/ LoadUp
  <2>1. metrics[2].bytes \in Nat /\ metrics[3].bytes \in Nat
    BY DEF Counters
  <2> QED
    BY <1>1, <2>1 DEF LoadDown, LoadUp
<1>2. ASSUME NEW from \in GuiPC, NEW d \in Core, NEW p \in Prio, NEW to \in GuiPC,
        AddLane(from, d, p, to)
      PROVE  TypeOK'
  <2>1. metrics[d].prio_bytes[p] \in Nat
    BY DEF Counters
  <2>2. sum' \in LaneBytes
    BY <1>2, <2>1, AddToLane DEF AddLane
  <2> QED
    BY <1>2, <2>2 DEF AddLane
<1>3. CASE Rates
  BY <1>3 DEF Rates
<1>4. CASE Snapshot
  <2>1. \A d \in Core : metrics[d].bytes \in Nat
    BY DEF Counters
  <2> QED
    BY <1>4, <2>1 DEF Snapshot
<1> QED
  BY <1>1, <1>2, <1>3, <1>4 DEF Loads, LoadLanes, Prio

(***************************************************************************)
(* The counters.                                                           *)
(***************************************************************************)
\* A step of one core leaves the books of the other alone.
LEMMA OtherCore ==
  ASSUME TypeOK, NEW c \in Core, Consumer(c), NEW d \in Core, d # c
  PROVE  UNCHANGED <<pc[d], stats[d], routed[d], metrics[d]>>
BY DEF TypeOK, Consumer, Receive, Handled, Route, NoBatch, Return, CommitBytes, CommitPrio,
       Reset

\* The books of a core are numbers.
LEMMA BooksType ==
  ASSUME TypeOK, NEW c \in Core
  PROVE  /\ Bytes(c) \in Nat /\ stats[c].bytes \in Nat
         /\ \A p \in Prio : Lane(c, p) \in Nat /\ stats[c].prio_bytes[p] \in Nat
              /\ routed[c][p] \in Nat
BY DEF TypeOK, Counters, BatchStats, LaneBytes, Bytes, Lane

\* What a core's own step does to them.
LEMMA OwnBooks ==
  ASSUME TypeOK, NEW c \in Core, Consumer(c), Ledger(c)
  PROVE  /\ Ledger(c)'
         /\ Bytes(c)' >= Bytes(c)
         /\ \A p \in Prio : Lane(c, p)' >= Lane(c, p)
<1>0. /\ Bytes(c) \in Nat /\ stats[c].bytes \in Nat
      /\ \A p \in Prio : Lane(c, p) \in Nat /\ stats[c].prio_bytes[p] \in Nat
           /\ routed[c][p] \in Nat
      /\ High \in Prio /\ Normal \in Prio /\ High # Normal /\ Prio = {High, Normal}
  BY BooksType DEF Prio, High, Normal
<1> USE DEF Ledger, OwedBytes, OwedHigh, OwedNormal
<1>1. ASSUME pc[c] \in {"idle", "steps", "batch"}, pc'[c] \in {"idle", "steps", "batch"},
             UNCHANGED <<stats[c], routed[c], metrics[c]>>
      PROVE  Ledger(c)' /\ Bytes(c)' >= Bytes(c) /\ \A p \in Prio : Lane(c, p)' >= Lane(c, p)
  BY <1>0, <1>1 DEF Bytes, Lane
<1>2. CASE (\E f \in Frame : Receive(c, f)) \/ Handled(c) \/ NoBatch(c)
  BY <1>1, <1>2 DEF TypeOK, Receive, Handled, NoBatch, Return
<1>3. CASE Route(c)
  <2> DEFINE f == pkt[c]
             q == process(f)
  <2>1. f.size \in Nat /\ q \in Prio
    BY Classified DEF TypeOK
  <2>2. /\ stats'[c].bytes = stats[c].bytes + f.size
        /\ \A p \in Prio :
             stats'[c].prio_bytes[p] = stats[c].prio_bytes[p] + IF p = q THEN f.size ELSE 0
    BY <1>0, <1>3, <2>1 DEF Route, TypeOK, BatchStats, LaneBytes
  <2>3. \A p \in Prio : routed'[c][p] = routed[c][p] + IF p = q THEN f.size ELSE 0
    BY <1>0, <1>3, <2>1 DEF Route, TypeOK, LaneBytes
  <2>4. pc[c] = "steps" /\ pc'[c] = "batch"
          /\ UNCHANGED <<Bytes(c), Lane(c, High), Lane(c, Normal)>>
    BY <1>3 DEF Route, TypeOK, Bytes, Lane
  <2> HIDE DEF f, q
  <2> QED
    BY <1>0, <2>1, <2>2, <2>3, <2>4
<1>4. CASE CommitBytes(c)
  <2>1. Bytes(c)' = Bytes(c) + stats[c].bytes /\ \A p \in Prio : Lane(c, p)' = Lane(c, p)
    BY <1>4 DEF CommitBytes, TypeOK, Counters, Bytes, Lane
  <2>2. pc[c] = "batch" /\ pc'[c] = "high" /\ UNCHANGED <<stats, routed>>
    BY <1>4 DEF CommitBytes, TypeOK
  <2> QED
    BY <1>0, <2>1, <2>2
<1>5. ASSUME NEW q \in Prio, CommitPrio(c, q)
      PROVE  Ledger(c)' /\ Bytes(c)' >= Bytes(c) /\ \A p \in Prio : Lane(c, p)' >= Lane(c, p)
  <2>1. /\ Bytes(c)' = Bytes(c)
        /\ \A p \in Prio : Lane(c, p)' = Lane(c, p) + IF p = q THEN stats[c].prio_bytes[p] ELSE 0
    BY <1>0, <1>5 DEF CommitPrio, TypeOK, Counters, LaneBytes, Bytes, Lane
  <2>2. /\ pc[c] = (IF q = High THEN "high" ELSE "normal")
        /\ pc'[c] = (IF q = High THEN "normal" ELSE "reset")
        /\ UNCHANGED <<stats, routed>>
    BY <1>5 DEF CommitPrio, TypeOK
  <2> QED
    BY <1>0, <2>1, <2>2
<1>6. CASE Reset(c)
  <2>1. /\ pc[c] = "reset" /\ pc'[c] = "idle" /\ UNCHANGED <<routed, metrics>>
        /\ stats'[c].bytes = 0 /\ \A p \in Prio : stats'[c].prio_bytes[p] = 0
    BY <1>6 DEF Reset, Return, TypeOK, NoStats
  <2> QED
    BY <1>0, <2>1 DEF Bytes, Lane
<1> QED
  BY <1>2, <1>3, <1>4, <1>5, <1>6 DEF Consumer

\* While the GUI thread stands still the counters may only grow, which
\* disturbs none of its comparisons.
LEMMA ConsumerStep ==
  ASSUME IInv, NEW c \in Core, Consumer(c)
  PROVE  IInv'
<1>1. TypeOK /\ TypeOK'
  BY ConsumerType DEF IInv
<1>2. UNCHANGED gui
  BY DEF Consumer, Receive, Handled, Route, NoBatch, CommitBytes, CommitPrio, Reset
<1>3. ASSUME NEW d \in Core
      PROVE  Ledger(d)' /\ Bytes(d)' >= Bytes(d) /\ \A p \in Prio : Lane(d, p)' >= Lane(d, p)
  <2>1. CASE d = c
    BY <1>1, <2>1, OwnBooks DEF IInv, Books
  <2>2. CASE d # c
    <3>1. UNCHANGED <<pc[d], stats[d], routed[d], metrics[d]>>
      BY <1>1, <2>2, OtherCore
    <3> QED
      BY <1>1, <3>1, BooksType
         DEF IInv, Books, Ledger, OwedBytes, OwedHigh, OwedNormal, Bytes, Lane
  <2> QED
    BY <2>1, <2>2
<1>4. ASSUME NEW d \in Core PROVE ByteLoads(d)'
  <2>1. Bytes(d) \in Nat /\ Bytes(d)' \in Nat /\ last_bytes[d] \in Nat /\ cur[d] \in Nat
    BY <1>1, BooksType DEF TypeOK, Counters, Bytes
  <2> QED
    BY <1>2, <1>3, <2>1 DEF gui, IInv, Books, ByteLoads, Loaded
<1>5. ASSUME NEW p \in Prio PROVE LaneLoads(p)'
  <2>1. /\ \A d \in {2, 3} : Lane(d, p) \in Nat /\ Lane(d, p)' \in Nat /\ Lane(d, p)' >= Lane(d, p)
        /\ sum[p] \in Nat /\ last_sum[p] \in Nat
    BY <1>1, <1>3, BooksType DEF TypeOK, Counters, LaneBytes, Lane, Core
  <2> QED
    BY <1>2, <2>1 DEF gui, IInv, LaneLoads, Half, Full
<1> QED
  BY <1>1, <1>3, <1>4, <1>5 DEF IInv, Books

LEMMA GuiStep ==
  ASSUME IInv, Loads \/ Rates \/ Snapshot
  PROVE  IInv'
<1>1. TypeOK /\ TypeOK'
  BY GuiType DEF IInv
<1>2. UNCHANGED data
  BY DEF Loads, LoadDown, LoadUp, LoadLanes, AddLane, Rates, Snapshot
<1>3. ASSUME NEW c \in Core
        PROVE Ledger(c)' /\ UNCHANGED Bytes(c) /\ \A p \in Prio : UNCHANGED Lane(c, p)
  BY <1>2 DEF data, IInv, Books, Ledger, OwedBytes, OwedHigh, OwedNormal, Bytes, Lane
<1>4. ASSUME NEW c \in Core PROVE ByteLoads(c)'
  <2>1. Bytes(c) \in Nat /\ last_bytes[c] \in Nat /\ cur[c] \in Nat /\ ByteLoads(c)
          /\ UNCHANGED Bytes(c)
    BY <1>1, <1>3, BooksType DEF TypeOK, IInv, Books
  <2> USE DEF TypeOK, ByteLoads, Loaded, Core
  <2>2. CASE LoadDown \/ LoadUp
    BY <1>1, <2>1, <2>2 DEF LoadDown, LoadUp, Bytes
  <2>3. CASE LoadLanes \/ Rates
    BY <1>1, <2>1, <2>3 DEF LoadLanes, AddLane, Rates
  <2>4. CASE Snapshot
    BY <1>1, <2>1, <2>4 DEF Snapshot, Bytes
  <2> QED
    BY <2>2, <2>3, <2>4 DEF Loads
<1>5. ASSUME NEW p \in Prio PROVE LaneLoads(p)'
  <2>1. /\ \A d \in {2, 3} : Lane(d, p) \in Nat /\ UNCHANGED Lane(d, p)
        /\ sum \in LaneBytes /\ sum[p] \in Nat /\ last_sum[p] \in Nat /\ LaneLoads(p)
    BY <1>1, <1>3, BooksType DEF TypeOK, LaneBytes, Core, IInv
  <2> USE DEF LaneLoads, Half, Full, Prio, High, Normal
  <2>2. CASE LoadDown \/ LoadUp \/ Snapshot
    BY <2>1, <2>2 DEF LoadDown, LoadUp, Snapshot
  <2>3. ASSUME NEW from \in GuiPC, NEW d \in Core, NEW q \in Prio, NEW to \in GuiPC,
          AddLane(from, d, q, to)
        PROVE  gpc = from /\ gpc' = to /\ UNCHANGED last_sum
            /\ sum'[p] = sum[p] + IF p = q THEN Lane(d, p) ELSE 0
    BY <2>1, <2>3 DEF AddLane, LaneBytes, Lane
  <2>4. CASE AddLane("high2", 2, High, "high3")
    BY <2>1, <2>3, <2>4 DEF GuiPC, Core
  <2>5. CASE AddLane("high3", 3, High, "normal2")
    BY <2>1, <2>3, <2>5 DEF GuiPC, Core
  <2>6. CASE AddLane("normal2", 2, Normal, "normal3")
    BY <2>1, <2>3, <2>6 DEF GuiPC, Core
  <2>7. CASE AddLane("normal3", 3, Normal, "rates")
    BY <2>1, <2>3, <2>7 DEF GuiPC, Core
  <2>8. CASE Rates
    BY <2>1, <2>8 DEF Rates
  <2> QED
    BY <2>2, <2>4, <2>5, <2>6, <2>7, <2>8 DEF Loads, LoadLanes
<1> QED
  BY <1>1, <1>3, <1>4, <1>5 DEF IInv, Books

LEMMA StepIInv == IInv /\ [Next]_vars => IInv'
<1> SUFFICES ASSUME IInv, [Next]_vars PROVE IInv'
  OBVIOUS
<1>1. CASE SwitchMode \/ UNCHANGED vars
  BY <1>1
     DEF SwitchMode, vars, data, gui, IInv, TypeOK, Books, Ledger, OwedBytes, OwedHigh,
         OwedNormal, ByteLoads, Loaded, LaneLoads, Half, Full, Bytes, Lane
<1> QED
  BY <1>1, ConsumerStep, GuiStep DEF Next

LEMMA Conservation == IInv => CountersConserve
BY DEF IInv, Books, Ledger, OwedBytes, OwedHigh, OwedNormal, Bytes, Lane, CountersConserve,
       Prio

LEMMA Rated == IInv => RatesNeverWrap
<1> SUFFICES ASSUME IInv, gpc = "rates"
             PROVE  /\ \A c \in Core : cur[c] >= last_bytes[c]
                    /\ \A p \in Prio : sum[p] >= last_sum[p]
  BY DEF RatesNeverWrap
<1>1. /\ \A c \in Core : cur[c] \in Nat /\ last_bytes[c] \in Nat
      /\ \A p \in Prio : sum[p] \in Nat /\ last_sum[p] \in Nat
  BY DEF IInv, TypeOK, LaneBytes
<1> QED
  BY <1>1 DEF IInv, Books, ByteLoads, Loaded, LaneLoads, Full

(***************************************************************************)
(* Theorems                                                                *)
(***************************************************************************)
\* IInv holds in every state the two cores and the GUI thread can reach.
THEOREM Invariance == Spec => []IInv
BY InitIInv, StepIInv, PTL DEF Spec

\* commit_batch and the reset after it neither lose nor repeat a byte of any
\* lane, whatever the batch size and wherever the batches end.
THEOREM NoByteLost == Spec => []CountersConserve
BY Invariance, Conservation, PTL

\* The unsigned subtractions of timerEvent never wrap, however the cores'
\* commits fall between its loads.
THEOREM NoRateWraps == Spec => []RatesNeverWrap
BY Invariance, Rated, PTL

-----------------------------------------------------------------------------

Entry == [ip : Ip \cup {None}, mac : Mac \cup {None, Torn}]

TableType == /\ device_table \in [1 .. MaxDevices -> Entry]
             /\ device_count \in 0 .. MaxDevices /\ device_table_revision \in Nat
             /\ wpc \in {"sleep", "ip", "mac", "copy", "revision"}
             /\ rows \in Seq(D!Device) /\ dcnt \in 0 .. MaxDevices /\ changed \in BOOLEAN
             /\ wpc = "sleep" => ~changed
             /\ wpc \in {"mac", "copy"} => dcnt < Len(rows) /\ dcnt < MaxDevices

PageType == /\ ppc \in {"idle", "count", "revision", "card", "label"}
            /\ cnt \in 0 .. MaxDevices /\ i \in 0 .. MaxDevices
            /\ cards \in Seq(Entry)
            /\ last_device_count \in 0 .. D!NoCount /\ last_device_table_revision \in Nat
            /\ last_device_table_revision <= device_table_revision
            /\ ppc = "card" => last_device_count = cnt /\ i <= cnt /\ Len(cards) = i
            /\ ppc = "label" => last_device_count = cnt /\ i < cnt /\ Len(cards) = i + 1
            /\ ppc \notin {"card", "label"} /\ last_device_count # D!NoCount =>
                 Len(cards) = last_device_count

\* Since the page loaded the revision no scan has changed an entry, nor has
\* the one under way so far.
Quiet == ~changed /\ wpc # "copy" /\ last_device_table_revision = device_table_revision

\* As long as that is so, what the page has read is what is in the table.
PageReads ==
  Quiet => /\ ppc # "label" => \A k \in 1 .. Len(cards) : cards[k] = device_table[k]
           /\ ppc = "label" => /\ \A k \in 1 .. i : cards[k] = device_table[k]
                               /\ cards[i + 1].ip = device_table[i + 1].ip

PageInv == TableType /\ PageType /\ PageReads

LEMMA PageStart == D!Init => PageInv
<1> SUFFICES ASSUME D!Init PROVE PageInv
  OBVIOUS
<1> USE DEF D!Init
<1>1. TableType
  <2>1. device_table \in [1 .. MaxDevices -> Entry] /\ rows \in Seq(D!Device)
    BY DEF Entry
  <2>2. changed \in BOOLEAN /\ ~changed
    BY Zenon
  <2> QED
    BY <2>1, <2>2, DashboardConstants DEF TableType
<1>2. PageType /\ PageReads
  BY DashboardConstants DEF PageType, PageReads, D!NoCount
<1> QED
  BY <1>1, <1>2 DEF PageInv

\* A step of the telemetry thread that leaves the page alone.
LEMMA ScannerKeeps ==
  ASSUME PageInv, TableType', UNCHANGED D!page,
         device_table_revision <= device_table_revision',
         Quiet' => Quiet /\ device_table' = device_table
  PROVE  PageInv'
<1>1. PageType'
  BY DEF PageInv, PageType, TableType, D!page
<1>2. PageReads'
  BY DEF PageInv, PageReads, D!page
<1> QED
  BY <1>1, <1>2 DEF PageInv

LEMMA ScannerStep == ASSUME PageInv, D!Scanner PROVE PageInv'
<1>0. /\ TableType /\ PageType
      /\ device_table \in [1 .. MaxDevices -> Entry] /\ rows \in Seq(D!Device)
      /\ dcnt \in 0 .. MaxDevices /\ device_table_revision \in Nat /\ MaxDevices \in Nat
      /\ last_device_table_revision \in Nat /\ last_device_table_revision <= device_table_revision
  BY DashboardConstants DEF PageInv, TableType, PageType
<1>r. ASSUME dcnt < Len(rows), dcnt < MaxDevices
      PROVE  /\ dcnt + 1 \in 1 .. MaxDevices /\ device_table[dcnt + 1] \in Entry
             /\ rows[dcnt + 1].ip \in Ip /\ rows[dcnt + 1].mac \in Mac
  <2>1. rows[dcnt + 1] \in D!Device /\ dcnt + 1 \in 1 .. MaxDevices
    BY <1>0, <1>r
  <2> QED
    BY <1>0, <2>1 DEF D!Device
<1> USE DEF D!shared
<1>1. ASSUME NEW r \in D!Rows, D!Scan(r) PROVE PageInv'
  <2>1. r \in Seq(D!Device)
    BY <1>0 DEF D!Rows
  <2>2. changed' \in BOOLEAN /\ ~changed'
    BY <1>1, Zenon DEF D!Scan
  <2>3. TableType'
    BY <1>0, <1>1, <2>1, <2>2 DEF TableType, D!Scan
  <2> QED
    BY <1>0, <1>1, <2>3, ScannerKeeps DEF D!Scan, Quiet, D!page, TableType
<1>2. CASE D!WriteIp
  <2> DEFINE ip == rows[dcnt + 1].ip
  <2>1. /\ device_table' = [device_table EXCEPT ![dcnt + 1].ip = ip]
        /\ changed' = (changed \/ device_table[dcnt + 1].ip # ip)
        /\ wpc = "ip" /\ wpc' = "mac" /\ dcnt < Len(rows) /\ dcnt < MaxDevices
        /\ UNCHANGED <<device_count, device_table_revision, rows, dcnt, scans, D!page>>
    BY <1>2 DEF D!WriteIp, D!More
  <2>2. device_table' \in [1 .. MaxDevices -> Entry]
    BY <1>0, <1>r, <2>1, Zenon DEF Entry
  <2>3. changed' \in BOOLEAN
    BY <2>1
  <2>4. TableType'
    BY <1>0, <2>1, <2>2, <2>3 DEF TableType
  <2>5. device_table[dcnt + 1].ip = ip => device_table' = device_table
    BY <1>0, <1>r, <2>1 DEF Entry
  <2>6. Quiet' => Quiet /\ device_table' = device_table
    BY <2>1, <2>5, Zenon DEF Quiet, D!page
  <2> QED
    BY <1>0, <2>1, <2>4, <2>6, ScannerKeeps
<1>3. CASE D!TearMac
  <2>1. /\ device_table' = [device_table EXCEPT ![dcnt + 1].mac = Torn]
        /\ wpc = "mac" /\ wpc' = "copy" /\ dcnt < Len(rows) /\ dcnt < MaxDevices
        /\ UNCHANGED <<device_count, device_table_revision, rows, dcnt, changed, scans, D!page>>
    BY <1>0, <1>3 DEF D!TearMac, TableType
  <2>2. device_table' \in [1 .. MaxDevices -> Entry]
    BY <1>0, <1>r, <2>1, Zenon DEF Entry
  <2>3. TableType' /\ ~Quiet'
    BY <1>0, <2>1, <2>2 DEF TableType, Quiet
  <2> QED
    BY <1>0, <2>1, <2>3, ScannerKeeps
<1>4. CASE D!WriteMac
  <2>1. /\ device_table' = [device_table EXCEPT ![dcnt + 1].mac = rows[dcnt + 1].mac]
        /\ wpc = "copy" /\ wpc' = "ip" /\ dcnt < Len(rows) /\ dcnt < MaxDevices
        /\ changed' = TRUE /\ dcnt' = dcnt + 1
        /\ UNCHANGED <<device_count, device_table_revision, rows, scans, D!page>>
    BY <1>0, <1>4 DEF D!WriteMac, TableType
  <2>2. device_table' \in [1 .. MaxDevices -> Entry]
    BY <1>0, <1>r, <2>1 DEF Entry
  <2>3. dcnt' \in 0 .. MaxDevices
    BY <1>0, <2>1
  <2>4. changed' \in BOOLEAN /\ changed'
    BY <2>1, Zenon
  <2>5. TableType' /\ ~Quiet'
    BY <1>0, <2>1, <2>2, <2>3, <2>4 DEF TableType, Quiet
  <2> QED
    BY <1>0, <2>1, <2>5, ScannerKeeps
<1>5. CASE D!KeepMac
  <2>1. /\ wpc = "mac" /\ wpc' = "ip" /\ dcnt' = dcnt + 1 /\ dcnt < MaxDevices
        /\ UNCHANGED <<device_table, device_count, device_table_revision, rows, changed, scans,
             D!page>>
    BY <1>0, <1>5 DEF D!KeepMac, TableType
  <2>2. dcnt' \in 0 .. MaxDevices
    BY <1>0, <2>1
  <2>3. TableType' /\ (Quiet' => Quiet)
    BY <1>0, <2>1, <2>2 DEF TableType, Quiet, D!page
  <2> QED
    BY <1>0, <2>1, <2>3, ScannerKeeps
<1>6. CASE D!StoreCount
  <2>1. /\ wpc = "ip" /\ wpc' = "revision" /\ device_count' = dcnt
        /\ changed' = (changed \/ device_count # dcnt)
        /\ UNCHANGED <<device_table, device_table_revision, rows, dcnt, scans, D!page>>
    BY <1>6 DEF D!StoreCount
  <2>2. changed' \in BOOLEAN
    BY <2>1
  <2>3. TableType' /\ (Quiet' => Quiet)
    BY <1>0, <2>1, <2>2 DEF TableType, Quiet, D!page
  <2> QED
    BY <1>0, <2>1, <2>3, ScannerKeeps
<1>7. CASE D!BumpRevision
  <2>1. /\ device_table_revision' = device_table_revision + (IF changed THEN 1 ELSE 0)
        /\ wpc = "revision" /\ wpc' = "sleep" /\ rows' = <<>> /\ dcnt' = 0 /\ changed' = FALSE
        /\ UNCHANGED <<device_table, device_count, scans, D!page>>
    BY <1>7 DEF D!BumpRevision
  <2>2. /\ device_table_revision' \in Nat /\ device_table_revision <= device_table_revision'
        /\ changed => device_table_revision' # last_device_table_revision
        /\ ~changed => device_table_revision' = device_table_revision
    BY <1>0, <2>1
  <2>3. changed' \in BOOLEAN /\ ~changed' /\ rows' \in Seq(D!Device)
    <3>1. <<>> \in Seq(D!Device)
      OBVIOUS
    <3> QED
      BY <2>1, <3>1, Zenon
  <2>4. TableType'
    BY <1>0, <2>1, <2>2, <2>3 DEF TableType
  <2>5. Quiet' => Quiet
    BY <2>1, <2>2 DEF Quiet, D!page
  <2> QED
    BY <2>1, <2>2, <2>4, <2>5, ScannerKeeps
<1> QED
  BY <1>1, <1>2, <1>3, <1>4, <1>5, <1>6, <1>7 DEF D!Scanner

LEMMA PageStep == ASSUME PageInv, D!Show \/ D!Page PROVE PageInv'
<1>0. /\ TableType /\ PageType /\ PageReads /\ MaxDevices \in Nat
      /\ device_table \in [1 .. MaxDevices -> Entry] /\ cards \in Seq(Entry)
      /\ i \in Nat /\ cnt \in 0 .. MaxDevices /\ Len(cards) \in Nat
  BY DashboardConstants DEF PageInv, TableType, PageType
<1>1. UNCHANGED <<D!shared, D!scanner>>
  BY DEF D!Show, D!Page, D!LoadCount, D!LoadRevision, D!AddCard, D!LabelMac, D!CardsDone
<1>2. TableType' /\ (last_device_table_revision' = last_device_table_revision => Quiet' = Quiet)
  BY <1>0, <1>1 DEF D!shared, D!scanner, TableType, Quiet
<1>3. UNCHANGED <<device_table, device_count, device_table_revision>>
  BY <1>1 DEF D!shared
<1>4. CASE D!Show \/ D!LoadCount
  BY <1>0, <1>2, <1>3, <1>4 DEF D!Show, D!LoadCount, PageInv, TableType, PageType, PageReads
<1>5. CASE D!LoadRevision
  <2>1. CASE cnt = last_device_count /\ device_table_revision = last_device_table_revision
    BY <1>0, <1>2, <1>3, <1>5, <2>1 DEF D!LoadRevision, PageInv, PageType, PageReads
  <2>2. CASE ~(cnt = last_device_count /\ device_table_revision = last_device_table_revision)
    <3>1. /\ ppc' = "card" /\ i' = 0 /\ cards' = <<>> /\ cnt' = cnt
          /\ last_device_count' = cnt /\ last_device_table_revision' = device_table_revision
      BY <1>5, <2>2 DEF D!LoadRevision
    <3>2. PageType'
      BY <1>0, <1>3, <3>1 DEF PageType, TableType, D!NoCount
    <3>3. PageReads'
      BY <3>1 DEF PageReads
    <3> QED
      BY <1>2, <3>2, <3>3 DEF PageInv
  <2> QED
    BY <2>1, <2>2
<1>6. CASE D!AddCard
  <2> DEFINE new == [ip |-> device_table[i + 1].ip, mac |-> None]
  <2>1. /\ ppc = "card" /\ i < cnt /\ ppc' = "label" /\ cards' = Append(cards, new)
        /\ UNCHANGED <<cnt, i, last_device_count, last_device_table_revision>> /\ Len(cards) = i
    BY <1>0, <1>6 DEF D!AddCard, PageType
  <2>2. new \in Entry /\ new.ip = device_table[i + 1].ip
    BY <1>0, <2>1 DEF Entry
  <2> HIDE DEF new
  <2>3. /\ cards' \in Seq(Entry) /\ Len(cards') = Len(cards) + 1 /\ cards'[Len(cards) + 1] = new
        /\ \A k \in 1 .. Len(cards) : cards'[k] = cards[k]
    BY <1>0, <2>1, <2>2
  <2>4. PageType'
    BY <1>0, <1>3, <2>1, <2>3 DEF PageType
  <2>5. PageReads'
    BY <1>0, <1>2, <1>3, <2>1, <2>2, <2>3, Zenon DEF PageReads
  <2> QED
    BY <1>2, <2>4, <2>5 DEF PageInv
<1>7. CASE D!LabelMac
  <2>1. /\ ppc = "label" /\ i < cnt /\ ppc' = "card" /\ i' = i + 1
        /\ cards' = [cards EXCEPT ![i + 1].mac = device_table[i + 1].mac]
        /\ UNCHANGED <<cnt, last_device_count, last_device_table_revision>>
    BY <1>0, <1>7 DEF D!LabelMac, PageType
  <2>2. device_table[i + 1] \in Entry /\ Len(cards) = i + 1 /\ cards[i + 1] \in Entry
    BY <1>0, <2>1 DEF PageType
  <2>3. cards' \in Seq(Entry) /\ Len(cards') = Len(cards)
    BY <1>0, <2>1, <2>2 DEF Entry
  <2>4. PageType'
    BY <1>0, <1>3, <2>1, <2>3 DEF PageType
  <2>5. ASSUME Quiet' PROVE \A k \in 1 .. Len(cards') : cards'[k] = device_table[k]
    <3>1. /\ \A k \in 1 .. i : cards[k] = device_table[k]
          /\ cards[i + 1].ip = device_table[i + 1].ip
      BY <1>0, <1>2, <2>1, <2>5, Zenon DEF PageReads
    <3>2. cards'[i + 1] = [cards[i + 1] EXCEPT !.mac = device_table[i + 1].mac]
      BY <1>0, <2>1, <2>2
    <3>3. cards'[i + 1] = device_table[i + 1]
      BY <2>2, <3>1, <3>2 DEF Entry
    <3>4. \A k \in 1 .. i : cards'[k] = cards[k]
      BY <1>0, <2>1, <2>2
    <3> QED
      BY <1>0, <2>2, <2>3, <3>1, <3>3, <3>4
  <2>6. PageReads'
    BY <1>3, <2>1, <2>5 DEF PageReads
  <2> QED
    BY <1>2, <2>4, <2>6 DEF PageInv
<1>8. CASE D!CardsDone
  <2>1. /\ ppc = "card" /\ i = cnt /\ ppc' = "idle" /\ last_device_count = cnt
        /\ UNCHANGED <<cnt, i, cards, last_device_count, last_device_table_revision>>
    BY <1>0, <1>8 DEF D!CardsDone, PageType
  <2>2. PageType' /\ PageReads'
    BY <1>0, <1>2, <1>3, <2>1 DEF PageType, PageReads
  <2> QED
    BY <1>2, <2>2 DEF PageInv
<1> QED
  BY <1>4, <1>5, <1>6, <1>7, <1>8 DEF D!Page

LEMMA PageInvStep == PageInv /\ [D!Next]_D!vars => PageInv'
<1> SUFFICES ASSUME PageInv, UNCHANGED D!vars PROVE PageInv'
  BY ScannerStep, PageStep DEF D!Next
<1>1. UNCHANGED D!page /\ TableType' /\ (Quiet' => Quiet)
        /\ UNCHANGED <<device_table, device_table_revision>>
  BY DEF D!vars, D!shared, D!scanner, D!page, PageInv, TableType, Quiet
<1>2. device_table_revision <= device_table_revision'
  BY <1>1 DEF PageInv, TableType
<1> QED
  BY <1>1, <1>2, ScannerKeeps

LEMMA PageCurrent == PageInv => SettledPageIsCurrent
<1> SUFFICES ASSUME PageInv, wpc = "sleep", ppc = "idle", last_device_count = device_count,
                    last_device_table_revision = device_table_revision
             PROVE  cards = SubSeq(device_table, 1, device_count)
  BY DEF SettledPageIsCurrent, D!SettledPageIsCurrent
<1>1. /\ MaxDevices \in Nat /\ device_count \in 0 .. MaxDevices /\ cards \in Seq(Entry)
      /\ device_table \in Seq(Entry) /\ Len(device_table) = MaxDevices
  BY DashboardConstants DEF PageInv, TableType, PageType
<1>2. Len(cards) = device_count /\ \A k \in 1 .. device_count : cards[k] = device_table[k]
  BY <1>1 DEF PageInv, TableType, PageType, PageReads, Quiet, D!NoCount
<1>3. /\ SubSeq(device_table, 1, device_count) \in Seq(Entry)
      /\ Len(SubSeq(device_table, 1, device_count)) = device_count
      /\ \A k \in 1 .. device_count : SubSeq(device_table, 1, device_count)[k] = device_table[k]
  BY <1>1
<1> QED
  BY <1>1, <1>2, <1>3

\* refreshDevices writes the entries, then the count, and bumps the revision
\* last; updatePage loads the count and the revision first and the entries
\* after.  In whatever order these steps fall, a page that finds both as it
\* remembers them, while no scan runs, shows the table, torn reads included.
THEOREM PageSettlesCurrent == D!Spec => []SettledPageIsCurrent
<1>1. D!Init /\ [][D!Next]_D!vars => []PageInv
  BY PageStart, PageInvStep, PTL
<1> QED
  BY <1>1, PageCurrent, PTL DEF D!Spec

-----------------------------------------------------------------------------

\* The timer event composes the two: every step of the dashboard is one of
\* the data plane and the rates, or one of the device table, and leaves the
\* other as it was.
THEOREM DashboardIsBoth == DashboardSpec => Spec /\ D!Spec
<1>1. DashboardInit => Init /\ D!Init
  BY DEF DashboardInit
<1>2. [DashboardNext]_<<vars, table>> => [Next]_vars
  BY DEF DashboardNext, DataPlane, Telemetry, TimerLoads, TimerRates, PageRefresh,
         TimerSnapshot, Next
<1>3. [DashboardNext]_<<vars, table>> => [D!Next]_D!vars
  <2>1. UNCHANGED table => UNCHANGED D!vars
    BY DEF table, D!vars, D!shared, D!scanner, D!page
  <2> QED
    BY <2>1
       DEF DashboardNext, DataPlane, Telemetry, TimerLoads, TimerRates, PageRefresh,
           TimerSnapshot, D!Next
<1> QED
  BY <1>1, <1>2, <1>3, PTL DEF DashboardSpec, Spec, D!Spec

\* So the three invariants hold of the dashboard as it runs.
THEOREM DashboardShows ==
  DashboardSpec => [](CountersConserve /\ RatesNeverWrap /\ SettledPageIsCurrent)
BY DashboardIsBoth, NoByteLost, NoRateWraps, PageSettlesCurrent, PTL
=============================================================================
