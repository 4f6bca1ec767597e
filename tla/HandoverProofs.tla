--------------------------- MODULE HandoverProofs ---------------------------
(***************************************************************************)
(* What threads hand to each other: items through a ring, stop tokens and  *)
(* configuration changes through event descriptors.                        *)
(*                                                                         *)
(* SpscRing.  For every capacity and every item type the indices stay in   *)
(* range, push and pop never touch the same slot at once, and the ring     *)
(* implements BoundedFifo.  NoSlotRace is not inductive.  It follows from  *)
(* PopHasItem, which in turn needs PushHasRoom: the store of tail must not *)
(* make the ring look empty to a pop that has passed its check.            *)
(*                                                                         *)
(* ControlPlane.  For every set of services and every pool configuration a *)
(* thread that goes to read its stop token finds one, the descriptors      *)
(* outlive the threads, and no DHCP change is lost.  StopReadNeverBlocks   *)
(* needs Tokens: once the tokens are written there are as many as threads  *)
(* that are still running.  ConfigApplied needs InStep: while the GUI is   *)
(* quiet and no request is pending, what the control thread has read so    *)
(* far is what the configuration says.                                     *)
(***************************************************************************)
EXTENDS SpscRing, ControlPlane, FiniteSetTheorems, TLAPS

(***************************************************************************)
(* SpscRing.                                                               *)
(***************************************************************************)
RingInv == RingTypeOK /\ PushHasRoom /\ PopHasItem /\ PushCopied

\* (i + 1) % Capacity without the modulus.
LEMMA NextIndexValue ==
  ASSUME NEW i \in RingSlots
  PROVE  NextIndex(i) = IF i = Capacity - 1 THEN 0 ELSE i + 1
BY CapacityAssumption, Z3 DEF RingSlots, NextIndex

\* An index wrapped around the ring, without the modulus.
LEMMA WrappedSum ==
  ASSUME NEW i \in RingSlots, NEW j \in RingSlots
  PROVE  (i + j) % Capacity = IF i + j >= Capacity THEN i + j - Capacity ELSE i + j
BY CapacityAssumption, Z3 DEF RingSlots

LEMMA NextIndexType ==
  ASSUME NEW i \in RingSlots
  PROVE  NextIndex(i) \in RingSlots
BY NextIndexValue, CapacityAssumption DEF RingSlots

LEMMA RingStart == RingInit => RingInv
BY CapacityAssumption
   DEF RingInit, RingInv, RingTypeOK, RingSlots, PC, PushHasRoom, PopHasItem, PushCopied

\* One step per statement of push and pop.
LEMMA RingStep == RingInv /\ [RingNext]_ringVars => RingInv'
<1> SUFFICES ASSUME RingInv, [RingNext]_ringVars PROVE RingInv'
  OBVIOUS
<1> USE DEF RingInv, RingTypeOK, PC, PushHasRoom, PopHasItem, PushCopied, producer, consumer
<1>0. /\ NextIndex(head) \in RingSlots
      /\ NextIndex(tail) \in RingSlots
      /\ NextIndex(tail) # tail
      /\ NextIndex(head) = NextIndex(tail) => head = tail
  BY NextIndexType, NextIndexValue, CapacityAssumption DEF RingSlots
<1>1. ASSUME NEW x \in Item, PushCheck(x) PROVE RingInv'
  BY <1>1 DEF PushCheck
<1>2. CASE PushCopy
  BY <1>2 DEF PushCopy
<1>3. CASE PushPublish
  BY <1>3, <1>0 DEF PushPublish
<1>4. CASE PopCheck
  BY <1>4 DEF PopCheck
<1>5. CASE PopCopy
  BY <1>5 DEF PopCopy
<1>6. CASE PopPublish
  BY <1>6, <1>0 DEF PopPublish
<1>7. CASE UNCHANGED ringVars
  BY <1>7 DEF ringVars
<1> QED
  BY <1>1, <1>2, <1>3, <1>4, <1>5, <1>6, <1>7 DEF RingNext

\* The indices and the slots keep their types, whatever the capacity.
THEOREM RingTypeCorrect == RingSpec => []RingTypeOK
<1>1. RingInv => RingTypeOK
  BY DEF RingInv
<1> QED
  BY RingStart, RingStep, <1>1, PTL DEF RingSpec

\* push and pop never copy to and from one slot at the same time.
THEOREM SlotRaceFree == RingSpec => []NoSlotRace
<1>1. RingInv => NoSlotRace
  BY DEF RingInv, NoSlotRace, PopHasItem
<1> QED
  BY RingStart, RingStep, <1>1, PTL DEF RingSpec

\* The slot of the i-th oldest item.
SlotOf(i) == IF First + i - 1 >= Capacity THEN First + i - 1 - Capacity ELSE First + i - 1

Shape == /\ First \in RingSlots
         /\ Used \in 0 .. Capacity - 1
         /\ Contents \in Seq(Item)
         /\ Len(Contents) = Used
         /\ \A i \in 1 .. Used : SlotOf(i) \in RingSlots /\ Contents[i] = buffer[SlotOf(i)]

\* Facts about sequences of items.
LEMMA SameItems ==
  ASSUME NEW S, NEW a \in Seq(S), NEW b \in Seq(S), Len(a) = Len(b),
         \A i \in 1 .. Len(a) : a[i] = b[i]
  PROVE  a = b
OBVIOUS

LEMMA AppendItems ==
  ASSUME NEW S, NEW a \in Seq(S), NEW x \in S
  PROVE  /\ Append(a, x) \in Seq(S) /\ Append(a, x) # <<>> /\ Len(Append(a, x)) = Len(a) + 1
         /\ \A i \in 1 .. Len(a) : Append(a, x)[i] = a[i]
         /\ Append(a, x)[Len(a) + 1] = x
OBVIOUS

LEMMA TailItems ==
  ASSUME NEW S, NEW a \in Seq(S), a # <<>>
  PROVE  /\ Tail(a) \in Seq(S) /\ Len(Tail(a)) = Len(a) - 1 /\ Head(a) = a[1] /\ Head(a) \in S
         /\ \A i \in 1 .. Len(Tail(a)) : Tail(a)[i] = a[i + 1]
OBVIOUS

LEMMA NoItems == ASSUME NEW S, NEW a \in Seq(S) PROVE Len(a) = 0 <=> a = <<>>
OBVIOUS

\* The queue the ring represents is a sequence of at most Capacity - 1 items.
LEMMA ContentsShape == RingInv => Shape
<1> SUFFICES ASSUME RingInv PROVE Shape
  OBVIOUS
<1>1. First \in RingSlots
  BY NextIndexType DEF First, RingInv, RingTypeOK
<1>2. Used \in 0 .. Capacity - 1
  BY <1>1, CapacityAssumption DEF Used, RingInv, RingTypeOK, RingSlots
<1>3. ASSUME NEW i \in 1 .. Used
      PROVE  SlotOf(i) \in RingSlots /\ (First + i - 1) % Capacity = SlotOf(i)
  <2>1. i - 1 \in RingSlots
    BY <1>2, CapacityAssumption DEF RingSlots
  <2>2. (First + (i - 1)) % Capacity = SlotOf(i)
    BY <1>1, <2>1, WrappedSum DEF SlotOf, RingSlots
  <2>3. First + (i - 1) = First + i - 1
    BY <1>1 DEF RingSlots
  <2>4. SlotOf(i) \in RingSlots
    BY <1>1, <2>1, CapacityAssumption DEF SlotOf, RingSlots
  <2> QED
    BY <2>2, <2>3, <2>4
<1>4. \A i \in 1 .. Used : buffer[(First + i - 1) % Capacity] \in Item
  BY <1>3 DEF RingInv, RingTypeOK
<1>5. Contents \in [1 .. Used -> Item]
  BY <1>4 DEF Contents
<1>6. Contents \in Seq(Item) /\ Len(Contents) = Used
  BY <1>2, <1>5
<1> QED
  BY <1>1, <1>2, <1>3, <1>6 DEF Contents, Shape

LEMMA InitRefines == RingInit => Queue!Init
<1> SUFFICES ASSUME RingInit PROVE Queue!Init
  OBVIOUS
<1>1. Used = 0
  BY DEF RingInit, Used, First
<1>2. Contents \in Seq(Item) /\ Len(Contents) = 0
  BY <1>1, RingStart, ContentsShape DEF Shape
<1>3. citem \in Item /\ pitem \in Item
  BY RingStart DEF RingInv, RingTypeOK
<1> QED
  BY <1>2, <1>3, NoItems DEF Queue!Init

\* Every step of push and pop is a step of the bounded queue, or none.
LEMMA StepRefines == RingInv /\ RingInv' /\ Shape /\ Shape'
    /\ [RingNext]_ringVars => [Queue!Next]_(Queue!vars)
<1> SUFFICES ASSUME RingInv, RingInv', Shape, Shape', [RingNext]_ringVars
             PROVE  [Queue!Next]_(Queue!vars)
  OBVIOUS
<1> USE DEF producer, consumer
<1>t. /\ head \in RingSlots /\ tail \in RingSlots
      /\ buffer \in [RingSlots -> Item] /\ pitem \in Item
      /\ NextIndex(head) = IF head = Capacity - 1 THEN 0 ELSE head + 1
      /\ NextIndex(tail) = IF tail = Capacity - 1 THEN 0 ELSE tail + 1
  BY NextIndexValue DEF RingInv, RingTypeOK
<1>1. ASSUME NEW x \in Item, PushCheck(x) PROVE Queue!Offer(x)
  BY <1>1 DEF PushCheck, Queue!Offer, Contents, Used, First, NextIndex
<1>2. CASE PushCopy
  <2>1. Used' = Used /\ First' = First /\ citem' = citem /\ pitem' = pitem
    BY <1>2 DEF PushCopy, Used, First, NextIndex
  <2>2. ASSUME NEW i \in 1 .. Used PROVE SlotOf(i)' = SlotOf(i) /\ SlotOf(i) # tail
    BY <2>1, <1>t, CapacityAssumption DEF SlotOf, RingSlots, Used, Shape
  <2>3. ASSUME NEW i \in 1 .. Used PROVE Contents'[i] = Contents[i]
    BY <2>1, <2>2, <1>2, <1>t DEF PushCopy, Shape
  <2>4. Contents' = Contents
    BY <2>1, <2>3, SameItems DEF Shape
  <2> QED
    BY <2>1, <2>4 DEF Queue!vars
<1>3. CASE PushPublish
  <2>1. First' = First /\ citem' = citem /\ pitem' = pitem /\ buffer' = buffer
    BY <1>3 DEF PushPublish, First, NextIndex
  <2>2. Used' = Used + 1
    <3>1. tail' = NextIndex(tail) /\ NextIndex(tail) # head
      BY <1>3 DEF PushPublish, RingInv, PushHasRoom
    <3>2. Used' = IF First <= tail' THEN tail' - First ELSE tail' - First + Capacity
      BY <2>1 DEF Used
    <3>3. First = head \/ (First = NextIndex(head) /\ head # tail)
      BY DEF First, RingInv, PopHasItem
    <3>4. NextIndex(tail) # First
      BY <3>1, <3>3, <1>t, CapacityAssumption DEF RingSlots
    <3>5. CASE tail = Capacity - 1
      BY <3>1, <3>2, <3>4, <3>5, <1>t, CapacityAssumption DEF RingSlots, Used, Shape
    <3>6. CASE tail # Capacity - 1
      <4>1. tail' = tail + 1 /\ tail + 1 # First /\ tail \in Nat /\ First \in Nat
        BY <3>1, <3>4, <3>6, <1>t, CapacityAssumption DEF RingSlots, Shape
      <4> QED
        BY <4>1, <3>2, CapacityAssumption DEF Used
    <3> QED
      BY <3>5, <3>6
  <2>3. Append(Contents, pitem) \in Seq(Item) /\ Len(Append(Contents, pitem)) = Used + 1
    BY <1>t, AppendItems DEF Shape
  <2>4. ASSUME NEW i \in 1 .. Used PROVE Contents'[i] = Append(Contents, pitem)[i]
    <3>1. SlotOf(i)' = SlotOf(i) /\ i \in 1 .. Used'
      BY <2>1, <2>2 DEF SlotOf, Shape
    <3> QED
      BY <3>1, <2>1, <1>t, AppendItems DEF Shape
  <2>5. Contents'[Used + 1] = pitem
    <3>1. PICK n \in Nat : n = Used + 1
      BY DEF Shape
    <3>2. n \in 1 .. Used' /\ Contents'[n] = buffer[SlotOf(n)']
      BY <3>1, <2>1, <2>2 DEF Shape
    <3>3. SlotOf(n)' = IF First + n - 1 >= Capacity THEN First + n - 1 - Capacity ELSE First + n - 1
      BY <2>1 DEF SlotOf
    <3>4. SlotOf(n)' = tail
      BY <3>1, <3>3, <1>t, CapacityAssumption DEF Used, RingSlots, Shape
    <3> QED
      BY <3>1, <3>2, <3>4, <1>3 DEF RingInv, PushCopied, PushPublish
  <2>6. Contents' = Append(Contents, pitem)
    <3>1. \A i \in 1 .. Used + 1 : Contents'[i] = Append(Contents, pitem)[i]
      BY <2>4, <2>5, <1>t, AppendItems DEF Shape
    <3> QED
      BY <3>1, <2>2, <2>3, SameItems DEF Shape
  <2>7. Len(Contents) < Capacity - 1
    BY <2>2, CapacityAssumption DEF Shape
  <2>8. Queue!Push
    BY <2>1, <2>6, <2>7 DEF Queue!Push
  <2> QED
    BY <2>8 DEF Queue!Next
<1>4. CASE PopCheck
  BY <1>4 DEF PopCheck, Queue!vars, Contents, Used, First, NextIndex
<1>5. CASE PopCopy
  <2>1. /\ First = head /\ First' = NextIndex(head)
        /\ buffer' = buffer /\ citem' = buffer[head] /\ pitem' = pitem
    BY <1>5 DEF PopCopy, First, NextIndex
  <2>2. Used \in Nat \ {0} /\ Used' = Used - 1
    BY <2>1, <1>5, <1>t, CapacityAssumption
       DEF PopCopy, Used, First, RingSlots, RingInv, PopHasItem, Shape
  <2>3. Contents # <<>>
    BY <2>2, NoItems DEF Shape
  <2>4. Contents[1] = buffer[head]
    <3>1. SlotOf(1) = head
      BY <2>1, <1>t, CapacityAssumption DEF SlotOf, RingSlots
    <3> QED
      BY <3>1, <2>2 DEF Shape
  <2>5. ASSUME NEW i \in 1 .. Used - 1 PROVE Contents'[i] = Tail(Contents)[i]
    <3>0. i \in Nat \ {0} /\ i < Capacity
      BY <2>2, CapacityAssumption DEF Shape
    <3>1. SlotOf(i)' = SlotOf(i + 1)
      <4>1. SlotOf(i)' = IF NextIndex(head) + i - 1 >= Capacity
                           THEN NextIndex(head) + i - 1 - Capacity ELSE NextIndex(head) + i - 1
        BY <2>1 DEF SlotOf
      <4>2. SlotOf(i + 1) = IF head + i >= Capacity THEN head + i - Capacity ELSE head + i
        BY <2>1, <3>0, <1>t DEF SlotOf, RingSlots
      <4>3. CASE head = Capacity - 1
        BY <4>1, <4>2, <4>3, <3>0, <1>t, CapacityAssumption
      <4>4. CASE head # Capacity - 1
        BY <4>1, <4>2, <4>4, <3>0, <1>t, CapacityAssumption DEF RingSlots
      <4> QED
        BY <4>3, <4>4
    <3>2. Contents'[i] = Contents[i + 1]
      BY <3>1, <2>1, <2>2 DEF Shape
    <3> QED
      BY <3>2, <2>2, <2>3, TailItems DEF Shape
  <2>6. Contents' = Tail(Contents)
    BY <2>2, <2>3, <2>5, TailItems, SameItems DEF Shape
  <2>7. Queue!Pop
    BY <2>1, <2>3, <2>4, <2>6 DEF Queue!Pop
  <2> QED
    BY <2>7 DEF Queue!Next
<1>6. CASE PopPublish
  BY <1>6 DEF PopPublish, Queue!vars, Contents, Used, First, NextIndex
<1>7. CASE UNCHANGED ringVars
  BY <1>7 DEF ringVars, Queue!vars, Contents, Used, First, NextIndex
<1> QED
  BY <1>1, <1>2, <1>3, <1>4, <1>5, <1>6, <1>7 DEF RingNext, Queue!Next

\* The ring implements the bounded FIFO queue its callers rely on: nothing
\* lost, nothing twice, nothing out of order, at most Capacity - 1 items.
THEOREM RingIsFifo == RingSpec => IsFifo
<1>1. RingSpec => []RingInv
  BY RingStart, RingStep, PTL DEF RingSpec
<1>2. RingInv /\ RingInv' /\ [RingNext]_ringVars => [Queue!Next]_(Queue!vars)
  BY ContentsShape, StepRefines, PTL
<1> QED
  BY <1>1, <1>2, InitRefines, PTL DEF RingSpec, IsFifo, Queue!Spec

(***************************************************************************)
(* ControlPlane.                                                           *)
(***************************************************************************)
Live == {t \in Thread : pc[t] # "done"}

Stopping == {"wake", "join", "stopped"}

\* No token before wake_watchdog, then at least one for every live thread.
Tokens ==
  /\ main \notin {"join", "stopped"} => stop_efd = 0
  /\ main \in {"join", "stopped"} => stop_efd >= Cardinality(Live)

\* The GUI thread's progress through stop() and what the others see of it.
StopOrder ==
  /\ running <=> main \notin Stopping
  /\ ~open => main = "stopped" /\ Live = {}
  /\ \A t \in Thread : pc[t] = "readstop" => main \in {"join", "stopped"}

\* The settings already assigned by on_apply are those of the dialog.
Drafted ==
  /\ main \in {"end", "lease"} => config.start = draft.start
  /\ main = "lease" => config.end = draft.end
  /\ main \in {"run", "signal"} \cup Stopping => config = draft

\* A pending request stays readable until the control thread drains it; with
\* none pending and no edit under way its reads agree with the configuration.
InStep ==
  /\ pc[Ctl] = "readcfg" => cfg_efd
  /\ (main = "run" /\ ~cfg_efd) =>
       /\ pc[Ctl] \in {"loop", "poll", "readstop", "applied"} => engine = config
       /\ pc[Ctl] \in {"end", "reconfigure"} => read.start = config.start
       /\ pc[Ctl] = "reconfigure" => read.end = config.end

\* applyDhcpConfig reconfigures with parsed bounds only.
ReadParsed == pc[Ctl] = "reconfigure" => read.start \in Addr /\ read.end \in Addr

IInv == TypeOK /\ Tokens /\ StopOrder /\ Drafted /\ InStep /\ ReadParsed

LEMMA ThreadFinite ==
  /\ IsFiniteSet(Thread) /\ Cardinality(Thread) = Cardinality(Service) + 1
  /\ Cardinality(Service) \in Nat
  /\ IsFiniteSet(Live) /\ Cardinality(Live) \in Nat
  /\ Cardinality(Live) <= Cardinality(Service) + 1
<1>1. IsFiniteSet(Service) /\ Ctl \notin Service
  BY ControlConstants
<1>2. /\ IsFiniteSet(Thread) /\ Cardinality(Thread) = Cardinality(Service) + 1
      /\ Cardinality(Service) \in Nat
  BY <1>1, FS_AddElement, FS_CardinalityType DEF Thread
<1>3. Live \subseteq Thread
  BY DEF Live
<1> QED
  BY <1>2, <1>3, FS_Subset, FS_CardinalityType

\* Threads that end make Live smaller, and nothing makes it larger.
LEMMA LiveShrinks ==
  ASSUME Live' \subseteq Live
  PROVE  Cardinality(Live') <= Cardinality(Live) /\ Cardinality(Live') \in Nat
BY ThreadFinite, FS_Subset, FS_CardinalityType

\* A thread that ends with a token in hand leaves one thread less.
LEMMA LiveRemove ==
  ASSUME NEW t \in Thread, pc[t] # "done", Live' = Live \ {t}
  PROVE  Cardinality(Live') = Cardinality(Live) - 1
<1>1. IsFiniteSet(Live)
  BY ThreadFinite
<1>2. t \in Live
  BY DEF Live
<1> QED
  BY <1>1, <1>2, FS_RemoveElement

LEMMA InitIInv == Init => IInv
<1> SUFFICES ASSUME Init PROVE IInv
  OBVIOUS
<1>1. config \in Settings /\ config \in [start : Addr, end : Addr, lease : Lease]
  BY DEF Init, Settings
<1>2. config \in [start : Addr \cup {Torn}, end : Addr \cup {Torn}, lease : Lease]
  BY <1>1
<1>3. stop_efd \in 0 .. Cardinality(Service) + 1 /\ edits \in 0 .. Edits
  BY ThreadFinite, ControlConstants DEF Init
<1>4. TypeOK
  BY <1>1, <1>2, <1>3, Zenon DEF Init, TypeOK
<1>5. Tokens /\ StopOrder /\ Drafted /\ InStep /\ ReadParsed
  BY DEF Init, Tokens, StopOrder, Stopping, Drafted, InStep, ReadParsed, Thread
<1> QED
  BY <1>4, <1>5 DEF IInv

LEMMA SettingsShape ==
  ASSUME NEW c \in Settings
  PROVE  /\ c.start \in Addr /\ c.end \in Addr /\ c.lease \in Lease /\ c.start < c.end
         /\ c = [start |-> c.start, end |-> c.end, lease |-> c.lease]
BY SMTT(20) DEF Settings

\* What on_apply and stop() do.
LEMMA MainStep == IInv /\ Main => IInv'
<1> SUFFICES ASSUME IInv, Main PROVE IInv'
  OBVIOUS
<1> USE DEF IInv, TypeOK, Tokens, StopOrder, Stopping, Drafted, InStep, ReadParsed, gui
<1>0. /\ Ctl \in Thread
      /\ Edits \in Nat
      /\ UNCHANGED pc
      /\ Live' = Live
  BY ControlConstants
     DEF Thread, Live, Main, Edit, EditStart, EditEnd, EditLease, RequestApply, StopBegin,
         WakeWatchdog, JoinAndClose
<1>1. ASSUME NEW c \in Settings, Edit(c) PROVE IInv'
  BY <1>0, <1>1 DEF Edit
<1>2. CASE EditStart
  BY <1>0, <1>2, SettingsShape, Zenon DEF EditStart
<1>3. CASE EditEnd
  BY <1>0, <1>3, SettingsShape DEF EditEnd
<1>4. CASE EditLease
  BY <1>0, <1>4, SettingsShape DEF EditLease
<1>5. CASE RequestApply
  BY <1>0, <1>5 DEF RequestApply
<1>6. CASE StopBegin
  BY <1>0, <1>6, Zenon DEF StopBegin
<1>7. CASE WakeWatchdog
  BY <1>0, <1>7, ThreadFinite DEF WakeWatchdog
<1>8. CASE JoinAndClose
  BY <1>0, <1>8, ZenonT(30) DEF JoinAndClose, Live
<1> QED
  BY <1>1, <1>2, <1>3, <1>4, <1>5, <1>6, <1>7, <1>8, Zenon DEF Main

\* What the control event thread does with a request.
LEMMA ControlStep == IInv /\ Control => IInv'
<1> SUFFICES ASSUME IInv, Control PROVE IInv'
  OBVIOUS
<1> USE DEF IInv, TypeOK, Tokens, StopOrder, Stopping, Drafted, InStep, ReadParsed, gui, Goto
<1>0. /\ Ctl \in Thread
      /\ Torn \notin Addr /\ Bad \notin Addr
      /\ Addr \subseteq Nat
      /\ Live' = Live
  BY ControlConstants
     DEF Thread, Live, Control, PollConfig, ReadConfigEfd, ReadStart, ReadEnd, Reconfigure,
         Applied
<1>1. CASE PollConfig
  BY <1>0, <1>1 DEF PollConfig
<1>2. CASE ReadConfigEfd
  <2>1. TypeOK'
    BY <1>0, <1>2, Zenon DEF ReadConfigEfd
  <2>2. Tokens' /\ StopOrder' /\ Drafted'
    BY <1>0, <1>2 DEF ReadConfigEfd
  <2>3. pc'[Ctl] = IF running THEN "start" ELSE "loop"
    BY <1>0, <1>2 DEF ReadConfigEfd
  <2>4. InStep' /\ ReadParsed'
    BY <1>2, <2>3 DEF ReadConfigEfd
  <2> QED
    BY <2>1, <2>2, <2>4
<1>3. CASE ReadStart
  BY <1>0, <1>3, SettingsShape DEF ReadStart, Parsed
<1>4. CASE ReadEnd
  BY <1>0, <1>4, SettingsShape DEF ReadEnd, Parsed
<1>5. CASE Reconfigure
  <2>1. CASE read.end < read.start
    BY <1>0, <1>5, <2>1, SettingsShape DEF Reconfigure
  <2>2. CASE ~(read.end < read.start)
    BY <1>0, <1>5, <2>2, SettingsShape DEF Reconfigure
  <2> QED
    BY <2>1, <2>2
<1>6. CASE Applied
  BY <1>0, <1>6 DEF Applied
<1> QED
  BY <1>1, <1>2, <1>3, <1>4, <1>5, <1>6, Zenon DEF Control

\* What every thread does with its loop, its poll and its stop token.
LEMMA ThreadStep ==
  ASSUME IInv, NEW t \in Thread, Step(t) \/ PollFails(t)
  PROVE  IInv'
<1> USE DEF IInv, TypeOK, Tokens, StopOrder, Stopping, Drafted, InStep, ReadParsed, gui, Goto
<1>0. Ctl \in Thread /\ Cardinality(Service) \in Nat /\ Cardinality(Live) \in Nat
  BY ThreadFinite DEF Thread
<1>1. CASE ReadStop(t)
  <2>1. Live' = Live \ {t} /\ pc[t] # "done"
    BY <1>1 DEF ReadStop, Live
  <2>2. Cardinality(Live') = Cardinality(Live) - 1
    BY <2>1, LiveRemove, Zenon
  <2>3. stop_efd' = stop_efd - 1 /\ stop_efd > 0 /\ UNCHANGED <<main, running, open>>
    BY <1>1 DEF ReadStop
  <2>4. TypeOK'
    BY <1>0, <1>1 DEF ReadStop
  <2>5. Tokens'
    BY <1>0, <2>2, <2>3
  <2>6. StopOrder'
    BY <1>1, <2>1, <2>3 DEF ReadStop
  <2> QED
    BY <1>0, <1>1, <2>4, <2>5, <2>6 DEF ReadStop
<1>2. CASE ~ReadStop(t)
  <2>1. UNCHANGED <<running, main, open, stop_efd, cfg_efd, gui, read, engine>>
    BY <1>2 DEF Step, PollFails, Loop, PollStop, PollTimeout, Check, Tick
  <2>2. Live' \subseteq Live
    BY <1>2 DEF Step, PollFails, Loop, PollStop, PollTimeout, Check, Tick, Live
  <2>3. Cardinality(Live') <= Cardinality(Live) /\ Cardinality(Live') \in Nat
    BY <2>2, LiveShrinks
  <2>4. Tokens'
    BY <1>0, <2>1, <2>3, SMTT(20)
  <2>5. TypeOK' /\ StopOrder' /\ Drafted' /\ InStep' /\ ReadParsed'
    <3>1. CASE Loop(t)
      BY <1>0, <2>1, <2>2, <3>1 DEF Loop
    <3>2. CASE PollStop(t)
      BY <1>0, <2>1, <2>2, <3>2 DEF PollStop
    <3>3. CASE PollTimeout(t)
      BY <1>0, <2>1, <2>2, <3>3 DEF PollTimeout
    <3>4. CASE Check(t)
      BY <1>0, <2>1, <2>2, <3>4 DEF Check
    <3>5. CASE Tick(t)
      BY <1>0, <2>1, <2>2, <3>5 DEF Tick
    <3>6. CASE PollFails(t)
      BY <1>0, <2>1, <2>2, <3>6 DEF PollFails
    <3> QED
      BY <1>2, <3>1, <3>2, <3>3, <3>4, <3>5, <3>6, Zenon DEF Step
  <2> QED
    BY <2>4, <2>5
<1> QED
  BY <1>1, <1>2

LEMMA StepIInv == IInv /\ [Next]_vars => IInv'
<1> SUFFICES ASSUME IInv, [Next]_vars PROVE IInv'
  OBVIOUS
<1>1. CASE UNCHANGED vars
  BY <1>1 DEF vars, gui, IInv, TypeOK, Tokens, StopOrder, Drafted, InStep, ReadParsed, Live
<1> QED
  BY <1>1, MainStep, ControlStep, ThreadStep DEF Next

LEMMA Inductive == Spec => []IInv
BY InitIInv, StepIInv, PTL DEF Spec

\* The control plane's state is well typed; the semaphore never holds more
\* tokens than wake_watchdog writes.
THEOREM TypeCorrect == Spec => []TypeOK
<1>1. IInv => TypeOK
  BY DEF IInv
<1> QED
  BY <1>1, Inductive, PTL

\* With any number of services, a thread that saw a stop token in its poll finds
\* one when it reads, so no eventfd_read blocks stop().
THEOREM TokenForEveryThread == Spec => []StopReadNeverBlocks
<1>1. IInv => StopReadNeverBlocks
  <2> SUFFICES ASSUME IInv, NEW t \in Thread, pc[t] = "readstop"
               PROVE  stop_efd > 0
    BY DEF StopReadNeverBlocks
  <2>1. main \in {"join", "stopped"} /\ stop_efd >= Cardinality(Live)
    BY DEF IInv, StopOrder, Tokens
  <2>2. t \in Live
    BY DEF Live
  <2>3. Cardinality(Live) # 0
    BY <2>2, ThreadFinite, FS_EmptySet
  <2> QED
    BY <2>1, <2>3, ThreadFinite DEF IInv, TypeOK
<1> QED
  BY <1>1, Inductive, PTL

\* stop() closes the eventfds only when every thread has ended.
THEOREM ClosedAfterJoin == Spec => []DescriptorsOutliveThreads
<1>1. IInv => DescriptorsOutliveThreads
  BY DEF IInv, StopOrder, Live, DescriptorsOutliveThreads
<1> QED
  BY <1>1, Inductive, PTL

\* No request of the GUI is lost, however its edits interleave with the control
\* thread's reads: when both are quiet the DHCP engine runs the configuration.
THEOREM NoChangeLost == Spec => []ConfigApplied
<1>1. IInv => ConfigApplied
  BY DEF IInv, InStep, ConfigApplied
<1> QED
  BY <1>1, Inductive, PTL
====
