------------------------ MODULE ForwardEngineProofs ------------------------
(***************************************************************************)
(* The way of a frame from the socket ring to the pipeline, for every      *)
(* number of workers, slots, frames and tokens.                            *)
(*                                                                         *)
(* NoStrandedFrame is not inductive: it does not say that a slot the RX    *)
(* thread gives back was the oldest one.  InStep does: the occupied slots  *)
(* are those from rx_idx up to where the kernel fills, around the end of   *)
(* the ring.  NoLostWakeup must hold from the moment the queue was found   *)
(* empty, which is WakeOwed.                                               *)
(*                                                                         *)
(* FramesOnceInOrder needs more than the order of the frames already       *)
(* taken: the frames in the ring must be younger the further they are from *)
(* rx_idx, and younger than all that were taken (Ordered), and every frame *)
(* is in one place, the frame of a slot that is queued but not yet given   *)
(* back being counted once (Counted).                                      *)
(***************************************************************************)
EXTENDS ForwardEngine, FiniteSetTheorems, TLAPS

(***************************************************************************)
(* The socket ring and the wake-ups.                                       *)
(***************************************************************************)
InStep(slots, i, h) ==
  \A k \in Slot : slots[k] # Kernel <=> IF i < h THEN i <= k /\ k < h
                                        ELSE IF h < i THEN i <= k \/ k < h
                                        ELSE slots[i] # Kernel

RingInStep(w) == InStep(ring[w], rx_idx[w], head[w])
SignalsHeldFrame(w) == rx[w] = "signal" => Front(w) # Kernel
WakeOwed(w) ==
  proc[w] \in {"shape", "poll"} /\ frame_q[w] # <<>> => frame_efd[w] \/ rx[w] = "signal"

Good(w) == RingInStep(w) /\ SignalsHeldFrame(w) /\ WakeOwed(w)
IInv == TypeOK /\ \A w \in Worker : Good(w)

\* (k + 1) % FrameNr without the modulus.
LEMMA NextSlotValue ==
  ASSUME NEW k \in Slot
  PROVE  NextSlot(k) = (IF k = FrameNr - 1 THEN 0 ELSE k + 1) /\ NextSlot(k) \in Slot
<1>1. NextSlot(k) = IF k = FrameNr - 1 THEN 0 ELSE k + 1
  BY ForwardConstants, Z3 DEF Slot, NextSlot
<1> QED
  BY <1>1, ForwardConstants DEF Slot

\* advance_frame gives the oldest frame's slot back.
LEMMA AdvanceInStep ==
  ASSUME NEW slots \in [Slot -> Nat], NEW i \in Slot, NEW h \in Slot,
         InStep(slots, i, h), slots[i] # Kernel
  PROVE  InStep([slots EXCEPT ![i] = Kernel], NextSlot(i), h)
<1> DEFINE new == [slots EXCEPT ![i] = Kernel]
<1>1. \A k \in Slot : new[k] = IF k = i THEN Kernel ELSE slots[k]
  OBVIOUS
<1>2. NextSlot(i) = (IF i = FrameNr - 1 THEN 0 ELSE i + 1) /\ NextSlot(i) \in Slot
  BY NextSlotValue
<1> HIDE DEF new
<1> QED
  BY <1>1, <1>2, ForwardConstants DEF InStep, Slot, Kernel

\* The kernel fills the slot after the youngest frame.
LEMMA FillInStep ==
  ASSUME NEW slots \in [Slot -> Nat], NEW i \in Slot, NEW h \in Slot, NEW frame \in Nat \ {Kernel},
         InStep(slots, i, h), slots[h] = Kernel
  PROVE  InStep([slots EXCEPT ![h] = frame], i, NextSlot(h))
<1> DEFINE new == [slots EXCEPT ![h] = frame]
<1>1. \A k \in Slot : new[k] = IF k = h THEN frame ELSE slots[k]
  OBVIOUS
<1>2. NextSlot(h) = (IF h = FrameNr - 1 THEN 0 ELSE h + 1) /\ NextSlot(h) \in Slot
  BY NextSlotValue
<1> HIDE DEF new
<1> QED
  BY <1>1, <1>2, ForwardConstants DEF InStep, Slot, Kernel

LEMMA InitIInv == Init => IInv
<1> SUFFICES ASSUME Init PROVE IInv
  OBVIOUS
<1>1. TypeOK
  BY ForwardConstants DEF Init, TypeOK, Zero, Slot, Kernel, RxPC, ProcPC
<1>2. ASSUME NEW w \in Worker PROVE Good(w)
  BY ForwardConstants
     DEF Init, Good, RingInStep, InStep, SignalsHeldFrame, WakeOwed, Front, Zero, Slot,
         Kernel
<1> QED
  BY <1>1, <1>2 DEF IInv

(***************************************************************************)
(* The type, one step per action.                                          *)
(***************************************************************************)
LEMMA CounterType ==
  ASSUME NEW f \in [Worker -> Nat], NEW w \in Worker
  PROVE  /\ [f EXCEPT ![w] = @ + 1] \in [Worker -> Nat]
         /\ f[w] > 0 => [f EXCEPT ![w] = @ - 1] \in [Worker -> Nat]
OBVIOUS

LEMMA AdvanceType ==
  ASSUME TypeOK, NEW w \in Worker, advance_frame(w)
  PROVE  ring' \in [Worker -> [Slot -> Nat]] /\ rx_idx' \in [Worker -> Slot]
<1>1. rx_idx[w] \in Slot /\ NextSlot(rx_idx[w]) \in Slot
  BY NextSlotValue DEF TypeOK
<1> QED
  BY <1>1 DEF TypeOK, advance_frame, Kernel

LEMMA StepType == TypeOK /\ [Next]_vars => TypeOK'
<1> SUFFICES ASSUME TypeOK, [Next]_vars PROVE TypeOK'
  OBVIOUS
<1> USE DEF TypeOK, RxPC, ProcPC, RxGoto, ProcGoto, sync, nic, wire, counts, shaper
<1>1. CASE Stop
  BY <1>1, Zenon DEF Stop
<1>2. CASE WakeWorkers
  BY <1>2 DEF WakeWorkers
<1>3. CASE JoinAndClose
  BY <1>3, Zenon DEF JoinAndClose
<1>4. ASSUME NEW w \in Worker, NEW out \in BOOLEAN, Arrive(w, out) PROVE TypeOK'
  <2>1. head[w] \in Slot /\ NextSlot(head[w]) \in Slot /\ arrived[w] + 1 \in Nat
    BY NextSlotValue
  <2>2. ring' \in [Worker -> [Slot -> Nat]] /\ head' \in [Worker -> Slot]
    BY <1>4, <2>1 DEF Arrive
  <2>3. arrived' \in [Worker -> Nat] /\ outgoing' \in [Worker -> SUBSET Nat]
    BY <1>4, <2>1 DEF Arrive
  <2> QED
    BY <1>4, <2>2, <2>3, Zenon DEF Arrive
<1>5. ASSUME NEW w \in Worker, Tick(w) PROVE TypeOK'
  <2>1. tokens' \in [Worker -> Nat]
    BY <1>5, CounterType DEF Tick
  <2> QED
    BY <1>5, <2>1, Zenon DEF Tick
<1>6. ASSUME NEW w \in Worker, RxLoop(w) \/ RxPoll(w) \/ RxPollFails(w) \/ RxDrain(w) PROVE TypeOK'
  BY <1>6, Zenon DEF RxLoop, RxPoll, RxPollFails, RxDrain
<1>7. ASSUME NEW w \in Worker, RxReadStop(w) PROVE TypeOK'
  <2>1. stop_efd' \in [Worker -> Nat]
    BY <1>7, CounterType DEF RxReadStop
  <2> QED
    BY <1>7, <2>1 DEF RxReadStop
<1>8. ASSUME NEW w \in Worker, RxSkip(w) PROVE TypeOK'
  BY <1>8, AdvanceType, Zenon DEF RxSkip
<1>9. ASSUME NEW w \in Worker, RxPeek(w) PROVE TypeOK'
  <2>1. Front(w) \in Nat /\ Append(frame_q[w], Front(w)) \in Seq(Nat)
    BY DEF Front
  <2>2. frame_q' \in [Worker -> Seq(Nat)]
    BY <1>9, <2>1, Zenon DEF RxPeek
  <2>3. ring' \in [Worker -> [Slot -> Nat]] /\ rx_idx' \in [Worker -> Slot]
    BY <1>9, AdvanceType, Zenon DEF RxPeek
  <2>4. dropped' \in [Worker -> Nat]
    <3>1. dropped' = dropped \/ dropped' = [dropped EXCEPT ![w] = @ + 1]
      BY <1>9 DEF RxPeek
    <3>2. dropped \in [Worker -> Nat]
      OBVIOUS
    <3>3. [dropped EXCEPT ![w] = @ + 1] \in [Worker -> Nat]
      BY <3>2, CounterType
    <3> QED
      BY <3>1, <3>2, <3>3, Zenon
  <2>5. rx' \in [Worker -> RxPC]
    BY <1>9, Zenon DEF RxPeek
  <2> QED
    BY <1>9, <2>2, <2>3, <2>4, <2>5, Zenon DEF RxPeek
<1>10. ASSUME NEW w \in Worker, RxSignal(w) PROVE TypeOK'
  BY <1>10, AdvanceType, Zenon DEF RxSignal
<1>11. ASSUME NEW w \in Worker, ProcLoop(w) \/ ProcPoll(w) \/ ProcPollFails(w) \/ ProcCongested(w)
       PROVE  TypeOK'
  BY <1>11, Zenon DEF ProcLoop, ProcPoll, ProcPollFails, ProcCongested
<1>12. ASSUME NEW w \in Worker, ProcPop(w) PROVE TypeOK'
  <2>1. ASSUME frame_q[w] # <<>>
        PROVE  Tail(frame_q[w]) \in Seq(Nat) /\ Append(processed[w], Head(frame_q[w])) \in Seq(Nat)
    <3>1. frame_q[w] \in Seq(Nat) /\ processed[w] \in Seq(Nat)
      OBVIOUS
    <3> QED
      BY <2>1, <3>1
  <2>2. /\ frame_q[w] = <<>> => UNCHANGED <<frame_q, processed>>
        /\ frame_q[w] # <<>> =>
             /\ frame_q' = [frame_q EXCEPT ![w] = Tail(frame_q[w])]
             /\ processed' = [processed EXCEPT ![w] = Append(processed[w], Head(frame_q[w]))]
    BY <1>12 DEF ProcPop
  <2>3. frame_q' \in [Worker -> Seq(Nat)]
    BY <2>1, <2>2, Zenon
  <2>4. processed' \in [Worker -> Seq(Nat)]
    BY <2>1, <2>2, Zenon
  <2>5. [backlog EXCEPT ![w] = IF @ < Backlog THEN @ + 1 ELSE @] \in [Worker -> Nat]
    OBVIOUS
  <2>6. backlog' \in [Worker -> Nat] /\ proc' \in [Worker -> ProcPC]
    BY <1>12, <2>5, Zenon DEF ProcPop
  <2> QED
    BY <1>12, <2>3, <2>4, <2>6, Zenon DEF ProcPop
<1>13. ASSUME NEW w \in Worker, ProcShape(w) PROVE TypeOK'
  <2>1. backlog' \in [Worker -> Nat] /\ tokens' \in [Worker -> Nat]
    <3>1. \/ UNCHANGED <<backlog, tokens>>
          \/ /\ backlog[w] > 0 /\ backlog' = [backlog EXCEPT ![w] = @ - 1]
             /\ tokens[w] > 0 /\ tokens' = [tokens EXCEPT ![w] = @ - 1]
      BY <1>13 DEF ProcShape
    <3>2. backlog \in [Worker -> Nat] /\ tokens \in [Worker -> Nat]
      OBVIOUS
    <3>3. /\ backlog[w] > 0 => [backlog EXCEPT ![w] = @ - 1] \in [Worker -> Nat]
          /\ tokens[w] > 0 => [tokens EXCEPT ![w] = @ - 1] \in [Worker -> Nat]
      BY <3>2, CounterType
    <3> QED
      BY <3>1, <3>2, <3>3, Zenon
  <2>2. proc' \in [Worker -> ProcPC]
    BY <1>13, Zenon DEF ProcShape
  <2> QED
    BY <1>13, <2>1, <2>2, Zenon DEF ProcShape
<1>14. ASSUME NEW w \in Worker, ProcReadStop(w) PROVE TypeOK'
  <2>1. stop_efd' \in [Worker -> Nat]
    BY <1>14, CounterType DEF ProcReadStop
  <2> QED
    BY <1>14, <2>1 DEF ProcReadStop
<1>15. ASSUME NEW w \in Worker, ProcReadFrame(w) PROVE TypeOK'
  <2>1. frame_efd' \in [Worker -> BOOLEAN]
    BY <1>15 DEF ProcReadFrame
  <2> QED
    BY <1>15, <2>1 DEF ProcReadFrame
<1>16. CASE UNCHANGED vars
  BY <1>16 DEF vars
<1> QED
  BY <1>1, <1>2, <1>3, <1>4, <1>5, <1>6, <1>7, <1>8, <1>9, <1>10, <1>11, <1>12, <1>13,
     <1>14, <1>15, <1>16, Zenon
     DEF Next, StopStep, RxStep, ProcStep

(***************************************************************************)
(* The rest of the invariant, for the worker u.                            *)
(***************************************************************************)
\* A step that leaves the ring and the queue of u alone only has to mind
\* where its two threads are.
LEMMA QuietStep ==
  ASSUME IInv, NEW u \in Worker,
         UNCHANGED <<ring[u], rx_idx[u], head[u], frame_q[u]>>,
         rx'[u] = "signal" <=> rx[u] = "signal",
         proc'[u] \in {"shape", "poll"} => proc[u] \in {"shape", "poll"} \/ frame_q[u] = <<>>,
         frame_efd[u] => frame_efd'[u] \/ proc'[u] \notin {"shape", "poll"}
  PROVE  Good(u)'
BY DEF IInv, Good, RingInStep, InStep, SignalsHeldFrame, WakeOwed, Front

\* A step that gives back the slot the RX thread looks at.
LEMMA AdvanceStep ==
  ASSUME IInv, NEW w \in Worker, advance_frame(w), Front(w) # Kernel, UNCHANGED head
  PROVE  \A u \in Worker : RingInStep(u)'
<1> SUFFICES ASSUME NEW u \in Worker PROVE RingInStep(u)'
  OBVIOUS
<1> USE DEF IInv, TypeOK, Good, RingInStep, Front
<1>1. CASE u = w
  <2>1. InStep([ring[w] EXCEPT ![rx_idx[w]] = Kernel], NextSlot(rx_idx[w]), head[w])
    BY AdvanceInStep, Zenon
  <2> QED
    BY <1>1, <2>1 DEF advance_frame
<1>2. CASE u # w
  BY <1>2 DEF advance_frame
<1> QED
  BY <1>1, <1>2

LEMMA StepGood ==
  ASSUME IInv, [Next]_vars, NEW u \in Worker
  PROVE  Good(u)'
<1>0. TypeOK /\ Good(u)
  BY DEF IInv
<1> USE DEF TypeOK, RxGoto, ProcGoto, sync, nic, wire, counts, shaper
<1>1. CASE Stop \/ WakeWorkers \/ JoinAndClose
  BY <1>0, <1>1, QuietStep, Zenon DEF Stop, WakeWorkers, JoinAndClose
<1>2. ASSUME NEW w \in Worker, NEW out \in BOOLEAN, Arrive(w, out) PROVE Good(u)'
  <2>1. CASE u = w
    <3>1. InStep([ring[w] EXCEPT ![head[w]] = arrived[w] + 1], rx_idx[w], NextSlot(head[w]))
      <4>1. ring[w] \in [Slot -> Nat] /\ rx_idx[w] \in Slot /\ head[w] \in Slot
        BY <1>0
      <4>2. ring[w][head[w]] = Kernel
        BY <1>2 DEF Arrive
      <4>3. arrived[w] + 1 \in Nat \ {Kernel}
        <5>1. arrived[w] \in Nat
          BY <1>0
        <5> QED
          BY <5>1 DEF Kernel
      <4>4. InStep(ring[w], rx_idx[w], head[w])
        BY <1>0, <2>1 DEF Good, RingInStep
      <4> QED
        BY <4>1, <4>2, <4>3, <4>4, FillInStep
    <3>2. ring'[w] = [ring[w] EXCEPT ![head[w]] = arrived[w] + 1] /\ head'[w] = NextSlot(head[w])
      BY <1>0, <1>2 DEF Arrive
    <3>3. RingInStep(u)'
      BY <1>2, <2>1, <3>1, <3>2 DEF Arrive, RingInStep
    <3>4. Front(w) # Kernel => Front(w)' # Kernel
      BY <1>0, <1>2, <3>2 DEF Arrive, Front
    <3> QED
      BY <1>0, <1>2, <2>1, <3>3, <3>4 DEF Arrive, Good, SignalsHeldFrame, WakeOwed
  <2>2. CASE u # w
    BY <1>0, <1>2, <2>2, QuietStep DEF Arrive
  <2> QED
    BY <2>1, <2>2
<1>3. ASSUME NEW w \in Worker, Tick(w) PROVE Good(u)'
  BY <1>0, <1>3, QuietStep DEF Tick
<1>4. ASSUME NEW w \in Worker,
             RxLoop(w) \/ RxPoll(w) \/ RxPollFails(w) \/ RxReadStop(w) \/ RxDrain(w)
      PROVE  Good(u)'
  BY <1>0, <1>4, QuietStep, Zenon DEF RxLoop, RxPoll, RxPollFails, RxReadStop, RxDrain
<1>5. ASSUME NEW w \in Worker, RxSkip(w) PROVE Good(u)'
  <2>1. Front(w) # Kernel
    BY <1>5 DEF RxSkip, peek_frame
  <2>2. RingInStep(u)'
    BY <1>5, <2>1, AdvanceStep DEF RxSkip
  <2>3. u # w => Front(u)' = Front(u)
    BY <1>0, <1>5 DEF RxSkip, advance_frame, Front
  <2> QED
    BY <1>0, <1>5, <2>2, <2>3 DEF RxSkip, Good, SignalsHeldFrame, WakeOwed
<1>6. ASSUME NEW w \in Worker, RxPeek(w) PROVE Good(u)'
  <2>1. CASE peek_frame(w) = "none"
    BY <1>0, <1>6, <2>1, QuietStep, Zenon DEF RxPeek
  <2>2. CASE peek_frame(w) = "frame" /\ UNCHANGED nic
    <3>1. Front(w) # Kernel
      BY <2>2 DEF peek_frame
    <3>2. RingInStep(u)'
      BY <1>0, <1>6, <2>2 DEF RxPeek, Good, RingInStep
    <3>3. UNCHANGED Front(u)
      BY <2>2 DEF Front
    <3>4. CASE /\ rx' = [rx EXCEPT ![w] = "signal"]
               /\ frame_q' = [frame_q EXCEPT ![w] = Append(@, Front(w))]
      BY <1>0, <1>6, <3>1, <3>2, <3>3, <3>4, Zenon
         DEF RxPeek, Good, SignalsHeldFrame, WakeOwed
    <3>5. CASE rx' = [rx EXCEPT ![w] = "drain"] /\ UNCHANGED frame_q
      BY <1>0, <1>6, <3>2, <3>3, <3>5, Zenon DEF RxPeek, Good, SignalsHeldFrame, WakeOwed
    <3> QED
      BY <1>6, <2>2, <3>4, <3>5 DEF RxPeek
  <2>3. CASE peek_frame(w) = "frame" /\ advance_frame(w) /\ RxGoto(w, "drain") /\ UNCHANGED frame_q
    <3>1. Front(w) # Kernel
      BY <2>3 DEF peek_frame
    <3>2. RingInStep(u)'
      BY <1>6, <2>3, <3>1, AdvanceStep DEF RxPeek
    <3>3. u # w => Front(u)' = Front(u)
      BY <1>0, <2>3 DEF advance_frame, Front
    <3> QED
      BY <1>0, <1>6, <2>3, <3>2, <3>3, Zenon DEF RxPeek, Good, SignalsHeldFrame, WakeOwed
  <2> QED
    BY <1>6, <2>1, <2>2, <2>3 DEF RxPeek
<1>7. ASSUME NEW w \in Worker, RxSignal(w) PROVE Good(u)'
  <2>1. Front(w) # Kernel
    BY <1>7 DEF RxSignal, IInv, Good, SignalsHeldFrame
  <2>2. RingInStep(u)'
    BY <1>7, <2>1, AdvanceStep DEF RxSignal
  <2>3. u # w => Front(u)' = Front(u)
    BY <1>0, <1>7 DEF RxSignal, advance_frame, Front
  <2> QED
    BY <1>0, <1>7, <2>2, <2>3 DEF RxSignal, Good, SignalsHeldFrame, WakeOwed
<1>8. ASSUME NEW w \in Worker,
             ProcLoop(w) \/ ProcShape(w) \/ ProcCongested(w) \/ ProcPoll(w) \/ ProcPollFails(w)
      PROVE  Good(u)'
  BY <1>0, <1>8, QuietStep, Zenon
     DEF ProcLoop, ProcShape, ProcCongested, ProcPoll, ProcPollFails
<1>9. ASSUME NEW w \in Worker, ProcReadStop(w) \/ ProcReadFrame(w) PROVE Good(u)'
  BY <1>0, <1>9, QuietStep, Zenon DEF ProcReadStop, ProcReadFrame
<1>10. ASSUME NEW w \in Worker, ProcPop(w) PROVE Good(u)'
  <2>1. CASE u # w \/ frame_q[w] = <<>>
    BY <1>0, <1>10, <2>1, QuietStep, Zenon DEF ProcPop
  <2>2. CASE u = w /\ frame_q[w] # <<>>
    BY <1>0, <1>10, <2>2 DEF ProcPop, Good, RingInStep, SignalsHeldFrame, WakeOwed, Front
  <2> QED
    BY <2>1, <2>2
<1>11. CASE UNCHANGED vars
  BY <1>0, <1>11, QuietStep DEF vars
<1> QED
  BY <1>1, <1>2, <1>3, <1>4, <1>5, <1>6, <1>7, <1>8, <1>9, <1>10, <1>11
     DEF Next, StopStep, RxStep, ProcStep

\* What the runs check follows from the invariant.
LEMMA Stranding == IInv => NoStrandedFrame
BY DEF IInv, TypeOK, Good, RingInStep, InStep, NoStrandedFrame, Front, Slot

LEMMA Waking == IInv => NoLostWakeup
BY DEF IInv, Good, WakeOwed, NoLostWakeup

(***************************************************************************)
(* Theorems                                                                *)
(***************************************************************************)
\* IInv holds in every state Forward_Engine and the socket ring can reach.
THEOREM Invariance == Spec => []IInv
<1>1. IInv /\ [Next]_vars => IInv'
  BY StepType, StepGood DEF IInv
<1> QED
  BY InitIInv, <1>1, PTL DEF Spec

\* However the kernel fills the ring and the RX thread skips, drops and hands
\* on frames, rx_idx never waits on an empty slot while another holds a frame.
THEOREM NoFrameStranded == Spec => []NoStrandedFrame
BY Invariance, Stranding, PTL

\* However the RX thread's push and signal fall between the processing
\* thread's last look at the queue and its poll, the poll returns.
THEOREM NoWakeupLost == Spec => []NoLostWakeup
BY Invariance, Waking, PTL

(***************************************************************************)
(* The order of the frames and their count.                                *)
(***************************************************************************)
Taken(w) == processed[w] \o frame_q[w]

\* The slot whose frame is in the queue already, between push and release.
Held(w) == IF rx[w] = "signal" THEN {rx_idx[w]} ELSE {}

\* How far the slot k is from the one at i, going round the ring.
Ahead(i, k) == IF k >= i THEN k - i ELSE k - i + FrameNr

\* The frames in the ring are younger the further they are from rx_idx, and
\* all of them younger than the frames taken out of it.
InOrder(slots, i, held, taken, out, n) ==
  /\ \A k \in Slot : slots[k] <= n
  /\ \A k, l \in Slot : slots[k] # Kernel /\ slots[l] # Kernel /\ Ahead(i, k) < Ahead(i, l) =>
                          slots[k] < slots[l]
  /\ \A a, b \in 1 .. Len(taken) : a < b => taken[a] < taken[b]
  /\ \A a \in 1 .. Len(taken) : taken[a] <= n /\ taken[a] \notin out
  /\ \A a \in 1 .. Len(taken), k \in Slot :
       slots[k] # Kernel /\ k \notin held => taken[a] < slots[k]
  /\ \A o \in out : o <= n

\* The slots with a frame still to be handed on.
Pending(slots, held, out) ==
  {k \in Slot : slots[k] # Kernel /\ slots[k] \notin out /\ k \notin held}

\* Every frame that is not our own is taken, to be handed on, or dropped.
Tally(slots, held, taken, out, n, lost) ==
  /\ IsFiniteSet(out)
  /\ Len(taken) + Cardinality(Pending(slots, held, out)) + lost = n - Cardinality(out)

Ordered(w) == InOrder(ring[w], rx_idx[w], Held(w), Taken(w), outgoing[w], arrived[w])
Counted(w) == Tally(ring[w], Held(w), Taken(w), outgoing[w], arrived[w], dropped[w])
OrderInv == \A w \in Worker : Ordered(w) /\ Counted(w)

\* The kernel puts the youngest frame behind all others.
LEMMA FillInOrder ==
  ASSUME NEW slots \in [Slot -> Nat], NEW i \in Slot, NEW h \in Slot, NEW held \in SUBSET Slot,
         NEW taken \in Seq(Nat), NEW out \in SUBSET Nat, NEW n \in Nat,
         InStep(slots, i, h), slots[h] = Kernel, InOrder(slots, i, held, taken, out, n),
         NEW filled, filled = [slots EXCEPT ![h] = n + 1]
  PROVE  /\ InOrder(filled, i, held, taken, out, n + 1)
         /\ InOrder(filled, i, held, taken, out \cup {n + 1}, n + 1)
<1>1. \A k \in Slot : filled[k] = IF k = h THEN n + 1 ELSE slots[k]
  OBVIOUS
<1>2. \A k \in Slot : slots[k] \in Nat /\ slots[k] <= n
  BY DEF InOrder
<1>3. ASSUME NEW k \in Slot, slots[k] # Kernel PROVE Ahead(i, k) < Ahead(i, h)
  BY <1>3, ForwardConstants DEF InStep, Ahead, Slot
<1>4. \A k \in Slot : Ahead(i, k) \in Int
  BY ForwardConstants DEF Ahead, Slot
<1>5. \A a \in 1 .. Len(taken) : taken[a] \in Nat /\ taken[a] <= n
  BY DEF InOrder
<1>6. \A k \in Slot : filled[k] <= n + 1
  BY <1>1, <1>2
<1>7. ASSUME NEW k \in Slot, NEW l \in Slot, filled[k] # Kernel, filled[l] # Kernel,
             Ahead(i, k) < Ahead(i, l)
      PROVE  filled[k] < filled[l]
  <2>1. CASE l = h
    BY <1>1, <1>2, <1>4, <1>7, <2>1
  <2>2. CASE l # h /\ k = h
    <3>1. Ahead(i, l) < Ahead(i, h)
      BY <1>1, <1>3, <1>7, <2>2
    <3> QED
      BY <1>4, <1>7, <2>2, <3>1
  <2>3. CASE l # h /\ k # h
    BY <1>1, <1>7, <2>3 DEF InOrder
  <2> QED
    BY <2>1, <2>2, <2>3
<1>8. \A a \in 1 .. Len(taken) : taken[a] <= n + 1 /\ taken[a] \notin out \cup {n + 1}
  BY <1>5 DEF InOrder
<1>9. ASSUME NEW a \in 1 .. Len(taken), NEW k \in Slot, filled[k] # Kernel, k \notin held
      PROVE  taken[a] < filled[k]
  <2>1. CASE k = h
    BY <1>1, <1>5, <2>1
  <2>2. CASE k # h
    BY <1>1, <1>9, <2>2 DEF InOrder
  <2> QED
    BY <2>1, <2>2
<1>10. \A o \in out \cup {n + 1} : o <= n + 1
  BY DEF InOrder
<1>11. \A a, b \in 1 .. Len(taken) : a < b => taken[a] < taken[b]
  BY DEF InOrder
<1> QED
  BY <1>6, <1>7, <1>8, <1>9, <1>10, <1>11 DEF InOrder

\* advance_frame takes the oldest frame away.
LEMMA AdvanceInOrder ==
  ASSUME NEW slots \in [Slot -> Nat], NEW i \in Slot, NEW held \in SUBSET {i},
         NEW taken \in Seq(Nat), NEW out \in SUBSET Nat, NEW n \in Nat,
         InOrder(slots, i, held, taken, out, n), NEW rest, rest = [slots EXCEPT ![i] = Kernel]
  PROVE  InOrder(rest, NextSlot(i), {}, taken, out, n)
<1>1. \A k \in Slot : rest[k] = IF k = i THEN Kernel ELSE slots[k]
  OBVIOUS
<1>2. NextSlot(i) = (IF i = FrameNr - 1 THEN 0 ELSE i + 1)
  BY NextSlotValue
<1>3. \A k \in Slot : k # i => Ahead(NextSlot(i), k) = Ahead(i, k) - 1
  BY <1>2, ForwardConstants DEF Ahead, Slot
<1>4. \A k \in Slot : Ahead(i, k) \in Int
  BY ForwardConstants DEF Ahead, Slot
<1>5. ASSUME NEW k \in Slot, NEW l \in Slot, rest[k] # Kernel, rest[l] # Kernel,
             Ahead(NextSlot(i), k) < Ahead(NextSlot(i), l)
      PROVE  rest[k] < rest[l]
  <2>1. k # i /\ l # i /\ rest[k] = slots[k] /\ rest[l] = slots[l]
    BY <1>1, <1>5
  <2>2. Ahead(i, k) < Ahead(i, l)
    BY <1>3, <1>4, <1>5, <2>1
  <2> QED
    BY <1>5, <2>1, <2>2 DEF InOrder
<1>6. \A k \in Slot : rest[k] <= n
  BY <1>1 DEF InOrder, Kernel
<1>7. \A a \in 1 .. Len(taken), k \in Slot : rest[k] # Kernel => taken[a] < rest[k]
  BY <1>1 DEF InOrder
<1>8. /\ \A a, b \in 1 .. Len(taken) : a < b => taken[a] < taken[b]
      /\ \A a \in 1 .. Len(taken) : taken[a] <= n /\ taken[a] \notin out
      /\ \A o \in out : o <= n
  BY DEF InOrder
<1> QED
  BY <1>5, <1>6, <1>7, <1>8 DEF InOrder

\* frame_q.push takes the oldest frame as the youngest of those taken.
LEMMA PushInOrder ==
  ASSUME NEW slots \in [Slot -> Nat], NEW i \in Slot, NEW taken \in Seq(Nat),
         NEW out \in SUBSET Nat, NEW n \in Nat,
         slots[i] # Kernel, slots[i] \notin out, InOrder(slots, i, {}, taken, out, n)
  PROVE  InOrder(slots, i, {i}, Append(taken, slots[i]), out, n)
<1> DEFINE grown == Append(taken, slots[i])
<1>1. /\ Len(grown) = Len(taken) + 1 /\ Len(taken) \in Nat
      /\ \A a \in 1 .. Len(taken) : grown[a] = taken[a]
      /\ grown[Len(taken) + 1] = slots[i]
  OBVIOUS
<1>2. \A a \in 1 .. Len(grown) : a \in 1 .. Len(taken) \/ grown[a] = slots[i]
  BY <1>1
<1>3. \A k \in Slot : k # i => Ahead(i, i) < Ahead(i, k)
  BY ForwardConstants DEF Ahead, Slot
<1> HIDE DEF grown
<1>4. \A a \in 1 .. Len(taken) : taken[a] < slots[i]
  BY DEF InOrder
<1>5. ASSUME NEW a \in 1 .. Len(grown), NEW b \in 1 .. Len(grown), a < b PROVE grown[a] < grown[b]
  <2>1. a \in 1 .. Len(taken)
    BY <1>1, <1>5
  <2>2. CASE b \in 1 .. Len(taken)
    BY <1>1, <1>5, <2>1, <2>2 DEF InOrder
  <2>3. CASE b \notin 1 .. Len(taken)
    BY <1>1, <1>2, <1>4, <2>1, <2>3
  <2> QED
    BY <2>2, <2>3
<1>6. ASSUME NEW a \in 1 .. Len(grown) PROVE grown[a] <= n /\ grown[a] \notin out
  BY <1>1, <1>2 DEF InOrder
<1>7. ASSUME NEW a \in 1 .. Len(grown), NEW k \in Slot, slots[k] # Kernel, k # i
      PROVE  grown[a] < slots[k]
  BY <1>1, <1>2, <1>3, <1>7 DEF InOrder
<1>8. (\A k \in Slot : slots[k] <= n) /\ \A o \in out : o <= n
  BY DEF InOrder
<1>9. \A k, l \in Slot : slots[k] # Kernel /\ slots[l] # Kernel /\ Ahead(i, k) < Ahead(i, l) =>
                           slots[k] < slots[l]
  BY DEF InOrder
<1>10. \A a \in 1 .. Len(grown), k \in Slot :
         slots[k] # Kernel /\ k \notin {i} => grown[a] < slots[k]
  BY <1>7
<1> QED
  BY <1>5, <1>6, <1>8, <1>9, <1>10, Zenon DEF InOrder, grown

LEMMA WithoutOne ==
  ASSUME NEW S, NEW x \in S, IsFiniteSet(S)
  PROVE  Cardinality(S \ {x}) = Cardinality(S) - 1
BY FS_RemoveElement

LEMMA PendingFinite ==
  ASSUME NEW slots, NEW held, NEW out
  PROVE  /\ IsFiniteSet(Pending(slots, held, out))
         /\ Cardinality(Pending(slots, held, out)) \in Nat
<1>1. IsFiniteSet(Slot)
  BY ForwardConstants, FS_Interval DEF Slot
<1> QED
  BY <1>1, FS_Subset, FS_CardinalityType DEF Pending

\* Popping a frame from the queue and processing it leaves what was taken.
LEMMA TakenPops ==
  ASSUME NEW p \in Seq(Nat), NEW q \in Seq(Nat), q # <<>>
  PROVE  Append(p, Head(q)) \o Tail(q) = p \o q
OBVIOUS

\* A frame pushed to the queue is the last one taken.
LEMMA TakenPushes ==
  ASSUME NEW p \in Seq(Nat), NEW q \in Seq(Nat), NEW x \in Nat
  PROVE  p \o Append(q, x) = Append(p \o q, x)
OBVIOUS

LEMMA TakenType == ASSUME NEW p \in Seq(Nat), NEW q \in Seq(Nat) PROVE p \o q \in Seq(Nat)
OBVIOUS

\* What TypeOK says of one worker, without its threads' other variables.
LEMMA WorkerType ==
  ASSUME TypeOK, NEW w \in Worker
  PROVE  /\ ring[w] \in [Slot -> Nat] /\ rx_idx[w] \in Slot /\ head[w] \in Slot
         /\ arrived[w] \in Nat /\ outgoing[w] \in SUBSET Nat /\ dropped[w] \in Nat
         /\ processed[w] \in Seq(Nat) /\ frame_q[w] \in Seq(Nat)
         /\ Taken(w) \in Seq(Nat) /\ Held(w) \in SUBSET {rx_idx[w]}
<1>1. /\ ring[w] \in [Slot -> Nat] /\ rx_idx[w] \in Slot /\ head[w] \in Slot
      /\ arrived[w] \in Nat /\ outgoing[w] \in SUBSET Nat /\ dropped[w] \in Nat
  BY DEF TypeOK
<1>2. processed[w] \in Seq(Nat) /\ frame_q[w] \in Seq(Nat)
  BY DEF TypeOK
<1>3. Taken(w) \in Seq(Nat)
  BY <1>2, TakenType, Zenon DEF Taken
<1>4. Held(w) \in SUBSET {rx_idx[w]}
  BY DEF Held
<1> QED
  BY <1>1, <1>2, <1>3, <1>4

LEMMA OrderKeeps ==
  ASSUME NEW u \in Worker, Ordered(u), Counted(u),
         UNCHANGED <<ring[u], rx_idx[u], Held(u), Taken(u), outgoing[u], arrived[u], dropped[u]>>
  PROVE  Ordered(u)' /\ Counted(u)'
BY DEF Ordered, Counted

\* A frame put into an empty slot is to be handed on, unless it is our own.
LEMMA FillTally ==
  ASSUME NEW slots \in [Slot -> Nat], NEW i \in Slot, NEW h \in Slot, NEW held \in SUBSET Slot,
         NEW taken \in Seq(Nat), NEW out \in SUBSET Nat, NEW n \in Nat, NEW lost \in Nat,
         InOrder(slots, i, held, taken, out, n), Tally(slots, held, taken, out, n, lost),
         slots[h] = Kernel, h \notin held,
         NEW filled, filled = [slots EXCEPT ![h] = n + 1]
  PROVE  /\ Tally(filled, held, taken, out, n + 1, lost)
         /\ Tally(filled, held, taken, out \cup {n + 1}, n + 1, lost)
<1> DEFINE own == out \cup {n + 1}
           before == Pending(slots, held, out)
<1>1. \A k \in Slot : filled[k] = IF k = h THEN n + 1 ELSE slots[k]
  OBVIOUS
<1>2. \A k \in Slot : slots[k] \in Nat /\ slots[k] \notin {n + 1}
  BY DEF InOrder
<1>3. n + 1 \notin out /\ n + 1 # Kernel /\ h \notin before
  BY DEF Kernel, Pending, InOrder
<1>4. Pending(filled, held, out) = before \cup {h}
  BY <1>1, <1>3 DEF Pending
<1>5. Pending(filled, held, own) = before
  BY <1>1, <1>2, <1>3 DEF Pending
<1>6. /\ IsFiniteSet(out) /\ Len(taken) + Cardinality(before) + lost = n - Cardinality(out)
      /\ IsFiniteSet(before) /\ Cardinality(before) \in Nat
  BY PendingFinite DEF Tally
<1>7. Cardinality(out) \in Nat /\ Len(taken) \in Nat
  BY <1>6, FS_CardinalityType
<1> HIDE DEF before
<1>8. Cardinality(before \cup {h}) = Cardinality(before) + 1
  BY <1>3, <1>6, FS_AddElement, Zenon
<1>9. IsFiniteSet(own) /\ Cardinality(own) = Cardinality(out) + 1
  BY <1>3, <1>6, FS_AddElement, Zenon
<1> HIDE DEF own
<1>10. PICK t \in Nat, b \in Nat, c \in Nat :
         t = Len(taken) /\ b = Cardinality(before) /\ c = Cardinality(out)
  BY <1>6, <1>7, Zenon
<1>11. t + b + lost = n - c
  BY <1>6, <1>10, Zenon
<1>12. t + (b + 1) + lost = (n + 1) - c /\ t + b + lost = (n + 1) - (c + 1)
  BY <1>11
<1>13. Tally(filled, held, taken, out, n + 1, lost)
  BY <1>4, <1>6, <1>8, <1>10, <1>12, Zenon DEF Tally
<1>14. Tally(filled, held, taken, own, n + 1, lost)
  BY <1>5, <1>9, <1>10, <1>12, Zenon DEF Tally
<1> QED
  BY <1>13, <1>14 DEF own

\* A slot is given back: its frame was queued before, is our own, or is lost.
LEMMA AdvanceTally ==
  ASSUME NEW slots \in [Slot -> Nat], NEW i \in Slot, NEW held \in SUBSET {i},
         NEW taken \in Seq(Nat), NEW out \in SUBSET Nat, NEW n \in Nat, NEW lost \in Nat,
         slots[i] # Kernel, Tally(slots, held, taken, out, n, lost),
         NEW rest, rest = [slots EXCEPT ![i] = Kernel]
  PROVE  /\ held # {} \/ slots[i] \in out => Tally(rest, {}, taken, out, n, lost)
         /\ held = {} /\ slots[i] \notin out => Tally(rest, {}, taken, out, n, lost + 1)
<1> DEFINE before == Pending(slots, held, out)
<1>1. \A k \in Slot : rest[k] = IF k = i THEN Kernel ELSE slots[k]
  OBVIOUS
<1>2. Pending(rest, {}, out) = before \ {i}
  BY <1>1 DEF Pending
<1>3. i \in before <=> held = {} /\ slots[i] \notin out
  BY DEF Pending
<1>4. /\ IsFiniteSet(out) /\ Len(taken) + Cardinality(before) + lost = n - Cardinality(out)
      /\ IsFiniteSet(before) /\ Cardinality(before) \in Nat /\ Len(taken) \in Nat
  BY PendingFinite DEF Tally
<1> HIDE DEF before
<1>5. CASE i \notin before
  <2>1. before \ {i} = before
    BY <1>5
  <2> QED
    BY <1>2, <1>3, <1>4, <1>5, <2>1, Zenon DEF Tally
<1>6. CASE i \in before
  <2>1. Cardinality(before \ {i}) = Cardinality(before) - 1
    BY <1>4, <1>6, WithoutOne, Zenon
  <2>2. PICK t \in Nat, b \in Nat : t = Len(taken) /\ b = Cardinality(before)
    BY <1>4, Zenon
  <2>3. t + (b - 1) + (lost + 1) = t + b + lost
    OBVIOUS
  <2>4. Tally(rest, {}, taken, out, n, lost + 1)
    BY <1>2, <1>4, <2>1, <2>2, <2>3, Zenon DEF Tally
  <2> QED
    BY <1>3, <1>6, <2>4, Zenon
<1> QED
  BY <1>5, <1>6

\* The frame handed to the queue is taken and no longer to be handed on.
LEMMA PushTally ==
  ASSUME NEW slots \in [Slot -> Nat], NEW i \in Slot, NEW taken \in Seq(Nat),
         NEW out \in SUBSET Nat, NEW n \in Nat, NEW lost \in Nat,
         slots[i] # Kernel, slots[i] \notin out, Tally(slots, {}, taken, out, n, lost)
  PROVE  Tally(slots, {i}, Append(taken, slots[i]), out, n, lost)
<1> DEFINE before == Pending(slots, {}, out)
<1>1. Pending(slots, {i}, out) = before \ {i} /\ i \in before
  BY DEF Pending
<1>2. /\ IsFiniteSet(out) /\ Len(taken) + Cardinality(before) + lost = n - Cardinality(out)
      /\ IsFiniteSet(before) /\ Cardinality(before) \in Nat /\ Len(taken) \in Nat
  BY PendingFinite DEF Tally
<1>3. Len(Append(taken, slots[i])) = Len(taken) + 1
  OBVIOUS
<1> HIDE DEF before
<1>4. Cardinality(before \ {i}) = Cardinality(before) - 1
  BY <1>1, <1>2, WithoutOne, Zenon
<1>5. PICK t \in Nat, b \in Nat : t = Len(taken) /\ b = Cardinality(before)
  BY <1>2, Zenon
<1>6. (t + 1) + (b - 1) + lost = t + b + lost
  OBVIOUS
<1> QED
  BY <1>1, <1>2, <1>3, <1>4, <1>5, <1>6, Zenon DEF Tally

\* The kernel puts a frame into the ring, one from the wire or one of our own.
LEMMA ArriveOrder ==
  ASSUME IInv, NEW w \in Worker, Ordered(w), Counted(w), ring[w][head[w]] = Kernel,
         ring'[w] = [ring[w] EXCEPT ![head[w]] = arrived[w] + 1], arrived'[w] = arrived[w] + 1,
         \/ outgoing'[w] = outgoing[w]
         \/ outgoing'[w] = outgoing[w] \cup {arrived[w] + 1},
         UNCHANGED <<rx_idx[w], rx[w], processed[w], frame_q[w], dropped[w]>>
  PROVE  Ordered(w)' /\ Counted(w)'
<1> DEFINE n == arrived[w] + 1
           own == outgoing[w] \cup {n}
<1>0. /\ ring[w] \in [Slot -> Nat] /\ rx_idx[w] \in Slot /\ head[w] \in Slot
      /\ arrived[w] \in Nat /\ outgoing[w] \in SUBSET Nat /\ dropped[w] \in Nat
      /\ Taken(w) \in Seq(Nat) /\ Held(w) \in SUBSET Slot
  BY WorkerType DEF IInv
<1>1. Held(w)' = Held(w) /\ Taken(w)' = Taken(w)
  BY DEF Held, Taken
<1>2. InStep(ring[w], rx_idx[w], head[w]) /\ head[w] \notin Held(w)
  BY DEF IInv, Good, RingInStep, SignalsHeldFrame, Held, Front
<1>3. /\ InOrder(ring[w], rx_idx[w], Held(w), Taken(w), outgoing[w], arrived[w])
      /\ Tally(ring[w], Held(w), Taken(w), outgoing[w], arrived[w], dropped[w])
  BY Zenon DEF Ordered, Counted
<1>4. /\ InOrder(ring'[w], rx_idx[w], Held(w), Taken(w), outgoing[w], n)
      /\ InOrder(ring'[w], rx_idx[w], Held(w), Taken(w), own, n)
  BY <1>0, <1>2, <1>3, FillInOrder, Zenon
<1>5. /\ Tally(ring'[w], Held(w), Taken(w), outgoing[w], n, dropped[w])
      /\ Tally(ring'[w], Held(w), Taken(w), own, n, dropped[w])
  BY <1>0, <1>2, <1>3, FillTally, Zenon
<1>6. rx_idx'[w] = rx_idx[w] /\ dropped'[w] = dropped[w]
  BY Zenon
<1> QED
  BY <1>1, <1>4, <1>5, <1>6, Zenon DEF Ordered, Counted

\* The RX thread gives the slot at rx_idx back: the frame was handed on before,
\* or is our own, or is dropped now.
LEMMA ReleaseOrder ==
  ASSUME IInv, NEW w \in Worker, advance_frame(w), Front(w) # Kernel, Ordered(w), Counted(w),
         rx'[w] # "signal", UNCHANGED <<processed[w], frame_q[w], outgoing[w], arrived[w]>>,
         \/ (rx[w] = "signal" \/ Front(w) \in outgoing[w]) /\ dropped'[w] = dropped[w]
         \/ rx[w] # "signal" /\ Front(w) \notin outgoing[w] /\ dropped'[w] = dropped[w] + 1
  PROVE  Ordered(w)' /\ Counted(w)'
<1>0. /\ ring[w] \in [Slot -> Nat] /\ rx_idx[w] \in Slot /\ ring[w][rx_idx[w]] # Kernel
      /\ arrived[w] \in Nat /\ outgoing[w] \in SUBSET Nat /\ dropped[w] \in Nat
      /\ Taken(w) \in Seq(Nat) /\ Held(w) \in SUBSET {rx_idx[w]}
  BY WorkerType, Zenon DEF IInv, Front
<1>1. ring'[w] = [ring[w] EXCEPT ![rx_idx[w]] = Kernel] /\ rx_idx'[w] = NextSlot(rx_idx[w])
  <2>1. ring \in [Worker -> [Slot -> Nat]] /\ rx_idx \in [Worker -> Slot]
    BY Zenon DEF IInv, TypeOK
  <2> QED
    BY <2>1, Zenon DEF advance_frame
<1>2. Held(w)' = {} /\ Taken(w)' = Taken(w)
  BY Zenon DEF Held, Taken
<1>3. /\ InOrder(ring[w], rx_idx[w], Held(w), Taken(w), outgoing[w], arrived[w])
      /\ Tally(ring[w], Held(w), Taken(w), outgoing[w], arrived[w], dropped[w])
  BY Zenon DEF Ordered, Counted
<1>4. InOrder(ring'[w], NextSlot(rx_idx[w]), {}, Taken(w), outgoing[w], arrived[w])
  BY <1>0, <1>1, <1>3, AdvanceInOrder, Zenon
<1>5. /\ Held(w) # {} \/ ring[w][rx_idx[w]] \in outgoing[w]
           => Tally(ring'[w], {}, Taken(w), outgoing[w], arrived[w], dropped[w])
      /\ Held(w) = {} /\ ring[w][rx_idx[w]] \notin outgoing[w]
           => Tally(ring'[w], {}, Taken(w), outgoing[w], arrived[w], dropped[w] + 1)
  BY <1>0, <1>1, <1>3, AdvanceTally, Zenon
<1>6. Held(w) # {} <=> rx[w] = "signal"
  BY Zenon DEF Held
<1>7. Tally(ring'[w], {}, Taken(w), outgoing[w], arrived[w], dropped'[w])
  BY <1>5, <1>6, Zenon DEF Front
<1> QED
  BY <1>1, <1>2, <1>4, <1>7, Zenon DEF Ordered, Counted

\* The RX thread hands the frame at rx_idx to the queue.
LEMMA PushOrder ==
  ASSUME IInv, NEW w \in Worker, Ordered(w), Counted(w), rx[w] = "peek", peek_frame(w) = "frame",
         rx'[w] = "signal", frame_q'[w] = Append(frame_q[w], Front(w)),
         UNCHANGED <<ring[w], rx_idx[w], processed[w], outgoing[w], arrived[w], dropped[w]>>
  PROVE  Ordered(w)' /\ Counted(w)'
<1> DEFINE x == ring[w][rx_idx[w]]
<1>0. /\ ring[w] \in [Slot -> Nat] /\ rx_idx[w] \in Slot /\ arrived[w] \in Nat
      /\ outgoing[w] \in SUBSET Nat /\ dropped[w] \in Nat /\ Taken(w) \in Seq(Nat)
      /\ processed[w] \in Seq(Nat) /\ frame_q[w] \in Seq(Nat)
  BY WorkerType, Zenon DEF IInv
<1>1. x # Kernel /\ x \notin outgoing[w]
  BY DEF peek_frame, Front
<1>2. Held(w) = {} /\ Held(w)' = {rx_idx[w]}
  BY DEF Held
<1>3. Taken(w)' = Append(Taken(w), x)
  <2>1. x \in Nat
    BY <1>0
  <2>2. processed[w] \o Append(frame_q[w], x) = Append(processed[w] \o frame_q[w], x)
    BY <1>0, <2>1, TakenPushes, Zenon
  <2> QED
    BY <2>2 DEF Taken, Front
<1>4. /\ InOrder(ring[w], rx_idx[w], {}, Taken(w), outgoing[w], arrived[w])
      /\ Tally(ring[w], {}, Taken(w), outgoing[w], arrived[w], dropped[w])
  BY <1>2 DEF Ordered, Counted
<1>5. InOrder(ring[w], rx_idx[w], {rx_idx[w]}, Append(Taken(w), x), outgoing[w], arrived[w])
  BY <1>0, <1>1, <1>4, PushInOrder, Zenon
<1>6. Tally(ring[w], {rx_idx[w]}, Append(Taken(w), x), outgoing[w], arrived[w], dropped[w])
  BY <1>0, <1>1, <1>4, PushTally, Zenon
<1> QED
  BY <1>2, <1>3, <1>5, <1>6, Zenon DEF Ordered, Counted

\* A step that leaves the frames of u where they are.
LEMMA QuietOrder ==
  ASSUME NEW u \in Worker, Ordered(u), Counted(u), rx'[u] = "signal" <=> rx[u] = "signal",
         UNCHANGED <<ring[u], rx_idx[u], processed[u], frame_q[u],
                     outgoing[u], arrived[u], dropped[u]>>
  PROVE  Ordered(u)' /\ Counted(u)'
<1>1. UNCHANGED <<Held(u), Taken(u)>>
  BY Zenon DEF Held, Taken
<1> QED
  BY <1>1, OrderKeeps, Zenon

\* The processing thread takes the oldest frame of the queue.
LEMMA PopOrder ==
  ASSUME TypeOK, NEW w \in Worker, Ordered(w), Counted(w), frame_q[w] # <<>>,
         frame_q'[w] = Tail(frame_q[w]), processed'[w] = Append(processed[w], Head(frame_q[w])),
         UNCHANGED <<ring[w], rx_idx[w], rx[w], outgoing[w], arrived[w], dropped[w]>>
  PROVE  Ordered(w)' /\ Counted(w)'
<1>1. processed[w] \in Seq(Nat) /\ frame_q[w] \in Seq(Nat)
  BY WorkerType, Zenon
<1>2. Append(processed[w], Head(frame_q[w])) \o Tail(frame_q[w]) = processed[w] \o frame_q[w]
  BY <1>1, TakenPops, Zenon
<1>3. UNCHANGED <<Held(w), Taken(w)>>
  BY <1>2, Zenon DEF Held, Taken
<1> QED
  BY <1>3, OrderKeeps, Zenon

LEMMA InitOrder == Init => OrderInv
<1> SUFFICES ASSUME Init, NEW w \in Worker PROVE Ordered(w) /\ Counted(w)
  BY DEF OrderInv
<1>1. /\ ring[w] = [k \in Slot |-> Kernel] /\ Held(w) = {} /\ outgoing[w] = {}
      /\ arrived[w] = 0 /\ dropped[w] = 0
  BY DEF Init, Held, Zero
<1>2. Taken(w) \in Seq(Nat) /\ Len(Taken(w)) = 0
  <2>1. processed[w] = <<>> /\ frame_q[w] = <<>> /\ <<>> \in Seq(Nat)
    BY DEF Init
  <2> QED
    BY <2>1 DEF Taken
<1>3. Pending(ring[w], Held(w), outgoing[w]) = {}
  BY <1>1 DEF Pending
<1>4. Ordered(w)
  BY <1>1, <1>2 DEF Ordered, InOrder, Kernel
<1>5. /\ IsFiniteSet(outgoing[w]) /\ Cardinality(outgoing[w]) = 0
      /\ Cardinality(Pending(ring[w], Held(w), outgoing[w])) = 0
  BY <1>1, <1>3, FS_EmptySet, Zenon
<1>6. Counted(w)
  BY <1>1, <1>2, <1>5 DEF Counted, Tally
<1> QED
  BY <1>4, <1>6

LEMMA StepOrder ==
  ASSUME IInv, OrderInv, [Next]_vars, NEW u \in Worker
  PROVE  Ordered(u)' /\ Counted(u)'
<1>0. /\ Ordered(u) /\ Counted(u)
      /\ ring \in [Worker -> [Slot -> Nat]] /\ rx_idx \in [Worker -> Slot]
      /\ arrived \in [Worker -> Nat] /\ outgoing \in [Worker -> SUBSET Nat]
      /\ dropped \in [Worker -> Nat] /\ rx \in [Worker -> RxPC]
      /\ processed \in [Worker -> Seq(Nat)] /\ frame_q \in [Worker -> Seq(Nat)]
  BY DEF IInv, OrderInv, TypeOK
<1> USE DEF RxGoto, ProcGoto, sync, nic, wire, counts, shaper
<1>1. CASE Stop \/ WakeWorkers \/ JoinAndClose
  BY <1>0, <1>1, QuietOrder, Zenon DEF Stop, WakeWorkers, JoinAndClose
<1>2. ASSUME NEW w \in Worker, NEW own \in BOOLEAN, Arrive(w, own) PROVE Ordered(u)' /\ Counted(u)'
  <2>1. CASE u = w
    <3>1. /\ ring[w][head[w]] = Kernel /\ ring'[w] = [ring[w] EXCEPT ![head[w]] = arrived[w] + 1]
          /\ arrived'[w] = arrived[w] + 1
      BY <1>0, <1>2 DEF Arrive
    <3>2. outgoing'[w] = outgoing[w] \/ outgoing'[w] = outgoing[w] \cup {arrived[w] + 1}
      BY <1>0, <1>2 DEF Arrive
    <3>3. UNCHANGED <<rx_idx[w], rx[w], processed[w], frame_q[w], dropped[w]>>
      BY <1>2 DEF Arrive
    <3> QED
      BY <1>0, <2>1, <3>1, <3>2, <3>3, ArriveOrder, Zenon
  <2>2. CASE u # w
    BY <1>0, <1>2, <2>2, QuietOrder DEF Arrive
  <2> QED
    BY <2>1, <2>2
<1>3. ASSUME NEW w \in Worker, Tick(w) PROVE Ordered(u)' /\ Counted(u)'
  BY <1>0, <1>3, QuietOrder DEF Tick
<1>4. ASSUME NEW w \in Worker,
             RxLoop(w) \/ RxPoll(w) \/ RxPollFails(w) \/ RxReadStop(w) \/ RxDrain(w)
      PROVE  Ordered(u)' /\ Counted(u)'
  BY <1>0, <1>4, QuietOrder, Zenon DEF RxLoop, RxPoll, RxPollFails, RxReadStop, RxDrain
<1>5. ASSUME NEW w \in Worker, RxSkip(w) PROVE Ordered(u)' /\ Counted(u)'
  <2>1. CASE u = w
    <3>1. Front(w) # Kernel /\ Front(w) \in outgoing[w] /\ advance_frame(w) /\ rx[w] # "signal"
      BY <1>5, Zenon DEF RxSkip, peek_frame
    <3>2. UNCHANGED <<rx[w], processed[w], frame_q[w], outgoing[w], arrived[w], dropped[w]>>
      BY <1>5 DEF RxSkip
    <3> QED
      BY <1>0, <2>1, <3>1, <3>2, ReleaseOrder, Zenon
  <2>2. CASE u # w
    BY <1>0, <1>5, <2>2, QuietOrder, Zenon DEF RxSkip, advance_frame
  <2> QED
    BY <2>1, <2>2
<1>6. ASSUME NEW w \in Worker, RxPeek(w) PROVE Ordered(u)' /\ Counted(u)'
  <2>1. CASE u # w
    BY <1>0, <1>6, <2>1, QuietOrder, Zenon DEF RxPeek, advance_frame
  <2>2. CASE u = w /\ peek_frame(w) = "none"
    BY <1>0, <1>6, <2>2, QuietOrder, Zenon DEF RxPeek
  <2>3. CASE u = w /\ peek_frame(w) = "frame" /\ Len(frame_q[w]) < QueueCap /\ RxGoto(w, "signal")
    <3>0. rx[w] = "peek"
      BY <1>6 DEF RxPeek
    <3>1. rx'[w] = "signal" /\ frame_q'[w] = Append(frame_q[w], Front(w))
      BY <1>0, <1>6, <2>3 DEF RxPeek
    <3>2. UNCHANGED <<ring[w], rx_idx[w], processed[w], outgoing[w], arrived[w], dropped[w]>>
      BY <1>0, <1>6, <2>3 DEF RxPeek
    <3> QED
      BY <1>0, <2>3, <3>0, <3>1, <3>2, PushOrder, Zenon
  <2>4. CASE u = w /\ peek_frame(w) = "frame" /\ advance_frame(w) /\ RxGoto(w, "drain")
    <3>1. Front(w) # Kernel /\ Front(w) \notin outgoing[w] /\ rx[w] # "signal"
      BY <1>6, <2>4 DEF RxPeek, peek_frame
    <3>2. dropped'[w] = dropped[w] + 1 /\ rx'[w] # "signal"
      BY <1>0, <1>6, <2>4 DEF RxPeek
    <3>3. UNCHANGED <<processed[w], frame_q[w], outgoing[w], arrived[w]>>
      BY <1>0, <1>6, <2>4 DEF RxPeek
    <3> QED
      BY <1>0, <2>4, <3>1, <3>2, <3>3, ReleaseOrder, Zenon
  <2> QED
    BY <1>6, <2>1, <2>2, <2>3, <2>4 DEF RxPeek
<1>7. ASSUME NEW w \in Worker, RxSignal(w) PROVE Ordered(u)' /\ Counted(u)'
  <2>1. CASE u = w
    <3>1. Front(w) # Kernel /\ rx[w] = "signal" /\ advance_frame(w)
      BY <1>7 DEF RxSignal, IInv, Good, SignalsHeldFrame
    <3>2. rx'[w] # "signal"
      BY <1>0, <1>7 DEF RxSignal
    <3>3. UNCHANGED <<processed[w], frame_q[w], outgoing[w], arrived[w], dropped[w]>>
      BY <1>7 DEF RxSignal
    <3> QED
      BY <1>0, <2>1, <3>1, <3>2, <3>3, ReleaseOrder, Zenon
  <2>2. CASE u # w
    BY <1>0, <1>7, <2>2, QuietOrder, Zenon DEF RxSignal, advance_frame
  <2> QED
    BY <2>1, <2>2
<1>8. ASSUME NEW w \in Worker,
             ProcLoop(w) \/ ProcShape(w) \/ ProcCongested(w) \/ ProcPoll(w) \/ ProcPollFails(w)
      PROVE  Ordered(u)' /\ Counted(u)'
  BY <1>0, <1>8, QuietOrder, Zenon
     DEF ProcLoop, ProcShape, ProcCongested, ProcPoll, ProcPollFails
<1>9. ASSUME NEW w \in Worker, ProcReadStop(w) \/ ProcReadFrame(w) PROVE Ordered(u)' /\ Counted(u)'
  BY <1>0, <1>9, QuietOrder, Zenon DEF ProcReadStop, ProcReadFrame
<1>10. ASSUME NEW w \in Worker, ProcPop(w) PROVE Ordered(u)' /\ Counted(u)'
  <2>1. CASE u # w \/ frame_q[w] = <<>>
    BY <1>0, <1>10, <2>1, QuietOrder, Zenon DEF ProcPop
  <2>2. CASE u = w /\ frame_q[w] # <<>>
    <3>1. TypeOK
      BY DEF IInv
    <3>2. frame_q'[w] = Tail(frame_q[w]) /\ processed'[w] = Append(processed[w], Head(frame_q[w]))
      BY <1>0, <1>10, <2>2 DEF ProcPop
    <3>3. UNCHANGED <<ring[w], rx_idx[w], rx[w], outgoing[w], arrived[w], dropped[w]>>
      BY <1>10 DEF ProcPop
    <3> QED
      BY <1>0, <2>2, <3>1, <3>2, <3>3, PopOrder, Zenon
  <2> QED
    BY <2>1, <2>2
<1>11. CASE UNCHANGED vars
  BY <1>0, <1>11, QuietOrder, Zenon DEF vars
<1> QED
  BY <1>1, <1>2, <1>3, <1>4, <1>5, <1>6, <1>7, <1>8, <1>9, <1>10, <1>11
     DEF Next, StopStep, RxStep, ProcStep

LEMMA Ordering == OrderInv => FramesOnceInOrder
<1> SUFFICES ASSUME OrderInv PROVE FramesOnceInOrder
  OBVIOUS
<1>1. ASSUME NEW w \in Worker
      PROVE  /\ \A a, b \in 1 .. Len(Taken(w)) : a < b => Taken(w)[a] < Taken(w)[b]
             /\ \A a \in 1 .. Len(Taken(w)) : Taken(w)[a] \notin outgoing[w]
             /\ Len(Taken(w)) + Cardinality(Waiting(w)) + dropped[w]
                  = arrived[w] - Cardinality(outgoing[w])
  <2>1. Ordered(w) /\ Counted(w)
    BY <1>1 DEF OrderInv
  <2>2. Waiting(w) = Pending(ring[w], Held(w), outgoing[w])
    BY DEF Waiting, Pending, Held
  <2> QED
    BY <2>1, <2>2 DEF Ordered, Counted, Tally, InOrder
<1> QED
  BY <1>1, Zenon DEF FramesOnceInOrder, Taken

\* Every frame from the wire goes through the pipeline once and in the order
\* of arrival or is counted as dropped, and none of our own does, wherever
\* peek_frame, push, advance_frame and pop are when the next frame arrives.
THEOREM FramesOnce == Spec => []FramesOnceInOrder
<1>1. OrderInv /\ IInv /\ [Next]_vars => OrderInv'
  BY StepOrder DEF OrderInv
<1> QED
  BY InitOrder, <1>1, Invariance, Ordering, PTL DEF Spec
=============================================================================
