------------------------------ MODULE SpscRing ------------------------------
(***************************************************************************)
(* SpscRingBuffer<T, Capacity> (include/Headers_util.hpp): the lock-free   *)
(* ring that carries frames from the RX thread to the processing thread of *)
(* a worker (frame_q) and DHCP requests from core 3 to the DHCP worker     *)
(* (request_queue).                                                        *)
(*                                                                         *)
(* push and pop are split at every access the other thread can see: the    *)
(* acquire load of the other side's index, the copy of the slot, which     *)
(* takes as long as its pc stays at "copy", and the release store of the   *)
(* side's own index.  The indices are the only variables both sides touch  *)
(* without an order between them, and they are acquire/release atomics, so *)
(* interleaving these steps is the memory model the code relies on.        *)
(***************************************************************************)
EXTENDS Naturals, Sequences

CONSTANTS Item,       \* what a slot can hold
          Capacity    \* the number of slots

ASSUME CapacityAssumption == Capacity \in Nat \ {0, 1}
ASSUME ItemAssumption == Item # {}

VARIABLES buffer,     \* buffer[i], the slots
          head, tail, \* the two atomic indices
          ppc, pitem, \* push: program counter and argument
          cpc, citem  \* pop: program counter and result

ringVars == <<buffer, head, tail, ppc, pitem, cpc, citem>>
producer == <<ppc, pitem>>
consumer == <<cpc, citem>>

RingSlots == 0 .. Capacity - 1

NextIndex(i) == (i + 1) % Capacity

RingInit == /\ \E x \in Item : buffer = [i \in RingSlots |-> x]
            /\ head = 0
            /\ tail = 0
            /\ ppc = "idle"
            /\ pitem = buffer[0]
            /\ cpc = "idle"
            /\ citem = buffer[0]

(***************************************************************************)
(* push(item)                                                              *)
(***************************************************************************)
PushCheck(x) == /\ ppc = "idle"
                /\ pitem' = x
                /\ ppc' = IF NextIndex(tail) = head THEN "idle" ELSE "copy"
                /\ UNCHANGED <<buffer, head, tail, consumer>>

PushCopy == /\ ppc = "copy"
            /\ buffer' = [buffer EXCEPT ![tail] = pitem]
            /\ ppc' = "publish"
            /\ UNCHANGED <<head, tail, pitem, consumer>>

PushPublishBeforeCopy == /\ ppc \in {"copy", "publish"}
                         /\ tail' = NextIndex(tail)
                         /\ ppc' = "idle"
                         /\ UNCHANGED <<buffer, head, pitem, consumer>>

PushPublish == /\ ppc = "publish"
               /\ tail' = NextIndex(tail)
               /\ ppc' = "idle"
               /\ UNCHANGED <<buffer, head, pitem, consumer>>

(***************************************************************************)
(* pop(item)                                                               *)
(***************************************************************************)
PopCheckAnyItem == /\ cpc = "idle"
                   /\ cpc' = "copy"
                   /\ UNCHANGED <<buffer, head, tail, citem, producer>>

PopCheck == /\ cpc = "idle"
            /\ head # tail
            /\ cpc' = "copy"
            /\ UNCHANGED <<buffer, head, tail, citem, producer>>

PopCopy == /\ cpc = "copy"
           /\ citem' = buffer[head]
           /\ cpc' = "publish"
           /\ UNCHANGED <<buffer, head, tail, producer>>

PopPublish == /\ cpc = "publish"
              /\ head' = NextIndex(head)
              /\ cpc' = "idle"
              /\ UNCHANGED <<buffer, tail, citem, producer>>

RingNext == \/ \E x \in Item : PushCheck(x)
            \/ PushCopy
            \/ PushPublish
            \/ PopCheck
            \/ PopCopy
            \/ PopPublish

RingSpec == RingInit /\ [][RingNext]_ringVars

(***************************************************************************)
(* Properties                                                              *)
(***************************************************************************)
PC == {"idle", "copy", "publish"}

\* Both indices stay within the slots and every slot holds an item.
RingTypeOK == /\ buffer \in [RingSlots -> Item]
              /\ head \in RingSlots
              /\ tail \in RingSlots
              /\ ppc \in PC
              /\ pitem \in Item
              /\ cpc \in PC
              /\ citem \in Item

\* push writes buffer[current_tail] and pop reads buffer[current_head]
\* without a lock: while both copies are under way they are of different
\* slots, so no item is ever read half written.
NoSlotRace == ppc = "copy" /\ cpc = "copy" => head # tail

\* What one side may rely on while it is between its check and its store:
\* the other side only ever makes more room, or more items.
PushHasRoom == ppc # "idle" => NextIndex(tail) # head
PopHasItem == cpc # "idle" => head # tail
PushCopied == ppc = "publish" => buffer[tail] = pitem

\* The queue the ring represents.  An item enters it when push stores tail
\* and leaves it when pop has copied it out; until pop stores head the slot
\* stays reserved although its item has been taken.
First == IF cpc = "publish" THEN NextIndex(head) ELSE head
Used == IF First <= tail THEN tail - First ELSE tail - First + Capacity
Contents == [i \in 1 .. Used |-> buffer[(First + i - 1) % Capacity]]

Queue == INSTANCE BoundedFifo
           WITH Size <- Capacity - 1, q <- Contents,
                offered <- pitem, popped <- citem

\* The ring is a bounded FIFO queue: what pop returns is what was pushed, in
\* order, nothing twice and nothing lost, whatever way the two threads
\* interleave and however often the indices have wrapped.
IsFifo == Queue!Spec
=============================================================================
