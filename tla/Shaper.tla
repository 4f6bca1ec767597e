------------------------------- MODULE Shaper -------------------------------
(***************************************************************************)
(* The traffic shaper of one direction (Scheduler_util.hpp and .cpp): a    *)
(* ring of Normal packets drained through a token bucket.  The processing  *)
(* thread of the direction enqueues and drains; the QoS service thread     *)
(* stores a new rate limit at any moment, which the next refill picks up.  *)
(*                                                                         *)
(* Tokens are whole bytes and time advances in ticks, BurstTicks of which  *)
(* are the 0.1 s that rate_bytes_per_sec * 0.1 stands for; rate is in      *)
(* bytes per tick.  accrued is (now - last_refill) * rate: the clock is    *)
(* visible to the bucket only through that product, and last_refill is     *)
(* reset whenever the rate changes.                                        *)
(***************************************************************************)
EXTENDS Naturals, Sequences, Functions

CONSTANTS Rate,        \* rate limits the GUI can set, in bytes per tick
          NoRate,      \* requested_limit < 0: nothing requested
          Size,        \* packet sizes
          MaxFrame,    \* 2048, the payload of a PacketSlot
          MinBurst,    \* 15000
          BurstTicks,  \* ticks in 0.1 s
          RingSize,    \* Capacity of the ring
          MaxPackets,  \* bound on the packets accepted
          Horizon      \* bound on the bytes allowed since the last rate change

ASSUME ShaperConstants ==
  /\ Rate \subseteq Nat /\ NoRate \notin Rate
  /\ Size \subseteq Nat
  /\ MaxFrame \in Nat /\ MinBurst \in Nat /\ MaxFrame <= MinBurst
  /\ BurstTicks \in Nat
  /\ RingSize \in Nat \ {0}
  /\ MaxPackets \in Nat /\ Horizon \in Nat

VARIABLES pool, head, tail, count,  \* normal_queue
          bucket,       \* tokens, capacity, rate and accrued
          requested,    \* requested_limit
          pc,           \* process_queue: idle, between two packets, sending
          pkt,          \* pkt_copy
          accepted,     \* history: packets enqueued, which numbers them
          sent, lost,   \* history: packets sent in order; dropped by a fatal error
          bytes,        \* history: bytes sent since the rate was last applied
          allowance     \* history: rate * time since then

ring == <<pool, head, tail, count>>
meter == <<bytes, allowance>>
vars == <<ring, bucket, requested, pc, pkt, accepted, sent, lost, meter>>

NoPacket == [id |-> 0, size |-> 0]
Slots == 0 .. RingSize - 1

MinOf(a, b) == IF a < b THEN a ELSE b
MaxOf(a, b) == IF a > b THEN a ELSE b

NextSlot(i) == (i + 1) % RingSize

BurstWithoutFloor(r) == r * BurstTicks

Burst(r) == MaxOf(MinBurst, r * BurstTicks)

ApplyNewRate(r) == [tokens |-> Burst(r), capacity |-> Burst(r), rate |-> r, accrued |-> 0]

Init == /\ pool = [i \in Slots |-> NoPacket]
        /\ head = 0 /\ tail = 0 /\ count = 0
        /\ \E r \in Rate : bucket = ApplyNewRate(r)
        /\ requested = NoRate
        /\ pc = "idle"
        /\ pkt = NoPacket
        /\ accepted = 0 /\ sent = <<>> /\ lost = {}
        /\ bytes = 0 /\ allowance = 0

(***************************************************************************)
(* Time passes; the QoS service thread calls set_rate_limit.               *)
(***************************************************************************)
Tick == /\ allowance + bucket.rate <= Horizon
        /\ bucket' = [bucket EXCEPT !.accrued = @ + bucket.rate]
        /\ allowance' = allowance + bucket.rate
        /\ UNCHANGED <<ring, requested, pc, pkt, accepted, sent, lost, bytes>>

SetRateLimit(r) == /\ requested' = r
                   /\ UNCHANGED <<ring, bucket, pc, pkt, accepted, sent, lost, meter>>

(***************************************************************************)
(* enqueue_normal.  A packet that is too large or finds the ring full is   *)
(* dropped, which changes nothing here.                                    *)
(***************************************************************************)
EnqueueNormal(size) ==
  /\ pc = "idle" /\ accepted < MaxPackets
  /\ count # RingSize /\ size <= MaxFrame
  /\ accepted' = accepted + 1
  /\ pool' = [pool EXCEPT ![tail] = [id |-> accepted', size |-> size]]
  /\ tail' = NextSlot(tail)
  /\ count' = count + 1
  /\ UNCHANGED <<head, bucket, requested, pc, pkt, sent, lost, meter>>

(***************************************************************************)
(* The first locked section of process_queue: try_consume, which refills   *)
(* first, and the copy of the front packet.                                *)
(***************************************************************************)
RefilledTwice == LET b == IF requested = NoRate THEN bucket ELSE ApplyNewRate(requested)
                 IN  [b EXCEPT !.tokens = MinOf(b.capacity, @ + b.accrued)]

Refilled == LET b == IF requested = NoRate THEN bucket ELSE ApplyNewRate(requested)
            IN  [b EXCEPT !.tokens = MinOf(b.capacity, @ + b.accrued), !.accrued = 0]

Consumed(b, size) == [b EXCEPT !.tokens = @ - size]

QueueEmpty == /\ pc = "next" /\ count = 0
              /\ pc' = "idle"
              /\ UNCHANGED <<ring, bucket, requested, pkt, accepted, sent, lost, meter>>

TakeFront ==
  /\ pc = "next" /\ count > 0
  /\ requested' = NoRate
  /\ IF requested = NoRate THEN UNCHANGED meter ELSE bytes' = 0 /\ allowance' = 0
  /\ \/ /\ Refilled.tokens >= pool[head].size
        /\ bucket' = Consumed(Refilled, pool[head].size)
        /\ pkt' = pool[head]
        /\ pc' = "send"
     \/ /\ Refilled.tokens < pool[head].size
        /\ bucket' = Refilled
        /\ pkt' = pkt
        /\ pc' = "idle"
  /\ UNCHANGED <<ring, accepted, sent, lost>>

ProcessQueue == /\ pc = "idle"
                /\ pc' = "next"
                /\ UNCHANGED <<ring, bucket, requested, pkt, accepted, sent, lost, meter>>

(***************************************************************************)
(* try_hardware_send without the lock, then the result handler with it.    *)
(***************************************************************************)
Refunded == [bucket EXCEPT !.tokens = MinOf(bucket.capacity, @ + pkt.size)]

Pop == /\ head' = NextSlot(head)
       /\ count' = count - 1
       /\ UNCHANGED <<pool, tail>>

SendSuccess == /\ pc = "send"
               /\ Pop
               /\ sent' = Append(sent, pkt.id)
               /\ bytes' = bytes + pkt.size
               /\ pc' = "next"
               /\ UNCHANGED <<bucket, requested, pkt, accepted, lost, allowance>>

SendCongestedPops == /\ pc = "send"
                     /\ Pop
                     /\ bucket' = Refunded
                     /\ pc' = "idle"
                     /\ UNCHANGED <<requested, pkt, accepted, sent, lost, meter>>

SendCongested == /\ pc = "send"
                 /\ bucket' = Refunded
                 /\ pc' = "idle"
                 /\ UNCHANGED <<ring, requested, pkt, accepted, sent, lost, meter>>

SendFatal == /\ pc = "send"
             /\ Pop
             /\ bucket' = Refunded
             /\ lost' = lost \cup {pkt.id}
             /\ pc' = "next"
             /\ UNCHANGED <<requested, pkt, accepted, sent, meter>>

Process == \/ Tick
           \/ \E size \in Size : EnqueueNormal(size)
           \/ ProcessQueue \/ QueueEmpty \/ TakeFront
           \/ SendSuccess \/ SendCongested \/ SendFatal

Next == Process \/ \E r \in Rate : SetRateLimit(r)

Spec == Init /\ [][Next]_vars

(***************************************************************************)
(* Properties                                                              *)
(***************************************************************************)
Waiting == [i \in 1 .. count |-> pool[(head + i - 1) % RingSize].id]

\* Every accepted packet is sent, lost to a fatal error, or still waiting,
\* exactly once; what is sent leaves in the order it came.
DeliveredInOrder ==
  LET line == sent \o Waiting
  IN  /\ \A i, j \in 1 .. Len(line) : i < j => line[i] < line[j]
      /\ Range(line) \cup lost = 1 .. accepted
      /\ Range(line) \cap lost = {}

\* Since the rate was last applied, no more left than one full bucket and
\* what the rate allows for the time that has passed.  (Every call of
\* set_rate_limit starts over with a full bucket.)
RateCapped == bytes <= bucket.capacity + allowance

\* A waiting packet always fits the bucket, whatever rate is applied: no
\* packet can block the queue for ever by costing more than the bucket holds.
FrontAffordable == \A i \in 1 .. count : pool[(head + i - 1) % RingSize].size <= bucket.capacity
=============================================================================
