----------------------------- MODULE LanProofs -----------------------------
(***************************************************************************)
(* The addresses of the LAN: the thread that configures them and the       *)
(* server that leases them.                                                *)
(*                                                                         *)
(* LanConfig.  PublishedInPool and NatAddressUsable are inductive together *)
(* with the types and with what the tracker holds between its read and its *)
(* store (Tracked).  ServedIsSaved is not: Agreed says, for every position *)
(* of the control thread, which of the three copies of the pool it has     *)
(* yet to bring up to date.  SubnetCoversPool is arithmetic: two addresses *)
(* share a prefix if they agree on each of its bits (SharedPrefix), by     *)
(* induction over its length; induction is taken from the well-foundedness *)
(* of < as a statement about sets of numbers (SetInduction), and that      *)
(* Pow2's equation has a solution is proved before it is used (Doubling).  *)
(*                                                                         *)
(* DhcpEngine.  The server never promises one address to two clients, for  *)
(* every set of clients and addresses, every pool size and every lease     *)
(* duration.  NoDoubleLease is not inductive: it speaks of what the        *)
(* clients believe (bound), and the steps look at what the server has      *)
(* recorded (leases).  HoldersBacked ties the two together, and is itself  *)
(* preserved by a renewal only because an earlier promise never outlasts a *)
(* renewal made now (PromisesWithinDuration), which is where a change of   *)
(* lease_duration would hurt.  RenewalsAcked follows from the same         *)
(* invariant: the lease behind a promise is the client's only one.         *)
(***************************************************************************)
EXTENDS LanConfig, DhcpEngine, TLAPS

(***************************************************************************)
(* Natural numbers.                                                        *)
(***************************************************************************)
LOCAL INSTANCE WellFoundedInduction

LessThan == OpToRel(<, Nat)

\* A non-empty set of natural numbers has a least element.
LEMMA LeastElement ==
  ASSUME NEW S, S \subseteq Nat, S # {}
  PROVE  \E i \in S : \A j \in S : i <= j
<1>2. IsWellFoundedOn(LessThan, Nat)
  BY NatLessThanWellFounded, Zenon DEF LessThan
<1>3. PICK x \in S : \A y \in S : ~ (<<y, x>> \in LessThan)
  BY <1>2, WFMin, Zenon
<1>4. \A y \in S : ~ (y < x)
  BY <1>3, Zenon DEF LessThan, OpToRel
<1> QED
  BY <1>3, <1>4

\* Induction, for the set of the numbers that have the property.
LEMMA SetInduction ==
  ASSUME NEW S, 0 \in S, \A n \in Nat : n \in S => n + 1 \in S
  PROVE  Nat \subseteq S
<1> SUFFICES ASSUME Nat \ S # {} PROVE FALSE
  OBVIOUS
<1>1. PICK m \in Nat \ S : \A j \in Nat \ S : m <= j
  BY LeastElement, Zenon
<1>2. m - 1 \in Nat /\ m - 1 \in S
  BY <1>1
<1> QED
  BY <1>1, <1>2

(***************************************************************************)
(* DhcpEngine.                                                             *)
(***************************************************************************)
\* Within one configuration no promise lasts beyond a lease granted now.
PromisesWithinDuration == \A m \in Mac : bound[m].until <= now + lease_duration

IInv == TypeOK /\ OneLeasePerMac /\ HoldersBacked /\ PromisesWithinDuration

\* A non-empty set of slots has a first one, so the searches of
\* find_or_assign_lease return a member of the set they search.
LEMMA FirstOfMember ==
  ASSUME NEW S, S \subseteq Slots, S # {}
  PROVE  FirstOf(S) \in S /\ \A j \in S : FirstOf(S) <= j
<1>1. S \subseteq Nat
  BY DEF Slots
<1>2. \E i \in S : \A j \in S : i <= j
  BY <1>1, LeastElement, Zenon
<1> QED
  BY <1>2 DEF FirstOf

LEMMA AddrIsNat == \A a \in Addr \cup {0} : a \in Nat
BY DhcpConstants

LEMMA PoolCountType ==
  ASSUME NEW lo \in Addr, NEW hi \in Addr, hi >= lo
  PROVE  PoolCount(lo, hi) \in 1 .. MaxPool
BY DhcpConstants DEF PoolCount

LEMMA InitIInv == Init => IInv
<1> SUFFICES ASSUME Init PROVE IInv
  OBVIOUS
<1>1. leases \in [Slots -> Lease]
  BY DEF Init, FreshLease, Lease
<1>2. pool_start \in Addr /\ pool_count \in 1 .. MaxPool
  BY PoolCountType DEF Init
<1>3. TypeOK
  BY <1>1, <1>2, DhcpConstants DEF Init, TypeOK, Unbound, NoReply
<1>4. OneLeasePerMac
  BY DEF Init, OneLeasePerMac, FreshLease, Pool
<1>5. HoldersBacked
  BY DEF Init, HoldersBacked, Holds, Unbound
<1>6. PromisesWithinDuration
  BY <1>3, DhcpConstants DEF Init, PromisesWithinDuration, Unbound, TypeOK
<1> QED
  BY <1>3, <1>4, <1>5, <1>6 DEF IInv

(***************************************************************************)
(* What handling one message can do to the leases and to the clients.      *)
(***************************************************************************)
Assigned(i, m) == i \in HeldBy(m) \/ (HeldBy(m) = {} /\ i \in Reusable)
Promise(m, a) == bound' = [bound EXCEPT ![m] = [ip |-> a, until |-> now + lease_duration]]
GrantEffect(i, m) == /\ Assigned(i, m)
                     /\ leases' = Grant(i, m)
                     /\ bound' = bound \/ Promise(m, Ip(i))
Effect(m) == \/ leases' = leases /\ (bound' = bound \/ Promise(m, 0))
             \/ \E i \in Pool : GrantEffect(i, m)

LEMMA HandleEffect ==
  ASSUME TypeOK, NEW msg \in Message, Handle(msg)
  PROVE  Effect(msg.mac) /\ reply' \in Reply \cup {NoReply}
<1> DEFINE m == msg.mac
           held == HeldBy(m)
           found == IF held # {} THEN held ELSE Reusable
<1>1. m \in Mac /\ msg.req \in Nat
  <2>1. CASE msg \in [type : {"request"}, mac : Mac, req : Addr \cup {0}]
    <3>1. msg.mac \in Mac /\ msg.req \in Addr \cup {0}
      BY <2>1
    <3> QED
      BY <3>1, AddrIsNat
  <2>2. CASE msg \in [type : {"discover", "other"}, mac : Mac, req : {0}]
    BY <2>2
  <2> QED
    BY <2>1, <2>2 DEF Message
<1>2. held \subseteq Pool /\ Reusable \subseteq Pool /\ Pool \subseteq Slots
  BY DEF HeldBy, Reusable, Pool
<1>3. ASSUME found # {} PROVE FirstOf(found) \in Pool /\ Assigned(FirstOf(found), m)
  <2>1. found \subseteq Slots
    BY <1>2
  <2>2. FirstOf(found) \in found
    BY <1>3, <2>1, FirstOfMember
  <2> QED
    BY <1>2, <2>2 DEF Assigned
<1>4. \A i \in Pool : Ip(i) \in Nat
  BY DhcpConstants DEF TypeOK, Ip, Pool, Slots
<1>5. ASSUME NEW t \in {"offer", "ack", "nak"}, NEW a \in Nat, Respond(t, m, a)
      PROVE  reply' \in Reply \cup {NoReply}
  BY <1>1, <1>5 DEF Respond, Reply, TypeOK
<1>6. CASE msg.type = "discover" /\ HandleDiscover(m)
  <2>1. CASE held # {} /\ leases' = leases /\ Respond("offer", m, Ip(FirstOf(held)))
    <3>1. Ip(FirstOf(held)) \in Nat
      BY <2>1, <1>3, <1>4
    <3> QED
      BY <1>5, <1>6, <2>1, <3>1 DEF HandleDiscover, Effect, GrantEffect
  <2>2. CASE /\ held = {} /\ Reusable # {}
             /\ leases' = Grant(FirstOf(Reusable), m)
             /\ Respond("offer", m, Ip(FirstOf(Reusable)))
    <3>1. FirstOf(Reusable) \in Pool /\ Assigned(FirstOf(Reusable), m)
      BY <2>2, <1>3
    <3>2. Ip(FirstOf(Reusable)) \in Nat
      BY <3>1, <1>4
    <3> QED
      BY <1>5, <1>6, <2>2, <3>1, <3>2 DEF HandleDiscover, Effect, GrantEffect
  <2>3. CASE leases' = leases /\ reply' = NoReply
    BY <1>6, <2>3 DEF HandleDiscover, Effect, GrantEffect
  <2> QED
    BY <1>6, <2>1, <2>2, <2>3 DEF HandleDiscover
<1>7. CASE msg.type = "request" /\ HandleRequest(m, msg.req)
  <2> DEFINE a == msg.req
             i == FirstOf(found)
  <2>1. CASE found # {} /\ a = Ip(i) /\ leases' = Grant(i, m) /\ Respond("ack", m, a) /\ Learn(m, a)
    <3>1. bound' = bound \/ Promise(m, Ip(i))
      BY <2>1 DEF Learn, Promise
    <3> QED
      BY <1>1, <1>3, <1>5, <2>1, <3>1 DEF Effect, GrantEffect
  <2>2. CASE /\ found # {} /\ leases' = (IF held # {} THEN leases ELSE Grant(i, m))
             /\ Respond("nak", m, a) /\ bound' = bound
    BY <1>1, <1>3, <1>5, <2>2 DEF Effect, GrantEffect
  <2>3. CASE /\ leases' = leases
             /\ Respond(IF a = 0 THEN "ack" ELSE "nak", m, a)
             /\ IF a = 0 THEN Learn(m, a) ELSE bound' = bound
    <3>1. bound' = bound \/ Promise(m, 0)
      BY <2>3, Zenon DEF Learn, Promise
    <3>2. (IF a = 0 THEN "ack" ELSE "nak") \in {"offer", "ack", "nak"}
      OBVIOUS
    <3> QED
      BY <1>1, <1>5, <2>3, <3>1, <3>2 DEF Effect, GrantEffect
  <2> QED
    BY <1>7, <2>1, <2>2, <2>3 DEF HandleRequest
<1>8. CASE msg.type = "other" /\ reply' = NoReply /\ UNCHANGED <<leases, bound>>
  BY <1>8 DEF Effect, GrantEffect
<1> QED
  BY <1>6, <1>7, <1>8 DEF Handle

(***************************************************************************)
(* Handling a message preserves the invariant.                             *)
(***************************************************************************)
LEMMA HandleIInv ==
  ASSUME IInv, NEW m \in Mac, Effect(m),
         UNCHANGED <<pool_start, pool_count, lease_duration, now>>
  PROVE  /\ leases' \in [Slots -> Lease]
         /\ bound' \in [Mac -> [ip : Nat, until : Nat]]
         /\ OneLeasePerMac' /\ HoldersBacked' /\ PromisesWithinDuration'
<1>1. /\ leases \in [Slots -> Lease]
      /\ bound \in [Mac -> [ip : Nat, until : Nat]]
      /\ now \in Nat /\ lease_duration \in Nat
      /\ Pool \subseteq Slots /\ Pool' = Pool
      /\ \A i \in Pool : Ip(i)' = Ip(i) /\ Ip(i) \in Nat \ {0}
  BY DhcpConstants DEF IInv, TypeOK, Pool, Slots, Ip
<1>2. ASSUME NEW a \in Nat, Promise(m, a)
      PROVE  /\ bound' \in [Mac -> [ip : Nat, until : Nat]]
             /\ bound'[m].ip = a /\ bound'[m].until = now + lease_duration
             /\ \A n \in Mac \ {m} : bound'[n] = bound[n]
  BY <1>1, <1>2 DEF Promise
<1>3. ASSUME NEW a \in Nat, bound' = bound \/ Promise(m, a)
      PROVE  bound' \in [Mac -> [ip : Nat, until : Nat]] /\ PromisesWithinDuration'
  <2>1. CASE bound' = bound
    BY <1>1, <2>1 DEF IInv, PromisesWithinDuration
  <2>2. CASE Promise(m, a)
    <3>1. ASSUME NEW n \in Mac PROVE bound'[n].until <= now + lease_duration
      <4>1. CASE n = m
        BY <1>1, <1>2, <2>2, <4>1
      <4>2. CASE n # m
        BY <1>1, <1>2, <2>2, <4>2 DEF IInv, PromisesWithinDuration
      <4> QED
        BY <4>1, <4>2
    <3> QED
      BY <1>2, <2>2, <3>1 DEF PromisesWithinDuration
  <2> QED
    BY <1>3, <2>1, <2>2
<1>4. CASE leases' = leases /\ (bound' = bound \/ Promise(m, 0))
  <2>1. OneLeasePerMac'
    BY <1>1, <1>4 DEF IInv, OneLeasePerMac
  <2>2. ASSUME NEW n \in Mac, Holds(n)' PROVE Holds(n) /\ bound'[n] = bound[n]
    <3>1. bound'[n].ip # 0
      BY <2>2 DEF Holds
    <3>2. bound'[n] = bound[n]
      <4>1. CASE Promise(m, 0)
        BY <1>2, <4>1, <3>1
      <4> QED
        BY <1>4, <4>1
    <3> QED
      BY <1>1, <2>2, <3>2 DEF Holds
  <2>3. HoldersBacked'
    BY <1>1, <1>4, <2>2 DEF IInv, HoldersBacked, Backed
  <2> QED
    BY <1>1, <1>3, <1>4, <2>1, <2>3
<1>5. CASE \E i \in Pool : GrantEffect(i, m)
  <2>0. PICK i \in Pool : GrantEffect(i, m)
    BY <1>5
  <2>1. Assigned(i, m) /\ leases' = Grant(i, m) /\ (bound' = bound \/ Promise(m, Ip(i)))
    BY <2>0 DEF GrantEffect
  <2>2. /\ leases' \in [Slots -> Lease]
        /\ leases'[i] = [mac |-> m, active |-> TRUE, expiry |-> now + lease_duration]
        /\ \A j \in Slots \ {i} : leases'[j] = leases[j]
    <3>1. i \in Slots /\ now + lease_duration \in Nat
      BY <1>1
    <3>2. [mac |-> m, active |-> TRUE, expiry |-> now + lease_duration] \in Lease
      BY <3>1 DEF Lease
    <3> QED
      BY <1>1, <2>1, <3>1, <3>2 DEF Grant
  <2>3. OneLeasePerMac'
    <3>1. ASSUME NEW j \in Pool, j # i, leases[j].active PROVE leases[j].mac # m
      BY <1>1, <2>1, <3>1 DEF Assigned, HeldBy, IInv, OneLeasePerMac
    <3> QED
      BY <1>1, <2>1, <2>2, <3>1 DEF IInv, OneLeasePerMac
  <2>4. ASSUME NEW n \in Mac, Holds(n)' PROVE Backed(n)'
    <3>1. CASE n = m /\ Promise(m, Ip(i))
      <4>1. bound'[m].ip = Ip(i) /\ bound'[m].until = now + lease_duration
        BY <1>1, <1>2, <3>1
      <4> QED
        BY <1>1, <2>1, <2>2, <3>1, <4>1 DEF Backed
    <3>2. CASE bound'[n] = bound[n]
      <4>1. Holds(n)
        BY <1>1, <2>4, <3>2 DEF Holds
      <4>2. PICK k \in Pool : /\ Ip(k) = bound[n].ip
                              /\ leases[k].active /\ leases[k].mac = n
                              /\ leases[k].expiry >= bound[n].until
        BY <4>1 DEF IInv, HoldersBacked, Backed
      <4>3. CASE k # i
        BY <1>1, <2>2, <3>2, <4>2, <4>3 DEF Backed
      <4>4. CASE k = i
        <5>1. leases[i] \in Lease /\ bound[n] \in [ip : Nat, until : Nat]
          BY <1>1, <2>1
        <5>2. i \notin Reusable
          BY <1>1, <4>1, <4>2, <4>4, <5>1 DEF Holds, Reusable, Lease
        <5>3. n = m
          BY <2>1, <4>2, <4>4, <5>2, Zenon DEF Assigned, HeldBy
        <5>4. leases'[i].expiry >= bound[n].until
          BY <1>1, <2>2, <5>1 DEF IInv, PromisesWithinDuration
        <5> QED
          BY <1>1, <2>1, <2>2, <3>2, <4>2, <4>4, <5>3, <5>4 DEF Backed
      <4> QED
        BY <4>3, <4>4
    <3> QED
      BY <1>1, <1>2, <2>1, <3>1, <3>2
  <2>5. HoldersBacked'
    BY <2>4 DEF HoldersBacked
  <2>6. Ip(i) \in Nat
    BY <1>1, <2>1
  <2> QED
    BY <1>3, <2>1, <2>2, <2>3, <2>5, <2>6, Zenon
<1> QED
  BY <1>4, <1>5 DEF Effect

LEMMA StepIInv == IInv /\ [Next]_vars => IInv'
<1> SUFFICES ASSUME IInv, [Next]_vars PROVE IInv'
  OBVIOUS
<1> USE DEF engine
<1>t. TypeOK /\ OneLeasePerMac /\ HoldersBacked /\ PromisesWithinDuration
  BY DEF IInv
<1>n. now \in Nat /\ lease_duration \in Nat /\ bound \in [Mac -> [ip : Nat, until : Nat]]
  BY <1>t, DhcpConstants DEF TypeOK
<1>same. ASSUME UNCHANGED <<leases, pool_start, pool_count, lease_duration, now, bound>>
         PROVE  OneLeasePerMac' /\ HoldersBacked' /\ PromisesWithinDuration'
  BY <1>same, <1>t
     DEF OneLeasePerMac, HoldersBacked, PromisesWithinDuration, Holds, Backed, Pool, Ip
<1>1. CASE Tick
  <2>1. TypeOK'
    BY <1>1, <1>t DEF Tick, TypeOK
  <2>2. OneLeasePerMac'
    BY <1>1, <1>t DEF Tick, OneLeasePerMac, Pool
  <2>3. ASSUME NEW m \in Mac, Holds(m)' PROVE Backed(m)'
    <3>1. Holds(m)
      BY <1>1, <1>n, <2>3 DEF Tick, Holds
    <3> QED
      BY <1>1, <1>t, <3>1 DEF Tick, HoldersBacked, Backed, Pool, Ip
  <2>4. PromisesWithinDuration'
    BY <1>1, <1>n, <1>t DEF Tick, PromisesWithinDuration
  <2> QED
    BY <2>1, <2>2, <2>3, <2>4 DEF IInv, HoldersBacked
<1>2. ASSUME NEW msg \in Message, Intercept(msg) PROVE IInv'
  <2>1. TypeOK'
    BY <1>2, <1>t DEF Intercept, TypeOK
  <2> QED
    BY <1>2, <1>same, <2>1 DEF Intercept, IInv
<1>3. CASE BeginBatch
  <2>1. TypeOK'
    BY <1>3, <1>t, DhcpConstants DEF BeginBatch, TypeOK
  <2> QED
    BY <1>3, <1>same, <2>1 DEF BeginBatch, IInv
<1>4. CASE HandleNext
  <2>1. Head(queue) \in Message /\ Tail(queue) \in Seq(Message)
    BY <1>4, <1>t DEF HandleNext, TypeOK
  <2>2. PICK msg \in Message : Handle(msg)
    BY <1>4, <2>1 DEF HandleNext
  <2>3. Effect(msg.mac) /\ reply' \in Reply \cup {NoReply}
    BY <1>t, <2>2, HandleEffect
  <2>4. msg.mac \in Mac
    BY DEF Message
  <2>5. UNCHANGED <<pool_start, pool_count, lease_duration, now>>
    BY <1>4 DEF HandleNext
  <2>6. /\ leases' \in [Slots -> Lease]
        /\ bound' \in [Mac -> [ip : Nat, until : Nat]]
        /\ OneLeasePerMac' /\ HoldersBacked' /\ PromisesWithinDuration'
    BY <2>3, <2>4, <2>5, HandleIInv
  <2>7. batch' \in 0 .. Budget /\ queue' \in Seq(Message) /\ router_ip' = router_ip
    BY <1>4, <1>t, <2>1, DhcpConstants DEF HandleNext, TypeOK
  <2>8. TypeOK'
    BY <1>t, <2>3, <2>5, <2>6, <2>7 DEF TypeOK
  <2> QED
    BY <2>6, <2>8 DEF IInv
<1>5. CASE EndBatch
  <2>1. TypeOK'
    BY <1>5, <1>t, DhcpConstants DEF EndBatch, TypeOK
  <2> QED
    BY <1>5, <1>same, <2>1 DEF EndBatch, IInv
<1>6. ASSUME NEW a \in Addr, NEW hi \in Addr, NEW d \in Duration, Reconfigure(a, hi, d) PROVE IInv'
  <2>1. bound' = [m \in Mac |-> Unbound] /\ lease_duration' = d /\ now' = now
    BY <1>6 DEF Reconfigure
  <2>2. PromisesWithinDuration' /\ HoldersBacked'
    BY <1>n, <2>1, DhcpConstants DEF PromisesWithinDuration, HoldersBacked, Holds, Unbound
  <2>3. CASE hi < a /\ UNCHANGED <<leases, pool_start, pool_count>>
    <3>1. TypeOK'
      BY <1>6, <1>t, <2>1, <2>3 DEF Reconfigure, TypeOK, Unbound
    <3>2. OneLeasePerMac'
      BY <1>t, <2>3 DEF OneLeasePerMac, Pool
    <3> QED
      BY <2>2, <3>1, <3>2 DEF IInv
  <2>4. CASE /\ hi >= a /\ pool_start' = a /\ pool_count' = PoolCount(a, hi)
             /\ leases' = Deactivate(leases, PoolCount(a, hi))
    <3>1. PoolCount(a, hi) \in 1 .. MaxPool
      BY <2>4, PoolCountType
    <3>2. leases' \in [Slots -> Lease]
      BY <1>t, <2>4, Zenon DEF TypeOK, Deactivate, Lease
    <3>3. TypeOK'
      BY <1>6, <1>t, <2>1, <2>4, <3>1, <3>2 DEF Reconfigure, TypeOK, Unbound
    <3>4. ASSUME NEW i \in Pool' PROVE leases'[i].active = FALSE
      BY <1>t, <2>4 DEF Pool, Deactivate, TypeOK, Lease
    <3>5. OneLeasePerMac'
      BY <3>4, Zenon DEF OneLeasePerMac
    <3> QED
      BY <2>2, <3>3, <3>5 DEF IInv
  <2> QED
    BY <1>6, <2>3, <2>4 DEF Reconfigure
<1>7. ASSUME NEW r \in Router, SetRouterIp(r) PROVE IInv'
  <2>1. TypeOK'
    BY <1>7, <1>t DEF SetRouterIp, TypeOK
  <2> QED
    BY <1>7, <1>same, <2>1 DEF SetRouterIp, IInv
<1>8. CASE UNCHANGED vars
  <2>1. TypeOK'
    BY <1>8, <1>t DEF vars, TypeOK
  <2> QED
    BY <1>8, <1>same, <2>1 DEF vars, IInv
<1> QED
  BY <1>1, <1>2, <1>3, <1>4, <1>5, <1>6, <1>7, <1>8 DEF Next

LEMMA Invariance == Spec => []IInv
BY InitIInv, StepIInv, PTL DEF Spec

\* reconfigure, batches and renewals keep the lease table well formed; in
\* particular pool_count never passes MAX_POOL_SIZE.
THEOREM TypeCorrect == Spec => []TypeOK
BY Invariance, PTL DEF IInv

\* No MAC ever has two active leases.
THEOREM OneLeaseEach == Spec => []OneLeasePerMac
BY Invariance, PTL DEF IInv

\* No two clients hold the same address at the same time, for any pool, any
\* number of clients and any loss of ACKs.
THEOREM NoAddressTwice == Spec => []NoDoubleLease
<1>1. IInv => NoDoubleLease
  <2> SUFFICES ASSUME IInv, NEW m \in Mac, NEW n \in Mac, Holds(m), Holds(n),
                      bound[m].ip = bound[n].ip
               PROVE  m = n
    BY DEF NoDoubleLease
  <2>1. PICK i \in Pool : Ip(i) = bound[m].ip /\ leases[i].mac = m
    BY DEF IInv, HoldersBacked, Backed
  <2>2. PICK j \in Pool : Ip(j) = bound[n].ip /\ leases[j].mac = n
    BY DEF IInv, HoldersBacked, Backed
  <2>3. i = j
    BY <2>1, <2>2, DhcpConstants DEF Ip, Pool, Slots, IInv, TypeOK
  <2> QED
    BY <2>1, <2>2, <2>3
<1> QED
  BY <1>1, Invariance, PTL

\* A client that asks for the address it holds gets an ACK for it, whatever
\* happened to the pool and to earlier answers: the lease that backs its promise
\* is its only one, so it is the one find_or_assign_lease finds.
THEOREM RenewalsSucceed == Spec => RenewalsAcked
<1>1. IInv => RenewalAcked
  <2> SUFFICES ASSUME IInv, HandleNext, HolderAsks
               PROVE  /\ reply'.type = "ack"
                      /\ reply'.mac = Head(queue).mac
                      /\ reply'.ip = Head(queue).req
    BY DEF RenewalAcked
  <2> DEFINE m == Head(queue).mac
             a == Head(queue).req
  <2>1. Head(queue) \in Message
    BY DEF HolderAsks, IInv, TypeOK
  <2>2. m \in Mac
    BY <2>1 DEF Message
  <2>3. Holds(m) /\ a = bound[m].ip /\ HandleRequest(m, a)
    BY DEF HolderAsks, HandleNext, Handle
  <2> HIDE DEF m, a
  <2>4. PICK i \in Pool : Ip(i) = a /\ leases[i].active /\ leases[i].mac = m
    BY <2>2, <2>3 DEF IInv, HoldersBacked, Backed
  <2>5. HeldBy(m) = {i}
    BY <2>4 DEF HeldBy, IInv, OneLeasePerMac
  <2>6. HeldBy(m) # {} /\ FirstOf(HeldBy(m)) = i
    BY <2>5, FirstOfMember DEF Pool
  <2>7. Respond("ack", m, a)
    BY <2>3, <2>4, <2>6, Zenon DEF HandleRequest
  <2> QED
    BY <2>7 DEF Respond, m, a
<1> QED
  BY <1>1, Invariance, PTL DEF RenewalsAcked

(***************************************************************************)
(* The subnet arithmetic of LanConfig.                                     *)
(***************************************************************************)
\* Pow2 is the function that its recursive equation describes, because there is
\* such a function: it is put together from those that double n times.
Doubling(f, n) == /\ f \in [0 .. n -> Nat \ {0}]
                  /\ f[0] = 1
                  /\ \A k \in 1 .. n : f[k] = 2 * f[k - 1]

LEMMA DoublingExists == \A n \in Nat : \E f : Doubling(f, n)
<1> DEFINE S == {n \in Nat : \E f : Doubling(f, n)}
<1>1. 0 \in S
  <2>1. Doubling([k \in 0 .. 0 |-> 1], 0)
    BY DEF Doubling
  <2> QED
    BY <2>1
<1>2. ASSUME NEW n \in Nat, n \in S PROVE n + 1 \in S
  <2>1. PICK f : Doubling(f, n)
    BY <1>2
  <2> DEFINE g == [k \in 0 .. n + 1 |-> IF k <= n THEN f[k] ELSE 2 * f[n]]
  <2>2. Doubling(g, n + 1)
    BY <2>1 DEF Doubling
  <2> QED
    BY <2>2
<1> HIDE DEF S
<1>3. Nat \subseteq S
  BY <1>1, <1>2, SetInduction
<1> QED
  BY <1>3 DEF S

LEMMA DoublingUnique ==
  ASSUME NEW f, NEW g, NEW n \in Nat, NEW m \in Nat, Doubling(f, n), Doubling(g, m)
  PROVE  \A k \in Nat : k <= n /\ k <= m => f[k] = g[k]
<1> DEFINE S == {k \in Nat : k <= n /\ k <= m => f[k] = g[k]}
<1>1. 0 \in S
  BY DEF Doubling
<1>2. ASSUME NEW k \in Nat, k \in S PROVE k + 1 \in S
  BY <1>2 DEF Doubling
<1> HIDE DEF S
<1>3. Nat \subseteq S
  BY <1>1, <1>2, SetInduction
<1> QED
  BY <1>3 DEF S

\* What the proofs below know of Pow2.
LEMMA Pow2Step ==
  /\ Pow2[0] = 1
  /\ \A n \in Nat : Pow2[n] \in Nat \ {0} /\ Pow2[n + 1] = 2 * Pow2[n]
<1> DEFINE D(n) == CHOOSE f : Doubling(f, n)
           P == [n \in Nat |-> D(n)[n]]
<1>1. \A n \in Nat : Doubling(D(n), n)
  BY DoublingExists
<1> HIDE DEF D
<1>2. P[0] = 1
  BY <1>1 DEF Doubling
<1>3. ASSUME NEW n \in Nat PROVE P[n] \in Nat \ {0} /\ P[n + 1] = 2 * P[n]
  <2>1. D(n + 1)[n] = D(n)[n]
    BY <1>1, DoublingUnique
  <2>2. Doubling(D(n), n) /\ Doubling(D(n + 1), n + 1)
    BY <1>1
  <2>3. D(n + 1)[n + 1] = 2 * D(n + 1)[n]
    BY <2>2 DEF Doubling
  <2> QED
    BY <2>1, <2>2, <2>3 DEF Doubling
<1>4. P = [n \in Nat |-> IF n = 0 THEN 1 ELSE 2 * P[n - 1]]
  BY <1>2, <1>3
<1> HIDE DEF P
<1>5. \E f : f = [n \in Nat |-> IF n = 0 THEN 1 ELSE 2 * f[n - 1]]
  BY <1>4
<1>6. Pow2 = [n \in Nat |-> IF n = 0 THEN 1 ELSE 2 * Pow2[n - 1]]
  BY <1>5 DEF Pow2
<1>7. Pow2[0] = 1 /\ \A n \in Nat : Pow2[n + 1] = 2 * Pow2[n]
  BY <1>6
<1> DEFINE S == {n \in Nat : Pow2[n] \in Nat \ {0}}
<1>8. 0 \in S /\ \A n \in Nat : n \in S => n + 1 \in S
  BY <1>7
<1> HIDE DEF S
<1>9. Nat \subseteq S
  BY <1>8, SetInduction
<1> QED
  BY <1>7, <1>9 DEF S

\* Shifting right by one bit less brings in one bit.
LEMMA ShiftHalves ==
  ASSUME NEW x \in Nat, NEW m \in Nat \ {0}
  PROVE  x \div m = 2 * (x \div (2 * m)) + ((x \div m) % 2)
<1>1. (x \div m) \div 2 = x \div (2 * m)
  OBVIOUS
<1>2. PICK d \in Nat : d = x \div m
  OBVIOUS
<1>3. d = 2 * (d \div 2) + (d % 2)
  OBVIOUS
<1> QED
  BY <1>1, <1>2, <1>3

LEMMA ShiftMonotone ==
  ASSUME NEW x \in Nat, NEW y \in Nat, NEW m \in Nat \ {0}, x <= y
  PROVE  x \div m <= y \div m
OBVIOUS

LEMMA ShiftAll == \A x \in Nat, m \in Nat \ {0} : x < m => x \div m = 0
OBVIOUS

\* Two addresses are in one subnet with prefix length q exactly if their first
\* q bits agree, by induction over q.
LEMMA SharedPrefix ==
  ASSUME NEW a \in Ipv4, NEW b \in Ipv4, NEW q \in 0 .. Width
  PROVE  ipv4_in_subnet(a, q, b) <=> \A p \in 0 .. q - 1 : Bit(a, p) = Bit(b, p)
<1> DEFINE Same(n) == \A p \in 0 .. n - 1 : Bit(a, p) = Bit(b, p)
           S == {n \in Nat : n <= Width => (ipv4_in_subnet(a, n, b) <=> Same(n))}
<1>1. a \in Nat /\ b \in Nat /\ a < Pow2[Width] /\ b < Pow2[Width]
  BY LanConstants, Pow2Step DEF Ipv4
<1>2. 0 \in S
  <2>1. a \div Pow2[Width] = 0 /\ b \div Pow2[Width] = 0
    BY <1>1, LanConstants, Pow2Step, ShiftAll, Zenon
  <2>2. ipv4_in_subnet(a, 0, b) /\ Same(0)
    BY <2>1, LanConstants DEF ipv4_in_subnet
  <2> QED
    BY <2>2
<1>3. ASSUME NEW n \in Nat, n \in S, n + 1 <= Width
      PROVE  ipv4_in_subnet(a, n + 1, b) <=> Same(n + 1)
  <2>1. PICK k \in Nat : k = Width - 1 - n
    BY <1>3, LanConstants
  <2>2. Width - (n + 1) = k /\ Width - n = k + 1
    BY <2>1, LanConstants
  <2>3. Pow2[k] \in Nat \ {0} /\ Pow2[k + 1] = 2 * Pow2[k]
    BY Pow2Step
  <2> DEFINE A == a \div Pow2[k]
             B == b \div Pow2[k]
             AA == a \div Pow2[k + 1]
             BB == b \div Pow2[k + 1]
  <2>4. A = 2 * AA + (A % 2) /\ B = 2 * BB + (B % 2)
    BY <1>1, <2>3, ShiftHalves, Zenon
  <2>5. A \in Nat /\ B \in Nat /\ AA \in Nat /\ BB \in Nat
    BY <1>1, <2>3
  <2>6. /\ ipv4_in_subnet(a, n + 1, b) <=> A = B
        /\ ipv4_in_subnet(a, n, b) <=> AA = BB
        /\ Bit(a, n) = A % 2 /\ Bit(b, n) = B % 2
    BY <2>1, <2>2 DEF ipv4_in_subnet, Bit
  <2> HIDE DEF A, B, AA, BB
  <2>7. A = B <=> AA = BB /\ A % 2 = B % 2
    BY <2>4, <2>5
  <2>8. Same(n + 1) <=> Same(n) /\ Bit(a, n) = Bit(b, n)
    <3>1. 0 .. (n + 1) - 1 = (0 .. n - 1) \cup {n}
      OBVIOUS
    <3> QED
      BY <3>1
  <2>9. ipv4_in_subnet(a, n, b) <=> Same(n)
    <3>1. n <= Width
      BY <1>3, LanConstants
    <3> QED
      BY <1>3, <3>1
  <2> QED
    BY <2>6, <2>7, <2>8, <2>9
<1> HIDE DEF Same
<1>4. \A n \in Nat : n \in S => n + 1 \in S
  BY <1>3
<1> HIDE DEF S
<1>5. Nat \subseteq S
  BY <1>2, <1>4, SetInduction
<1>6. q \in S /\ q <= Width
  BY <1>5, LanConstants
<1> QED
  BY <1>6 DEF S, Same

\* The loop of infer_prefix_covering_pool stops at the first bit that differs,
\* and there is one.
LEMMA FirstDifference ==
  ASSUME NEW a \in Ipv4, NEW b \in Ipv4, a # b
  PROVE  LET n == infer_prefix_covering_pool(a, b)
         IN  /\ n \in 0 .. Width - 1 /\ Bit(b, n) # Bit(a, n)
             /\ \A p \in 0 .. n - 1 : Bit(b, p) = Bit(a, p)
<1> DEFINE D == {p \in 0 .. Width - 1 : Bit(a, p) # Bit(b, p)}
<1>1. ~ ipv4_in_subnet(b, Width, a)
  <2>1. a \in Nat /\ b \in Nat /\ Width - Width = 0
    BY LanConstants, Pow2Step DEF Ipv4
  <2> QED
    BY <2>1, Pow2Step DEF ipv4_in_subnet
<1>2. D # {} /\ D \subseteq Nat
  <2>1. Width \in 0 .. Width
    BY LanConstants
  <2>2. PICK p \in 0 .. Width - 1 : Bit(b, p) # Bit(a, p)
    BY <1>1, <2>1, SharedPrefix
  <2> QED
    BY <2>2
<1>3. \E i \in D : \A j \in D : i <= j
  BY <1>2, LeastElement, Zenon
<1>4. Min(D) \in D /\ \A j \in D : Min(D) <= j
  BY <1>3 DEF Min
<1>5. infer_prefix_covering_pool(a, b) = Min(D)
  BY DEF infer_prefix_covering_pool
<1> DEFINE n == Min(D)
<1>6. n \in 0 .. Width - 1 /\ Bit(b, n) # Bit(a, n)
  BY <1>4
<1>7. ASSUME NEW p \in 0 .. n - 1 PROVE Bit(b, p) = Bit(a, p)
  <2>1. p \in 0 .. Width - 1 /\ ~ (n <= p)
    BY <1>6, LanConstants
  <2> QED
    BY <1>4, <2>1
<1> QED
  BY <1>5, <1>6, <1>7, Zenon

LEMMA PrefixInRange ==
  ASSUME NEW a \in Ipv4, NEW b \in Ipv4
  PROVE  infer_prefix_covering_pool(a, b) \in 0 .. Width
<1>1. CASE a = b
  BY <1>1, LanConstants DEF infer_prefix_covering_pool
<1>2. CASE a # b
  BY <1>2, FirstDifference, LanConstants
<1> QED
  BY <1>1, <1>2

\* It is the longest prefix with which the two addresses are in one subnet.
LEMMA PrefixInferred ==
  ASSUME NEW a \in Ipv4, NEW b \in Ipv4, NEW q \in 0 .. Width
  PROVE  q <= infer_prefix_covering_pool(a, b) <=> ipv4_in_subnet(b, q, a)
<1>1. CASE a = b
  BY <1>1, LanConstants DEF infer_prefix_covering_pool, ipv4_in_subnet
<1>2. CASE a # b
  <2>1. PICK n \in 0 .. Width - 1 : /\ n = infer_prefix_covering_pool(a, b)
                                    /\ Bit(b, n) # Bit(a, n)
                                    /\ \A p \in 0 .. n - 1 : Bit(b, p) = Bit(a, p)
    BY <1>2, FirstDifference
  <2>2. q <= n <=> \A p \in 0 .. q - 1 : Bit(b, p) = Bit(a, p)
    BY <2>1, LanConstants
  <2> QED
    BY <2>1, <2>2, SharedPrefix
<1> QED
  BY <1>1, <1>2

\* A range of addresses is in one subnet if its ends are.
LEMMA RangeInSubnet ==
  ASSUME NEW a \in Ipv4, NEW b \in Ipv4, NEW q \in 0 .. Width, a <= b
  PROVE  (\A x \in a .. b : ipv4_in_subnet(x, q, a)) <=> ipv4_in_subnet(b, q, a)
<1>1. a \in Nat /\ b \in Nat
  BY LanConstants, Pow2Step DEF Ipv4
<1>2. PICK m \in Nat \ {0} : m = Pow2[Width - q]
  BY LanConstants, Pow2Step
<1>3. ASSUME b \div m = a \div m, NEW x \in a .. b PROVE x \div m = a \div m
  <2>1. x \in Nat /\ a <= x /\ x <= b
    BY <1>1
  <2>2. a \div m <= x \div m /\ x \div m <= b \div m
    BY <1>1, <2>1, ShiftMonotone
  <2> QED
    BY <1>1, <1>3, <2>1, <2>2
<1> QED
  BY <1>1, <1>2, <1>3 DEF ipv4_in_subnet

LEMMA PoolCovered ==
  ASSUME NEW a \in Ipv4, NEW b \in Ipv4, NEW q \in 0 .. Width
  PROVE  (\A x \in a .. b : ipv4_in_subnet(x, q, a))
           <=> (q <= infer_prefix_covering_pool(a, b) \/ a > b)
<1>1. a \in Nat /\ b \in Nat
  BY LanConstants, Pow2Step DEF Ipv4
<1>2. CASE a <= b
  BY <1>1, <1>2, PrefixInferred, RangeInSubnet
<1>3. CASE a > b
  BY <1>1, <1>3
<1> QED
  BY <1>1, <1>2, <1>3

(***************************************************************************)
(* LanConfig.                                                              *)
(***************************************************************************)
SyncPC == {"parse", "parse_end", "set", "read", "reset", "reread", "publish"}
ReadPC == {"start", "end", "reconfigure"}
SavePC == {"save", "save_start", "save_end"}
IfaceAddr == Ipv4 \cup {None}
Locals == [pool : PoolRange, kern : IfaceAddr]

LanTypeOK == /\ phase \in {"init", "up", "refused"}
             /\ pc \in SyncPC \cup ReadPC \cup SavePC \cup {"idle", "wan"}
             /\ gpc \in {"idle", "start", "end", "signal"}
             /\ pending \in BOOLEAN /\ unsaved \in BOOLEAN /\ file \in Lines
             /\ kernel \in IfaceAddr /\ s \in Locals

\* on_apply runs only when the threads do, and assigns a pool that passed its
\* checks; between two edits the strings hold a pool that can be served.
GuiInv == /\ gpc # "idle" => phase = "up" /\ draft \in Pools
          /\ pool \in [start : Text \cup {Torn}, end : Text \cup {Torn}]
          /\ gpc = "end" => pool.start = draft.start
          /\ gpc = "signal" => pool = draft
          /\ phase = "up" /\ gpc = "idle" => pool \in PoolRange /\ pool.start <= pool.end

\* While App::init runs there is one pool, and once sync() has parsed it, it
\* can be served.
StartInv == phase = "init" =>
              /\ pc \in SyncPC \cup {"wan"} /\ ~pending
              /\ pool.start # Torn /\ pool.end # Torn
              /\ leased = pool /\ Loaded(file) = pool
              /\ pc # "parse" => s.pool.start = pool.start
              /\ pc \notin {"parse", "parse_end"} =>
                   pool \in PoolRange /\ pool.start <= pool.end

\* Unless the GUI is at an edit or has left an event, the control thread has
\* read the pool as it is: the engine lags behind only before reconfigure(),
\* and the file only before the end of a save that succeeds.
Agreed == /\ phase = "up" /\ gpc = "idle" /\ ~pending =>
               /\ pc = "end" => s.pool.start = pool.start
               /\ pc = "reconfigure" => s.pool = pool
               /\ pc \notin ReadPC => leased = pool
               /\ pc = "save_end" => unsaved \/ file.start = pool.start
               /\ pc = "idle" => unsaved \/ Loaded(file) = pool
          /\ phase = "up" => pc # "wan"
          /\ phase = "refused" => pc = "idle"

\* The tracker only ever stores a usable address.
Tracked == tpc = "store" => enable_nat /\ Usable(source)

LanInv == /\ LanTypeOK /\ PublishedInPool /\ GuiInv /\ StartInv /\ Agreed
          /\ Tracked /\ NatAddressUsable

\* The marks are no addresses, and no two of them are the same.
LEMMA Marks == /\ Bad \notin Ipv4 /\ Torn \notin Text /\ Missing \notin Text
               /\ Default.start \in Ipv4 /\ Default.end \in Ipv4
BY LanConstants, Pow2Step DEF Ipv4, Text, Bad, Torn, Missing, PoolRange

LEMMA LoadedText ==
  ASSUME NEW lines \in Lines
  PROVE  /\ Loaded(lines) \in [start : Text, end : Text]
         /\ lines \in [start : Text, end : Text] => Loaded(lines) = lines
BY Marks DEF Loaded, Lines, Text

LEMMA LanStart == LanInit => LanInv
<1> SUFFICES ASSUME LanInit PROVE LanInv
  OBVIOUS
<1>1. LanTypeOK
  <2>1. file \in Lines /\ Default \in PoolRange /\ kernel \in IfaceAddr
    BY LanConstants DEF LanInit, IfaceAddr
  <2>2. s \in Locals
    BY <2>1 DEF LanInit, Locals, IfaceAddr
  <2> QED
    BY <2>1, <2>2, Zenon DEF LanInit, LanTypeOK, SyncPC
<1>2. pool \in [start : Text, end : Text]
  BY <1>1, LoadedText DEF LanInit, LanTypeOK
<1>3. pool.start # Torn /\ pool.end # Torn
  BY <1>2, Marks
<1>4. GuiInv
  BY <1>2 DEF LanInit, GuiInv
<1>5. StartInv
  BY <1>3, Zenon DEF LanInit, StartInv, SyncPC
<1>6. PublishedInPool /\ Agreed /\ Tracked /\ NatAddressUsable
  BY DEF LanInit, PublishedInPool, Agreed, Tracked, NatAddressUsable
<1> QED
  BY <1>1, <1>4, <1>5, <1>6 DEF LanInv

\* A step that leaves alone what only the control thread and the GUI touch.
LEMMA OthersKeep ==
  ASSUME LanInv, UNCHANGED <<phase, pool, pending, gui, disk, leased, pc, s>>,
         kernel' \in IfaceAddr, Tracked', NatAddressUsable'
  PROVE  LanInv'
<1>1. LanTypeOK' /\ PublishedInPool'
  BY Zenon DEF LanInv, LanTypeOK, PublishedInPool, Aligned, gui, disk
<1>2. GuiInv' /\ StartInv'
  BY Zenon DEF LanInv, GuiInv, StartInv, gui, disk, Loaded
<1>3. Agreed'
  BY Zenon DEF LanInv, Agreed, gui, disk, Loaded
<1> QED
  BY <1>1, <1>2, <1>3 DEF LanInv

\* A step that leaves the gateway's side and the WAN alone.
LEMMA PoolStepKeeps ==
  ASSUME LanInv, UNCHANGED wan, phase' = phase, pc' # "publish" \/ UNCHANGED <<pc, s>>
  PROVE  PublishedInPool' /\ Tracked' /\ NatAddressUsable'
BY DEF LanInv, PublishedInPool, Aligned, Tracked, NatAddressUsable, wan

LEMMA LocalAddress == ASSUME LanTypeOK, NEW a \in LocalIp PROVE a \in IfaceAddr
BY DEF LanTypeOK, LocalIp, get_local_ip, IfaceAddr

LEMMA SetIfaceType == ASSUME LanTypeOK, NEW ok \in BOOLEAN, SetIface(ok) PROVE kernel' \in IfaceAddr
BY LanConstants DEF LanTypeOK, SetIface, IfaceAddr

\* What a thread reads of a string is an address, or fails to parse; a string
\* that nobody is assigning is read as it is.
LEMMA ReadText ==
  ASSUME GuiInv, NEW a, a \in Reads(pool.start) \/ a \in Reads(pool.end)
  PROVE  a \in Text
BY LanConstants DEF GuiInv, Reads

LEMMA ReadSettled ==
  ASSUME pool \in PoolRange
  PROVE  Reads(pool.start) = {pool.start} /\ Reads(pool.end) = {pool.end}
BY Marks DEF Reads, PoolRange, Text

\* A step inside sync() after the parsing, which leaves configuration, file
\* and engine alone.
LEMMA SyncKeeps ==
  ASSUME LanInv, pc \in SyncPC \ {"parse", "parse_end"},
         UNCHANGED <<pool, pending, gui, disk, leased, wan>>,
         kernel' \in IfaceAddr, s' \in Locals, s'.pool = s.pool,
         \/ phase' = phase /\ pc' \in SyncPC \ {"parse", "parse_end"}
         \/ phase = "init" /\ phase' = "init" /\ pc' = "wan"
         \/ phase = "init" /\ phase' = "refused" /\ pc' = "idle"
         \/ phase # "init" /\ phase' = phase /\ pc' = "save",
         PublishedInPool'
  PROVE  LanInv'
<1>0. LanTypeOK /\ GuiInv /\ StartInv /\ Agreed /\ Tracked /\ NatAddressUsable
  BY Zenon DEF LanInv
<1>1. phase = "init" \/ phase = "up"
  BY <1>0, Zenon DEF Agreed, LanTypeOK, SyncPC
<1>2. LanTypeOK'
  BY <1>0, Zenon DEF LanTypeOK, SyncPC, SavePC, gui, disk
<1>3. GuiInv'
  BY <1>0, <1>1, Zenon DEF GuiInv, gui
<1>4. StartInv'
  BY <1>0, <1>1, Zenon DEF StartInv, SyncPC, disk, Loaded
<1>5. Agreed'
  BY <1>0, <1>1, Zenon DEF Agreed, SyncPC, ReadPC, gui, disk, Loaded
<1>6. Tracked' /\ NatAddressUsable'
  BY <1>0, <1>1, Zenon DEF Tracked, NatAddressUsable, wan
<1> QED
  BY <1>2, <1>3, <1>4, <1>5, <1>6, Zenon DEF LanInv

\* The parsing, in App::init or on the control thread.
LEMMA ParseStep ==
  ASSUME LanInv, SyncParse \/ SyncParseEnd
  PROVE  LanInv'
<1>0. LanTypeOK /\ GuiInv /\ StartInv /\ Agreed /\ Tracked /\ NatAddressUsable
  BY DEF LanInv
<1>1. phase = "init" \/ phase = "up"
  BY <1>0, Zenon DEF Agreed, LanTypeOK, SyncParse, SyncParseEnd
<1>2. UNCHANGED <<pool, pending, gui, disk, kernel, leased, wan>>
  BY Zenon DEF SyncParse, SyncParseEnd
<1>3. /\ pc' # "publish"
      /\ \/ phase' = phase /\ pc' \in {"parse_end", "set", "read"}
         \/ phase = "init" /\ phase' = "refused" /\ pc' = "idle"
         \/ phase # "init" /\ phase' = phase /\ pc' = "save"
  BY <1>1 DEF SyncParse, SyncParseEnd, Return, Goto
<1>4. PublishedInPool' /\ Tracked' /\ NatAddressUsable'
  BY <1>0, <1>2, <1>3, Zenon DEF PublishedInPool, Tracked, NatAddressUsable, wan
<1>5. s' \in Locals
  <2>1. CASE SyncParse
    <3>1. PICK a \in Reads(pool.start) : \/ a = Bad /\ s' = s
                                         \/ a # Bad /\ s' = [s EXCEPT !.pool.start = a]
      BY <2>1, Zenon DEF SyncParse
    <3>2. a # Bad => a \in Ipv4
      BY <1>0, ReadText DEF Text
    <3> QED
      BY <1>0, <3>1, <3>2 DEF LanTypeOK, Locals, PoolRange
  <2>2. CASE SyncParseEnd
    <3>1. PICK a \in Reads(pool.end) : \/ a = Bad /\ s' = s
                                       \/ a # Bad /\ s' = [s EXCEPT !.pool.end = a]
      BY <2>2, Zenon DEF SyncParseEnd
    <3>2. a # Bad => a \in Ipv4
      BY <1>0, ReadText DEF Text
    <3> QED
      BY <1>0, <3>1, <3>2 DEF LanTypeOK, Locals, PoolRange
  <2> QED
    BY <2>1, <2>2
<1>6. LanTypeOK'
  BY <1>0, <1>2, <1>3, <1>5 DEF LanTypeOK, SyncPC, SavePC, gui, disk
<1>7. GuiInv'
  BY <1>0, <1>1, <1>2, <1>3 DEF GuiInv, gui
<1>8. StartInv'
  <2> SUFFICES ASSUME phase' = "init" PROVE StartInv'
    BY DEF StartInv
  <2>1. /\ phase = "init" /\ pool.start # Torn /\ pool.end # Torn
        /\ ~pending /\ leased = pool /\ Loaded(file) = pool
    BY <1>0, <1>1, <1>3 DEF StartInv
  <2>2. Reads(pool.start) = {pool.start} /\ Reads(pool.end) = {pool.end}
    BY <2>1 DEF Reads
  <2>3. CASE SyncParse
    <3>1. pc' = "parse_end" /\ s' = [s EXCEPT !.pool.start = pool.start]
      BY <2>1, <2>2, <2>3 DEF SyncParse, Return, Goto
    <3>2. s'.pool.start = pool.start
      BY <1>0, <3>1 DEF LanTypeOK, Locals, PoolRange
    <3> QED
      BY <1>2, <2>1, <3>1, <3>2 DEF StartInv, SyncPC, disk, Loaded
  <2>4. CASE SyncParseEnd
    <3>1. /\ pc' \in {"set", "read"} /\ s' = [s EXCEPT !.pool.end = pool.end]
          /\ pool.end # Bad /\ ~(s.pool.start > pool.end)
      BY <2>1, <2>2, <2>4 DEF SyncParseEnd, Return, Goto
    <3>2. s.pool.start = pool.start
      BY <1>0, <2>1, <2>4 DEF SyncParseEnd, StartInv
    <3>3. s'.pool.start = pool.start
      BY <1>0, <3>1, <3>2 DEF LanTypeOK, Locals, PoolRange
    <3>4. s.pool.start \in Ipv4
      BY <1>0 DEF LanTypeOK, Locals, PoolRange
    <3>5. pool.end \in Ipv4
      BY <1>0, <2>1, <3>1 DEF GuiInv, Text
    <3>6. pool \in PoolRange
      BY <1>0, <3>2, <3>4, <3>5 DEF GuiInv, PoolRange
    <3>7. pool.start <= pool.end
      BY <3>1, <3>2, <3>4, <3>5 DEF Ipv4
    <3> QED
      BY <1>2, <2>1, <3>1, <3>3, <3>6, <3>7 DEF StartInv, SyncPC, disk, Loaded
  <2> QED
    BY <2>3, <2>4
<1>9. Agreed'
  BY <1>0, <1>1, <1>2, <1>3, Zenon DEF Agreed, SyncParse, SyncParseEnd, ReadPC, gui, disk
<1> QED
  BY <1>4, <1>6, <1>7, <1>8, <1>9, Zenon DEF LanInv

LEMMA SyncStep ==
  ASSUME LanInv, SyncSet \/ SyncRead \/ SyncReset \/ SyncReread \/ SyncPublish
  PROVE  LanInv'
<1>0. LanTypeOK /\ PublishedInPool
  BY DEF LanInv
<1> USE DEF Return, Goto, SyncPC
<1>2. CASE SyncSet
  <2>1. kernel' \in IfaceAddr
    BY <1>0, <1>2, SetIfaceType DEF SyncSet
  <2>2. PublishedInPool'
    BY <1>2 DEF SyncSet, PublishedInPool
  <2> QED
    BY <1>0, <1>2, <2>1, <2>2, SyncKeeps DEF SyncSet, LanTypeOK
<1>3. CASE SyncRead \/ SyncReread
  <2>1. PICK a \in LocalIp : s' = [s EXCEPT !.kern = a] /\ (pc' = "publish" => Aligned(a))
    BY <1>3 DEF SyncRead, SyncReread
  <2>2. s' \in Locals /\ s'.pool = s.pool /\ s'.kern = a
    BY <1>0, <2>1, LocalAddress DEF LanTypeOK, Locals
  <2>3. PublishedInPool'
    BY <2>1, <2>2 DEF PublishedInPool, Aligned
  <2> QED
    BY <1>0, <1>3, <2>2, <2>3, SyncKeeps DEF SyncRead, SyncReread, LanTypeOK
<1>4. CASE SyncReset
  <2>1. PICK ok \in BOOLEAN : SetIface(ok) /\ IF ok THEN Goto("reread") ELSE Return(FALSE)
    BY <1>4 DEF SyncReset
  <2>2. kernel' \in IfaceAddr
    BY <1>0, <2>1, SetIfaceType
  <2>3. PublishedInPool'
    BY <1>4, <2>1 DEF SyncReset, PublishedInPool
  <2> QED
    BY <1>0, <1>4, <2>1, <2>2, <2>3, SyncKeeps DEF SyncReset, LanTypeOK
<1>5. CASE SyncPublish
  <2>1. PublishedInPool'
    BY <1>5 DEF SyncPublish, PublishedInPool
  <2> QED
    BY <1>0, <1>5, <2>1, SyncKeeps DEF SyncPublish, LanTypeOK
<1> QED
  BY <1>2, <1>3, <1>4, <1>5

\* The GUI's assignments and its event.
LEMMA GuiStep == ASSUME LanInv, Gui PROVE LanInv'
<1>0. LanTypeOK /\ GuiInv /\ Agreed
  BY DEF LanInv
<1>1. UNCHANGED <<phase, disk, kernel, leased, pc, s, wan>>
  BY DEF Gui, ApplyPool, AssignStart, AssignEnd, SignalControl
<1>2. PublishedInPool' /\ Tracked' /\ NatAddressUsable'
  BY <1>1, PoolStepKeeps
<1>3. phase = "up" /\ (gpc' = "idle" => pending')
  BY <1>0 DEF Gui, ApplyPool, AssignStart, AssignEnd, SignalControl, GuiInv
<1>4. LanTypeOK'
  BY <1>0, <1>1, Zenon DEF Gui, ApplyPool, AssignStart, AssignEnd, SignalControl, LanTypeOK, disk
<1>5. GuiInv'
  <2>1. ASSUME NEW p \in Pools, ApplyPool(p) PROVE GuiInv'
    BY <1>0, <2>1 DEF ApplyPool, GuiInv
  <2>2. draft \in Pools => /\ draft \in PoolRange /\ draft.start <= draft.end
                           /\ draft.start \in Text /\ draft.end \in Text
    BY LanConstants DEF PoolRange, Text, Ipv4
  <2>3. CASE AssignStart
    BY <1>0, <2>2, <2>3 DEF AssignStart, GuiInv
  <2>4. CASE AssignEnd
    <3>1. /\ gpc = "end" /\ gpc' = "signal" /\ draft' = draft /\ phase' = phase
          /\ pool' = [pool EXCEPT !.end = draft.end]
      BY <2>4 DEF AssignEnd
    <3>2. draft \in PoolRange /\ pool.start = draft.start
      BY <1>0, <2>2, <3>1 DEF GuiInv
    <3>3. pool' = draft
      BY <1>0, <3>1, <3>2 DEF GuiInv, PoolRange
    <3>4. draft \in [start : Text \cup {Torn}, end : Text \cup {Torn}]
      BY <3>2 DEF PoolRange, Text
    <3> QED
      BY <1>0, <3>1, <3>3, <3>4 DEF GuiInv
  <2>5. CASE SignalControl
    BY <1>0, <2>2, <2>5 DEF SignalControl, GuiInv
  <2> QED
    BY <2>1, <2>3, <2>4, <2>5 DEF Gui
<1>6. StartInv'
  BY <1>1, <1>3 DEF StartInv
<1>7. Agreed'
  BY <1>0, <1>1, <1>3 DEF Agreed
<1> QED
  BY <1>2, <1>4, <1>5, <1>6, <1>7, Zenon DEF LanInv

\* The control thread outside sync(): it leaves the strings alone and runs only
\* once the program is up.
LEMMA ApplyStep ==
  ASSUME LanInv, \/ WakeControl \/ ReadStart \/ ReadEnd \/ ReconfigureLeases
                 \/ SaveOpen \/ SaveStart \/ SaveEnd
  PROVE  LanInv'
<1>0. LanTypeOK /\ GuiInv /\ StartInv /\ Agreed
  BY DEF LanInv
<1> USE DEF WakeControl, ReadStart, ReadEnd, ReconfigureLeases, SaveOpen, Opens, SaveStart, SaveEnd
<1>1. /\ UNCHANGED <<phase, pool, gui, kernel, wan>>
      /\ pc \in ReadPC \cup SavePC \cup {"idle"} /\ pc' # "publish" /\ pc' # "wan"
  BY DEF ReadPC, SavePC
<1>2. phase = "up"
  BY <1>0, <1>1 DEF LanTypeOK, StartInv, Agreed, SyncPC, ReadPC, SavePC
<1>3. PublishedInPool' /\ Tracked' /\ NatAddressUsable'
  BY <1>1, PoolStepKeeps
<1>4. GuiInv'
  BY <1>0, <1>1 DEF GuiInv, gui
<1>5. StartInv'
  BY <1>1, <1>2 DEF StartInv
<1>6. ASSUME NEW a, a \in Reads(pool.start) \/ a \in Reads(pool.end) PROVE a \in Text
  BY <1>0, <1>6, ReadText
<1>7. LanTypeOK'
  <2>1. s' \in Locals
    <3>1. s \in Locals /\ (s' = s \/ ReadStart \/ ReadEnd)
      BY <1>0 DEF LanTypeOK
    <3>2. CASE ReadStart
      <4>1. PICK a \in Reads(pool.start) : \/ s' = s
                                           \/ a # Bad /\ s' = [s EXCEPT !.pool.start = a]
        BY <3>2
      <4> QED
        BY <1>6, <3>1, <4>1 DEF Locals, PoolRange, Text
    <3>3. CASE ReadEnd
      <4>1. PICK a \in Reads(pool.end) : \/ s' = s
                                         \/ a # Bad /\ s' = [s EXCEPT !.pool.end = a]
        BY <3>3
      <4> QED
        BY <1>6, <3>1, <4>1 DEF Locals, PoolRange, Text
    <3> QED
      BY <3>1, <3>2, <3>3
  <2>2. file' \in Lines /\ unsaved' \in BOOLEAN
    <3>1. file \in Lines /\ unsaved \in BOOLEAN /\ (UNCHANGED disk \/ SaveOpen \/ SaveStart \/ SaveEnd)
      BY <1>0, Zenon DEF LanTypeOK
    <3>2. CASE SaveOpen
      <4>1. /\ file' = [start |-> Missing, end |-> Missing] \/ file' = file
            /\ unsaved' \in BOOLEAN
        BY <3>2, Zenon
      <4> QED
        BY <3>1, <4>1 DEF Lines
    <3>3. CASE SaveStart
      <4>1. PICK a \in Text : file' = file \/ file' = [file EXCEPT !.start = a]
        BY <1>6, <3>3, LanConstants
      <4> QED
        BY <3>1, <3>3, <4>1, Zenon DEF Lines
    <3>4. CASE SaveEnd
      <4>1. PICK a \in Text : file' = file \/ file' = [file EXCEPT !.end = a]
        BY <1>6, <3>4, LanConstants
      <4> QED
        BY <3>1, <3>4, <4>1, Zenon DEF Lines
    <3> QED
      BY <3>1, <3>2, <3>3, <3>4, Zenon DEF disk
  <2>3. pc' \in SyncPC \cup ReadPC \cup SavePC \cup {"idle"} /\ pending' \in BOOLEAN
    BY <1>0, Zenon DEF LanTypeOK, SyncPC, ReadPC, SavePC
  <2> QED
    BY <1>0, <1>1, <2>1, <2>2, <2>3 DEF LanTypeOK, gui
<1>8. Agreed'
  <2> SUFFICES ASSUME gpc = "idle", ~pending'
               PROVE  /\ pc' = "end" => s'.pool.start = pool.start
                      /\ pc' = "reconfigure" => s'.pool = pool
                      /\ pc' \notin ReadPC => leased' = pool
                      /\ pc' = "save_end" => unsaved' \/ file'.start = pool.start
                      /\ pc' = "idle" => unsaved' \/ Loaded(file)' = pool
    BY <1>1, <1>2 DEF Agreed, gui
  <2>1. /\ pool \in PoolRange /\ pool.start \in Ipv4 /\ pool.end \in Ipv4
        /\ pool.start <= pool.end /\ pool.start # Bad /\ pool.end # Bad
    BY <1>0, <1>2, Marks DEF GuiInv, PoolRange
  <2>2. Reads(pool.start) = {pool.start} /\ Reads(pool.end) = {pool.end}
    BY <2>1, ReadSettled
  <2>3. CASE WakeControl
    BY <2>3 DEF ReadPC
  <2>4. CASE ReadStart
    <3>1. pc' = "end" /\ s' = [s EXCEPT !.pool.start = pool.start]
      BY <2>1, <2>2, <2>4
    <3> QED
      BY <1>0, <3>1 DEF LanTypeOK, Locals, PoolRange, ReadPC
  <2>5. CASE ReadEnd
    <3>1. /\ pc' = "reconfigure" /\ s' = [s EXCEPT !.pool.end = pool.end]
          /\ s.pool.start = pool.start
      BY <1>0, <1>2, <2>1, <2>2, <2>5 DEF Agreed
    <3>2. s'.pool = pool
      BY <1>0, <2>1, <3>1 DEF LanTypeOK, Locals, PoolRange
    <3> QED
      BY <3>1, <3>2 DEF ReadPC
  <2>6. CASE ReconfigureLeases
    <3>1. s.pool = pool
      BY <1>0, <1>2, <2>6 DEF Agreed
    <3>2. ~(pool.end < pool.start)
      BY <2>1 DEF Ipv4
    <3> QED
      BY <2>6, <3>1, <3>2
  <2>7. CASE SaveOpen
    BY <1>0, <1>2, <2>7 DEF Agreed, ReadPC
  <2>8. CASE SaveStart
    BY <1>0, <1>2, <2>2, <2>8 DEF Agreed, ReadPC, LanTypeOK, Lines
  <2>9. CASE SaveEnd
    <3>1. leased' = pool /\ pc' = "idle"
      BY <1>0, <1>2, <2>9 DEF Agreed, ReadPC
    <3>2. unsaved' \/ (file.start = pool.start /\ file' = [file EXCEPT !.end = pool.end])
      BY <1>0, <1>2, <2>2, <2>9 DEF Agreed
    <3>3. unsaved' \/ file' = pool
      BY <1>0, <2>1, <3>2 DEF LanTypeOK, Lines, PoolRange
    <3>4. unsaved' \/ Loaded(file)' = pool
      BY <2>1, <3>3, Marks DEF Loaded, PoolRange, Text
    <3> QED
      BY <3>1, <3>4
  <2> QED
    BY <2>3, <2>4, <2>5, <2>6, <2>7, <2>8, <2>9, Zenon
<1> QED
  BY <1>3, <1>4, <1>5, <1>7, <1>8, Zenon DEF LanInv

LEMMA RestartStep == ASSUME LanInv, Restart PROVE LanInv'
<1>0. LanTypeOK
  BY DEF LanInv
<1>1. pool' = Loaded(file) /\ file' = file
  BY DEF Restart
<1>2. pool' \in [start : Text, end : Text]
  BY <1>0, <1>1, LoadedText DEF LanTypeOK
<1>3. pool'.start # Torn /\ pool'.end # Torn
  BY <1>2, Marks
<1>4. LanTypeOK'
  BY <1>0, Zenon DEF Restart, LanTypeOK, SyncPC
<1>5. GuiInv'
  BY <1>2 DEF Restart, GuiInv
<1>6. StartInv'
  BY <1>1, <1>3 DEF Restart, StartInv, SyncPC, Loaded
<1>7. PublishedInPool' /\ Agreed' /\ Tracked' /\ NatAddressUsable'
  BY DEF Restart, PublishedInPool, Agreed, Tracked, NatAddressUsable
<1> QED
  BY <1>4, <1>5, <1>6, <1>7 DEF LanInv

LEMMA InitNatStep == ASSUME LanInv, InitNat PROVE LanInv'
<1>0. LanTypeOK /\ GuiInv /\ StartInv /\ Agreed /\ Tracked
  BY DEF LanInv
<1>1. /\ UNCHANGED <<pool, pending, gui, disk, kernel, leased, s>>
      /\ pc = "wan" /\ pc' = "idle" /\ phase' \in {"up", "refused"}
  BY Zenon DEF InitNat
<1>2. phase = "init"
  BY <1>0, <1>1 DEF Agreed, LanTypeOK
<1>3. LanTypeOK' /\ PublishedInPool'
  BY <1>0, <1>1, Zenon DEF LanTypeOK, PublishedInPool, gui, disk
<1>4. GuiInv' /\ StartInv'
  BY <1>0, <1>1, <1>2, Zenon DEF GuiInv, StartInv, gui
<1>5. Agreed'
  BY <1>0, <1>1, <1>2, Zenon DEF Agreed, StartInv, ReadPC, disk, Loaded
<1>6. Tracked' /\ NatAddressUsable'
  BY <1>0 DEF InitNat, Tracked, NatAddressUsable
<1> QED
  BY <1>3, <1>4, <1>5, <1>6 DEF LanInv

LEMMA LanStep == LanInv /\ [LanNext]_lanVars => LanInv'
<1> SUFFICES ASSUME LanInv, [LanNext]_lanVars PROVE LanInv'
  OBVIOUS
<1>0. LanTypeOK /\ Tracked /\ NatAddressUsable
  BY DEF LanInv
<1> USE DEF wan
<1>1. ASSUME NEW a \in Foreign, ForeignChange(a) PROVE LanInv'
  BY <1>0, <1>1, OthersKeep, LanConstants
     DEF ForeignChange, IfaceAddr, Tracked, NatAddressUsable
<1>2. ASSUME NEW a \in WanAddr \cup {None}, ForeignWanChange(a) PROVE LanInv'
  BY <1>0, <1>2, OthersKeep DEF ForeignWanChange, LanTypeOK, Tracked, NatAddressUsable
<1>3. CASE Worker
  BY <1>0, <1>3, OthersKeep
     DEF Worker, RefreshRead, RefreshCompare, RefreshStore, LanTypeOK, Tracked,
         NatAddressUsable
<1>4. CASE Tracker
  BY <1>0, <1>4, OthersKeep
     DEF Tracker, TrackRead, TrackStore, LanTypeOK, Tracked, NatAddressUsable
<1>5. CASE UNCHANGED lanVars
  BY <1>0, <1>5, OthersKeep DEF lanVars, LanTypeOK, Tracked, NatAddressUsable
<1>6. CASE Control
  BY <1>6, ParseStep, SyncStep, ApplyStep, InitNatStep DEF Control
<1> QED
  BY <1>1, <1>2, <1>3, <1>4, <1>5, <1>6, RestartStep, GuiStep DEF LanNext

\* Whatever sync() hands to the engine as gateway lies in the subnet of the
\* pool it parsed, for every address width, whether or not the ioctls fail
\* and whatever others do to the interface meanwhile.
THEOREM GatewayInPool == LanSpec => []PublishedInPool
<1>1. LanInv => PublishedInPool
  BY DEF LanInv
<1> QED
  BY LanStart, LanStep, <1>1, PTL DEF LanSpec

\* infer_prefix_covering_pool finds the longest prefix whose subnet holds the
\* whole pool that sync() has parsed, for every width of an address.
THEOREM PrefixCoversPool == LanSpec => []SubnetCoversPool
<1>1. LanInv => SubnetCoversPool
  BY PoolCovered DEF LanInv, LanTypeOK, Locals, PoolRange, SubnetCoversPool
<1> QED
  BY LanStart, LanStep, <1>1, PTL DEF LanSpec

\* Every address of the pool that sync() has parsed is on one link with the
\* gateway it publishes, so a client that gets the one reaches the other.
PoolOnLink ==
  LET prefix == infer_prefix_covering_pool(s.pool.start, s.pool.end)
  IN  \A a \in s.pool.start .. s.pool.end : ipv4_in_subnet(a, prefix, gateway')

\* The gateway that sync() hands to the DHCP engine is on the link of every
\* address of the pool, for every address width.
THEOREM ClientsReachGateway == LanSpec => [][SyncPublish => PoolOnLink]_lanVars
<1>1. ASSUME LanInv, SyncPublish PROVE PoolOnLink
  <2> DEFINE lo == s.pool.start
             hi == s.pool.end
             prefix == infer_prefix_covering_pool(lo, hi)
  <2>1. lo \in Ipv4 /\ hi \in Ipv4
    BY <1>1 DEF LanInv, LanTypeOK, Locals, PoolRange
  <2>2. prefix \in 0 .. Width
    BY <2>1, PrefixInRange
  <2>3. prefix <= prefix
    BY <2>2, LanConstants
  <2>4. \A a \in lo .. hi : ipv4_in_subnet(a, prefix, lo)
    BY <2>1, <2>2, <2>3, PoolCovered, Zenon
  <2>5. gateway' = s.kern /\ ipv4_in_subnet(s.kern, prefix, lo)
    BY <1>1, Zenon DEF SyncPublish, LanInv, PublishedInPool, Aligned, InPoolSubnet
  <2> QED
    BY <2>4, <2>5, Zenon DEF PoolOnLink, ipv4_in_subnet
<1>2. LanInv /\ [LanNext]_lanVars => [SyncPublish => PoolOnLink]_lanVars
  BY <1>1
<1> QED
  BY LanStart, LanStep, <1>2, PTL DEF LanSpec

\* Once the GUI is done with its edit and the control thread with every event,
\* the DHCP engine leases from the configured pool and a restart would load it,
\* unless the last save could not write the file: for any number of edits,
\* wherever their assignments fall among the control thread's reads.
THEOREM PoolServedAndSaved == LanSpec => []ServedIsSaved
<1>1. LanInv => ServedIsSaved
  BY Zenon DEF LanInv, Agreed, ServedIsSaved, ReadPC
<1> QED
  BY LanStart, LanStep, <1>1, PTL DEF LanSpec

\* While the program is up with NAT on, the NAT engine has an address packets
\* can carry: App::init refuses to start without one and NatWanTracker::tick5s
\* never stores another kind.
THEOREM NatAddressAlwaysUsable == LanSpec => []NatAddressUsable
<1>1. LanInv => NatAddressUsable
  BY DEF LanInv
<1> QED
  BY LanStart, LanStep, <1>1, PTL DEF LanSpec
=============================================================================
