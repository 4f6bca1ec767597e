----------------------------- MODULE DhcpEngine -----------------------------
(***************************************************************************)
(* The DHCP server (src/DhcpEngine.cpp).  Core 3 queues client messages;   *)
(* the watchdog thread handles them in batches under mutex_; the control   *)
(* thread replaces the pool and the gateway under the same mutex.          *)
(*                                                                         *)
(* Addresses are host-order numbers, 0 is the null address.  A message is  *)
(* what the handler's tests leave of a frame: its type, the client's MAC   *)
(* and the address asked for (option 50, or ciaddr when that is absent);   *)
(* every frame the handler returns from early is of type "other".          *)
(***************************************************************************)
EXTENDS Naturals, Sequences, FiniteSets

CONSTANTS Mac,        \* client hardware addresses
          NoMac,      \* the zeroed address of a fresh lease
          Addr,       \* addresses a pool bound or a request can name
          Router,     \* addresses the gateway can have
          Duration,   \* lease durations a configuration can name
          MaxPool,    \* MAX_POOL_SIZE
          QueueSize,  \* messages request_queue holds
          Budget,     \* kBackgroundTaskBudget
          MaxTime     \* bound on the modelled clock

ASSUME DhcpConstants ==
  /\ NoMac \notin Mac
  /\ Addr \subseteq Nat \ {0}
  /\ Duration \subseteq Nat
  /\ MaxPool \in Nat \ {0}
  /\ QueueSize \in Nat
  /\ Budget \in Nat \ {0}
  /\ MaxTime \in Nat

VARIABLES leases,     \* leases[i]: the holder, whether active, when it expires
          pool_start, \* leases[i].ip is pool_start + i
          pool_count,
          lease_duration,
          router_ip,
          queue,      \* request_queue
          batch,      \* messages the running batch may still take; 0: mutex_ free
          now,        \* steady_clock
          reply,      \* the response this step sent, if any
          bound       \* history: the last ACK each client has received

engine == <<leases, pool_start, pool_count, lease_duration, router_ip>>
vars == <<engine, queue, batch, now, reply, bound>>

Slots == 0 .. MaxPool - 1
Pool == {i \in Slots : i < pool_count}
Ip(i) == pool_start + i
Message == [type : {"discover", "other"}, mac : Mac, req : {0}]
             \cup [type : {"request"}, mac : Mac, req : Addr \cup {0}]
NoReply == [type |-> "none"]
Unbound == [ip |-> 0, until |-> 0]
FreshLease == [mac |-> NoMac, active |-> FALSE, expiry |-> 0]

PoolCount(s, e) == IF e - s + 1 < MaxPool THEN e - s + 1 ELSE MaxPool
Deactivate(table, n) ==
  [i \in Slots |-> IF i < n THEN [table[i] EXCEPT !.active = FALSE] ELSE table[i]]

\* The constructor.  start_h <= end_h: App::init refuses to start otherwise.
Init == /\ leases = [i \in Slots |-> FreshLease]
        /\ pool_start \in Addr
        /\ \E e \in Addr : e >= pool_start /\ pool_count = PoolCount(pool_start, e)
        /\ lease_duration \in Duration
        /\ router_ip \in Router
        /\ queue = <<>>
        /\ batch = 0
        /\ now = 0
        /\ reply = NoReply
        /\ bound = [m \in Mac |-> Unbound]

Tick == /\ now < MaxTime
        /\ now' = now + 1
        /\ reply' = NoReply
        /\ UNCHANGED <<engine, queue, batch, bound>>

(***************************************************************************)
(* intercept_request on core 3: a full queue drops the message silently.   *)
(***************************************************************************)
Intercept(msg) == /\ Len(queue) < QueueSize
                  /\ queue' = Append(queue, msg)
                  /\ reply' = NoReply
                  /\ UNCHANGED <<engine, batch, now, bound>>

(***************************************************************************)
(* find_or_assign_lease: the active lease of this MAC, expired or not;     *)
(* otherwise the first lease that is inactive or past its expiry.          *)
(***************************************************************************)
HeldUnexpiredBy(m) == {i \in Pool : /\ leases[i].active /\ leases[i].mac = m
                                    /\ now <= leases[i].expiry}

HeldBy(m) == {i \in Pool : leases[i].active /\ leases[i].mac = m}
ReusableAtExpiry == {i \in Pool : ~leases[i].active \/ now >= leases[i].expiry}

Reusable == {i \in Pool : ~leases[i].active \/ now > leases[i].expiry}

FirstOf(S) == CHOOSE i \in S : \A j \in S : i <= j

Grant(i, m) == [leases EXCEPT ![i] = [mac |-> m, active |-> TRUE,
                                      expiry |-> now + lease_duration]]

RespondWithoutAddress(t, m, a) == reply' = [type |-> t, mac |-> m, ip |-> 0,
                                            router |-> router_ip, lease |-> lease_duration]

Respond(t, m, a) == reply' = [type |-> t, mac |-> m, ip |-> a,
                              router |-> router_ip, lease |-> lease_duration]

(***************************************************************************)
(* handle_dhcp_request.  send_best_effort may drop the response, so the    *)
(* client learns of an ACK or does not.                                    *)
(***************************************************************************)
HandleDiscover(m) ==
  /\ bound' = bound
  /\ \/ /\ HeldBy(m) # {}
        /\ leases' = leases
        /\ Respond("offer", m, Ip(FirstOf(HeldBy(m))))
     \/ /\ HeldBy(m) = {} /\ Reusable # {}
        /\ leases' = Grant(FirstOf(Reusable), m)
        /\ Respond("offer", m, Ip(FirstOf(Reusable)))
     \/ /\ HeldBy(m) = {} /\ Reusable = {}
        /\ leases' = leases
        /\ reply' = NoReply

Learn(m, a) == bound' \in {bound, [bound EXCEPT ![m] = [ip |-> a, until |-> now + lease_duration]]}

HandleRequest(m, a) ==
  LET found == IF HeldBy(m) # {} THEN HeldBy(m) ELSE Reusable
      i == FirstOf(found)
  IN  \/ /\ found # {} /\ a = Ip(i)                 \* leased_ip == requested_ip
         /\ leases' = Grant(i, m)                   \* commit_lease renews it
         /\ Respond("ack", m, a)
         /\ Learn(m, a)
      \/ /\ found # {} /\ a # Ip(i)                 \* assigned all the same
         /\ leases' = IF HeldBy(m) # {} THEN leases ELSE Grant(i, m)
         /\ Respond("nak", m, a)
         /\ bound' = bound
      \/ /\ found = {}                              \* pool exhausted: leased_ip is 0
         /\ leases' = leases
         /\ Respond(IF a = 0 THEN "ack" ELSE "nak", m, a)
         /\ IF a = 0 THEN Learn(m, a) ELSE bound' = bound

Handle(msg) == \/ msg.type = "discover" /\ HandleDiscover(msg.mac)
               \/ msg.type = "request" /\ HandleRequest(msg.mac, msg.req)
               \/ msg.type = "other" /\ reply' = NoReply /\ UNCHANGED <<leases, bound>>

(***************************************************************************)
(* process_background_tasks: one lock, at most Budget messages.            *)
(***************************************************************************)
BeginBatch == /\ batch = 0
              /\ queue # <<>>
              /\ batch' = Budget
              /\ reply' = NoReply
              /\ UNCHANGED <<engine, queue, now, bound>>

HandleNext == /\ batch > 0 /\ queue # <<>>
              /\ Handle(Head(queue))
              /\ queue' = Tail(queue)
              /\ batch' = batch - 1
              /\ UNCHANGED <<pool_start, pool_count, lease_duration, router_ip, now>>

EndBatch == /\ batch > 0 /\ queue = <<>>
            /\ batch' = 0
            /\ reply' = NoReply
            /\ UNCHANGED <<engine, queue, now, bound>>

(***************************************************************************)
(* reconfigure and set_router_ip.  lease_duration is assigned before       *)
(* init_pool has validated the bounds.                                     *)
(***************************************************************************)
Reconfigure(s, e, d) ==
  /\ batch = 0
  /\ lease_duration' = d
  /\ \/ e < s /\ UNCHANGED <<leases, pool_start, pool_count>>
     \/ /\ e >= s
        /\ pool_start' = s
        /\ pool_count' = PoolCount(s, e)
        /\ leases' = Deactivate(leases, PoolCount(s, e))
  /\ bound' = [m \in Mac |-> Unbound]    \* promises are per configuration
  /\ reply' = NoReply
  /\ UNCHANGED <<router_ip, queue, batch, now>>

SetRouterIp(r) == /\ batch = 0
                  /\ router_ip' = r
                  /\ reply' = NoReply
                  /\ UNCHANGED <<leases, pool_start, pool_count, lease_duration,
                                 queue, batch, now, bound>>

Next == \/ Tick
        \/ \E msg \in Message : Intercept(msg)
        \/ BeginBatch
        \/ HandleNext
        \/ EndBatch
        \/ \E s, e \in Addr, d \in Duration : Reconfigure(s, e, d)
        \/ \E r \in Router : SetRouterIp(r)

Spec == Init /\ [][Next]_vars

(***************************************************************************)
(* Properties                                                              *)
(***************************************************************************)
Lease == [mac : Mac \cup {NoMac}, active : BOOLEAN, expiry : Nat]
Reply == [type : {"offer", "ack", "nak"}, mac : Mac, ip : Nat, router : Router, lease : Duration]

\* pool_count never passes the size of the leases array, and so on.
TypeOK == /\ leases \in [Slots -> Lease]
          /\ pool_start \in Addr
          /\ pool_count \in 1 .. MaxPool
          /\ lease_duration \in Duration
          /\ router_ip \in Router
          /\ queue \in Seq(Message)
          /\ batch \in 0 .. Budget
          /\ now \in Nat
          /\ reply \in Reply \cup {NoReply}
          /\ bound \in [Mac -> [ip : Nat, until : Nat]]

\* find_or_assign_lease never leaves one MAC with two active leases of the
\* pool: a client cannot use up the pool by coming back after its lease
\* has run out, and the search for its lease has one answer.
OneLeasePerMac ==
  \A i, j \in Pool :
    leases[i].active /\ leases[j].active /\ leases[i].mac = leases[j].mac => i = j

\* Two clients never hold the same address at the same time, a client
\* holding what the last ACK it received granted until that lease runs out.
\* ACKs may be lost.  This is a promise of one configuration only: a
\* reconfigure that succeeds forgets the leases that are still running, and
\* one that init_pool rejects has by then changed lease_duration, so that a
\* renewal whose ACK is lost may shorten a lease below what its client holds.
Holds(m) == bound[m].ip # 0 /\ now <= bound[m].until
NoDoubleLease == \A m, n \in Mac : Holds(m) /\ Holds(n) /\ bound[m].ip = bound[n].ip => m = n

\* A running lease is backed by an active lease of the pool that lasts at
\* least as long.
Backed(m) == \E i \in Pool : /\ Ip(i) = bound[m].ip
                             /\ leases[i].active /\ leases[i].mac = m
                             /\ leases[i].expiry >= bound[m].until
HoldersBacked == \A m \in Mac : Holds(m) => Backed(m)

\* A client that asks for the address it holds is never turned away: the
\* request is answered with an ACK for that address.
HolderAsks == /\ batch > 0 /\ queue # <<>>
              /\ Head(queue).type = "request"
              /\ Holds(Head(queue).mac)
              /\ Head(queue).req = bound[Head(queue).mac].ip
RenewalAcked == HandleNext /\ HolderAsks =>
                  /\ reply'.type = "ack"
                  /\ reply'.mac = Head(queue).mac
                  /\ reply'.ip = Head(queue).req
RenewalsAcked == [][RenewalAcked]_vars
=============================================================================
