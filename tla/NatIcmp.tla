------------------------------ MODULE NatIcmp ------------------------------
(***************************************************************************)
(* NatEngine (src/NatEngine.cpp), ICMP echo: the upstream worker maps a     *)
(* ping's identifier to an external one (process_outbound_icmp), which      *)
(* alloc_external_icmp_id searches for, and the downstream worker maps      *)
(* replies back (process_inbound_icmp).  Unlike a TCP or UDP port, an       *)
(* identifier is only given out when no active session has it.              *)
(*                                                                          *)
(* A flow is an internal host with its identifier, and a remote host; its   *)
(* fields are written and read as one key, and a torn session is one whose  *)
(* key and external identifier do not belong together.  Ticks wrap at 2^32  *)
(* in the code and at TickMod here.                                         *)
(***************************************************************************)
EXTENDS EchoTable

CONSTANTS Home,              \* hash_icmp_flow(...) % MAX_ICMP_SESSIONS
          Probe,             \* the 32 of the probe loop
          IdFirst,           \* 25000
          AllocTries,        \* the 512 of alloc_external_icmp_id
          TickMod, Expiry,   \* 2^32, 300
          Attempts,          \* the 8 of the reader's loop
          LoadsSink,         \* may the reader's plain loads pass its second load of seq?
          MaxTick, MaxTakes  \* bounds on ticks and on sessions created

\* What the code's constants satisfy.
IcmpConstants ==
  /\ Slots \in Nat \ {0} /\ Probe \in 1 .. Slots /\ Attempts \in Nat \ {0}
  /\ IdLo \in Nat \ {0} /\ IdHi \in Nat /\ IdFirst \in Id /\ AllocTries \in Nat
  /\ TickMod \in Nat \ {0} /\ Expiry \in Nat /\ MaxTick \in Nat /\ MaxTakes \in Nat
  /\ LoadsSink \in BOOLEAN
  /\ Home \in [Flow -> Slot] /\ Remote \in [Flow -> Endpoint] /\ NoFlow \notin Flow

VARIABLES last,                 \* last_active_tick of each session
          cursor, tick,         \* icmp_id_cursor, current_tick
          flow, now, n, tries,  \* process_outbound_icmp and its allocation
          slot, new,            \* the slot it takes, the identifier it got
          takes                 \* sessions created, for the bound

table == <<active, seq, key, ext, index>>
locals == <<flow, now, n, slot>>
vars == <<table, last, cursor, tick, pc, locals, tries, new, r, installed, takes>>

NoLookup == [pc |-> "idle", from |-> NoFlow, id |-> 0, idx |-> -1, tries |-> 0,
             s0 |-> 0, s1 |-> 0, act |-> FALSE, key |-> NoFlow, ext |-> 0, tick |-> 0, todo |-> {}]

Init == /\ active = [i \in Slot |-> FALSE]
        /\ seq = [i \in Slot |-> 0]
        /\ key = [i \in Slot |-> NoFlow]
        /\ ext = [i \in Slot |-> 0]
        /\ last = [i \in Slot |-> 0]
        /\ index = [d \in Id |-> -1]
        /\ cursor = IdFirst /\ tick = 0
        /\ pc = "idle" /\ flow = NoFlow /\ now = 0 /\ n = 0 /\ tries = 0
        /\ slot = 0 /\ new = 0
        /\ r = NoLookup /\ installed = {} /\ takes = 0

Tick == /\ tick < MaxTick
        /\ tick' = (tick + 1) % TickMod
        /\ UNCHANGED <<table, last, cursor, pc, locals, tries, new, r, installed, takes>>

(***************************************************************************)
(* process_outbound_icmp                                                   *)
(***************************************************************************)
Return == /\ pc' = "idle" /\ flow' = NoFlow /\ now' = 0 /\ n' = 0
          /\ slot' = 0 /\ tries' = 0 /\ new' = 0

Outbound(f) == /\ pc = "idle"
               /\ pc' = "probe" /\ flow' = f /\ now' = tick /\ n' = 0 /\ slot' = Home[f]
               /\ UNCHANGED <<table, last, cursor, tick, tries, new, r, installed, takes>>

\* tick - last_active_tick > 300, in unsigned arithmetic.
Expired(i) == active[i] /\ (now - last[i]) % TickMod > Expiry

ProbeTake == /\ pc = "probe" /\ n < Probe /\ takes < MaxTakes
             /\ ~active[slot] \/ Expired(slot)
             /\ pc' = "odd" /\ takes' = takes + 1
             /\ UNCHANGED <<table, last, cursor, tick, locals, tries, new, r, installed>>

ProbeHit == /\ pc = "probe" /\ n < Probe
            /\ active[slot] /\ ~Expired(slot) /\ key[slot] = flow
            /\ pc' = "hit"
            /\ UNCHANGED <<table, last, cursor, tick, locals, tries, new, r, installed, takes>>

KeepAlive == /\ pc = "hit"
             /\ last' = [last EXCEPT ![slot] = now]
             /\ Return
             /\ UNCHANGED <<table, cursor, tick, r, installed, takes>>

ProbeMiss == /\ pc = "probe" /\ n < Probe
             /\ active[slot] /\ ~Expired(slot) /\ key[slot] # flow
             /\ n' = n + 1 /\ slot' = (slot + 1) % Slots
             /\ UNCHANGED <<table, last, cursor, tick, pc, flow, now, tries, new, r,
                            installed, takes>>

ProbeFails == /\ pc = "probe" /\ n = Probe
              /\ Return
              /\ UNCHANGED <<table, last, cursor, tick, r, installed, takes>>

SeqOdd == /\ pc = "odd"
          /\ seq' = [seq EXCEPT ![slot] = @ + 1]
          /\ pc' = IF active[slot] THEN "unlink" ELSE "alloc"
          /\ UNCHANGED <<active, key, ext, index, last, cursor, tick, locals, tries, new, r,
                         installed, takes>>

UnlinkSkipped == /\ pc = "unlink"
                 /\ pc' = "deactivate"
                 /\ UNCHANGED <<table, last, cursor, tick, locals, tries, new, r,
                                installed, takes>>

\* compare_exchange of the old identifier's entry from this slot to -1.
Unlink == /\ pc = "unlink"
          /\ index' = IF index[ext[slot]] = slot THEN [index EXCEPT ![ext[slot]] = -1] ELSE index
          /\ pc' = "deactivate"
          /\ UNCHANGED <<active, seq, key, ext, last, cursor, tick, locals, tries, new, r,
                         installed, takes>>

Deactivate == /\ pc = "deactivate"
              /\ active' = [active EXCEPT ![slot] = FALSE]
              /\ pc' = "alloc"
              /\ UNCHANGED <<seq, key, ext, index, last, cursor, tick, locals, tries, new, r,
                             installed, takes>>

(***************************************************************************)
(* alloc_external_icmp_id, one round of its loop per step.                 *)
(***************************************************************************)
NextId(d) == IF d + 1 > IdHi THEN IdLo ELSE d + 1

UsableAlways(d) == TRUE

\* No session has the identifier, or only an inactive one.
Usable(d) == index[d] >= 0 => ~active[index[d]]

AllocTake == /\ pc = "alloc" /\ tries < AllocTries /\ Usable(cursor)
             /\ new' = cursor
             /\ cursor' = NextId(cursor)
             /\ index' = [index EXCEPT ![cursor] = -1]
             /\ pc' = "key"
             /\ UNCHANGED <<active, seq, key, ext, last, tick, locals, tries, r,
                            installed, takes>>

AllocBusy == /\ pc = "alloc" /\ tries < AllocTries /\ ~Usable(cursor)
             /\ cursor' = NextId(cursor)
             /\ tries' = tries + 1
             /\ UNCHANGED <<table, last, tick, pc, locals, new, r, installed, takes>>

\* No identifier: the slot stays inactive and the ping is not translated.
AllocFails == /\ pc = "alloc" /\ tries = AllocTries
              /\ seq' = [seq EXCEPT ![slot] = @ + 1]
              /\ Return
              /\ UNCHANGED <<active, key, ext, index, last, cursor, tick, r, installed, takes>>

WriteKey == /\ pc = "key"
            /\ key' = [key EXCEPT ![slot] = flow]
            /\ pc' = "ext"
            /\ UNCHANGED <<active, seq, ext, index, last, cursor, tick, locals, tries, new, r,
                           installed, takes>>

WriteExt == /\ pc = "ext"
            /\ ext' = [ext EXCEPT ![slot] = new]
            /\ installed' = installed \cup {<<flow, new>>}
            /\ pc' = "last"
            /\ UNCHANGED <<active, seq, key, index, last, cursor, tick, locals, tries, new, r,
                           takes>>

WriteLast == /\ pc = "last"
             /\ last' = [last EXCEPT ![slot] = now]
             /\ pc' = "link"
             /\ UNCHANGED <<table, cursor, tick, locals, tries, new, r, installed, takes>>

Link == /\ pc = "link"
        /\ index' = [index EXCEPT ![new] = slot]
        /\ pc' = "even"
        /\ UNCHANGED <<active, seq, key, ext, last, cursor, tick, locals, tries, new, r,
                       installed, takes>>

SeqEven == /\ pc = "even"
           /\ seq' = [seq EXCEPT ![slot] = @ + 1]
           /\ pc' = "active"
           /\ UNCHANGED <<active, key, ext, index, last, cursor, tick, locals, tries, new, r,
                          installed, takes>>

Activate == /\ pc = "active"
            /\ active' = [active EXCEPT ![slot] = TRUE]
            /\ Return
            /\ UNCHANGED <<seq, key, ext, index, last, cursor, tick, r, installed, takes>>

(***************************************************************************)
(* process_inbound_icmp: an echo reply from a host with one of our ids.    *)
(***************************************************************************)
ReaderUnchanged == UNCHANGED <<table, cursor, tick, pc, locals, tries, new, installed, takes>>

Inbound(from, d) == /\ r.pc = "idle" /\ index[d] >= 0
                    /\ r' = [r EXCEPT !.pc = "s0", !.from = from, !.id = d, !.idx = index[d]]
                    /\ ReaderUnchanged /\ UNCHANGED last

LoadS0 == /\ r.pc = "s0"
          /\ r' = IF r.tries = Attempts THEN NoLookup
                  ELSE IF seq[r.idx] % 2 = 1 THEN [r EXCEPT !.tries = @ + 1]
                  ELSE [r EXCEPT !.pc = "act", !.s0 = seq[r.idx], !.tries = @ + 1]
          /\ ReaderUnchanged /\ UNCHANGED last

LoadActive == /\ r.pc = "act"
              /\ r' = [r EXCEPT !.pc = "load", !.act = active[r.idx],
                                !.todo = {"key", "ext", "s1"}]
              /\ ReaderUnchanged /\ UNCHANGED last

LoadKey == /\ r.pc = "load" /\ "key" \in r.todo
           /\ r' = [r EXCEPT !.key = key[r.idx], !.todo = @ \ {"key"}]
           /\ ReaderUnchanged /\ UNCHANGED last

LoadExt == /\ r.pc = "load" /\ "ext" \in r.todo
           /\ r' = [r EXCEPT !.ext = ext[r.idx], !.todo = @ \ {"ext"}]
           /\ ReaderUnchanged /\ UNCHANGED last

\* An acquire load, which earlier plain loads may pass; see NatEngine.
LoadS1 == /\ r.pc = "load" /\ "s1" \in r.todo
          /\ LoadsSink \/ r.todo = {"s1"}
          /\ r' = [r EXCEPT !.s1 = seq[r.idx], !.todo = @ \ {"s1"}]
          /\ ReaderUnchanged /\ UNCHANGED last

\* The comparisons; a change of seq starts over.
Validate == /\ r.pc = "load" /\ r.todo = {}
            /\ r' = IF ~SeqStable
                      THEN [NoLookup EXCEPT !.pc = "s0", !.from = r.from, !.id = r.id,
                                            !.idx = r.idx, !.tries = r.tries]
                    ELSE IF Matches
                      THEN [r EXCEPT !.pc = "refresh", !.tick = tick] ELSE NoLookup
            /\ ReaderUnchanged /\ UNCHANGED last

Refresh == /\ r.pc = "refresh"
           /\ last' = [last EXCEPT ![r.idx] = r.tick]
           /\ r' = NoLookup
           /\ ReaderUnchanged

Writer == \/ \E f \in Flow : Outbound(f)
          \/ ProbeTake \/ ProbeHit \/ KeepAlive \/ ProbeMiss \/ ProbeFails
          \/ SeqOdd \/ Unlink \/ Deactivate
          \/ AllocTake \/ AllocBusy \/ AllocFails
          \/ WriteKey \/ WriteExt \/ WriteLast \/ Link \/ SeqEven \/ Activate

Reader == \/ \E from \in Endpoint, d \in Id : Inbound(from, d)
          \/ LoadS0 \/ LoadActive \/ LoadKey \/ LoadExt \/ LoadS1 \/ Validate \/ Refresh

Next == Tick \/ Writer \/ Reader

Spec == Init /\ [][Next]_vars

(***************************************************************************)
(* Properties.                                                             *)
(***************************************************************************)

\* The state the writer works on has the expected shape: the cursor and every
\* identifier it hands out stay in IdLo..IdHi.
TypeOK ==
  /\ active \in [Slot -> BOOLEAN]
  /\ seq \in [Slot -> Nat]
  /\ key \in [Slot -> Flow \cup {NoFlow}]
  /\ ext \in [Slot -> Id \cup {0}]
  /\ index \in [Id -> Slot \cup {-1}]
  /\ cursor \in Id
  /\ pc \in {"idle", "probe", "hit", "odd", "unlink", "deactivate", "alloc", "key", "ext", "last",
             "link", "even", "active"}
  /\ flow \in Flow \cup {NoFlow} /\ slot \in Slot /\ new \in Id \cup {0}
  /\ pc # "idle" => flow \in Flow
  /\ n \in 0 .. Probe /\ tries \in 0 .. AllocTries
=============================================================================
