----------------------------- MODULE NatEngine -----------------------------
(***************************************************************************)
(* NatEngine (src/NatEngine.cpp), TCP and UDP: the session table that the   *)
(* upstream worker writes (process_outbound, on core 3), the downstream     *)
(* worker reads through a sequence lock (process_inbound, on core 2) and    *)
(* the 1 Hz ticker ages.  One step is one access to shared memory; what     *)
(* only the writer stores, active and keys, it compares in the step that    *)
(* loads last_active_tick, which the reader stores too.                     *)
(*                                                                          *)
(* A flow is an internal endpoint and a remote one; its hash is a constant. *)
(* The fields of a key are written and read as one, and a torn session is   *)
(* one whose key and external port do not belong together.                  *)
(* The table has Slots entries, a probe window of Probe and ports           *)
(* PortLo..PortHi; ticks are 32-bit in the code and modulo TickMod here.    *)
(* Checksums are the subject of Checksum, ICMP of NatIcmp.                  *)
(***************************************************************************)
EXTENDS Integers

CONSTANTS Flow,              \* FlowKey values
          Endpoint,          \* remote endpoints
          Remote,            \* the one of a flow
          Home,              \* hash_flow(key) % MAX_SESSIONS
          Slots, Probe,      \* MAX_SESSIONS, the 32 of the probe loop
          PortLo, PortHi,    \* 10000, 60000
          TickMod, Expiry,   \* 2^32, 300
          Attempts,          \* the 8 of the reader's loop
          LoadsSink,         \* may the reader's plain loads pass its second load of seq?
          MaxTick, MaxTakes  \* bounds on ticks and on sessions created

Slot == 0 .. Slots - 1
Port == PortLo .. PortHi

\* What the code's constants satisfy.
NatConstants == /\ Slots \in Nat \ {0} /\ Probe \in 1 .. Slots
                /\ PortLo \in Nat \ {0} /\ PortHi \in Nat /\ PortLo <= PortHi
                /\ TickMod \in Nat \ {0}
                /\ Home \in [Flow -> Slot] /\ Remote \in [Flow -> Endpoint]

VARIABLES active, seq, key, ext, last,  \* the fields of each NatSession
          index,                        \* port_to_index
          cursor, tick,                 \* port_cursor, current_tick
          w,                            \* locals of process_outbound, its step in w.pc
          r,                            \* locals of process_inbound, its step in r.pc
          owner,                        \* history: the slot a port was last given to
          installed,                    \* history: the flow and port of every session so far
          takes                         \* sessions created, for the bound

table == <<active, seq, key, ext, index>>
history == <<owner, installed, takes>>
vars == <<table, last, cursor, tick, w, r, history>>

NoFlow == "none"
NoPacket == [pc |-> "idle", flow |-> NoFlow, tick |-> 0, n |-> 0]
NoLookup == [pc |-> "idle", from |-> NoFlow, port |-> 0, idx |-> -1, tries |-> 0,
             s0 |-> 0, s1 |-> 0, act |-> FALSE, key |-> NoFlow, ext |-> 0, tick |-> 0, todo |-> {}]

Init == /\ active = [i \in Slot |-> FALSE]
        /\ seq = [i \in Slot |-> 0]
        /\ key = [i \in Slot |-> NoFlow]
        /\ ext = [i \in Slot |-> 0]
        /\ last = [i \in Slot |-> 0]
        /\ index = [p \in Port |-> -1]
        /\ cursor = PortLo /\ tick = 0
        /\ w = NoPacket /\ r = NoLookup
        /\ owner = [p \in Port |-> -1]
        /\ installed = {} /\ takes = 0

\* NatEngine::tick, from the 1 Hz ticker.
Tick == /\ tick < MaxTick
        /\ tick' = (tick + 1) % TickMod
        /\ UNCHANGED <<table, last, cursor, w, r, history>>

(***************************************************************************)
(* process_outbound.  idx is the slot the probe is at.                     *)
(***************************************************************************)
idx == (Home[w.flow] + w.n) % Slots

Outbound(f) == /\ w.pc = "idle"
               /\ w' = [pc |-> "probe", flow |-> f, tick |-> tick, n |-> 0]
               /\ UNCHANGED <<table, last, cursor, tick, r, history>>

\* tick - last_active_tick > 300, in unsigned arithmetic.
Expired(i) == (w.tick - last[i]) % TickMod > Expiry

\* The slot is free or expired, and becomes this flow's.
ProbeTake == /\ w.pc = "probe" /\ w.n < Probe /\ takes < MaxTakes
             /\ ~active[idx] \/ Expired(idx)
             /\ w' = [w EXCEPT !.pc = "odd"]
             /\ takes' = takes + 1
             /\ UNCHANGED <<table, last, cursor, tick, r, owner, installed>>

ProbeHit == /\ w.pc = "probe" /\ w.n < Probe
            /\ active[idx] /\ ~Expired(idx) /\ key[idx] = w.flow
            /\ w' = [w EXCEPT !.pc = "hit"]
            /\ UNCHANGED <<table, last, cursor, tick, r, history>>

KeepAlive == /\ w.pc = "hit"
             /\ last' = [last EXCEPT ![idx] = w.tick]
             /\ w' = NoPacket
             /\ UNCHANGED <<table, cursor, tick, r, history>>

ProbeMiss == /\ w.pc = "probe" /\ w.n < Probe
             /\ active[idx] /\ ~Expired(idx) /\ key[idx] # w.flow
             /\ w' = [w EXCEPT !.n = @ + 1]
             /\ UNCHANGED <<table, last, cursor, tick, r, history>>

\* The window is full of live sessions of other flows: not translated.
ProbeFails == /\ w.pc = "probe" /\ w.n = Probe
              /\ w' = NoPacket
              /\ UNCHANGED <<table, last, cursor, tick, r, history>>

SeqOdd == /\ w.pc = "odd"
          /\ seq' = [seq EXCEPT ![idx] = @ + 1]
          /\ w' = [w EXCEPT !.pc = "unlink"]
          /\ UNCHANGED <<active, key, ext, index, last, cursor, tick, r, history>>

UnlinkBlindly == /\ w.pc = "unlink"
                 /\ index' = IF active[idx] THEN [index EXCEPT ![ext[idx]] = -1] ELSE index
                 /\ w' = [w EXCEPT !.pc = "key"]
                 /\ UNCHANGED <<active, seq, key, ext, last, cursor, tick, r, history>>

\* compare_exchange of the old port's entry from this slot to -1.
Unlink == /\ w.pc = "unlink"
          /\ index' = IF active[idx] /\ index[ext[idx]] = idx
                        THEN [index EXCEPT ![ext[idx]] = -1] ELSE index
          /\ w' = [w EXCEPT !.pc = "key"]
          /\ UNCHANGED <<active, seq, key, ext, last, cursor, tick, r, history>>

WriteKey == /\ w.pc = "key"
            /\ key' = [key EXCEPT ![idx] = w.flow]
            /\ w' = [w EXCEPT !.pc = "ext"]
            /\ UNCHANGED <<active, seq, ext, index, last, cursor, tick, r, history>>

\* port_cursor++, back to the first port after the last.
NextPort(p) == IF p + 1 > PortHi THEN PortLo ELSE p + 1

WriteExt == /\ w.pc = "ext"
            /\ ext' = [ext EXCEPT ![idx] = cursor]
            /\ cursor' = NextPort(cursor)
            /\ installed' = installed \cup {<<w.flow, cursor>>}
            /\ owner' = [owner EXCEPT ![cursor] = idx]
            /\ w' = [w EXCEPT !.pc = "last"]
            /\ UNCHANGED <<active, seq, key, index, last, tick, r, takes>>

WriteLast == /\ w.pc = "last"
             /\ last' = [last EXCEPT ![idx] = w.tick]
             /\ w' = [w EXCEPT !.pc = "even"]
             /\ UNCHANGED <<table, cursor, tick, r, history>>

SeqEven == /\ w.pc = "even"
           /\ seq' = [seq EXCEPT ![idx] = @ + 1]
           /\ w' = [w EXCEPT !.pc = "active"]
           /\ UNCHANGED <<active, key, ext, index, last, cursor, tick, r, history>>

WriteActive == /\ w.pc = "active"
               /\ active' = [active EXCEPT ![idx] = TRUE]
               /\ w' = [w EXCEPT !.pc = "link"]
               /\ UNCHANGED <<seq, key, ext, index, last, cursor, tick, r, history>>

Link == /\ w.pc = "link"
        /\ index' = [index EXCEPT ![ext[idx]] = idx]
        /\ w' = NoPacket
        /\ UNCHANGED <<active, seq, key, ext, last, cursor, tick, r, history>>

(***************************************************************************)
(* process_inbound: a packet from a remote endpoint to a port of ours.     *)
(***************************************************************************)
ReaderUnchanged == UNCHANGED <<table, last, cursor, tick, w, history>>

Inbound(from, p) == /\ r.pc = "idle"
                    /\ r' = IF index[p] < 0 THEN NoLookup
                            ELSE [r EXCEPT !.pc = "s0", !.from = from, !.port = p,
                                           !.idx = index[p]]
                    /\ ReaderUnchanged

\* The for loop's test; an odd s0 uses up an attempt.
LoadS0 == /\ r.pc = "s0"
          /\ r' = IF r.tries = Attempts THEN NoLookup
                  ELSE IF seq[r.idx] % 2 = 1 THEN [r EXCEPT !.tries = @ + 1]
                  ELSE [r EXCEPT !.pc = "act", !.s0 = seq[r.idx], !.tries = @ + 1]
          /\ ReaderUnchanged

LoadActive == /\ r.pc = "act"
              /\ r' = [r EXCEPT !.pc = "load", !.act = active[r.idx],
                                !.todo = {"key", "ext", "s1"}]
              /\ ReaderUnchanged

LoadKey == /\ r.pc = "load" /\ "key" \in r.todo
           /\ r' = [r EXCEPT !.key = key[r.idx], !.todo = @ \ {"key"}]
           /\ ReaderUnchanged

LoadExt == /\ r.pc = "load" /\ "ext" \in r.todo
           /\ r' = [r EXCEPT !.ext = ext[r.idx], !.todo = @ \ {"ext"}]
           /\ ReaderUnchanged

\* An acquire load: nothing after it moves up, but the plain loads before it
\* may complete later.
LoadS1 == /\ r.pc = "load" /\ "s1" \in r.todo
          /\ LoadsSink \/ r.todo = {"s1"}
          /\ r' = [r EXCEPT !.s1 = seq[r.idx], !.todo = @ \ {"s1"}]
          /\ ReaderUnchanged

SeqUnchecked == r.s1 % 2 = 0

\* Both loads of seq saw the same even number.
SeqStable == r.s0 = r.s1 /\ r.s1 % 2 = 0

Retry == [NoLookup EXCEPT !.pc = "s0", !.from = r.from, !.port = r.port,
                          !.idx = r.idx, !.tries = r.tries]

Matches == r.act /\ Remote[r.key] = r.from /\ r.ext = r.port

Validate == /\ r.pc = "load" /\ r.todo = {}
            /\ r' = IF ~SeqStable THEN Retry
                    ELSE IF Matches THEN [r EXCEPT !.pc = "refresh", !.tick = tick] ELSE NoLookup
            /\ ReaderUnchanged

\* The session is refreshed with the tick Validate loaded, and the packet goes
\* to r.key's internal endpoint.
Refresh == /\ r.pc = "refresh"
           /\ last' = [last EXCEPT ![r.idx] = r.tick]
           /\ r' = NoLookup
           /\ UNCHANGED <<table, cursor, tick, w, history>>

Writer == \/ \E f \in Flow : Outbound(f)
          \/ ProbeTake \/ ProbeHit \/ KeepAlive \/ ProbeMiss \/ ProbeFails
          \/ SeqOdd \/ Unlink \/ WriteKey \/ WriteExt \/ WriteLast \/ SeqEven \/ WriteActive \/ Link

Reader == \/ \E from \in Endpoint, p \in Port : Inbound(from, p)
          \/ LoadS0 \/ LoadActive \/ LoadKey \/ LoadExt \/ LoadS1 \/ Validate \/ Refresh

Next == Tick \/ Writer \/ Reader

Spec == Init /\ [][Next]_vars

(***************************************************************************)
(* Properties.                                                             *)
(***************************************************************************)

\* Between two calls of process_outbound, port_to_index leads a port to the
\* session it was last given to as long as that session still has it, and to
\* nothing otherwise: taking over an expired slot neither leaves its old port
\* behind nor cuts off a newer session that was given the same port after the
\* cursor wrapped.
IndexIsLatestHolder ==
  w.pc = "idle" =>
    \A p \in Port : index[p] = IF owner[p] >= 0 /\ ext[owner[p]] = p THEN owner[p] ELSE -1

\* The reader delivers a packet only to a flow that really was given the port
\* the packet came to: a session that is replaced while the reader looks never
\* lends it its new key with the old port or the other way round.
DnatExact == r.pc = "refresh" => <<r.key, r.port>> \in installed

\* A session is established while it is active and nobody writes to it.
Established(i) == active[i] /\ seq[i] % 2 = 0
Entry(i) == [slot |-> i, flow |-> key[i], ext |-> ext[i]]
Sessions == {Entry(i) : i \in {j \in Slot : Established(j)}}

\* The packet in hand has a destination once the reader's second load of seq
\* agrees with the first and the session is the packet's.
Found == r.pc = "refresh" \/ (r.pc = "load" /\ r.todo = {} /\ SeqStable /\ Matches)
Translated == IF Found THEN {[from |-> r.from, ext |-> r.port, flow |-> r.key]} ELSE {}

Map == INSTANCE NatMap WITH External <- Port, Exclusive <- FALSE,
                            sessions <- Sessions, translated <- Translated

\* Although the worker that translates inbound packets reads the sessions field
\* by field while the other one replaces them, each packet is translated as by
\* one look at a table that has no half-written session.
IsNatMap == Map!Spec

\* A flow keeps its port until its session expires: it never has two sessions
\* that were both used within Expiry.  README.md:20 speaks of "session expiry";
\* process_outbound, however, takes the first expired slot of the probe window
\* before it has looked for the flow's own session behind it.
OneSessionPerFlow ==
  w.pc = "idle" =>
    \A i, j \in Slot : /\ active[i] /\ tick - last[i] <= Expiry
                       /\ active[j] /\ tick - last[j] <= Expiry
                       /\ key[i] = key[j]
                       => i = j
=============================================================================
