----------------------------- MODULE NatProofs -----------------------------
(***************************************************************************)
(* The NAT engine's TCP and UDP tables, and the engine whole.               *)
(*                                                                          *)
(* NatEngine, for every table size, probe window, port range and hash       *)
(* function: the port index leads to the latest holder of a port, and a     *)
(* reader whose loads stay in order delivers only to a flow that was given  *)
(* the port, and implements NatMap.  Between two calls of process_outbound  *)
(* the first is a plain equation.  Inside a call three stages differ from   *)
(* it: the slot's old port is still linked, is unlinked, and the new one is *)
(* not linked yet (Indexed).  The second rests on the sequence lock: the    *)
(* number of a slot is odd exactly while its fields change (Parity), so a   *)
(* reader that saw s0 and still sees it has read the fields as they are     *)
(* (Reading).  The refinement uses the same invariant: the second load of   *)
(* seq is a step Translate of NatMap, the store that makes seq odd closes a *)
(* session, and the last of the two stores that make seq even and set       *)
(* active opens one.                                                        *)
(*                                                                          *)
(* Nat: every step of the composed engine is a step of NatEngine or leaves  *)
(* it alone, and likewise of NatIcmp (BothEngines), so what is proved of    *)
(* either holds of the whole, the refinement of NatMap included.            *)
(***************************************************************************)
EXTENDS NatTables, TLAPS

(***************************************************************************)
(* NatEngine.                                                              *)
(***************************************************************************)

WriterPC == {"idle", "probe", "hit", "odd", "unlink", "key", "ext", "last", "even", "active",
             "link"}
ReaderPC == {"idle", "s0", "act", "load", "refresh"}
Fields == {"key", "ext", "s1"}
WriterType == [pc : WriterPC, flow : Flow \cup {NoFlow}, tick : Nat, n : Nat]
ReaderType == [pc : ReaderPC, from : Endpoint \cup {NoFlow}, port : Port \cup {0},
               idx : Slot \cup {-1},
               tries : Nat, s0 : Nat, s1 : Nat, act : BOOLEAN, key : Flow \cup {NoFlow},
               ext : Port \cup {0}, tick : Nat, todo : SUBSET Fields]

TypeOK == /\ active \in [Slot -> BOOLEAN] /\ seq \in [Slot -> Nat]
          /\ key \in [Slot -> Flow \cup {NoFlow}] /\ ext \in [Slot -> Port \cup {0}]
          /\ index \in [Port -> Slot \cup {-1}] /\ owner \in [Port -> Slot \cup {-1}]
          /\ cursor \in Port /\ tick \in Nat
          /\ w \in WriterType /\ (w.pc # "idle" => w.flow \in Flow)

\* The slot whose session has the port, as IndexIsLatestHolder has it.
Holder(p) == IF owner[p] >= 0 /\ ext[owner[p]] = p THEN owner[p] ELSE -1

Indexed == /\ w.pc \in {"idle", "probe", "hit", "odd", "unlink"} =>
                \A p \in Port : index[p] = Holder(p)
           /\ w.pc \in {"key", "ext"} =>
                \A p \in Port : index[p] = IF owner[p] = idx THEN -1 ELSE Holder(p)
           /\ w.pc \in {"last", "even", "active", "link"} =>
                /\ ext[idx] \in Port /\ owner[ext[idx]] = idx
                /\ \A p \in Port : p # ext[idx] => index[p] = Holder(p)

\* A slot has a port once it has been used.
Live == \A i \in Slot : ext[i] \in Port <=> active[i] \/ (w.pc \in {"last", "even", "active"}
    /\ i = idx)

Parity == \A i \in Slot :
  seq[i] % 2 = IF w.pc \in {"unlink", "key", "ext", "last", "even"} /\ i = idx THEN 1 ELSE 0

Paired == /\ w.pc = "ext" => key[idx] = w.flow
          /\ \A i \in Slot : ext[i] \in Port /\ ~(w.pc = "ext"
               /\ i = idx) => <<key[i], ext[i]>> \in installed

Reading ==
  /\ r \in ReaderType
  /\ r.pc # "idle" => r.idx \in Slot /\ r.port \in Port
  /\ r.pc \in {"act", "load"} => r.s0 % 2 = 0 /\ r.s0 <= seq[r.idx]
  /\ r.pc = "load" /\ r.act => active[r.idx]
  /\ r.pc = "load" /\ "s1" \notin r.todo => r.todo = {}
  /\ r.pc = "load" /\ "s1" \in r.todo /\ r.s0 = seq[r.idx] =>
       ("key" \notin r.todo => r.key = key[r.idx]) /\ ("ext" \notin r.todo => r.ext = ext[r.idx])
  /\ r.pc = "load" /\ "s1" \notin r.todo /\ r.act /\ r.s0 = r.s1 => <<r.key, r.ext>> \in installed
  /\ r.pc = "refresh" => <<r.key, r.port>> \in installed

WriterInv == TypeOK /\ Indexed /\ Live /\ Parity /\ Paired

\* The probe stays inside the table.
LEMMA ProbedSlot ==
  ASSUME NatConstants, TypeOK, w.pc # "idle"
  PROVE  idx \in Slot
<1>1. Home[w.flow] \in Nat /\ w.n \in Nat /\ Slots \in Nat \ {0}
  BY DEF NatConstants, TypeOK, WriterType, Slot
<1>2. (Home[w.flow] + w.n) % Slots \in 0 .. Slots - 1
  BY <1>1, Z3
<1> QED
  BY <1>2 DEF idx, Slot

LEMMA NextPortInRange == ASSUME NatConstants, NEW p \in Port PROVE NextPort(p) \in Port
BY DEF NatConstants, NextPort, Port

LEMMA InitInv == NatConstants /\ Init => WriterInv /\ Reading
<1> SUFFICES ASSUME NatConstants, Init PROVE WriterInv /\ Reading
  OBVIOUS
<1> USE DEF Init, NatConstants, NoPacket, NoLookup, Slot, Port
<1>1. TypeOK
  BY DEF TypeOK, WriterType, WriterPC
<1>2. Indexed /\ Live /\ Parity /\ Paired
  BY DEF Indexed, Holder, Live, Parity, Paired
<1>3. Reading
  BY DEF Reading, ReaderType, ReaderPC, Fields
<1> QED
  BY <1>1, <1>2, <1>3 DEF WriterInv

(***************************************************************************)
(* The writer, one step per action.                                        *)
(***************************************************************************)
LEMMA WriterKeepsType ==
  ASSUME NatConstants, TypeOK, Writer
  PROVE  TypeOK'
<1> USE DEF TypeOK, WriterType, WriterPC, table, history
<1>1. ASSUME NEW f \in Flow, Outbound(f) PROVE TypeOK'
  BY <1>1 DEF Outbound
<1>2. CASE ProbeTake \/ ProbeMiss
  BY <1>2 DEF ProbeTake, ProbeMiss
<1>3. CASE ProbeHit \/ KeepAlive \/ ProbeFails
  BY <1>3 DEF ProbeHit, KeepAlive, ProbeFails, NoPacket
<1>4. CASE SeqOdd \/ SeqEven
  <2>1. seq' \in [Slot -> Nat]
    BY <1>4, ProbedSlot DEF SeqOdd, SeqEven
  <2> QED
    BY <1>4, <2>1 DEF SeqOdd, SeqEven
<1>5. CASE Unlink
  <2>1. index' \in [Port -> Slot \cup {-1}]
    BY <1>5, Zenon DEF Unlink
  <2> QED
    BY <1>5, <2>1 DEF Unlink
<1>6. CASE WriteKey
  BY <1>6, Zenon DEF WriteKey
<1>7. CASE WriteExt
  <2>1. idx \in Slot /\ cursor' \in Port
    BY <1>7, ProbedSlot, NextPortInRange DEF WriteExt
  <2> QED
    BY <1>7, <2>1 DEF WriteExt
<1>8. CASE WriteLast
  BY <1>8 DEF WriteLast
<1>9. CASE WriteActive
  BY <1>9, Zenon DEF WriteActive
<1>10. CASE Link
  <2>1. idx \in Slot
    BY <1>10, ProbedSlot DEF Link
  <2> QED
    BY <1>10, <2>1, Zenon DEF Link, NoPacket
<1> QED
  BY <1>1, <1>2, <1>3, <1>4, <1>5, <1>6, <1>7, <1>8, <1>9, <1>10 DEF Writer

\* A step of the writer on the slot idx, seen field by field.
LEMMA WriterStep ==
  ASSUME NatConstants, WriterInv, Writer
  PROVE  WriterInv'
<1>1. TypeOK /\ TypeOK' /\ Indexed /\ Live /\ Parity /\ Paired
  BY WriterKeepsType DEF WriterInv
<1> SUFFICES Indexed' /\ Live' /\ Parity' /\ Paired'
  BY <1>1 DEF WriterInv
<1> USE DEF TypeOK, WriterType, table, history
<1>2. ASSUME UNCHANGED <<active, seq, key, ext, index, owner, installed>>,
             w.pc \in {"idle", "probe", "hit"}, w'.pc \in {"idle", "probe", "hit", "odd"}
      PROVE  Indexed' /\ Live' /\ Parity' /\ Paired'
  BY <1>1, <1>2 DEF Indexed, Holder, Live, Parity, Paired
<1>3. CASE \/ \E f \in Flow : Outbound(f)
           \/ ProbeTake \/ ProbeHit \/ KeepAlive \/ ProbeMiss \/ ProbeFails
  BY <1>1, <1>2, <1>3
     DEF Outbound, ProbeTake, ProbeHit, KeepAlive, ProbeMiss, ProbeFails, NoPacket
<1>4. ASSUME w.pc # "idle", UNCHANGED <<w.flow, w.n>> PROVE idx \in Slot /\ idx' = idx
  BY <1>1, <1>4, ProbedSlot DEF idx
<1>5. CASE SeqOdd \/ SeqEven
  <2>1. idx \in Slot /\ idx' = idx
    BY <1>1, <1>4, <1>5 DEF SeqOdd, SeqEven
  <2>2. \A i \in Slot : seq'[i] = IF i = idx THEN seq[i] + 1 ELSE seq[i]
    BY <1>1, <1>5, <2>1 DEF SeqOdd, SeqEven
  <2>3. Parity'
    <3>1. \/ w.pc = "odd" /\ w'.pc = "unlink"
          \/ w.pc = "even" /\ w'.pc = "active"
      BY <1>1, <1>5 DEF SeqOdd, SeqEven
    <3>2. \A i \in Slot : seq[i] \in Nat
      BY <1>1
    <3>3. \A m \in Nat : (m + 1) % 2 = 1 - (m % 2)
      BY Z3
    <3>4. seq'[idx] % 2 = 1 - (seq[idx] % 2)
      BY <2>1, <2>2, <3>2, <3>3
    <3>5. w.pc = "odd" => seq[idx] % 2 = 0
      BY <1>1, <2>1 DEF Parity
    <3>6. w.pc = "even" => seq[idx] % 2 = 1
      BY <1>1, <2>1 DEF Parity
    <3>7. seq'[idx] % 2 = IF w'.pc = "unlink" THEN 1 ELSE 0
      BY <3>1, <3>4, <3>5, <3>6
    <3>8. ASSUME NEW i \in Slot, i # idx PROVE seq'[i] % 2 = 0
      BY <1>1, <2>2, <3>8 DEF Parity
    <3> QED
      BY <2>1, <3>1, <3>7, <3>8 DEF Parity
  <2> QED
    BY <1>1, <1>5, <2>1, <2>3 DEF SeqOdd, SeqEven, Indexed, Holder, Live, Paired
<1>6. CASE Unlink
  <2>1. idx \in Slot /\ idx' = idx /\ w.pc = "unlink" /\ w'.pc = "key"
    BY <1>1, <1>4, <1>6 DEF Unlink
  <2>2. ASSUME NEW p \in Port PROVE index'[p] = IF owner[p] = idx THEN -1 ELSE Holder(p)
    <3>1. index[p] = Holder(p) /\ owner[p] \in Slot \cup {-1}
      BY <1>1, <2>1 DEF Indexed
    <3>2. CASE index[p] = idx
      <4>1. ext[idx] = p /\ active[idx] /\ owner[p] = idx
        BY <1>1, <2>1, <3>1, <3>2 DEF Holder, Live, Slot
      <4> QED
        BY <1>1, <1>6, <3>2, <4>1 DEF Unlink
    <3>3. CASE index[p] # idx
      <4>1. index'[p] = index[p]
        BY <1>1, <1>6, <3>3 DEF Unlink
      <4> QED
        BY <3>1, <3>3, <4>1 DEF Holder
    <3> QED
      BY <3>2, <3>3
  <2> QED
    BY <1>1, <1>6, <2>1, <2>2 DEF Unlink, Indexed, Holder, Live, Parity, Paired
<1>7. CASE WriteKey
  <2>1. idx \in Slot /\ idx' = idx /\ w.pc = "key" /\ w'.pc = "ext" /\ w'.flow = w.flow
    BY <1>1, <1>4, <1>7 DEF WriteKey
  <2>2. Paired'
    BY <1>1, <1>7, <2>1 DEF WriteKey, Paired
  <2> QED
    BY <1>1, <1>7, <2>1, <2>2 DEF WriteKey, Indexed, Holder, Live, Parity
<1>8. CASE WriteExt
  <2>1. idx \in Slot /\ idx' = idx /\ w.pc = "ext" /\ w'.pc = "last" /\ cursor \in Port
    BY <1>1, <1>4, <1>8 DEF WriteExt
  <2>2. /\ \A i \in Slot : ext'[i] = IF i = idx THEN cursor ELSE ext[i]
        /\ \A p \in Port : owner'[p] = IF p = cursor THEN idx ELSE owner[p]
        /\ UNCHANGED <<active, seq, key, index>>
    BY <1>1, <1>8 DEF WriteExt
  <2>3. Indexed'
    <3>1. ASSUME NEW p \in Port, p # cursor PROVE index'[p] = Holder(p)'
      <4>1. /\ index[p] = (IF owner[p] = idx THEN -1 ELSE Holder(p)) /\ owner[p] \in Slot \cup {-1}
            /\ owner'[p] = owner[p]
        BY <1>1, <2>1, <2>2, <3>1 DEF Indexed
      <4> QED
        BY <2>1, <2>2, <3>1, <4>1 DEF Holder, Slot
    <3> QED
      BY <2>1, <2>2, <3>1 DEF Indexed
  <2>4. Live' /\ Parity'
    BY <1>1, <2>1, <2>2 DEF Live, Parity
  <2>5. Paired'
    BY <1>1, <1>8, <2>1, <2>2 DEF WriteExt, Paired
  <2> QED
    BY <2>3, <2>4, <2>5
<1>9. CASE WriteLast
  <2>1. idx \in Slot /\ idx' = idx /\ w.pc = "last" /\ w'.pc = "even"
    BY <1>1, <1>4, <1>9 DEF WriteLast
  <2> QED
    BY <1>1, <1>9, <2>1 DEF WriteLast, Indexed, Holder, Live, Parity, Paired
<1>10. CASE WriteActive
  <2>1. idx \in Slot /\ idx' = idx /\ w.pc = "active" /\ w'.pc = "link"
    BY <1>1, <1>4, <1>10 DEF WriteActive
  <2>2. Live'
    BY <1>1, <1>10, <2>1 DEF WriteActive, Live, Indexed
  <2> QED
    BY <1>1, <1>10, <2>1, <2>2 DEF WriteActive, Indexed, Holder, Parity, Paired
<1>11. CASE Link
  <2>1. idx \in Slot /\ w.pc = "link" /\ w'.pc = "idle"
    BY <1>1, <1>11, ProbedSlot DEF Link, NoPacket
  <2>2. \A p \in Port : index'[p] = IF p = ext[idx] THEN idx ELSE index[p]
    BY <1>1, <1>11 DEF Link
  <2>3. Indexed'
    BY <1>1, <1>11, <2>1, <2>2 DEF Link, Indexed, Holder, Slot
  <2> QED
    BY <1>1, <1>11, <2>1, <2>3 DEF Link, Live, Parity, Paired
<1> QED
  BY <1>3, <1>5, <1>6, <1>7, <1>8, <1>9, <1>10, <1>11 DEF Writer

\* A step of the writer takes nothing from a reader: it changes the fields of
\* a slot only while the slot's number is odd, and the number only grows.
LEMMA WriterKeepsReading ==
  ASSUME NatConstants, WriterInv, Reading, Writer
  PROVE  Reading'
<1>1. TypeOK /\ TypeOK' /\ Parity
  BY WriterKeepsType DEF WriterInv
<1>2. UNCHANGED r
  BY DEF Writer, Outbound, ProbeTake, ProbeHit, KeepAlive, ProbeMiss, ProbeFails, SeqOdd,
         Unlink, WriteKey, WriteExt, WriteLast, SeqEven, WriteActive, Link
<1>3. installed \subseteq installed'
  BY DEF Writer, Outbound, ProbeTake, ProbeHit, KeepAlive, ProbeMiss, ProbeFails, SeqOdd,
         Unlink, WriteKey, WriteExt, WriteLast, SeqEven, WriteActive, Link, history
<1>4. ASSUME NEW i \in Slot
      PROVE  /\ active[i] => active'[i]
             /\ seq'[i] = seq[i] \/ seq'[i] = seq[i] + 1
             /\ seq[i] % 2 = 0 /\ seq'[i] = seq[i] => key'[i] = key[i] /\ ext'[i] = ext[i]
  <2> USE DEF TypeOK, table, history
  <2>1. CASE UNCHANGED <<active, seq, key, ext>>
    BY <2>1
  <2>2. CASE SeqOdd \/ SeqEven \/ WriteActive
    BY <1>1, <2>2 DEF SeqOdd, SeqEven, WriteActive
  <2>3. CASE WriteKey \/ WriteExt
    <3>1. idx \in Slot /\ w.pc \in {"key", "ext"}
      BY <1>1, <2>3, ProbedSlot DEF WriteKey, WriteExt
    <3>2. seq[idx] % 2 = 1
      BY <1>1, <3>1 DEF Parity
    <3>3. i # idx => key'[i] = key[i] /\ ext'[i] = ext[i]
      BY <1>1, <2>3 DEF WriteKey, WriteExt
    <3>4. UNCHANGED <<active, seq>>
      BY <2>3 DEF WriteKey, WriteExt
    <3> QED
      BY <3>2, <3>3, <3>4
  <2> QED
    BY <2>1, <2>2, <2>3
       DEF Writer, Outbound, ProbeTake, ProbeHit, KeepAlive, ProbeMiss, ProbeFails, Unlink,
           WriteLast, Link
<1>5. CASE r.pc = "idle"
  BY <1>2, <1>5 DEF Reading
<1>6. CASE r.pc # "idle"
  <2>1. /\ r.idx \in Slot /\ r.port \in Port /\ r.s0 \in Nat
        /\ seq[r.idx] \in Nat
    BY <1>1, <1>6 DEF Reading, TypeOK, ReaderType
  <2>2. CASE r.pc \in {"act", "load"}
    <3>1. r.s0 % 2 = 0 /\ r.s0 <= seq[r.idx]
      BY <2>2 DEF Reading
    <3>2. r.s0 <= seq'[r.idx]
      BY <1>4, <2>1, <3>1
    <3>3. r.s0 = seq'[r.idx] => r.s0 = seq[r.idx] /\ key'[r.idx] = key[r.idx]
            /\ ext'[r.idx] = ext[r.idx]
      BY <1>4, <2>1, <3>1
    <3>4. active[r.idx] => active'[r.idx]
      BY <1>4, <2>1
    <3> QED
      BY <1>2, <1>3, <2>1, <2>2, <3>1, <3>2, <3>3, <3>4 DEF Reading
  <2>3. CASE r.pc \notin {"act", "load"}
    BY <1>2, <1>3, <2>1, <2>3 DEF Reading
  <2> QED
    BY <2>2, <2>3
<1> QED
  BY <1>5, <1>6

(***************************************************************************)
(* The reader, one step per action.                                        *)
(***************************************************************************)
LEMMA ReaderKeepsWriter ==
  ASSUME WriterInv, Reader
  PROVE  WriterInv'
<1>1. UNCHANGED <<table, cursor, tick, w, history>>
  BY Zenon
     DEF Reader, Inbound, LoadS0, LoadActive, LoadKey, LoadExt, LoadS1, Validate, Refresh,
         ReaderUnchanged
<1> QED
  BY <1>1 DEF table, history, WriterInv, TypeOK, Indexed, Holder, Live, Parity, Paired, idx

LEMMA ReaderStep ==
  ASSUME NatConstants, ~LoadsSink, WriterInv, Reading, Reader
  PROVE  Reading'
<1>1. TypeOK /\ Live /\ Parity /\ Paired
  BY DEF WriterInv
<1>2. UNCHANGED <<table, cursor, tick, w, history>>
  BY Zenon
     DEF Reader, Inbound, LoadS0, LoadActive, LoadKey, LoadExt, LoadS1, Validate, Refresh,
         ReaderUnchanged
<1> USE DEF ReaderType, ReaderPC, Fields, table, history, ReaderUnchanged
<1>3. r \in ReaderType /\ NoLookup \in ReaderType
  BY DEF Reading, NoLookup
<1>4. ASSUME r' = NoLookup PROVE Reading'
  BY <1>3, <1>4 DEF Reading, NoLookup
<1>5. ASSUME NEW from \in Endpoint, NEW p \in Port, Inbound(from, p) PROVE Reading'
  <2>1. CASE index[p] < 0
    BY <1>3, <1>4, <1>5, <2>1 DEF Inbound
  <2>2. CASE ~(index[p] < 0)
    <3>1. index[p] \in Slot
      BY <1>1, <2>2 DEF TypeOK
    <3>2. r' = [r EXCEPT !.pc = "s0", !.from = from, !.port = p, !.idx = index[p]]
      BY <1>5, <2>2 DEF Inbound
    <3> QED
      BY <1>3, <3>1, <3>2, Zenon DEF Reading
  <2> QED
    BY <2>1, <2>2
<1>6. CASE LoadS0
  <2>1. r.idx \in Slot /\ r.port \in Port /\ seq[r.idx] \in Nat /\ r.tries + 1 \in Nat
    BY <1>1, <1>3, <1>6 DEF LoadS0, Reading, TypeOK
  <2>2. CASE r.tries = Attempts
    BY <1>3, <1>4, <1>6, <2>2 DEF LoadS0
  <2>3. CASE r.tries # Attempts /\ seq[r.idx] % 2 = 1
    BY <1>3, <1>6, <2>1, <2>3 DEF LoadS0, Reading
  <2>4. CASE r.tries # Attempts /\ seq[r.idx] % 2 # 1
    <3>1. seq[r.idx] % 2 = 0
      BY <1>1, <2>1, <2>4 DEF Parity
    <3>2. r' = [r EXCEPT !.pc = "act", !.s0 = seq[r.idx], !.tries = @ + 1]
      BY <1>6, <2>4 DEF LoadS0
    <3> QED
      <4>1. r' \in ReaderType
        BY <1>3, <2>1, <3>2, Zenon
      <4>2. r'.pc = "act" /\ r'.idx = r.idx /\ r'.port = r.port /\ r'.s0 = seq[r.idx] /\ seq' = seq
        BY <1>2, <1>3, <3>2
      <4> QED
        BY <2>1, <3>1, <4>1, <4>2 DEF Reading
  <2> QED
    BY <2>2, <2>3, <2>4
<1>7. CASE LoadActive
  <2>1. r.idx \in Slot /\ r.port \in Port /\ active[r.idx] \in BOOLEAN
    BY <1>1, <1>7 DEF LoadActive, Reading, TypeOK
  <2>2. r' = [r EXCEPT !.pc = "load", !.act = active[r.idx], !.todo = Fields]
    BY <1>7 DEF LoadActive
  <2> QED
    <3>1. r' \in ReaderType
      BY <1>3, <2>1, <2>2, Zenon
    <3>2. r'.pc = "load" /\ r'.act = active[r.idx] /\ r'.todo = Fields
      BY <1>3, <2>2
    <3>3. r'.idx = r.idx /\ r'.port = r.port /\ r'.s0 = r.s0 /\ UNCHANGED <<seq, active>>
      BY <1>2, <1>3, <2>2
    <3>4. r.s0 % 2 = 0 /\ r.s0 <= seq[r.idx]
      BY <1>7 DEF LoadActive, Reading
    <3> QED
      BY <2>1, <3>1, <3>2, <3>3, <3>4 DEF Reading
<1>8. CASE LoadKey \/ LoadExt
  <2>1. r.pc = "load" /\ "s1" \in r.todo
    BY <1>8 DEF LoadKey, LoadExt, Reading
  <2>2. r.idx \in Slot /\ r.port \in Port /\ r.s0 % 2 = 0 /\ r.s0 <= seq[r.idx]
    BY <2>1 DEF Reading
  <2>3. key[r.idx] \in Flow \cup {NoFlow} /\ ext[r.idx] \in Port \cup {0}
    BY <1>1, <2>2 DEF TypeOK
  <2>4. \/ "key" \in r.todo /\ r' = [r EXCEPT !.key = key[r.idx], !.todo = @ \ {"key"}]
        \/ "ext" \in r.todo /\ r' = [r EXCEPT !.ext = ext[r.idx], !.todo = @ \ {"ext"}]
    BY <1>8 DEF LoadKey, LoadExt
  <2>5. r' \in ReaderType
    <3>1. [r EXCEPT !.key = key[r.idx], !.todo = @ \ {"key"}] \in ReaderType
      BY <1>3, <2>3, Zenon
    <3>2. [r EXCEPT !.ext = ext[r.idx], !.todo = @ \ {"ext"}] \in ReaderType
      BY <1>3, <2>3, Zenon
    <3> QED
      BY <2>4, <3>1, <3>2, Zenon
  <2>6. /\ r'.pc = "load" /\ r'.idx = r.idx /\ r'.port = r.port /\ r'.s0 = r.s0 /\ r'.act = r.act
        /\ "s1" \in r'.todo /\ UNCHANGED <<seq, active, key, ext, installed>>
    <3>1. UNCHANGED <<seq, active, key, ext, installed>>
      BY <1>2
    <3>2. CASE r' = [r EXCEPT !.key = key[r.idx], !.todo = @ \ {"key"}]
      BY <1>3, <2>1, <3>1, <3>2
    <3>3. CASE r' = [r EXCEPT !.ext = ext[r.idx], !.todo = @ \ {"ext"}]
      BY <1>3, <2>1, <3>1, <3>3
    <3> QED
      BY <2>4, <3>2, <3>3
  <2>7. /\ "key" \notin r'.todo => r'.key = key[r.idx] \/ ("key" \notin r.todo /\ r'.key = r.key)
        /\ "ext" \notin r'.todo => r'.ext = ext[r.idx] \/ ("ext" \notin r.todo /\ r'.ext = r.ext)
    <3>1. CASE r' = [r EXCEPT !.key = key[r.idx], !.todo = @ \ {"key"}]
      BY <1>3, <3>1
    <3>2. CASE r' = [r EXCEPT !.ext = ext[r.idx], !.todo = @ \ {"ext"}]
      BY <1>3, <3>2
    <3> QED
      BY <2>4, <3>1, <3>2
  <2>8. r.act => active[r.idx]
    BY <2>1 DEF Reading
  <2>9. r.s0 = seq[r.idx] =>
          /\ "key" \notin r'.todo => r'.key = key[r.idx]
          /\ "ext" \notin r'.todo => r'.ext = ext[r.idx]
    BY <2>1, <2>7 DEF Reading
  <2> QED
    BY <2>2, <2>5, <2>6, <2>8, <2>9 DEF Reading
<1>9. CASE LoadS1
  <2>1. r.pc = "load" /\ r.todo = {"s1"} /\ r' = [r EXCEPT !.s1 = seq[r.idx], !.todo = @ \ {"s1"}]
    BY <1>9 DEF LoadS1
  <2>2. /\ r.idx \in Slot /\ r.port \in Port /\ r.s0 % 2 = 0 /\ r.s0 <= seq[r.idx]
        /\ (r.act => active[r.idx])
        /\ r.s0 = seq[r.idx] => r.key = key[r.idx] /\ r.ext = ext[r.idx]
    BY <2>1 DEF Reading
  <2>3. seq[r.idx] \in Nat
    BY <1>1, <2>2 DEF TypeOK
  <2>4. r' \in ReaderType
    BY <1>3, <2>1, <2>3, Zenon
  <2>5. /\ r'.pc = "load" /\ r'.idx = r.idx /\ r'.port = r.port /\ r'.s0 = r.s0 /\ r'.act = r.act
        /\ r'.key = r.key /\ r'.ext = r.ext /\ r'.s1 = seq[r.idx] /\ r'.todo = {}
        /\ UNCHANGED <<seq, active, installed>>
    BY <1>2, <1>3, <2>1
  <2>6. r.act /\ r.s0 = seq[r.idx] => <<r.key, r.ext>> \in installed
    <3>1. SUFFICES ASSUME active[r.idx], seq[r.idx] % 2 = 0
                   PROVE  <<key[r.idx], ext[r.idx]>> \in installed
      BY <2>2
    <3>2. ext[r.idx] \in Port
      BY <1>1, <2>2, <3>1 DEF Live
    <3>3. ~(w.pc = "ext" /\ r.idx = idx)
      BY <1>1, <2>2, <3>1 DEF Parity
    <3> QED
      BY <1>1, <2>2, <3>2, <3>3 DEF Paired
  <2> QED
    BY <2>2, <2>4, <2>5, <2>6 DEF Reading
<1>10. CASE Validate
  <2>1. r.idx \in Slot /\ r.port \in Port /\ r.pc = "load" /\ r.todo = {}
    BY <1>10 DEF Validate, Reading
  <2>2. CASE ~SeqStable
    <3>1. r' = [NoLookup EXCEPT !.pc = "s0", !.from = r.from, !.port = r.port, !.idx = r.idx,
            !.tries = r.tries]
      BY <1>10, <2>2 DEF Validate, Retry
    <3>2. r' \in ReaderType
      BY <1>3, <3>1, Zenon
    <3>3. r'.pc = "s0" /\ r'.idx = r.idx /\ r'.port = r.port
      BY <1>3, <3>1
    <3> QED
      BY <2>1, <3>2, <3>3 DEF Reading
  <2>3. CASE SeqStable /\ Matches
    <3>1. r' = [r EXCEPT !.pc = "refresh", !.tick = tick] /\ tick \in Nat
      BY <1>1, <1>10, <2>3 DEF Validate, TypeOK
    <3>2. r' \in ReaderType
      BY <1>3, <3>1, Zenon
    <3>3. r'.pc = "refresh" /\ r'.idx = r.idx /\ r'.port = r.port /\ r'.key = r.key
            /\ UNCHANGED installed
      BY <1>2, <1>3, <3>1
    <3>4. <<r.key, r.port>> \in installed
      BY <2>1, <2>3 DEF Reading, SeqStable, Matches
    <3> QED
      BY <2>1, <3>2, <3>3, <3>4 DEF Reading
  <2>4. CASE SeqStable /\ ~Matches
    BY <1>3, <1>4, <1>10, <2>4 DEF Validate
  <2> QED
    BY <2>2, <2>3, <2>4
<1>11. CASE Refresh
  BY <1>3, <1>4, <1>11 DEF Refresh
<1> QED
  BY <1>5, <1>6, <1>7, <1>8, <1>9, <1>10, <1>11 DEF Reader

LEMMA TickStep == ASSUME NatConstants, WriterInv, Tick PROVE WriterInv'
<1>1. (tick + 1) % TickMod \in Nat
  BY DEF NatConstants, WriterInv, TypeOK
<1> QED
  BY <1>1
     DEF Tick, table, history, WriterInv, TypeOK, Indexed, Holder, Live, Parity, Paired, idx

LEMMA StutterStep == ASSUME WriterInv, UNCHANGED vars PROVE WriterInv'
BY Zenon
   DEF vars, table, history, WriterInv, TypeOK, Indexed, Holder, Live, Parity, Paired, idx

(***************************************************************************)
(* Theorems                                                                *)
(***************************************************************************)
\* process_outbound's takeover of a slot, with the compare_exchange on the
\* old port, keeps port_to_index exact whatever the ports, slots and hashes.
THEOREM LatestHolderIndexed == ASSUME NatConstants PROVE Spec => []IndexIsLatestHolder
<1>1. Init => WriterInv
  BY InitInv
<1>2. WriterInv /\ [Next]_vars => WriterInv'
  BY StutterStep, WriterStep, ReaderKeepsWriter, TickStep DEF Next
<1>3. WriterInv => IndexIsLatestHolder
  BY DEF WriterInv, Indexed, Holder, IndexIsLatestHolder
<1> QED
  BY <1>1, <1>2, <1>3, PTL DEF Spec

\* The invariants of writer and reader are inductive together.
LEMMA SequenceLock ==
  ASSUME NatConstants, ~LoadsSink, WriterInv, Reading, [Next]_vars
  PROVE  WriterInv' /\ Reading'
<1>1. CASE UNCHANGED vars \/ Tick
  <2>1. Reading'
    BY <1>1, Zenon DEF vars, table, history, Tick, Reading
  <2> QED
    BY <1>1, <2>1, StutterStep, TickStep
<1> QED
  BY <1>1, WriterStep, WriterKeepsReading, ReaderKeepsWriter, ReaderStep DEF Next

\* The sequence lock of process_inbound works when its plain loads are done
\* before the second load of seq: every reply it delivers goes to a flow that
\* was given the port.
THEOREM RepliesReachTheirFlow == ASSUME NatConstants, ~LoadsSink PROVE Spec => []DnatExact
<1>1. Init => WriterInv /\ Reading
  BY InitInv
<1>2. WriterInv /\ Reading /\ [Next]_vars => WriterInv' /\ Reading'
  BY SequenceLock
<1>3. Reading => DnatExact
  BY DEF Reading, DnatExact
<1> QED
  BY <1>1, <1>2, <1>3, PTL DEF Spec

(***************************************************************************)
(* NatEngine implements NatMap.  The second load of seq is the instant at  *)
(* which a packet is translated: the fields loaded before it are then      *)
(* those of the session in the table.                                      *)
(***************************************************************************)

\* The history of sessions, for their types.
Given == installed \subseteq Flow \X Port

MapInv == WriterInv /\ Reading /\ Given

LEMMA InitMapInv == ASSUME NatConstants PROVE Init => MapInv
BY InitInv DEF Init, MapInv, Given

LEMMA GivenStep ==
  ASSUME WriterInv, Given, [Next]_vars
  PROVE  Given'
<1>1. CASE WriteExt
  <2>1. w.flow \in Flow /\ cursor \in Port
    BY <1>1 DEF WriteExt, WriterInv, TypeOK
  <2> QED
    BY <1>1, <2>1 DEF WriteExt, Given
<1>2. CASE UNCHANGED installed
  BY <1>2 DEF Given
<1> QED
  BY <1>1, <1>2, Zenon
     DEF Next, vars, history, Tick, Writer, Reader, Outbound, ProbeTake, ProbeHit, KeepAlive,
         ProbeMiss, ProbeFails, SeqOdd, Unlink, WriteKey, WriteLast, SeqEven, WriteActive,
         Link, Inbound, LoadS0, LoadActive, LoadKey, LoadExt, LoadS1, Validate, Refresh,
         ReaderUnchanged

LEMMA MapInvStep ==
  ASSUME NatConstants, ~LoadsSink, MapInv, [Next]_vars
  PROVE  MapInv'
<1>1. WriterInv' /\ Reading'
  BY SequenceLock DEF MapInv
<1> QED
  BY <1>1, GivenStep DEF MapInv

\* An established session is a flow with a port.
LEMMA EntryType ==
  ASSUME MapInv, NEW i \in Slot, ext[i] \in Port, ~(w.pc = "ext" /\ i = idx)
  PROVE  Entry(i) \in Map!Session
<1>1. <<key[i], ext[i]>> \in installed
  BY DEF MapInv, WriterInv, Paired
<1>2. key[i] \in Flow
  BY <1>1 DEF MapInv, Given
<1> QED
  BY <1>2 DEF Entry, Map!Session

\* What a step at slot i does to the table: nothing unless the session there is
\* established before it or after.
LEMMA SessionsKept ==
  ASSUME \A j \in Slot : Established(j)' <=> Established(j),
         \A j \in Slot : Established(j) => Entry(j)' = Entry(j)
  PROVE  Sessions' = Sessions
BY Zenon DEF Sessions

LEMMA SessionClosed ==
  ASSUME NEW i \in Slot, Established(i), ~Established(i)',
         \A j \in Slot \ {i} : (Established(j)' <=> Established(j)) /\ Entry(j)' = Entry(j)
  PROVE  Sessions' = Sessions \ {Entry(i)}
<1>1. \A j \in Slot : Entry(j) = Entry(i) => j = i
  BY DEF Entry
<1> QED
  BY <1>1, Zenon DEF Sessions

LEMMA SessionOpened ==
  ASSUME NEW i \in Slot, ~Established(i), Established(i)',
         \A j \in Slot \ {i} : (Established(j)' <=> Established(j)) /\ Entry(j)' = Entry(j)
  PROVE  /\ Sessions' = Sessions \cup {Entry(i)'}
         /\ \A t \in Sessions : t.slot # i
<1>1. \A j \in Slot : Entry(j).slot = j
  BY DEF Entry
<1>2. \A t \in Sessions : t.slot # i
  BY <1>1, Zenon DEF Sessions
<1> QED
  BY <1>2, Zenon DEF Sessions

\* The writer opens and closes sessions, by the store that makes seq odd and by
\* the one that makes it even or sets active, whichever comes last.
LEMMA WriterRefines ==
  ASSUME NatConstants, MapInv, Writer
  PROVE  [Map!Next]_(Map!vars)
<1> USE DEF table, history
<1>1. TypeOK /\ Parity /\ Live
  BY DEF MapInv, WriterInv
<1>2. Translated' = Translated
  <2>1. UNCHANGED r
    BY DEF Writer, Outbound, ProbeTake, ProbeHit, KeepAlive, ProbeMiss, ProbeFails, SeqOdd,
           Unlink, WriteKey, WriteExt, WriteLast, SeqEven, WriteActive, Link
  <2> QED
    BY <2>1 DEF Translated, Found, SeqStable, Matches
<1>3. CASE UNCHANGED <<active, seq, key, ext>>
  <2>1. Sessions' = Sessions
    BY <1>3, SessionsKept DEF Established, Entry
  <2> QED
    BY <1>2, <2>1 DEF Map!vars
<1>4. CASE w.pc \in {"odd", "key", "ext", "even", "active"}
  <2>1. idx \in Slot /\ active \in [Slot -> BOOLEAN] /\ seq \in [Slot -> Nat]
        /\ key \in [Slot -> Flow \cup {NoFlow}] /\ ext \in [Slot -> Port \cup {0}]
    BY <1>1, <1>4, ProbedSlot DEF TypeOK
  <2>2. PICK i \in Slot : i = idx
    BY <2>1
  <2>3. ASSUME \A j \in Slot \ {i} : /\ active'[j] = active[j] /\ seq'[j] = seq[j]
                                     /\ key'[j] = key[j] /\ ext'[j] = ext[j]
        PROVE  \A j \in Slot \ {i} : (Established(j)' <=> Established(j)) /\ Entry(j)' = Entry(j)
    BY <2>3 DEF Established, Entry
  <2>4. CASE SeqOdd
    <3>1. /\ seq'[i] = seq[i] + 1 /\ seq[i] % 2 = 0 /\ seq[i] \in Nat
          /\ UNCHANGED <<active, key, ext>> /\ w.pc = "odd"
          /\ \A j \in Slot \ {i} : seq'[j] = seq[j]
      BY <1>1, <2>1, <2>2, <2>4 DEF SeqOdd, Parity
    <3>2. ~Established(i)'
      BY <3>1 DEF Established
    <3>3. \A j \in Slot \ {i} : (Established(j)' <=> Established(j)) /\ Entry(j)' = Entry(j)
      BY <2>3, <3>1
    <3>4. CASE Established(i)
      <4>1. Sessions' = Sessions \ {Entry(i)}
        BY <3>2, <3>3, <3>4, SessionClosed
      <4>2. Entry(i) \in Map!Session
        BY <1>1, <3>1, <3>4, EntryType DEF Established, Live
      <4> QED
        BY <1>2, <4>1, <4>2 DEF Map!Next, Map!Close
    <3>5. CASE ~Established(i)
      <4>1. Sessions' = Sessions
        BY <3>2, <3>3, <3>5, SessionsKept
      <4> QED
        BY <1>2, <4>1 DEF Map!vars
    <3> QED
      BY <3>4, <3>5
  <2>5. CASE WriteKey \/ WriteExt
    <3>1. /\ seq[i] % 2 = 1 /\ UNCHANGED <<active, seq>>
          /\ \A j \in Slot \ {i} : key'[j] = key[j] /\ ext'[j] = ext[j]
      BY <1>1, <2>1, <2>2, <2>5 DEF WriteKey, WriteExt, Parity
    <3>2. ~Established(i) /\ ~Established(i)'
      BY <3>1 DEF Established
    <3>3. Sessions' = Sessions
      BY <2>3, <3>1, <3>2, SessionsKept
    <3> QED
      BY <1>2, <3>3 DEF Map!vars
  <2>6. CASE SeqEven \/ WriteActive
    <3>1. /\ \A j \in Slot \ {i} : active'[j] = active[j] /\ seq'[j] = seq[j]
          /\ UNCHANGED <<key, ext>> /\ w.pc # "ext"
      BY <2>1, <2>2, <2>6 DEF SeqEven, WriteActive
    <3>2. Established(i) => Established(i)'
      <4>1. CASE SeqEven
        BY <1>1, <2>2, <4>1 DEF SeqEven, Established, Parity
      <4>2. CASE WriteActive
        BY <2>1, <2>2, <4>2 DEF WriteActive, Established
      <4> QED
        BY <2>6, <4>1, <4>2
    <3>3. \A j \in Slot \ {i} : (Established(j)' <=> Established(j)) /\ Entry(j)' = Entry(j)
      BY <2>3, <3>1
    <3>4. Entry(i)' = Entry(i)
      BY <3>1 DEF Entry
    <3>5. CASE ~Established(i) /\ Established(i)'
      <4>1. /\ Sessions' = Sessions \cup {Entry(i)}
            /\ \A t \in Sessions : t.slot # i
        BY <3>3, <3>4, <3>5, SessionOpened
      <4>2. Entry(i) \in Map!Session
        <5>1. ext[i] \in Port
          BY <1>1, <2>2, <2>6 DEF SeqEven, WriteActive, Live
        <5> QED
          BY <3>1, <5>1, EntryType
      <4>3. Entry(i).slot = i
        BY DEF Entry
      <4> QED
        BY <1>2, <4>1, <4>2, <4>3 DEF Map!Next, Map!Open
    <3>6. CASE Established(i)' <=> Established(i)
      <4>1. Sessions' = Sessions
        BY <3>3, <3>4, <3>6, SessionsKept
      <4> QED
        BY <1>2, <4>1 DEF Map!vars
    <3> QED
      BY <3>2, <3>5, <3>6
  <2> QED
    BY <2>4, <2>5, <2>6, <1>3
       DEF Writer, Outbound, ProbeTake, ProbeHit, KeepAlive, ProbeMiss, ProbeFails, Unlink,
           WriteLast, Link
<1> QED
  BY <1>3, <1>4
     DEF Writer, Outbound, ProbeTake, ProbeHit, KeepAlive, ProbeMiss, ProbeFails, SeqOdd,
         Unlink, WriteKey, WriteExt, WriteLast, SeqEven, WriteActive, Link

\* The reader translates when it loads seq for the second time.
LEMMA ReaderRefines ==
  ASSUME NatConstants, ~LoadsSink, MapInv, Reader
  PROVE  [Map!Next]_(Map!vars)
<1>1. Sessions' = Sessions
  <2>1. UNCHANGED table
    BY Zenon
       DEF Reader, Inbound, LoadS0, LoadActive, LoadKey, LoadExt, LoadS1, Validate, Refresh,
           ReaderUnchanged
  <2> QED
    BY <2>1, SessionsKept DEF table, Established, Entry
<1>2. r \in ReaderType /\ Reading
  BY DEF MapInv, Reading
<1>3. ASSUME ~Found, ~Found' PROVE [Map!Next]_(Map!vars)
  BY <1>1, <1>3 DEF Translated, Map!vars
<1>4. CASE \E from \in Endpoint, p \in Port : Inbound(from, p)
  <2>1. r.pc = "idle" /\ r'.pc \in {"idle", "s0"}
    BY <1>2, <1>4 DEF Inbound, NoLookup, ReaderType
  <2> QED
    BY <1>3, <2>1 DEF Found
<1>5. CASE LoadS0
  <2>1. r.pc = "s0" /\ r'.pc \in {"idle", "s0", "act"}
    BY <1>2, <1>5 DEF LoadS0, NoLookup, ReaderType
  <2> QED
    BY <1>3, <2>1 DEF Found
<1>6. CASE LoadActive \/ LoadKey \/ LoadExt
  <2>1. /\ r.pc = "act" \/ (r.pc = "load" /\ r.todo # {})
        /\ r'.pc = "load" /\ "s1" \in r'.todo
    <3>1. r.pc = "load" /\ r.todo # {} => "s1" \in r.todo
      BY <1>2 DEF Reading
    <3>2. CASE LoadActive
      BY <1>2, <3>2 DEF LoadActive, ReaderType
    <3>3. CASE LoadKey
      BY <1>2, <3>1, <3>3 DEF LoadKey, ReaderType
    <3>4. CASE LoadExt
      BY <1>2, <3>1, <3>4 DEF LoadExt, ReaderType
    <3> QED
      BY <1>6, <3>2, <3>3, <3>4
  <2> QED
    BY <1>3, <2>1 DEF Found
<1>7. CASE LoadS1
  <2>1. /\ r.pc = "load" /\ r.todo = {"s1"}
        /\ r' = [r EXCEPT !.s1 = seq[r.idx], !.todo = @ \ {"s1"}]
    BY <1>7 DEF LoadS1
  <2>2. /\ r'.pc = "load" /\ r'.todo = {} /\ r'.s0 = r.s0 /\ r'.s1 = seq[r.idx]
        /\ r'.act = r.act /\ r'.key = r.key /\ r'.ext = r.ext /\ r'.from = r.from
        /\ r'.port = r.port
    BY <1>2, <2>1 DEF ReaderType
  <2>3. ~Found
    BY <2>1 DEF Found
  <2>4. CASE Found'
    <3>1. /\ r.s0 = seq[r.idx] /\ seq[r.idx] % 2 = 0
          /\ r.act /\ Remote[r.key] = r.from /\ r.ext = r.port
      BY <2>2, <2>4 DEF Found, SeqStable, Matches
    <3>2. r.idx \in Slot /\ active[r.idx] /\ r.key = key[r.idx] /\ r.ext = ext[r.idx]
      BY <1>2, <2>1, <3>1 DEF Reading
    <3>3. Established(r.idx) /\ Entry(r.idx) \in Sessions
      BY <3>1, <3>2 DEF Established, Sessions
    <3>4. Entry(r.idx).ext = r.port /\ Entry(r.idx).flow = r.key
      BY <3>1, <3>2 DEF Entry
    <3>5. r.key \in Flow /\ r.port \in Port
      <4>1. ext[r.idx] \in Port /\ ~(w.pc = "ext" /\ r.idx = idx)
        BY <3>1, <3>2 DEF MapInv, WriterInv, Live, Parity
      <4>2. Entry(r.idx) \in Map!Session
        BY <3>2, <4>1, EntryType
      <4> QED
        BY <3>4, <4>2 DEF Map!Session
    <3>6. r.from \in Endpoint
      BY <3>1, <3>5 DEF NatConstants
    <3>7. Translated = {} /\ Translated' = {[from |-> r.from, ext |-> r.port, flow |-> r.key]}
      BY <2>2, <2>3, <2>4 DEF Translated
    <3>8. Map!Translate(r.from, r.port)
      BY <1>1, <3>1, <3>3, <3>4, <3>7 DEF Map!Translate
    <3> QED
      BY <3>5, <3>6, <3>8 DEF Map!Next
  <2> QED
    BY <1>3, <2>3, <2>4
<1>8. CASE Validate
  <2>1. CASE SeqStable /\ Matches
    <3>1. r' = [r EXCEPT !.pc = "refresh", !.tick = tick]
      BY <1>8, <2>1 DEF Validate
    <3>2. r'.pc = "refresh" /\ r'.from = r.from /\ r'.port = r.port /\ r'.key = r.key
      BY <1>2, <3>1 DEF ReaderType
    <3>3. Found /\ Found'
      BY <1>8, <2>1, <3>2 DEF Validate, Found
    <3> QED
      BY <1>1, <3>2, <3>3 DEF Translated, Map!vars
  <2>2. CASE ~(SeqStable /\ Matches)
    <3>1. r.pc = "load" /\ r'.pc \in {"s0", "idle"}
      BY <1>8, <2>2 DEF Validate, Retry, NoLookup
    <3> QED
      BY <1>3, <2>2, <3>1 DEF Found
  <2> QED
    BY <2>1, <2>2
<1>9. CASE Refresh
  <2>1. ~Found'
    BY <1>9 DEF Refresh, NoLookup, Found
  <2> QED
    BY <1>1, <2>1 DEF Translated, Map!Next, Map!Done
<1> QED
  BY <1>4, <1>5, <1>6, <1>7, <1>8, <1>9 DEF Reader

\* Every step of the engine is a step of NatMap or invisible in it.
LEMMA MapStep ==
  ASSUME NatConstants, ~LoadsSink, MapInv, [Next]_vars
  PROVE  [Map!Next]_(Map!vars)
<1>1. CASE Tick \/ UNCHANGED vars
  <2>1. UNCHANGED <<active, seq, key, ext, r>>
    BY <1>1 DEF Tick, vars, table
  <2>2. Sessions' = Sessions
    BY <2>1, SessionsKept DEF Established, Entry
  <2>3. Translated' = Translated
    BY <2>1 DEF Translated, Found, SeqStable, Matches
  <2> QED
    BY <2>2, <2>3 DEF Map!vars
<1> QED
  BY <1>1, WriterRefines, ReaderRefines DEF Next

LEMMA MapStart == Init => Map!Init
BY DEF Init, NoLookup, Map!Init, Sessions, Established, Translated, Found

\* process_inbound and process_outbound together implement NatMap, for every
\* table size, port range and hash function, if the reader's loads stay in
\* order: a packet is translated by a session that was whole, and in the table,
\* at one instant of its translation.
THEOREM PortsTranslateAtomically == ASSUME NatConstants, ~LoadsSink PROVE Spec => IsNatMap
<1>1. Init => MapInv
  BY InitMapInv
<1>2. MapInv /\ [Next]_vars => MapInv'
  BY MapInvStep
<1>3. MapInv /\ [Next]_vars => [Map!Next]_(Map!vars)
  BY MapStep
<1> QED
  BY <1>1, <1>2, <1>3, MapStart, PTL DEF Spec, IsNatMap, Map!Spec

-----------------------------------------------------------------------------
(***************************************************************************)
(* Nat.  Its definitions are N!..., its echo tables N!E!..., and what is   *)
(* proved of these EE!...                                                  *)
(***************************************************************************)
CONSTANTS EchoHome, EchoProbe, IdFirst, AllocTries, EchoTakes

VARIABLES icmp_last, icmp_id_cursor, icmp_flow, icmp_now, icmp_n, icmp_tries, icmp_slot,
          icmp_new, icmp_takes

N == INSTANCE Nat

EE == INSTANCE NatIcmpProofs WITH
       Flow <- EchoFlow, Endpoint <- EchoEndpoint, Remote <- EchoRemote, Home <- EchoHome,
       Slots <- EchoSlots, Probe <- EchoProbe, MaxTakes <- EchoTakes,
       active <- icmp_active, seq <- icmp_seq, key <- icmp_key, ext <- icmp_ext,
       last <- icmp_last, index <- icmp_id_to_index, cursor <- icmp_id_cursor,
       pc <- icmp_pc, flow <- icmp_flow, now <- icmp_now, n <- icmp_n, tries <- icmp_tries,
       slot <- icmp_slot, new <- icmp_new, r <- icmp_r, installed <- icmp_installed,
       takes <- icmp_takes, B <- 65536

\* Checksum's assumption, for the 16-bit words of the engine.
LEMMA WordSize == 65536 \in Nat /\ 65536 >= 4
OBVIOUS

\* The tables of the composed engine are those the theorems are about.
LEMMA SamePorts ==
  /\ N!Init => Init
  /\ N!Writer => Writer
  /\ N!Reader => Reader
  /\ N!Tick => Tick
  /\ N!vars = vars /\ N!vars' = vars'
<1>1. N!Init => Init
  BY Zenon
     DEF N!Init, Init, N!Slot, Slot, N!Port, Port, N!NoPacket, NoPacket, N!NoLookup, NoLookup,
         N!NoFlow, NoFlow
<1>2. N!Writer => Writer
  BY Zenon
     DEF N!Writer, Writer, N!Outbound, Outbound, N!ProbeTake, ProbeTake, N!ProbeHit,
         ProbeHit, N!KeepAlive, KeepAlive, N!ProbeMiss, ProbeMiss, N!ProbeFails, ProbeFails,
         N!SeqOdd, SeqOdd, N!Unlink, Unlink, N!WriteKey, WriteKey, N!WriteExt, WriteExt,
         N!WriteLast, WriteLast, N!SeqEven, SeqEven, N!WriteActive, WriteActive, N!Link,
         Link, N!idx, idx, N!Expired, Expired, N!NextPort, NextPort, N!table, table,
         N!history, history, N!NoPacket, NoPacket, N!NoFlow, NoFlow
<1>3. N!Reader => Reader
  BY Zenon
     DEF N!Reader, Reader, N!Inbound, Inbound, N!LoadS0, LoadS0, N!LoadActive, LoadActive,
         N!LoadKey, LoadKey, N!LoadExt, LoadExt, N!LoadS1, LoadS1, N!Validate, Validate,
         N!Refresh, Refresh, N!ReaderUnchanged, ReaderUnchanged, N!SeqStable, SeqStable,
         N!Retry, Retry, N!Matches, Matches, N!table, table, N!history, history, N!NoLookup,
         NoLookup, N!NoFlow, NoFlow, N!Port, Port
<1>4. N!Tick => Tick
  BY DEF N!Tick, Tick, N!table, table, N!history, history
<1>5. N!vars = vars /\ N!vars' = vars'
  BY DEF N!vars, vars, N!table, table, N!history, history
<1> QED
  BY <1>1, <1>2, <1>3, <1>4, <1>5

LEMMA SameEchoes ==
  /\ N!E!Init => EE!Init
  /\ N!E!Writer => EE!Writer
  /\ N!E!Reader => EE!Reader
<1>1. N!E!Init => EE!Init
  BY Zenon
     DEF N!E!Init, EE!Init, N!E!Slot, EE!Slot, N!E!Id, EE!Id, N!E!NoLookup, EE!NoLookup,
         N!E!NoFlow, EE!NoFlow
<1>2. N!E!Writer => EE!Writer
  BY Zenon
     DEF N!E!Writer, EE!Writer, N!E!Outbound, EE!Outbound, N!E!ProbeTake, EE!ProbeTake,
         N!E!ProbeHit, EE!ProbeHit, N!E!KeepAlive, EE!KeepAlive, N!E!ProbeMiss, EE!ProbeMiss,
         N!E!ProbeFails, EE!ProbeFails, N!E!SeqOdd, EE!SeqOdd, N!E!Unlink, EE!Unlink,
         N!E!Deactivate, EE!Deactivate, N!E!AllocTake, EE!AllocTake, N!E!AllocBusy,
         EE!AllocBusy, N!E!AllocFails, EE!AllocFails, N!E!WriteKey, EE!WriteKey,
         N!E!WriteExt, EE!WriteExt, N!E!WriteLast, EE!WriteLast, N!E!Link, EE!Link,
         N!E!SeqEven, EE!SeqEven, N!E!Activate, EE!Activate, N!E!Return, EE!Return,
         N!E!Expired, EE!Expired, N!E!NextId, EE!NextId, N!E!Usable, EE!Usable, N!E!table,
         EE!table, N!E!locals, EE!locals, N!E!NoFlow, EE!NoFlow
<1>3. N!E!Reader => EE!Reader
  BY Zenon
     DEF N!E!Reader, EE!Reader, N!E!Inbound, EE!Inbound, N!E!LoadS0, EE!LoadS0,
         N!E!LoadActive, EE!LoadActive, N!E!LoadKey, EE!LoadKey, N!E!LoadExt, EE!LoadExt,
         N!E!LoadS1, EE!LoadS1, N!E!Validate, EE!Validate, N!E!Refresh, EE!Refresh,
         N!E!ReaderUnchanged, EE!ReaderUnchanged, N!E!SeqStable, EE!SeqStable, N!E!Matches,
         EE!Matches, N!E!table, EE!table, N!E!locals, EE!locals, N!E!NoLookup, EE!NoLookup,
         N!E!NoFlow, EE!NoFlow, N!E!Id, EE!Id
<1> QED
  BY <1>1, <1>2, <1>3

\* A step of one table leaves the clock to the ticker.
LEMMA ClockIsTickers == ASSUME Writer \/ Reader \/ EE!Writer \/ EE!Reader PROVE tick' = tick
<1>1. CASE Writer
  BY <1>1, Zenon
     DEF Writer, Outbound, ProbeTake, ProbeHit, KeepAlive, ProbeMiss, ProbeFails, SeqOdd,
         Unlink, WriteKey, WriteExt, WriteLast, SeqEven, WriteActive, Link
<1>2. CASE Reader
  BY <1>2, Zenon
     DEF Reader, Inbound, LoadS0, LoadActive, LoadKey, LoadExt, LoadS1, Validate, Refresh,
         ReaderUnchanged
<1>3. CASE EE!Writer
  BY <1>3, Zenon
     DEF EE!Writer, EE!Outbound, EE!ProbeTake, EE!ProbeHit, EE!KeepAlive, EE!ProbeMiss,
         EE!ProbeFails, EE!SeqOdd, EE!Unlink, EE!Deactivate, EE!AllocTake, EE!AllocBusy,
         EE!AllocFails, EE!WriteKey, EE!WriteExt, EE!WriteLast, EE!Link, EE!SeqEven,
         EE!Activate
<1>4. CASE EE!Reader
  BY <1>4, Zenon
     DEF EE!Reader, EE!Inbound, EE!LoadS0, EE!LoadActive, EE!LoadKey, EE!LoadExt, EE!LoadS1,
         EE!Validate, EE!Refresh, EE!ReaderUnchanged
<1> QED
  BY <1>1, <1>2, <1>3, <1>4

\* Seen from one of the tables, a step of the engine is a step of that table or
\* none.
LEMMA BothEngines == N!NatSpec => Spec /\ EE!Spec
<1>1. N!NatInit => Init /\ EE!Init
  BY SamePorts, SameEchoes DEF N!NatInit
<1>2. ASSUME UNCHANGED N!echoes, tick' = tick PROVE UNCHANGED EE!vars
  BY <1>2 DEF N!echoes, EE!vars, EE!table, EE!locals
<1>3. ASSUME UNCHANGED N!ports, tick' = tick PROVE UNCHANGED vars
  BY <1>3 DEF N!ports, N!table, N!history, vars, table, history
<1>4. ASSUME N!TcpUdp PROVE [Next]_vars /\ [EE!Next]_(EE!vars)
  <2>1. (Writer \/ Reader) /\ UNCHANGED N!echoes
    BY <1>4, SamePorts DEF N!TcpUdp
  <2> QED
    BY <1>2, <2>1, ClockIsTickers DEF Next
<1>5. ASSUME N!Icmp PROVE [Next]_vars /\ [EE!Next]_(EE!vars)
  <2>1. (EE!Writer \/ EE!Reader) /\ UNCHANGED N!ports
    BY <1>5, SameEchoes DEF N!Icmp
  <2> QED
    BY <1>3, <2>1, ClockIsTickers DEF EE!Next
<1>6. ASSUME N!Clock PROVE [Next]_vars /\ [EE!Next]_(EE!vars)
  <2>1. Tick /\ UNCHANGED N!echoes
    BY <1>6, SamePorts DEF N!Clock
  <2>2. EE!Tick
    BY <2>1 DEF Tick, N!echoes, EE!Tick, EE!table, EE!locals
  <2> QED
    BY <2>1, <2>2 DEF Next, EE!Next
<1>7. ASSUME UNCHANGED <<N!vars, N!echoes>> PROVE [Next]_vars /\ [EE!Next]_(EE!vars)
  <2>1. UNCHANGED vars /\ UNCHANGED N!echoes
    BY <1>7, SamePorts
  <2> QED
    BY <1>2, <2>1 DEF vars
<1>8. [N!NatNext]_<<N!vars, N!echoes>> => [Next]_vars /\ [EE!Next]_(EE!vars)
  BY <1>4, <1>5, <1>6, <1>7 DEF N!NatNext
<1> QED
  BY <1>1, <1>8, PTL DEF N!NatSpec, Spec, EE!Spec

\* For every size of the two tables, and though both fill at once on one clock:
\* port_to_index leads to the latest holder of a port.
THEOREM NatPortsIndexed == ASSUME NatConstants PROVE N!NatSpec => []IndexIsLatestHolder
BY BothEngines, LatestHolderIndexed, PTL

\* In the composed engine no two live echo sessions share an identifier.
THEOREM NatIdsUnique == ASSUME EE!IcmpConstants PROVE N!NatSpec => []IdsUnique
<1>1. EE!IdsUnique => IdsUnique
  BY DEF IdsUnique, T!IdsUnique, EE!IdsUnique, T!Slot, EE!Slot
<1> QED
  BY <1>1, BothEngines, WordSize, EE!NoSharedId, PTL

\* In the composed engine icmp_id_to_index is the inverse of the live echo
\* sessions between two packets.
THEOREM NatIdsIndexed == ASSUME EE!IcmpConstants PROVE N!NatSpec => []IndexExact
<1>1. EE!IndexExact => IndexExact
  BY DEF IndexExact, T!IndexExact, EE!IndexExact, T!Slot, EE!Slot, T!Id, EE!Id
<1> QED
  BY <1>1, BothEngines, WordSize, EE!TablesInverse, PTL

\* If the loads of process_inbound complete in program order, it hands a TCP or
\* UDP reply only to a flow that was given its port.
THEOREM NatRepliesExact == ASSUME NatConstants, ~LoadsSink PROVE N!NatSpec => []DnatExact
BY BothEngines, RepliesReachTheirFlow, PTL

\* If the loads of process_inbound_icmp complete in program order, it hands an
\* echo reply only to a flow that was given its identifier.
THEOREM NatEchoesExact ==
  ASSUME EE!IcmpConstants, ~LoadsSink
  PROVE  N!NatSpec => []EchoDnatExact
<1>1. EE!DnatExact => EchoDnatExact
  BY DEF EchoDnatExact, T!DnatExact, EE!DnatExact
<1> QED
  BY <1>1, BothEngines, WordSize, EE!RepliesReachTheirPing, PTL

\* The map of the echo table, as NatTables and as the theorems name it.
LEMMA SameMap ==
  /\ EE!Map!Init => T!Map!Init
  /\ [EE!Map!Next]_(EE!Map!vars) => [T!Map!Next]_(T!Map!vars)
<1>1. /\ T!Sessions = EE!Sessions /\ T!Sessions' = EE!Sessions'
      /\ T!Translated = EE!Translated /\ T!Translated' = EE!Translated'
  BY Zenon
     DEF T!Slot, EE!Slot, T!Established, EE!Established, T!Entry, EE!Entry, T!Found, EE!Found,
         T!SeqStable, EE!SeqStable, T!Matches, EE!Matches, T!Sessions, EE!Sessions,
         T!Translated, EE!Translated
<1> QED
  BY <1>1
     DEF T!Map!Init, EE!Map!Init, T!Map!Session, EE!Map!Session, T!Map!Next, EE!Map!Next,
         T!Map!Open, EE!Map!Open, T!Map!Close, EE!Map!Close, T!Map!Translate,
         EE!Map!Translate, T!Map!Done, EE!Map!Done, T!Map!vars, EE!Map!vars, T!Id, EE!Id,
         T!Slot, EE!Slot

\* In the composed engine either table translates each inbound packet in one
\* instant, by a session that is whole and in the table at that instant, while
\* the other worker replaces sessions and both share one clock.
THEOREM NatTranslatesAtomically ==
  ASSUME NatConstants, EE!IcmpConstants, ~LoadsSink
  PROVE  N!NatSpec => TranslatesAtomically
<1>1. EE!IsNatMap => T!IsNatMap
  BY SameMap, PTL DEF EE!IsNatMap, T!IsNatMap, EE!Map!Spec, T!Map!Spec
<1> QED
  BY <1>1, BothEngines, PortsTranslateAtomically, WordSize, EE!EchoesTranslateAtomically, PTL
     DEF TranslatesAtomically
=============================================================================
