--------------------------- MODULE NatIcmpProofs ---------------------------
(***************************************************************************)
(* The ICMP table, and the checksums of translated packets.                 *)
(*                                                                          *)
(* NatIcmp, for every table size, identifier range, probe window and set of *)
(* flows: no two active ICMP sessions share an external identifier, and     *)
(* between two calls of process_outbound_icmp the identifier table is the   *)
(* exact inverse of the session table, in whatever order the reader's loads *)
(* complete.  If they complete in order, a reply only reaches a flow that   *)
(* was given its identifier, and the table implements NatMap.               *)
(*                                                                          *)
(* IdsUnique is not inductive: it needs every active session to be linked   *)
(* from its identifier (Linked), every entry to lead to a session that has  *)
(* that identifier (Backed), and what the writer knows in the middle of a   *)
(* takeover (Phase).  DnatExact rests on the sequence lock, as for NatEngine*)
(* in NatProofs, with two differences: a session is deactivated while its   *)
(* number is odd, and the takeover may give up after that (AllocFails).     *)
(* The refinement opens a session where it is activated; its identifier is  *)
(* exclusive by Linked and Phase.                                           *)
(*                                                                          *)
(* Checksum, for words of any size: a checksum that a receiver accepts is   *)
(* accepted after NatEngine's incremental updates, whatever words are       *)
(* replaced by whatever others.  An update changes the plain sum by a       *)
(* multiple of B - 1 (UpdateSum).  The sum stays positive because some      *)
(* other word is not zero; the one message for which that fails is named    *)
(* in IcmpChecksumSound.                                                    *)
(***************************************************************************)
EXTENDS NatIcmp, Checksum, TLAPS

(***************************************************************************)
(* NatIcmp.                                                                *)
(***************************************************************************)

Taking == {"alloc", "key", "ext", "last", "link", "even", "active"}

\* An active session is linked from its identifier, except between the
\* compare_exchange that unlinks it and the store that deactivates it.
Linked == \A i \in Slot :
            active[i] => /\ ext[i] \in Id
                         /\ ~(pc = "deactivate" /\ slot = i) => index[ext[i]] = i

\* An entry leads to a session with that identifier, which is active or about
\* to be.
Backed == \A d \in Id :
            index[d] # -1 => /\ ext[index[d]] = d
                             /\ active[index[d]] \/ (pc \in {"even", "active"} /\ slot = index[d])

\* What holds at each step of a takeover.
Phase == /\ pc \in Taking => ~active[slot]
         /\ pc \in {"unlink", "deactivate"} => active[slot]
         /\ pc = "deactivate" => index[ext[slot]] = -1
         /\ pc \in {"key", "ext", "last", "link"} => new \in Id /\ index[new] = -1
         /\ pc \in {"last", "link", "even", "active"} => new \in Id /\ ext[slot] = new
         /\ pc \in {"even", "active"} => index[new] = slot

IInv == TypeOK /\ Linked /\ Backed /\ Phase

\* The probe's next slot, modulo the size of the table.
LEMMA NextSlotType ==
  ASSUME IcmpConstants, NEW i \in Slot
  PROVE  (i + 1) % Slots \in Slot
<1>1. (i + 1) % Slots = IF i = Slots - 1 THEN 0 ELSE i + 1
  BY Z3 DEF IcmpConstants, Slot
<1> QED
  BY <1>1 DEF IcmpConstants, Slot

LEMMA NextIdType ==
  ASSUME IcmpConstants, NEW d \in Id
  PROVE  NextId(d) \in Id
BY DEF IcmpConstants, NextId, Id

LEMMA Constants ==
  ASSUME IcmpConstants
  PROVE  /\ -1 \notin Slot /\ 0 \in Slot
         /\ Slot \subseteq Int /\ Id \subseteq Nat
         /\ \A f \in Flow : Home[f] \in Slot
         /\ NoFlow \notin Flow /\ 0 \notin Id
         /\ Probe \in Nat /\ AllocTries \in Nat
BY DEF IcmpConstants, Slot, Id

LEMMA InitIInv == ASSUME IcmpConstants PROVE Init => IInv
BY Constants DEF IcmpConstants, Init, IInv, TypeOK, Linked, Backed, Phase, Taking

\* The steps of process_outbound_icmp keep the state well typed.
LEMMA WriterTypeOK == ASSUME IcmpConstants PROVE IInv /\ Writer => TypeOK'
<1> SUFFICES ASSUME IInv, Writer PROVE TypeOK'
  OBVIOUS
<1> USE Constants DEF IInv, TypeOK, Return, locals, table
<1>1. ASSUME NEW f \in Flow, Outbound(f) PROVE TypeOK'
  BY <1>1 DEF Outbound
<1>2. CASE ProbeTake
  BY <1>2 DEF ProbeTake
<1>3. CASE ProbeHit \/ KeepAlive
  BY <1>3 DEF ProbeHit, KeepAlive
<1>4. CASE ProbeMiss
  <2>1. slot' \in Slot /\ n' \in 0 .. Probe
    BY <1>4, NextSlotType DEF ProbeMiss
  <2> QED
    BY <1>4, <2>1 DEF ProbeMiss
<1>5. CASE ProbeFails
  BY <1>5 DEF ProbeFails
<1>6. CASE SeqOdd
  BY <1>6 DEF SeqOdd
<1>7. CASE Unlink
  BY <1>7, Zenon DEF Unlink
<1>8. CASE Deactivate
  BY <1>8 DEF Deactivate
<1>9. CASE AllocTake
  BY <1>9, NextIdType DEF AllocTake
<1>10. CASE AllocBusy
  BY <1>10, NextIdType DEF AllocBusy
<1>11. CASE AllocFails
  BY <1>11 DEF AllocFails
<1>12. CASE WriteKey
  BY <1>12 DEF WriteKey
<1>13. CASE WriteExt
  BY <1>13 DEF WriteExt
<1>14. CASE WriteLast
  BY <1>14 DEF WriteLast
<1>15. CASE Link
  BY <1>15, Zenon DEF Link
<1>16. CASE SeqEven
  BY <1>16 DEF SeqEven
<1>17. CASE Activate
  BY <1>17 DEF Activate
<1> QED
  BY <1>1, <1>2, <1>3, <1>4, <1>5, <1>6, <1>7, <1>8, <1>9, <1>10, <1>11, <1>12, <1>13,
     <1>14, <1>15, <1>16, <1>17, Zenon
     DEF Writer

\* The steps of process_outbound_icmp keep the two tables consistent.
LEMMA WriterTables == ASSUME IcmpConstants PROVE IInv /\ Writer => Linked' /\ Backed' /\ Phase'
<1> SUFFICES ASSUME IInv, Writer PROVE Linked' /\ Backed' /\ Phase'
  OBVIOUS
<1> USE Constants DEF IInv, TypeOK, Return, locals, table, Linked, Backed, Phase, Taking
<1>1. ASSUME NEW f \in Flow, Outbound(f) PROVE Linked' /\ Backed' /\ Phase'
  BY <1>1 DEF Outbound
<1>2. CASE ProbeTake
  BY <1>2 DEF ProbeTake
<1>3. CASE ProbeHit \/ KeepAlive
  BY <1>3 DEF ProbeHit, KeepAlive
<1>4. CASE ProbeMiss
  BY <1>4 DEF ProbeMiss
<1>5. CASE ProbeFails
  BY <1>5 DEF ProbeFails
<1>6. CASE SeqOdd
  BY <1>6 DEF SeqOdd
<1>7. CASE Unlink
  BY <1>7 DEF Unlink
<1>8. CASE Deactivate
  BY <1>8 DEF Deactivate
<1>9. CASE AllocTake
  <2>1. index[cursor] = -1
    <3> SUFFICES ASSUME index[cursor] \in Slot PROVE FALSE
      OBVIOUS
    <3>1. index[cursor] >= 0 /\ ~(pc \in {"even", "active"})
      BY <1>9 DEF AllocTake, Slot
    <3> QED
      BY <1>9, <3>1 DEF AllocTake, Usable
  <2>2. index' = index
    BY <1>9, <2>1 DEF AllocTake
  <2>3. /\ pc = "alloc" /\ pc' = "key" /\ new' = cursor
        /\ UNCHANGED <<active, ext, slot>>
    BY <1>9 DEF AllocTake
  <2> QED
    BY <2>1, <2>2, <2>3
<1>10. CASE AllocBusy
  BY <1>10 DEF AllocBusy
<1>11. CASE AllocFails
  BY <1>11 DEF AllocFails
<1>12. CASE WriteKey
  BY <1>12 DEF WriteKey
<1>13. CASE WriteExt
  BY <1>13 DEF WriteExt
<1>14. CASE WriteLast
  BY <1>14 DEF WriteLast
<1>15. CASE Link
  BY <1>15 DEF Link
<1>16. CASE SeqEven
  BY <1>16 DEF SeqEven
<1>17. CASE Activate
  BY <1>17 DEF Activate
<1> QED
  BY <1>1, <1>2, <1>3, <1>4, <1>5, <1>6, <1>7, <1>8, <1>9, <1>10, <1>11, <1>12, <1>13,
     <1>14, <1>15, <1>16, <1>17, Zenon
     DEF Writer

\* The ticker and the reader leave everything IInv speaks of alone.
LEMMA OthersIInv == IInv /\ (Tick \/ Reader \/ UNCHANGED vars) => IInv'
<1> SUFFICES ASSUME IInv, Tick \/ Reader \/ UNCHANGED vars PROVE IInv'
  OBVIOUS
<1>1. UNCHANGED <<table, cursor, pc, locals, tries, new>>
  BY Zenon
     DEF Tick, Reader, Inbound, LoadS0, LoadActive, LoadKey, LoadExt, LoadS1, Validate,
         Refresh, ReaderUnchanged, vars
<1> QED
  BY <1>1 DEF IInv, TypeOK, Linked, Backed, Phase, table, locals

LEMMA StepIInv == ASSUME IcmpConstants PROVE IInv /\ [Next]_vars => IInv'
BY WriterTypeOK, WriterTables, OthersIInv DEF Next, IInv

LEMMA Inductive == ASSUME IcmpConstants PROVE Spec => []IInv
BY InitIInv, StepIInv, PTL DEF Spec

\* The writer's state is well typed; the cursor and the identifiers it hands
\* out never leave IdLo..IdHi.
THEOREM TypeCorrect == ASSUME IcmpConstants PROVE Spec => []TypeOK
<1>1. IInv => TypeOK
  BY DEF IInv
<1> QED
  BY <1>1, Inductive, PTL

\* No two active sessions share an external identifier, whatever the sizes of
\* the tables and however often the cursor of alloc_external_icmp_id wraps.
THEOREM NoSharedId == ASSUME IcmpConstants PROVE Spec => []IdsUnique
<1>1. IInv => IdsUnique
  BY Constants DEF IInv, TypeOK, Linked, Phase, IdsUnique
<1> QED
  BY <1>1, Inductive, PTL

\* Between two calls of process_outbound_icmp, icmp_id_to_index and the active
\* sessions are inverse to each other, so a reply finds exactly its session.
THEOREM TablesInverse == ASSUME IcmpConstants PROVE Spec => []IndexExact
<1>1. IInv => IndexExact
  BY Constants DEF IInv, TypeOK, Linked, Backed, Phase, IndexExact
<1> QED
  BY <1>1, Inductive, PTL

(***************************************************************************)
(* The sequence lock.                                                      *)
(***************************************************************************)
Changing == {"unlink", "deactivate", "alloc", "key", "ext", "last", "link", "even"}

Parity == \A i \in Slot : seq[i] % 2 = IF pc \in Changing /\ i = slot THEN 1 ELSE 0

Paired == /\ pc = "ext" => key[slot] = flow
          /\ \A i \in Slot : ext[i] \in Id /\ ~(pc = "ext"
               /\ i = slot) => <<key[i], ext[i]>> \in installed

Locked == tick \in Nat /\ Parity /\ Paired

ReaderPC == {"idle", "s0", "act", "load", "refresh"}
Fields == {"key", "ext", "s1"}
ReaderType == [pc : ReaderPC, from : Endpoint \cup {NoFlow}, id : Id \cup {0}, idx : Slot \cup {-1},
               tries : Nat, s0 : Nat, s1 : Nat, act : BOOLEAN, key : Flow \cup {NoFlow},
               ext : Id \cup {0}, tick : Nat, todo : SUBSET Fields]

\* A reader that still sees the number it started from has read the fields as
\* they are.
Reading ==
  /\ r \in ReaderType
  /\ r.pc # "idle" => r.idx \in Slot /\ r.id \in Id
  /\ r.pc \in {"act", "load"} => r.s0 % 2 = 0 /\ r.s0 <= seq[r.idx]
  /\ r.pc = "load" /\ "s1" \notin r.todo => r.todo = {}
  /\ r.pc = "load" /\ "s1" \in r.todo /\ r.s0 = seq[r.idx] =>
       /\ r.act => active[r.idx]
       /\ "key" \notin r.todo => r.key = key[r.idx]
       /\ "ext" \notin r.todo => r.ext = ext[r.idx]
  /\ r.pc = "load" /\ "s1" \notin r.todo /\ r.act /\ r.s0 = r.s1 => <<r.key, r.ext>> \in installed
  /\ r.pc = "refresh" => <<r.key, r.id>> \in installed

LEMMA InitReading == ASSUME IcmpConstants PROVE Init => Locked /\ Reading
<1> SUFFICES ASSUME Init PROVE Locked /\ Reading
  OBVIOUS
<1> USE Constants DEF Init, NoLookup
<1>1. Locked
  BY DEF Locked, Parity, Paired, Changing
<1>2. Reading
  BY DEF Reading, ReaderType, ReaderPC, Fields
<1> QED
  BY <1>1, <1>2

\* seq goes up by one where a takeover begins and where it ends.
LEMMA SeqParity ==
  ASSUME IInv, Parity, SeqOdd \/ SeqEven \/ AllocFails
  PROVE  Parity'
<1>1. slot \in Slot /\ \A i \in Slot : seq[i] \in Nat
  BY DEF IInv, TypeOK
<1>2. \A i \in Slot : seq'[i] = IF i = slot THEN seq[i] + 1 ELSE seq[i]
  BY <1>1 DEF SeqOdd, SeqEven, AllocFails, IInv, TypeOK
<1>3. \A m \in Nat : (m + 1) % 2 = 1 - (m % 2)
  BY Z3
<1>4. seq'[slot] % 2 = 1 - (seq[slot] % 2)
  BY <1>1, <1>2, <1>3
<1>5. \/ pc \notin Changing /\ pc' \in Changing /\ slot' = slot
      \/ pc \in Changing /\ pc' \notin Changing
  BY DEF SeqOdd, SeqEven, AllocFails, Changing, Return, locals
<1>6. seq[slot] % 2 = IF pc \in Changing THEN 1 ELSE 0
  BY <1>1 DEF Parity
<1>7. seq'[slot] % 2 = IF pc' \in Changing THEN 1 ELSE 0
  BY <1>4, <1>5, <1>6
<1>8. ASSUME NEW i \in Slot, i # slot PROVE seq'[i] % 2 = 0
  BY <1>2, <1>8 DEF Parity
<1> QED
  BY <1>1, <1>5, <1>7, <1>8 DEF Parity

LEMMA WriterLocked ==
  ASSUME IInv, Locked, Writer
  PROVE  Locked'
<1> USE DEF IInv, TypeOK, Return, locals, table
<1>1. tick' \in Nat
  BY Zenon
     DEF Locked, Writer, Outbound, ProbeTake, ProbeHit, KeepAlive, ProbeMiss, ProbeFails,
         SeqOdd, Unlink, Deactivate, AllocTake, AllocBusy, AllocFails, WriteKey, WriteExt,
         WriteLast, Link, SeqEven, Activate
<1>2. CASE SeqOdd \/ SeqEven \/ AllocFails
  <2>1. Paired'
    BY <1>2 DEF SeqOdd, SeqEven, AllocFails, Locked, Paired
  <2> QED
    BY <1>1, <1>2, <2>1, SeqParity DEF Locked
<1>3. ASSUME NEW f \in Flow, Outbound(f) PROVE Locked'
  BY <1>1, <1>3 DEF Outbound, Locked, Parity, Paired, Changing
<1>4. CASE ProbeTake \/ ProbeHit \/ KeepAlive \/ ProbeMiss \/ ProbeFails \/ Activate
  BY <1>1, <1>4
     DEF ProbeTake, ProbeHit, KeepAlive, ProbeMiss, ProbeFails, Activate, Locked, Parity,
         Paired, Changing
<1>5. CASE Unlink \/ Deactivate \/ AllocTake \/ AllocBusy \/ WriteLast \/ Link
  BY <1>1, <1>5
     DEF Unlink, Deactivate, AllocTake, AllocBusy, WriteLast, Link, Locked, Parity, Paired,
         Changing
<1>6. CASE WriteKey
  BY <1>1, <1>6 DEF WriteKey, Locked, Parity, Paired, Changing
<1>7. CASE WriteExt
  BY <1>1, <1>7 DEF WriteExt, Locked, Parity, Paired, Changing
<1> QED
  BY <1>2, <1>3, <1>4, <1>5, <1>6, <1>7 DEF Writer

LEMMA OthersLocked ==
  ASSUME IcmpConstants, Locked, Tick \/ Reader \/ UNCHANGED vars
  PROVE  Locked'
<1>1. (tick + 1) % TickMod \in Nat
  BY DEF IcmpConstants, Locked
<1>2. UNCHANGED <<table, pc, locals, installed>> /\ tick' \in Nat
  BY <1>1, Zenon
     DEF Locked, Tick, Reader, Inbound, LoadS0, LoadActive, LoadKey, LoadExt, LoadS1,
         Validate, Refresh, ReaderUnchanged, vars
<1> QED
  BY <1>2 DEF Locked, Parity, Paired, table, locals

LEMMA WriterKeepsReading ==
  ASSUME IInv, Locked, Reading, Writer
  PROVE  Reading'
<1>1. TypeOK /\ Parity
  BY DEF IInv, Locked
<1>2. UNCHANGED r
  BY Zenon
     DEF Writer, Outbound, ProbeTake, ProbeHit, KeepAlive, ProbeMiss, ProbeFails, SeqOdd,
         Unlink, Deactivate, AllocTake, AllocBusy, AllocFails, WriteKey, WriteExt, WriteLast,
         Link, SeqEven, Activate
<1>3. installed \subseteq installed'
  BY Zenon
     DEF Writer, Outbound, ProbeTake, ProbeHit, KeepAlive, ProbeMiss, ProbeFails, SeqOdd,
         Unlink, Deactivate, AllocTake, AllocBusy, AllocFails, WriteKey, WriteExt, WriteLast,
         Link, SeqEven, Activate
<1>4. ASSUME NEW i \in Slot
      PROVE  /\ seq'[i] = seq[i] \/ seq'[i] = seq[i] + 1
             /\ seq[i] % 2 = 0 /\ seq'[i] = seq[i] =>
                  (active[i] => active'[i]) /\ key'[i] = key[i] /\ ext'[i] = ext[i]
  <2> USE DEF TypeOK, table
  <2>1. CASE UNCHANGED <<active, seq, key, ext>>
    BY <2>1
  <2>2. CASE SeqOdd \/ SeqEven \/ AllocFails \/ Activate
    BY <1>1, <2>2 DEF SeqOdd, SeqEven, AllocFails, Activate
  <2>3. CASE Deactivate \/ WriteKey \/ WriteExt
    <3>1. slot \in Slot /\ pc \in Changing
      BY <1>1, <2>3 DEF Deactivate, WriteKey, WriteExt, Changing
    <3>2. seq[slot] % 2 = 1
      BY <1>1, <3>1 DEF Parity
    <3>3. i # slot => active'[i] = active[i] /\ key'[i] = key[i] /\ ext'[i] = ext[i]
      BY <1>1, <2>3 DEF Deactivate, WriteKey, WriteExt
    <3>4. UNCHANGED seq
      BY <2>3 DEF Deactivate, WriteKey, WriteExt
    <3>5. seq[i] % 2 = 0 => i # slot
      BY <3>2
    <3> QED
      BY <3>3, <3>4, <3>5, Zenon
  <2> QED
    BY <2>1, <2>2, <2>3, Zenon
       DEF Writer, Outbound, ProbeTake, ProbeHit, KeepAlive, ProbeMiss, ProbeFails, Unlink,
           AllocTake, AllocBusy, WriteLast, Link
<1>5. CASE r.pc \in {"act", "load"}
  <2>1. /\ r.idx \in Slot /\ r.id \in Id /\ r.s0 \in Nat /\ seq[r.idx] \in Nat
        /\ r.s0 % 2 = 0 /\ r.s0 <= seq[r.idx]
    BY <1>1, <1>5 DEF Reading, TypeOK, ReaderType
  <2>2. r.s0 <= seq'[r.idx]
    BY <1>4, <2>1
  <2>3. r.s0 = seq'[r.idx] => /\ r.s0 = seq[r.idx] /\ (active[r.idx] => active'[r.idx])
                              /\ key'[r.idx] = key[r.idx] /\ ext'[r.idx] = ext[r.idx]
    BY <1>4, <2>1
  <2> QED
    BY <1>2, <1>3, <1>5, <2>1, <2>2, <2>3 DEF Reading
<1>6. CASE r.pc \notin {"act", "load"}
  BY <1>2, <1>3, <1>6 DEF Reading
<1> QED
  BY <1>5, <1>6

\* The reader, one step per action, its loads in program order.
LEMMA ReaderStep ==
  ASSUME IcmpConstants, ~LoadsSink, IInv, Locked, Reading, Reader
  PROVE  Reading'
<1>1. TypeOK /\ Linked /\ Parity /\ Paired /\ tick \in Nat
  BY DEF IInv, Locked
<1>2. UNCHANGED <<table, cursor, tick, pc, locals, installed>>
  BY Zenon
     DEF Reader, Inbound, LoadS0, LoadActive, LoadKey, LoadExt, LoadS1, Validate, Refresh,
         ReaderUnchanged
<1> USE DEF ReaderType, ReaderPC, Fields, table, locals, ReaderUnchanged
<1>3. r \in ReaderType /\ NoLookup \in ReaderType
  BY Constants DEF Reading, NoLookup
<1>4. ASSUME r' = NoLookup PROVE Reading'
  BY <1>3, <1>4 DEF Reading, NoLookup
<1>5. ASSUME NEW from \in Endpoint, NEW d \in Id, Inbound(from, d) PROVE Reading'
  <2>1. index[d] \in Slot
    BY <1>1, <1>5 DEF Inbound, TypeOK
  <2>2. r' = [r EXCEPT !.pc = "s0", !.from = from, !.id = d, !.idx = index[d]]
    BY <1>5 DEF Inbound
  <2> QED
    BY <1>3, <2>1, <2>2, Zenon DEF Reading
<1>6. CASE LoadS0
  <2>1. r.idx \in Slot /\ r.id \in Id /\ seq[r.idx] \in Nat /\ r.tries + 1 \in Nat
    BY <1>1, <1>3, <1>6 DEF LoadS0, Reading, TypeOK
  <2>2. CASE r.tries = Attempts
    BY <1>3, <1>4, <1>6, <2>2 DEF LoadS0
  <2>3. CASE r.tries # Attempts /\ seq[r.idx] % 2 = 1
    BY <1>3, <1>6, <2>1, <2>3 DEF LoadS0, Reading
  <2>4. CASE r.tries # Attempts /\ seq[r.idx] % 2 # 1
    <3>1. seq[r.idx] % 2 = 0
      BY <1>1, <2>1, <2>4 DEF Parity
    <3>2. r' = [r EXCEPT !.pc = "act", !.s0 = seq[r.idx], !.tries = @ + 1]
      BY <1>6, <2>4 DEF LoadS0
    <3> QED
      <4>1. r' \in ReaderType
        BY <1>3, <2>1, <3>2, Zenon
      <4>2. r'.pc = "act" /\ r'.idx = r.idx /\ r'.id = r.id /\ r'.s0 = seq[r.idx] /\ seq' = seq
        BY <1>2, <1>3, <3>2
      <4> QED
        BY <2>1, <3>1, <4>1, <4>2 DEF Reading
  <2> QED
    BY <2>2, <2>3, <2>4
<1>7. CASE LoadActive
  <2>1. r.idx \in Slot /\ r.id \in Id /\ active[r.idx] \in BOOLEAN
    BY <1>1, <1>7 DEF LoadActive, Reading, TypeOK
  <2>2. r' = [r EXCEPT !.pc = "load", !.act = active[r.idx], !.todo = Fields]
    BY <1>7 DEF LoadActive
  <2> QED
    <3>1. r' \in ReaderType
      BY <1>3, <2>1, <2>2, Zenon
    <3>2. r'.pc = "load" /\ r'.act = active[r.idx] /\ r'.todo = Fields
      BY <1>3, <2>2
    <3>3. r'.idx = r.idx /\ r'.id = r.id /\ r'.s0 = r.s0 /\ UNCHANGED <<seq, active>>
      BY <1>2, <1>3, <2>2
    <3>4. r.s0 % 2 = 0 /\ r.s0 <= seq[r.idx]
      BY <1>7 DEF LoadActive, Reading
    <3> QED
      BY <2>1, <3>1, <3>2, <3>3, <3>4 DEF Reading
<1>8. CASE LoadKey \/ LoadExt
  <2>1. r.pc = "load" /\ "s1" \in r.todo
    BY <1>8 DEF LoadKey, LoadExt, Reading
  <2>2. r.idx \in Slot /\ r.id \in Id /\ r.s0 % 2 = 0 /\ r.s0 <= seq[r.idx]
    BY <2>1 DEF Reading
  <2>3. key[r.idx] \in Flow \cup {NoFlow} /\ ext[r.idx] \in Id \cup {0}
    BY <1>1, <2>2 DEF TypeOK
  <2>4. \/ "key" \in r.todo /\ r' = [r EXCEPT !.key = key[r.idx], !.todo = @ \ {"key"}]
        \/ "ext" \in r.todo /\ r' = [r EXCEPT !.ext = ext[r.idx], !.todo = @ \ {"ext"}]
    BY <1>8 DEF LoadKey, LoadExt
  <2>5. r' \in ReaderType
    <3>1. [r EXCEPT !.key = key[r.idx], !.todo = @ \ {"key"}] \in ReaderType
      BY <1>3, <2>3, Zenon
    <3>2. [r EXCEPT !.ext = ext[r.idx], !.todo = @ \ {"ext"}] \in ReaderType
      BY <1>3, <2>3, Zenon
    <3> QED
      BY <2>4, <3>1, <3>2, Zenon
  <2>6. /\ r'.pc = "load" /\ r'.idx = r.idx /\ r'.id = r.id /\ r'.s0 = r.s0 /\ r'.act = r.act
        /\ "s1" \in r'.todo /\ UNCHANGED <<seq, active, key, ext, installed>>
    <3>1. UNCHANGED <<seq, active, key, ext, installed>>
      BY <1>2
    <3>2. CASE r' = [r EXCEPT !.key = key[r.idx], !.todo = @ \ {"key"}]
      BY <1>3, <2>1, <3>1, <3>2
    <3>3. CASE r' = [r EXCEPT !.ext = ext[r.idx], !.todo = @ \ {"ext"}]
      BY <1>3, <2>1, <3>1, <3>3
    <3> QED
      BY <2>4, <3>2, <3>3
  <2>7. /\ "key" \notin r'.todo => r'.key = key[r.idx] \/ ("key" \notin r.todo /\ r'.key = r.key)
        /\ "ext" \notin r'.todo => r'.ext = ext[r.idx] \/ ("ext" \notin r.todo /\ r'.ext = r.ext)
    <3>1. CASE r' = [r EXCEPT !.key = key[r.idx], !.todo = @ \ {"key"}]
      BY <1>3, <3>1
    <3>2. CASE r' = [r EXCEPT !.ext = ext[r.idx], !.todo = @ \ {"ext"}]
      BY <1>3, <3>2
    <3> QED
      BY <2>4, <3>1, <3>2
  <2>8. r.s0 = seq[r.idx] =>
          /\ r.act => active[r.idx]
          /\ "key" \notin r'.todo => r'.key = key[r.idx]
          /\ "ext" \notin r'.todo => r'.ext = ext[r.idx]
    BY <2>1, <2>7 DEF Reading
  <2> QED
    BY <2>2, <2>5, <2>6, <2>8 DEF Reading
<1>9. CASE LoadS1
  <2>1. r.pc = "load" /\ r.todo = {"s1"} /\ r' = [r EXCEPT !.s1 = seq[r.idx], !.todo = @ \ {"s1"}]
    BY <1>9 DEF LoadS1
  <2>2. /\ r.idx \in Slot /\ r.id \in Id /\ r.s0 % 2 = 0 /\ r.s0 <= seq[r.idx]
        /\ r.s0 = seq[r.idx] => (r.act => active[r.idx]) /\ r.key = key[r.idx] /\ r.ext = ext[r.idx]
    BY <2>1 DEF Reading
  <2>3. seq[r.idx] \in Nat
    BY <1>1, <2>2 DEF TypeOK
  <2>4. r' \in ReaderType
    BY <1>3, <2>1, <2>3, Zenon
  <2>5. /\ r'.pc = "load" /\ r'.idx = r.idx /\ r'.id = r.id /\ r'.s0 = r.s0 /\ r'.act = r.act
        /\ r'.key = r.key /\ r'.ext = r.ext /\ r'.s1 = seq[r.idx] /\ r'.todo = {}
        /\ UNCHANGED <<seq, active, installed>>
    BY <1>2, <1>3, <2>1
  <2>6. r.act /\ r.s0 = seq[r.idx] => <<r.key, r.ext>> \in installed
    <3>1. SUFFICES ASSUME active[r.idx], seq[r.idx] % 2 = 0
                   PROVE  <<key[r.idx], ext[r.idx]>> \in installed
      BY <2>2
    <3>2. ext[r.idx] \in Id
      BY <1>1, <2>2, <3>1 DEF Linked
    <3>3. ~(pc = "ext" /\ r.idx = slot)
      BY <1>1, <2>2, <3>1 DEF Parity, Changing
    <3> QED
      BY <1>1, <2>2, <3>2, <3>3 DEF Paired
  <2> QED
    BY <2>2, <2>4, <2>5, <2>6 DEF Reading
<1>10. CASE Validate
  <2>1. r.idx \in Slot /\ r.id \in Id /\ r.pc = "load" /\ r.todo = {}
    BY <1>10 DEF Validate, Reading
  <2>2. CASE ~SeqStable
    <3>1. r' = [NoLookup EXCEPT !.pc = "s0", !.from = r.from, !.id = r.id, !.idx = r.idx,
            !.tries = r.tries]
      BY <1>10, <2>2 DEF Validate
    <3>2. r' \in ReaderType
      BY <1>3, <3>1, Zenon
    <3>3. r'.pc = "s0" /\ r'.idx = r.idx /\ r'.id = r.id
      BY <1>3, <3>1
    <3> QED
      BY <2>1, <3>2, <3>3 DEF Reading
  <2>3. CASE SeqStable /\ Matches
    <3>1. r' = [r EXCEPT !.pc = "refresh", !.tick = tick] /\ tick \in Nat
      BY <1>1, <1>10, <2>3 DEF Validate
    <3>2. r' \in ReaderType
      BY <1>3, <3>1, Zenon
    <3>3. r'.pc = "refresh" /\ r'.idx = r.idx /\ r'.id = r.id /\ r'.key = r.key
            /\ UNCHANGED installed
      BY <1>2, <1>3, <3>1
    <3>4. <<r.key, r.id>> \in installed
      BY <2>1, <2>3 DEF Reading, SeqStable, Matches
    <3> QED
      BY <2>1, <3>2, <3>3, <3>4 DEF Reading
  <2>4. CASE SeqStable /\ ~Matches
    BY <1>3, <1>4, <1>10, <2>4 DEF Validate
  <2> QED
    BY <2>2, <2>3, <2>4
<1>11. CASE Refresh
  BY <1>3, <1>4, <1>11 DEF Refresh
<1> QED
  BY <1>5, <1>6, <1>7, <1>8, <1>9, <1>10, <1>11 DEF Reader

LEMMA SequenceLock ==
  ASSUME IcmpConstants, ~LoadsSink, IInv, Locked, Reading, [Next]_vars
  PROVE  IInv' /\ Locked' /\ Reading'
<1>1. ASSUME Tick \/ UNCHANGED vars PROVE Reading'
  BY <1>1 DEF Reading, Tick, vars, table
<1> QED
  BY <1>1, StepIInv, WriterLocked, OthersLocked, WriterKeepsReading, ReaderStep DEF Next

\* Replies only reach a flow that was given the identifier, whatever the sizes
\* of the tables, if the plain loads of process_inbound_icmp are done before
\* its second load of seq.
THEOREM RepliesReachTheirPing == ASSUME IcmpConstants, ~LoadsSink PROVE Spec => []DnatExact
<1>1. Init => IInv /\ Locked /\ Reading
  BY InitIInv, InitReading
<1>2. (IInv /\ Locked /\ Reading) /\ [Next]_vars => (IInv /\ Locked /\ Reading)'
  BY SequenceLock
<1>3. Reading => DnatExact
  BY DEF Reading, DnatExact
<1> QED
  BY <1>1, <1>2, <1>3, PTL DEF Spec

(***************************************************************************)
(* NatIcmp implements NatMap, with the same instant of translation as      *)
(* NatEngine and no two sessions with one identifier.                      *)
(***************************************************************************)

\* The history of sessions, for their types.
Given == installed \subseteq Flow \X Id

MapInv == IInv /\ Locked /\ Reading /\ Given

LEMMA GivenStep == ASSUME IInv, Given, [Next]_vars PROVE Given'
<1>1. CASE WriteExt
  <2>1. flow \in Flow /\ new \in Id
    BY <1>1 DEF WriteExt, IInv, TypeOK, Phase
  <2> QED
    BY <1>1, <2>1 DEF WriteExt, Given
<1>2. CASE UNCHANGED installed
  BY <1>2 DEF Given
<1> QED
  BY <1>1, <1>2, Zenon
     DEF Next, vars, Tick, Writer, Reader, Outbound, ProbeTake, ProbeHit, KeepAlive,
         ProbeMiss, ProbeFails, SeqOdd, Unlink, Deactivate, AllocTake, AllocBusy, AllocFails,
         WriteKey, WriteLast, Link, SeqEven, Activate, Inbound, LoadS0, LoadActive, LoadKey,
         LoadExt, LoadS1, Validate, Refresh, ReaderUnchanged

LEMMA MapInvStep ==
  ASSUME IcmpConstants, ~LoadsSink, MapInv, [Next]_vars
  PROVE  MapInv'
<1>1. IInv' /\ Locked' /\ Reading'
  BY SequenceLock DEF MapInv
<1> QED
  BY <1>1, GivenStep DEF MapInv

\* A session with an identifier is one of a flow.
LEMMA EntryType ==
  ASSUME MapInv, NEW i \in Slot, ext[i] \in Id, ~(pc = "ext" /\ i = slot)
  PROVE  Entry(i) \in Map!Session
<1>1. <<key[i], ext[i]>> \in installed
  BY DEF MapInv, Locked, Paired
<1>2. key[i] \in Flow
  BY <1>1 DEF MapInv, Given
<1> QED
  BY <1>2 DEF Entry, Map!Session

\* What a step at slot i does to the table: nothing unless the session there is
\* established before it or after.
LEMMA SessionsKept ==
  ASSUME \A j \in Slot : Established(j)' <=> Established(j),
         \A j \in Slot : Established(j) => Entry(j)' = Entry(j)
  PROVE  Sessions' = Sessions
BY Zenon DEF Sessions

LEMMA SessionClosed ==
  ASSUME NEW i \in Slot, Established(i), ~Established(i)',
         \A j \in Slot \ {i} : (Established(j)' <=> Established(j)) /\ Entry(j)' = Entry(j)
  PROVE  Sessions' = Sessions \ {Entry(i)}
<1>1. \A j \in Slot : Entry(j) = Entry(i) => j = i
  BY DEF Entry
<1> QED
  BY <1>1, Zenon DEF Sessions

LEMMA SessionOpened ==
  ASSUME NEW i \in Slot, ~Established(i), Established(i)',
         \A j \in Slot \ {i} : (Established(j)' <=> Established(j)) /\ Entry(j)' = Entry(j)
  PROVE  /\ Sessions' = Sessions \cup {Entry(i)'}
         /\ \A t \in Sessions : t.slot # i
<1>1. \A j \in Slot : Entry(j).slot = j
  BY DEF Entry
<1>2. \A t \in Sessions : t.slot # i
  BY <1>1, Zenon DEF Sessions
<1> QED
  BY <1>2, Zenon DEF Sessions

\* The writer closes a session when it makes seq odd and opens one when it
\* activates it.  No other session has the new one's identifier, because the
\* identifier's entry already leads to the new session's slot.
LEMMA WriterRefines ==
  ASSUME MapInv, Writer
  PROVE  [Map!Next]_(Map!vars)
<1>1. TypeOK /\ Linked /\ Phase /\ Parity
  BY DEF MapInv, IInv, Locked
<1>2. Translated' = Translated
  <2>1. UNCHANGED r
    BY Zenon
       DEF Writer, Outbound, ProbeTake, ProbeHit, KeepAlive, ProbeMiss, ProbeFails, SeqOdd,
           Unlink, Deactivate, AllocTake, AllocBusy, AllocFails, WriteKey, WriteExt,
           WriteLast, Link, SeqEven, Activate
  <2> QED
    BY <2>1 DEF Translated, Found, SeqStable, Matches
<1>3. ASSUME Sessions' = Sessions PROVE [Map!Next]_(Map!vars)
  BY <1>2, <1>3 DEF Map!vars
<1>4. CASE UNCHANGED <<active, seq, key, ext>>
  <2>1. Sessions' = Sessions
    BY <1>4, SessionsKept DEF Established, Entry
  <2> QED
    BY <1>3, <2>1
<1>5. PICK i \in Slot : i = slot
  BY <1>1 DEF TypeOK
<1>6. /\ active \in [Slot -> BOOLEAN] /\ seq \in [Slot -> Nat]
      /\ key \in [Slot -> Flow \cup {NoFlow}] /\ ext \in [Slot -> Id \cup {0}]
  BY <1>1 DEF TypeOK
<1>7. ASSUME \A j \in Slot \ {i} : /\ active'[j] = active[j] /\ seq'[j] = seq[j]
                                   /\ key'[j] = key[j] /\ ext'[j] = ext[j]
      PROVE  \A j \in Slot \ {i} : (Established(j)' <=> Established(j)) /\ Entry(j)' = Entry(j)
  BY <1>7 DEF Established, Entry
<1>8. CASE SeqOdd
  <2>1. /\ seq'[i] = seq[i] + 1 /\ seq[i] % 2 = 0 /\ seq[i] \in Nat
        /\ UNCHANGED <<active, key, ext>> /\ pc = "odd"
        /\ \A j \in Slot \ {i} : seq'[j] = seq[j]
    BY <1>1, <1>5, <1>6, <1>8 DEF SeqOdd, Parity, Changing
  <2>2. ~Established(i)'
    BY <2>1 DEF Established
  <2>3. \A j \in Slot \ {i} : (Established(j)' <=> Established(j)) /\ Entry(j)' = Entry(j)
    BY <1>7, <2>1
  <2>4. CASE Established(i)
    <3>1. Sessions' = Sessions \ {Entry(i)}
      BY <2>2, <2>3, <2>4, SessionClosed
    <3>2. Entry(i) \in Map!Session
      BY <1>1, <2>1, <2>4, EntryType DEF Established, Linked
    <3> QED
      BY <1>2, <3>1, <3>2 DEF Map!Next, Map!Close
  <2>5. CASE ~Established(i)
    BY <1>3, <2>2, <2>3, <2>5, SessionsKept
  <2> QED
    BY <2>4, <2>5
<1>9. CASE Deactivate \/ WriteKey \/ WriteExt
  <2>1. /\ seq[i] % 2 = 1 /\ UNCHANGED seq
        /\ \A j \in Slot \ {i} : active'[j] = active[j] /\ key'[j] = key[j] /\ ext'[j] = ext[j]
    BY <1>1, <1>5, <1>6, <1>9 DEF Deactivate, WriteKey, WriteExt, Parity, Changing
  <2>2. ~Established(i) /\ ~Established(i)'
    BY <2>1, SMTT(20) DEF Established
  <2> QED
    BY <1>3, <1>7, <2>1, <2>2, SessionsKept
<1>10. CASE SeqEven \/ AllocFails
  <2>1. /\ ~active[i] /\ UNCHANGED <<active, key, ext>>
        /\ \A j \in Slot \ {i} : seq'[j] = seq[j]
    BY <1>1, <1>5, <1>6, <1>10 DEF SeqEven, AllocFails, Phase, Taking
  <2>2. ~Established(i) /\ ~Established(i)'
    BY <2>1 DEF Established
  <2> QED
    BY <1>3, <1>7, <2>1, <2>2, SessionsKept
<1>11. CASE Activate
  <2>1. /\ active'[i] = TRUE /\ UNCHANGED <<seq, key, ext>> /\ pc = "active"
        /\ \A j \in Slot \ {i} : active'[j] = active[j]
    BY <1>5, <1>6, <1>11, SMTT(20) DEF Activate
  <2>2. seq[i] % 2 = 0 /\ ~active[i] /\ ext[i] = new /\ new \in Id /\ index[new] = i
    BY <1>1, <1>5, <2>1 DEF Parity, Changing, Phase, Taking
  <2>3. ~Established(i) /\ Established(i)' /\ Entry(i)' = Entry(i)
    BY <2>1, <2>2 DEF Established, Entry
  <2>4. /\ Sessions' = Sessions \cup {Entry(i)}
        /\ \A t \in Sessions : t.slot # i
    <3>1. \A j \in Slot \ {i} : (Established(j)' <=> Established(j)) /\ Entry(j)' = Entry(j)
      BY <1>7, <2>1
    <3> QED
      BY <2>3, <3>1, SessionOpened
  <2>5. \A t \in Sessions : t.ext # ext[i]
    <3>1. SUFFICES ASSUME NEW j \in Slot, Established(j), ext[j] = ext[i] PROVE FALSE
      BY DEF Sessions, Entry
    <3>2. active[j] /\ index[ext[j]] = j
      BY <1>1, <2>1, <3>1 DEF Established, Linked
    <3> QED
      BY <2>2, <3>1, <3>2
  <2>6. Entry(i) \in Map!Session /\ Entry(i).slot = i /\ Entry(i).ext = ext[i]
    BY <2>1, <2>2, EntryType DEF Entry
  <2> QED
    BY <1>2, <2>4, <2>5, <2>6 DEF Map!Next, Map!Open
<1> QED
  BY <1>4, <1>8, <1>9, <1>10, <1>11, Zenon
     DEF Writer, table, Outbound, ProbeTake, ProbeHit, KeepAlive, ProbeMiss, ProbeFails,
         Unlink, AllocTake, AllocBusy, WriteLast, Link

\* The reader translates when it loads seq for the second time.
LEMMA ReaderRefines ==
  ASSUME IcmpConstants, ~LoadsSink, MapInv, Reader
  PROVE  [Map!Next]_(Map!vars)
<1>1. Sessions' = Sessions
  <2>1. UNCHANGED table
    BY Zenon
       DEF Reader, Inbound, LoadS0, LoadActive, LoadKey, LoadExt, LoadS1, Validate, Refresh,
           ReaderUnchanged
  <2> QED
    BY <2>1, SessionsKept DEF table, Established, Entry
<1>2. r \in ReaderType /\ Reading
  BY DEF MapInv, Reading
<1>3. ASSUME ~Found, ~Found' PROVE [Map!Next]_(Map!vars)
  BY <1>1, <1>3 DEF Translated, Map!vars
<1>4. CASE \E from \in Endpoint, d \in Id : Inbound(from, d)
  <2>1. r.pc = "idle" /\ r'.pc \in {"idle", "s0"}
    BY <1>2, <1>4 DEF Inbound, NoLookup, ReaderType
  <2> QED
    BY <1>3, <2>1 DEF Found
<1>5. CASE LoadS0
  <2>1. r.pc = "s0" /\ r'.pc \in {"idle", "s0", "act"}
    BY <1>2, <1>5 DEF LoadS0, NoLookup, ReaderType
  <2> QED
    BY <1>3, <2>1 DEF Found
<1>6. CASE LoadActive \/ LoadKey \/ LoadExt
  <2>1. /\ r.pc = "act" \/ (r.pc = "load" /\ r.todo # {})
        /\ r'.pc = "load" /\ "s1" \in r'.todo
    <3>1. r.pc = "load" /\ r.todo # {} => "s1" \in r.todo
      BY <1>2 DEF Reading
    <3>2. CASE LoadActive
      BY <1>2, <3>2 DEF LoadActive, ReaderType
    <3>3. CASE LoadKey
      BY <1>2, <3>1, <3>3 DEF LoadKey, ReaderType
    <3>4. CASE LoadExt
      BY <1>2, <3>1, <3>4 DEF LoadExt, ReaderType
    <3> QED
      BY <1>6, <3>2, <3>3, <3>4
  <2> QED
    BY <1>3, <2>1 DEF Found
<1>7. CASE LoadS1
  <2>1. /\ r.pc = "load" /\ r.todo = {"s1"}
        /\ r' = [r EXCEPT !.s1 = seq[r.idx], !.todo = @ \ {"s1"}]
    BY <1>7 DEF LoadS1
  <2>2. /\ r'.pc = "load" /\ r'.todo = {} /\ r'.s0 = r.s0 /\ r'.s1 = seq[r.idx]
        /\ r'.act = r.act /\ r'.key = r.key /\ r'.ext = r.ext /\ r'.from = r.from
        /\ r'.id = r.id
    BY <1>2, <2>1 DEF ReaderType
  <2>3. ~Found
    BY <2>1 DEF Found
  <2>4. CASE Found'
    <3>1. /\ r.s0 = seq[r.idx] /\ seq[r.idx] % 2 = 0
          /\ r.act /\ Remote[r.key] = r.from /\ r.ext = r.id
      BY <2>2, <2>4 DEF Found, SeqStable, Matches
    <3>2. r.idx \in Slot /\ active[r.idx] /\ r.key = key[r.idx] /\ r.ext = ext[r.idx]
      BY <1>2, <2>1, <3>1 DEF Reading
    <3>3. Established(r.idx) /\ Entry(r.idx) \in Sessions
      BY <3>1, <3>2 DEF Established, Sessions
    <3>4. Entry(r.idx).ext = r.id /\ Entry(r.idx).flow = r.key
      BY <3>1, <3>2 DEF Entry
    <3>5. r.key \in Flow /\ r.id \in Id
      <4>1. ext[r.idx] \in Id /\ ~(pc = "ext" /\ r.idx = slot)
        BY <3>1, <3>2 DEF MapInv, IInv, Locked, Linked, Parity, Changing
      <4>2. Entry(r.idx) \in Map!Session
        BY <3>2, <4>1, EntryType
      <4> QED
        BY <3>4, <4>2 DEF Map!Session
    <3>6. r.from \in Endpoint
      BY <3>1, <3>5 DEF IcmpConstants
    <3>7. Translated = {} /\ Translated' = {[from |-> r.from, ext |-> r.id, flow |-> r.key]}
      BY <2>2, <2>3, <2>4 DEF Translated
    <3>8. Map!Translate(r.from, r.id)
      BY <1>1, <3>1, <3>3, <3>4, <3>7 DEF Map!Translate
    <3> QED
      BY <3>5, <3>6, <3>8 DEF Map!Next
  <2> QED
    BY <1>3, <2>3, <2>4
<1>8. CASE Validate
  <2>1. CASE SeqStable /\ Matches
    <3>1. r' = [r EXCEPT !.pc = "refresh", !.tick = tick]
      BY <1>8, <2>1 DEF Validate
    <3>2. r'.pc = "refresh" /\ r'.from = r.from /\ r'.id = r.id /\ r'.key = r.key
      BY <1>2, <3>1 DEF ReaderType
    <3>3. Found /\ Found'
      BY <1>8, <2>1, <3>2 DEF Validate, Found
    <3> QED
      BY <1>1, <3>2, <3>3 DEF Translated, Map!vars
  <2>2. CASE ~(SeqStable /\ Matches)
    <3>1. r.pc = "load" /\ r'.pc \in {"s0", "idle"}
      BY <1>8, <2>2 DEF Validate, NoLookup
    <3> QED
      BY <1>3, <2>2, <3>1 DEF Found
  <2> QED
    BY <2>1, <2>2
<1>9. CASE Refresh
  <2>1. ~Found'
    BY <1>9 DEF Refresh, NoLookup, Found
  <2> QED
    BY <1>1, <2>1 DEF Translated, Map!Next, Map!Done
<1> QED
  BY <1>4, <1>5, <1>6, <1>7, <1>8, <1>9 DEF Reader

\* Every step of the echo table is a step of NatMap or invisible in it.
LEMMA MapStep ==
  ASSUME IcmpConstants, ~LoadsSink, MapInv, [Next]_vars
  PROVE  [Map!Next]_(Map!vars)
<1>1. CASE Tick \/ UNCHANGED vars
  <2>1. UNCHANGED <<active, seq, key, ext, r>>
    BY <1>1 DEF Tick, vars, table
  <2>2. Sessions' = Sessions
    BY <2>1, SessionsKept DEF Established, Entry
  <2>3. Translated' = Translated
    BY <2>1 DEF Translated, Found, SeqStable, Matches
  <2> QED
    BY <2>2, <2>3 DEF Map!vars
<1> QED
  BY <1>1, WriterRefines, ReaderRefines DEF Next

LEMMA MapStart == Init => Map!Init
<1> SUFFICES ASSUME Init PROVE Map!Init
  OBVIOUS
<1>1. Sessions = {}
  BY DEF Init, Sessions, Established
<1>2. ~Found
  BY DEF Init, Found, NoLookup
<1> QED
  BY <1>1, <1>2 DEF Translated, Map!Init

\* process_inbound_icmp and process_outbound_icmp together implement NatMap with
\* exclusive identifiers, for every size of the tables, if the reader's loads
\* stay in order.
THEOREM EchoesTranslateAtomically == ASSUME IcmpConstants, ~LoadsSink PROVE Spec => IsNatMap
<1>1. Init => MapInv
  BY InitIInv, InitReading DEF MapInv, Given, Init
<1>2. MapInv /\ [Next]_vars => MapInv'
  BY MapInvStep
<1>3. MapInv /\ [Next]_vars => [Map!Next]_(Map!vars)
  BY MapStep
<1> QED
  BY <1>1, <1>2, <1>3, MapStart, PTL DEF Spec, IsNatMap, Map!Spec

-----------------------------------------------------------------------------
(***************************************************************************)
(* Checksum.                                                               *)
(***************************************************************************)

\* Quotient and remainder of a sum of three words.
LEMMA DivMod ==
  ASSUME NEW s \in Nat, s < 3 * B
  PROVE  /\ s < B => s % B = s /\ s \div B = 0
         /\ B <= s /\ s < 2 * B => s % B = s - B /\ s \div B = 1
         /\ 2 * B <= s => s % B = s - 2 * B /\ s \div B = 2
BY ChecksumConstants, Z3

\* Two folds leave a word that differs from the sum by a multiple of B - 1.
LEMMA Folded ==
  ASSUME NEW s \in Nat, s <= 3 * (B - 1)
  PROVE  LET fold == (s % B) + (s \div B)
             word == (fold + (fold \div B)) % B
         IN  /\ word \in Word
             /\ \/ word = s \/ word = s - (B - 1)
                \/ word = s - 2 * (B - 1) \/ word = s - 3 * (B - 1)
<1> DEFINE fold == (s % B) + (s \div B)
           word == (fold + (fold \div B)) % B
<1>0. B \in Nat /\ B >= 4
  BY ChecksumConstants
<1>1. /\ fold \in Nat /\ fold < B + 2
      /\ fold = s \/ fold = s - (B - 1) \/ fold = s - 2 * (B - 1)
  BY <1>0, DivMod
<1> HIDE DEF fold
<1>2. (fold < B /\ fold \div B = 0) \/ (B <= fold /\ fold \div B = 1)
  BY <1>0, <1>1, DivMod
<1>3. /\ fold + (fold \div B) \in Nat
      /\ fold + (fold \div B) < 3 * B
  BY <1>0, <1>1, <1>2
<1>4. \/ fold < B /\ word = fold
      \/ B <= fold /\ word = fold - (B - 1)
  BY <1>0, <1>1, <1>2, <1>3, DivMod
<1> HIDE DEF word
<1>5. /\ word \in Word
      /\ \/ word = s \/ word = s - (B - 1)
         \/ word = s - 2 * (B - 1) \/ word = s - 3 * (B - 1)
  BY <1>0, <1>1, <1>4 DEF Word
<1> QED
  BY <1>5 DEF fold, word

\* update_checksum_16 changes the plain sum of the words by a multiple of B - 1.
LEMMA UpdateSum ==
  ASSUME NEW c \in Word, NEW old \in Word, NEW repl \in Word
  PROVE  LET u == Update(c, old, repl)
         IN  /\ u \in Word
             /\ \/ repl + u = old + c - (B - 1) \/ repl + u = old + c
                \/ repl + u = old + c + (B - 1) \/ repl + u = old + c + 2 * (B - 1)
<1> DEFINE s == Not(c) + Not(old) + repl
           fold == (s % B) + (s \div B)
           word == (fold + (fold \div B)) % B
<1>0. B \in Nat /\ B >= 4
  BY ChecksumConstants
<1>1. /\ s \in Nat /\ s <= 3 * (B - 1)
      /\ s = 2 * (B - 1) - c - old + repl
  BY <1>0 DEF Not, Word
<1> HIDE DEF s
<1>2. /\ word \in Word
      /\ \/ word = s \/ word = s - (B - 1)
         \/ word = s - 2 * (B - 1) \/ word = s - 3 * (B - 1)
  BY <1>1, Folded
<1>3. Update(c, old, repl) = Not(word)
  BY DEF Update, s
<1> HIDE DEF word
<1>4. /\ Not(word) \in Word
      /\ \/ repl + Not(word) = old + c - (B - 1) \/ repl + Not(word) = old + c
         \/ repl + Not(word) = old + c + (B - 1) \/ repl + Not(word) = old + c + 2 * (B - 1)
  BY <1>0, <1>1, <1>2 DEF Not, Word
<1> QED
  BY <1>3, <1>4

\* Accepted, without the multiplication by a variable.
LEMMA AcceptedCases ==
  ASSUME NEW x \in Int
  PROVE  Accepted(x) <=> \/ x = B - 1 \/ x = 2 * (B - 1) \/ x = 3 * (B - 1)
                         \/ x = 4 * (B - 1) \/ x = 5 * (B - 1)
<1>1. 1 .. 5 = {1, 2, 3, 4, 5}
  OBVIOUS
<1> QED
  BY <1>1, ChecksumConstants DEF Accepted

\* An update keeps an accepted sum accepted if the other words are not all zero.
LEMMA UpdateAccepted ==
  ASSUME NEW c \in Word, NEW old \in Word, NEW repl \in Word,
         NEW rest \in Nat, rest <= 3 * (B - 1),
         Accepted(rest + old + c)
  PROVE  /\ Update(c, old, repl) \in Word
         /\ rest > 0 => Accepted(rest + repl + Update(c, old, repl))
         /\ \/ Accepted(rest + repl + Update(c, old, repl))
            \/ rest = 0 /\ repl = 0 /\ Update(c, old, repl) = 0
<1> DEFINE u == Update(c, old, repl)
<1>0. B \in Nat /\ B >= 4
  BY ChecksumConstants
<1>1. /\ u \in Word
      /\ \/ repl + u = old + c - (B - 1) \/ repl + u = old + c
         \/ repl + u = old + c + (B - 1) \/ repl + u = old + c + 2 * (B - 1)
  BY UpdateSum
<1> HIDE DEF u
<1>2. /\ rest + old + c \in Int /\ rest + repl + u \in Int
      /\ c \in Int /\ old \in Int /\ repl \in Int /\ u \in Int
      /\ 0 <= repl /\ repl <= B - 1 /\ 0 <= u /\ u <= B - 1
  BY <1>0, <1>1 DEF Word
<1>3. rest + repl + u <= 5 * (B - 1) /\ rest + repl + u >= 0
  BY <1>0, <1>2
<1>4. \/ rest + old + c = B - 1 \/ rest + old + c = 2 * (B - 1)
      \/ rest + old + c = 3 * (B - 1) \/ rest + old + c = 4 * (B - 1)
      \/ rest + old + c = 5 * (B - 1)
  BY <1>2, AcceptedCases
<1>5. \/ rest + repl + u = 0
      \/ rest + repl + u = B - 1 \/ rest + repl + u = 2 * (B - 1)
      \/ rest + repl + u = 3 * (B - 1) \/ rest + repl + u = 4 * (B - 1)
      \/ rest + repl + u = 5 * (B - 1)
  BY <1>0, <1>1, <1>2, <1>3, <1>4
<1>6. rest + repl + u = 0 => rest = 0 /\ repl = 0 /\ u = 0
  BY <1>2
<1>7. rest + repl + u # 0 => Accepted(rest + repl + u)
  BY <1>2, <1>5, AcceptedCases
<1> QED
  BY <1>1, <1>6, <1>7 DEF u

\* Two updates: the address under an IP, TCP or UDP checksum.
LEMMA Update32Accepted ==
  ASSUME NEW lo \in Word, NEW hi \in Word,
         NEW c \in Word, NEW newLo \in Word, NEW newHi \in Word,
         NEW rest \in Nat, rest > 0, rest <= 2 * (B - 1),
         Accepted(rest + lo + hi + c)
  PROVE  /\ Update32(c, lo, hi, newLo, newHi) \in Word
         /\ Accepted(rest + newLo + newHi + Update32(c, lo, hi, newLo, newHi))
<1> DEFINE u == Update(c, lo, newLo)
           v == Update(u, hi, newHi)
<1>0. /\ B \in Nat /\ lo \in Nat /\ hi \in Nat /\ c \in Nat /\ newLo \in Nat /\ newHi \in Nat
      /\ lo <= B - 1 /\ hi <= B - 1 /\ newLo <= B - 1
  BY ChecksumConstants DEF Word
<1>1. /\ rest + hi \in Nat /\ rest + hi <= 3 * (B - 1) /\ rest + hi > 0
      /\ rest + lo + hi + c = (rest + hi) + lo + c
  BY <1>0
<1>2. u \in Word /\ Accepted((rest + hi) + newLo + u)
  BY <1>1, UpdateAccepted
<1> HIDE DEF u
<1>3. /\ rest + newLo \in Nat /\ rest + newLo <= 3 * (B - 1) /\ rest + newLo > 0
      /\ (rest + hi) + newLo + u = (rest + newLo) + hi + u
  BY <1>0, <1>2 DEF Word
<1>4. v \in Word /\ Accepted((rest + newLo) + newHi + v)
  BY <1>2, <1>3, UpdateAccepted
<1>5. Update32(c, lo, hi, newLo, newHi) = v
  BY DEF Update32, u
<1> QED
  BY <1>4, <1>5

\* An IP header that a receiver accepts is accepted after its address was
\* replaced by update_checksum_32.  rest stands for the header's other words;
\* they hold the version, so their sum is not zero.
THEOREM IpChecksumSound ==
  ASSUME NEW lo \in Word, NEW hi \in Word, NEW newLo \in Word, NEW newHi \in Word,
         NEW check \in Word, NEW rest \in Word \ {0},
         Accepted(rest + lo + hi + check)
  PROVE  Accepted(rest + newLo + newHi + Update32(check, lo, hi, newLo, newHi))
<1>1. rest \in Nat /\ rest > 0 /\ rest <= 2 * (B - 1)
  BY ChecksumConstants DEF Word
<1> QED
  BY <1>1, Update32Accepted

\* The same for a TCP or UDP packet that carries a checksum, through the three
\* updates of process_outbound or process_inbound: address, then port.  The
\* other words hold the protocol, so their sum is not zero.
THEOREM TcpUdpChecksumSound ==
  ASSUME NEW lo \in Word, NEW hi \in Word, NEW id \in Word,
         NEW newLo \in Word, NEW newHi \in Word, NEW newId \in Word,
         NEW check \in Word \ {0}, NEW rest \in Word \ {0},
         Accepted(rest + id + lo + hi + check)
  PROVE  Accepted(rest + newId + newLo + newHi
                    + L4Update(check, lo, hi, id, newLo, newHi, newId))
<1> DEFINE v == Update32(check, lo, hi, newLo, newHi)
           u == Update(v, id, newId)
<1>0. B \in Nat /\ B >= 4
  BY ChecksumConstants
<1>1. /\ rest + id \in Nat /\ rest + id > 0 /\ rest + id <= 2 * (B - 1)
  BY <1>0 DEF Word
<1>2. v \in Word /\ Accepted((rest + id) + newLo + newHi + v)
  BY <1>0, <1>1, Update32Accepted
<1> HIDE DEF v
<1>3. /\ rest + newLo + newHi \in Nat
      /\ rest + newLo + newHi > 0 /\ rest + newLo + newHi <= 3 * (B - 1)
      /\ (rest + id) + newLo + newHi + v = (rest + newLo + newHi) + id + v
  BY <1>0, <1>2 DEF Word
<1>4. u \in Word /\ Accepted((rest + newLo + newHi) + newId + u)
  BY <1>0, <1>2, <1>3, UpdateAccepted
<1>5. L4Update(check, lo, hi, id, newLo, newHi, newId) = u
  BY DEF L4Update, v
<1> HIDE DEF u
<1>6. (rest + newLo + newHi) + newId + u = rest + newId + newLo + newHi + u
  BY <1>0, <1>4 DEF Word
<1> QED
  BY <1>4, <1>5, <1>6

\* The same for an echo message when process_outbound_icmp or
\* process_inbound_icmp replaces its identifier, with one exception: if all its
\* other words are zero and the new identifier is, the update yields the zero
\* that a receiver does not take.
THEOREM IcmpChecksumSound ==
  ASSUME NEW id \in Word, NEW newId \in Word,
         NEW check \in Word \ {0}, NEW rest \in Word,
         Accepted(rest + id + check), rest # 0 \/ newId # 0
  PROVE  Accepted(rest + newId + IcmpUpdate(check, id, newId))
<1>1. rest \in Nat /\ rest <= 3 * (B - 1)
  BY ChecksumConstants DEF Word
<1>2. \/ Accepted(rest + newId + Update(check, id, newId))
      \/ rest = 0 /\ newId = 0
  BY <1>1, UpdateAccepted
<1> QED
  BY <1>2 DEF IcmpUpdate
=============================================================================
