----------------------------- MODULE EchoTable -----------------------------
(***************************************************************************)
(* The session table for ICMP echo, as its two workers see it, and what is  *)
(* promised of it.  NatIcmp has the steps of the workers.                   *)
(***************************************************************************)
EXTENDS Integers

CONSTANTS Flow,       \* (int_saddr, remote_daddr, int_id) triples
          Endpoint,   \* remote hosts
          Remote,     \* the remote host of a flow
          Slots,      \* MAX_ICMP_SESSIONS
          IdLo, IdHi  \* 10000, 60000

Slot == 0 .. Slots - 1
Id == IdLo .. IdHi
NoFlow == "none"

VARIABLES active, seq, key, ext,  \* fields of each IcmpEchoSession
          index,                  \* icmp_id_to_index
          pc,                     \* the step of process_outbound_icmp
          r,                      \* locals of process_inbound_icmp, its step in r.pc
          installed               \* history: flow and identifier of every session

SeqUnchecked == r.s1 % 2 = 0

SeqStable == r.s0 = r.s1 /\ r.s1 % 2 = 0

MatchesInactive == Remote[r.key] = r.from /\ r.ext = r.id

Matches == r.act /\ Remote[r.key] = r.from /\ r.ext = r.id

(***************************************************************************)
(* Properties.                                                             *)
(***************************************************************************)

\* Two active sessions never share an external identifier, however often the
\* cursor wraps and slots are taken over.
IdsUnique ==
  \A i, j \in Slot : active[i] /\ active[j] /\ ext[i] = ext[j] => i = j

\* Between two calls of process_outbound_icmp the identifier table and the
\* session table are inverse to each other: an entry leads to the active
\* session that has the identifier, and every active session has its entry,
\* so the reply to any live ping finds it.
IndexExact ==
  pc = "idle" =>
    \A i \in Slot, d \in Id : index[d] = i <=> active[i] /\ ext[i] = d

\* A reply is delivered only to a flow that really was given its identifier,
\* although its session may be replaced while the reader looks at it.  This
\* needs the reader's loads in program order (LoadsSink = FALSE).
DnatExact == r.pc = "refresh" => <<r.key, r.id>> \in installed

\* The refinement mapping, as in NatEngine.
Established(i) == active[i] /\ seq[i] % 2 = 0
Entry(i) == [slot |-> i, flow |-> key[i], ext |-> ext[i]]
Sessions == {Entry(i) : i \in {j \in Slot : Established(j)}}

Found == r.pc = "refresh" \/ (r.pc = "load" /\ r.todo = {} /\ SeqStable /\ Matches)
Translated == IF Found THEN {[from |-> r.from, ext |-> r.id, flow |-> r.key]} ELSE {}

Map == INSTANCE NatMap WITH External <- Id, Exclusive <- TRUE,
                            sessions <- Sessions, translated <- Translated

\* The echo table is a map: no identifier belongs to two sessions, and each
\* reply is translated as by one look at a table without half-written sessions.
IsNatMap == Map!Spec
=============================================================================
