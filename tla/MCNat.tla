------------------------------- MODULE MCNat -------------------------------
(***************************************************************************)
(* TCP and UDP: two slots, two ports and two flows to the same remote        *)
(* endpoint, with the same hash; packets also come from another endpoint.    *)
(* The cursor wraps after two sessions, so four sessions reach a port held   *)
(* twice and a takeover of the older holder.                                 *)
(* Echoes: three slots but two identifiers, so that the allocation meets     *)
(* busy identifiers, finds one after them, and also runs out; two flows to   *)
(* the same host with the same hash and a third one next to them.            *)
(* The translation's checksum updates are checked against the receiver's     *)
(* sum for all words below B.                                                *)
(***************************************************************************)
EXTENDS Nat, Checksum, TLC

CONSTANTS a, b, c

MCFlow == {a, b}
MCEndpoint == {"server", "other"}
MCRemote == [f \in MCFlow |-> "server"]
MCHome == [f \in MCFlow |-> 0]

MCEchoFlow == {a, b, c}
MCEchoEndpoint == {"host"}
MCEchoRemote == [f \in MCEchoFlow |-> "host"]
MCEchoHome == [f \in MCEchoFlow |-> IF f = c THEN 1 ELSE 0]

\* a and b have the same hash and the same remote end in both tables.
Symmetry == Permutations({a, b})

\* Bounds: the tables share only the clock, so a behaviour fills one of them;
\* and a fourth echo session leaves one tick fewer.
EchoEvents == 6

OneTable == /\ \/ icmp_takes = 0 /\ TcpUdp
               \/ takes = 0 /\ Icmp
               \/ Clock
            /\ icmp_takes' + tick' <= EchoEvents

OneTableSpec == NatInit /\ [][OneTable]_<<vars, echoes>>

ASSUME UpdatesAccepted ==
  \A lo, hi, newLo, newHi, check \in Word, rest \in Word \ {0} :
    Accepted(rest + lo + hi + check) =>
      Accepted(rest + newLo + newHi + Update32(check, lo, hi, newLo, newHi))

ASSUME EchoAccepted ==
  \A id, newId, rest \in Word, check \in Word \ {0} :
    Accepted(rest + id + check) /\ (rest # 0 \/ newId # 0) =>
      Accepted(rest + newId + IcmpUpdate(check, id, newId))
=============================================================================
