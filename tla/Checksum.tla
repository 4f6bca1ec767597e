------------------------------ MODULE Checksum ------------------------------
(***************************************************************************)
(* How NatEngine (src/NatEngine.cpp) keeps a packet's checksums when it     *)
(* replaces an address and a port or echo identifier: incremental updates   *)
(* of one 16-bit word at a time, in the order of the code.  Words are       *)
(* 0..B-1; B is 2^16 in the code.                                           *)
(*                                                                          *)
(* The words a translation leaves alone enter a checksum through their sum, *)
(* so one word stands for them.  htons and ntohs swap the bytes of every    *)
(* word alike and are left out.                                             *)
(***************************************************************************)
EXTENDS Integers

CONSTANT B   \* number of values of a word

ASSUME ChecksumConstants == B \in Nat /\ B >= 4

Word == 0 .. B - 1

\* What a receiver accepts: the one's complement sum of all words, the checksum
\* included, is all ones.  For a plain sum of at most five words that is a
\* positive multiple of B - 1.
Accepted(sum) == \E k \in 1 .. 5 : sum = k * (B - 1)

(***************************************************************************)
(* update_checksum_16 and update_checksum_32.                              *)
(***************************************************************************)
Not(x) == B - 1 - x

\* Two folds, and a truncation to a word.
Update(check, old, new) ==
  LET sum  == Not(check) + Not(old) + new
      fold == (sum % B) + (sum \div B)
  IN  Not((fold + (fold \div B)) % B)

\* The two halves of an address.
Update32(check, lo, hi, newLo, newHi) == Update(Update(check, lo, newLo), hi, newHi)

(***************************************************************************)
(* The tails of process_outbound and process_inbound, and of their ICMP    *)
(* versions.  A zero checksum is taken for an absent one and left alone.   *)
(***************************************************************************)

\* The address is part of the TCP and UDP pseudo header.
L4Update(check, lo, hi, id, newLo, newHi, newId) ==
  IF check = 0 THEN check ELSE Update(Update32(check, lo, hi, newLo, newHi), id, newId)

IcmpUpdate(check, id, newId) == IF check = 0 THEN check ELSE Update(check, id, newId)
=============================================================================
