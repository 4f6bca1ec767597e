---------------------------- MODULE BoundedFifo ----------------------------
(***************************************************************************)
(* What a single-producer single-consumer queue promises its two users: a  *)
(* first-in first-out queue of at most Size items.  A push onto a full     *)
(* queue and a pop from an empty one are refused and change nothing, so    *)
(* here they are stuttering steps.                                         *)
(***************************************************************************)
EXTENDS Naturals, Sequences

CONSTANTS Item, Size

VARIABLES q,        \* the items in the queue, oldest first
          offered,  \* the argument of the last call of push
          popped    \* the item the last successful pop returned

vars == <<q, offered, popped>>

Init == q = <<>> /\ offered \in Item /\ popped \in Item

\* The producer calls push ...
Offer(x) == /\ offered' = x
            /\ UNCHANGED <<q, popped>>

\* ... and its item takes effect.
Push == /\ Len(q) < Size
        /\ q' = Append(q, offered)
        /\ UNCHANGED <<offered, popped>>

Pop == /\ q # <<>>
       /\ popped' = Head(q)
       /\ q' = Tail(q)
       /\ UNCHANGED offered

Next == Push \/ Pop \/ \E x \in Item : Offer(x)

Spec == Init /\ [][Next]_vars
=============================================================================
