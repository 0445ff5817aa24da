---------------------------- MODULE BoundedFifo -----------------------------
(***************************************************************************)
(* What a mailbox between the slot interrupt and the processes promises: a *)
(* first-in first-out queue of at most Capacity items.  Items are neither  *)
(* lost, duplicated, reordered nor changed once they are in.               *)
(***************************************************************************)
EXTENDS Naturals, Sequences

CONSTANTS Item,      \* what can be queued
          Capacity   \* how many items fit

VARIABLE q

Init == q = <<>>

Put(v) == /\ Len(q) < Capacity
          /\ q' = Append(q, v)

Get == /\ q # <<>>
       /\ q' = Tail(q)

Next == Get \/ \E v \in Item : Put(v)

Spec == Init /\ [][Next]_q
=============================================================================
