-------------------------------- MODULE Fifo --------------------------------
(***************************************************************************)
(* What the rest of the exchange relies on when it hands work from one     *)
(* thread to the next: a bounded first-in first-out queue that neither     *)
(* loses, invents, duplicates nor reorders an item it has accepted.  The   *)
(* queue is kept as two histories, so that the promise is one formula.     *)
(***************************************************************************)
EXTENDS Naturals, Sequences

CONSTANTS Items,   \* what can be queued
          Limit    \* how many items the queue can hold at a time

VARIABLES enq,     \* every item ever accepted, in order
          deq      \* every item ever handed out, in order

vars == <<enq, deq>>

Init == enq = <<>> /\ deq = <<>>

\* push() returning true
Enqueue(item) ==
    /\ Len(enq) < Len(deq) + Limit
    /\ enq' = Append(enq, item)
    /\ deq' = deq

\* pop() returning true: the oldest item not handed out yet
Dequeue ==
    /\ Len(deq) < Len(enq)
    /\ deq' = Append(deq, enq[Len(deq) + 1])
    /\ enq' = enq

Next == Dequeue \/ \E item \in Items : Enqueue(item)

Spec == Init /\ [][Next]_vars
=============================================================================
