----------------------------- MODULE RingBuffer -----------------------------
(***************************************************************************)
(* The lock-free single-producer single-consumer ring of                   *)
(* include/common/ring_buffer.h and .tpp, at the grain of its atomic       *)
(* operations.  Both sinks of the exchange (messages to the engine, events *)
(* to the sender) are rings of this class.                                 *)
(*                                                                         *)
(* head_ is stored by the producer only and tail_ by the consumer only.    *)
(* The other side reads them with an acquire load, which returns the       *)
(* current value or an older one, but never one older than a value the     *)
(* same thread has already seen: seenTail and seenHead are what each side  *)
(* last saw, and a load takes any value between that and the present.      *)
(* Copying an item in or out of a slot is not atomic: the copy lasts as    *)
(* long as the thread is in "write" or "read".                             *)
(***************************************************************************)
EXTENDS Naturals, Sequences

CONSTANTS Capacity,   \* slots of buffer_, one of which always stays free
          Items,      \* what the ring carries
          NoItem,     \* content of a slot never written
          MaxPushes   \* bound on the successful pushes of a behaviour

\* The static_assert of the class (ring_buffer.h:11), up to 2^30.
ASSUME CapacityAssumption ==
    /\ Capacity \in Nat \ {0}
    /\ \E k \in 0..30 : Capacity = 2^k
ASSUME OtherAssumption ==
    /\ NoItem \notin Items
    /\ MaxPushes \in Nat

VARIABLES buffer, head, tail,
          sem,              \* permits of item_available_
          ppc, pitem, seenTail,   \* producer: where it is in push, its argument
          cpc, citem, seenHead,   \* consumer: where it is in pop, what it read
          waitMode,         \* how the consumer waits, fixed at the start
          pushed, popped    \* history: items accepted and items handed out

producerVars == <<ppc, pitem, seenTail>>
consumerVars == <<cpc, citem, seenHead, waitMode>>
history == <<pushed, popped>>
vars == <<buffer, head, tail, sem, producerVars, consumerVars, history>>

\* TRUE: the consumer calls wait_pop; FALSE: it polls pop
BlockMode == waitMode = "block"

Slots == 0..(Capacity - 1)

\* next(): (i + 1) & (Capacity - 1)
NextSlot(i) == IF i + 1 = Capacity THEN 0 ELSE i + 1

\* size(): (to - from) & (Capacity - 1), the steps from one index to another
Distance(from, to) ==
    IF to >= from THEN to - from ELSE (to + Capacity) - from

Occupancy == Distance(tail, head)

\* What a load of an atomic that now holds `current` may return to a thread
\* that has already seen `seen` of it.
Views(seen, current) ==
    { v \in Slots : Distance(seen, v) <= Distance(seen, current) }

\* head_ as it was when the last permit was released.  Acquiring a permit
\* synchronises with every release before it.
ReleasedHead ==
    IF ppc # "release" THEN head
    ELSE IF head = 0 THEN Capacity - 1 ELSE head - 1

TypeOK ==
    /\ buffer \in [Slots -> Items \union {NoItem}]
    /\ head \in Slots /\ tail \in Slots
    /\ seenHead \in Slots /\ seenTail \in Slots
    /\ sem \in Nat
    /\ ppc \in {"idle", "write", "publish", "release"}
    /\ cpc \in {"idle", "pop", "read", "advance"}
    /\ waitMode \in {"spin", "block"}
    /\ pitem \in Items \union {NoItem}
    /\ citem \in Items \union {NoItem}
    /\ pushed \in Seq(Items) /\ popped \in Seq(Items)

Init ==
    /\ buffer = [i \in Slots |-> NoItem]
    /\ head = 0 /\ tail = 0
    /\ sem = 0
    /\ ppc = "idle" /\ pitem = NoItem /\ seenTail = 0
    /\ cpc = "idle" /\ citem = NoItem /\ seenHead = 0
    /\ waitMode \in {"spin", "block"}
    /\ pushed = <<>> /\ popped = <<>>

(***************************************************************************)
(* The producer.                                                           *)
(***************************************************************************)
\* Seeded fault: the ring is taken for full one slot too late.
PushLoadUsesEverySlot(item) ==
    /\ ppc = "idle"
    /\ Len(pushed) < MaxPushes
    /\ seenTail' \in Views(seenTail, tail)
    /\ ppc' = "write"
    /\ pitem' = item
    /\ UNCHANGED <<buffer, head, tail, sem, consumerVars, history>>

\* push() up to its test for a full ring, which it passes
PushLoad(item) ==
    /\ ppc = "idle"
    /\ Len(pushed) < MaxPushes
    /\ seenTail' \in Views(seenTail, tail)
    /\ NextSlot(head) # seenTail'
    /\ ppc' = "write"
    /\ pitem' = item
    /\ UNCHANGED <<buffer, head, tail, sem, consumerVars, history>>

\* push() returning false: nothing but the producer's view of tail_ changes
PushFull ==
    /\ ppc = "idle"
    /\ seenTail' \in Views(seenTail, tail)
    /\ NextSlot(head) = seenTail'
    /\ UNCHANGED <<buffer, head, tail, sem, ppc, pitem, consumerVars, history>>

\* buffer_[head] = item
PushWrite ==
    /\ ppc = "write"
    /\ buffer' = [buffer EXCEPT ![head] = pitem]
    /\ ppc' = "publish"
    /\ UNCHANGED <<head, tail, sem, pitem, seenTail, consumerVars, history>>

\* Seeded fault: the index stored without its wrap-around.
PushPublishUnmasked ==
    /\ ppc = "publish"
    /\ head' = head + 1
    /\ ppc' = "release"
    /\ pushed' = Append(pushed, pitem)
    /\ UNCHANGED <<buffer, tail, sem, pitem, seenTail, consumerVars, popped>>

\* head_.store(next_head, release)
PushPublish ==
    /\ ppc = "publish"
    /\ head' = NextSlot(head)
    /\ ppc' = "release"
    /\ pushed' = Append(pushed, pitem)
    /\ UNCHANGED <<buffer, tail, sem, pitem, seenTail, consumerVars, popped>>

\* Seeded fault: the return without the release.
PushReleaseForgotten ==
    /\ ppc = "release"
    /\ ppc' = "idle"
    /\ UNCHANGED <<buffer, head, tail, sem, pitem, seenTail, consumerVars, history>>

\* item_available_.release() and the return
PushRelease ==
    /\ ppc = "release"
    /\ sem' = sem + 1
    /\ ppc' = "idle"
    /\ UNCHANGED <<buffer, head, tail, pitem, seenTail, consumerVars, history>>

Producer ==
    \/ \E item \in Items : PushLoad(item)
    \/ PushFull
    \/ PushWrite
    \/ PushPublish
    \/ PushRelease

(***************************************************************************)
(* The consumer.  A wait_pop that times out changes nothing and is no step. *)
(***************************************************************************)
\* Seeded fault: wait_pop goes on to pop when it timed out.
AcquireIgnoresTimeout ==
    /\ BlockMode
    /\ cpc = "idle"
    /\ sem' = IF sem > 0 THEN sem - 1 ELSE 0
    /\ seenHead' = IF seenHead = head THEN head ELSE ReleasedHead
    /\ cpc' = "pop"
    /\ UNCHANGED <<buffer, head, tail, producerVars, citem, waitMode, history>>

\* wait_pop(): try_acquire_for succeeds
Acquire ==
    /\ BlockMode
    /\ cpc = "idle"
    /\ sem > 0
    /\ sem' = sem - 1
    /\ seenHead' = IF seenHead = head THEN head ELSE ReleasedHead
    /\ cpc' = "pop"
    /\ UNCHANGED <<buffer, head, tail, producerVars, citem, waitMode, history>>

\* where pop() is called from
AtPop == cpc = IF BlockMode THEN "pop" ELSE "idle"

\* pop() up to its test for an empty ring, which it passes
PopLoad ==
    /\ AtPop
    /\ seenHead' \in Views(seenHead, head)
    /\ seenHead' # tail
    /\ cpc' = "read"
    /\ UNCHANGED <<buffer, head, tail, sem, producerVars, citem, waitMode, history>>

\* pop() returning false
PopEmpty ==
    /\ AtPop
    /\ seenHead' \in Views(seenHead, head)
    /\ seenHead' = tail
    /\ cpc' = "idle"
    /\ UNCHANGED <<buffer, head, tail, sem, producerVars, citem, waitMode, history>>

\* item = buffer_[tail]
PopRead ==
    /\ cpc = "read"
    /\ citem' = buffer[tail]
    /\ cpc' = "advance"
    /\ UNCHANGED <<buffer, head, tail, sem, producerVars, seenHead, waitMode, history>>

\* tail_.store(next_tail, release) and the return
PopAdvance ==
    /\ cpc = "advance"
    /\ tail' = NextSlot(tail)
    /\ cpc' = "idle"
    /\ popped' = Append(popped, citem)
    /\ UNCHANGED <<buffer, head, sem, producerVars, citem, seenHead, waitMode, pushed>>

Consumer == Acquire \/ PopLoad \/ PopEmpty \/ PopRead \/ PopAdvance

Next == Producer \/ Consumer

Spec == Init /\ [][Next]_vars

(***************************************************************************)
(* Fairness.  A push that has begun ends and the consumer's loop never     *)
(* stops (threads are scheduled); a store becomes visible to the other     *)
(* thread in a finite time, so a load that is repeated returns the current *)
(* value in the end.  Nobody is obliged to push.                           *)
(***************************************************************************)
Fairness ==
    /\ WF_vars(PushWrite) /\ WF_vars(PushPublish) /\ WF_vars(PushRelease)
    /\ WF_vars(Acquire)
    /\ WF_vars(PopLoad /\ seenHead' = head)
    /\ WF_vars(PopRead) /\ WF_vars(PopAdvance)

FairSpec == Spec /\ Fairness

(***************************************************************************)
(* Properties.                                                             *)
(***************************************************************************)
\* The items between tail_ and head_ and the items handed out are, together
\* and in order, the items accepted: push and pop lose, invent, repeat and
\* reorder nothing, across any number of wrap-arounds of the two indices.
FifoOrder ==
    /\ Len(pushed) = Len(popped) + Occupancy
    /\ \A k \in DOMAIN popped : popped[k] = pushed[k]
    /\ \A k \in 1..Occupancy :
           LET i == tail + k - 1
           IN  buffer[IF i >= Capacity THEN i - Capacity ELSE i]
                   = pushed[Len(popped) + k]

\* The producer never writes the slot the consumer is copying from: with the
\* acquire/release pairs on head_ and tail_ as the only ordering, and either
\* side acting on an outdated view of the other, no data race on buffer_.
NoDataRace == ~(ppc = "write" /\ cpc = "read" /\ head = tail)

\* wait_pop: one permit per item in the ring, counting the one the consumer
\* holds and the one the producer is about to release.  An item without a
\* permit would never be delivered (a lost wakeup) although the ring holds it.
PermitsMatchItems ==
    BlockMode =>
        sem + (IF cpc # "idle" THEN 1 ELSE 0) + (IF ppc = "release" THEN 1 ELSE 0)
            = Occupancy

\* wait_pop: once a permit is acquired the pop after it succeeds, whatever
\* head_ its load returns: it would otherwise have thrown the permit away.
PermitNeverWasted == [][BlockMode => ~PopEmpty]_vars

\* The ring implements the bounded queue of Fifo.
Queue == INSTANCE Fifo WITH Limit <- Capacity - 1, enq <- pushed, deq <- popped
QueueSpec == Queue!Spec

\* Every item accepted is handed out, in both wait modes.
AcceptedIsDelivered ==
    \A n \in 1..MaxPushes : Len(pushed) >= n ~> Len(popped) >= n
=============================================================================
