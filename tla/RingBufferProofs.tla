-------------------------- MODULE RingBufferProofs --------------------------
(***************************************************************************)
(* Theorems about RingBuffer, for every power-of-two capacity, every set   *)
(* of items, both wait modes and any bound on the pushes.                  *)
(***************************************************************************)
EXTENDS RingBuffer, SequenceTheorems, TLAPS

\* The capacity is a positive number, and the slots are numbered from 0.
LEMMA SlotsFacts ==
    /\ Capacity \in Nat /\ Capacity >= 1
    /\ Slots = 0..(Capacity - 1)
BY CapacityAssumption DEF Slots

\* Where an item lies: its index plus an offset, wrapped around.
At(i, k) == IF i + k >= Capacity THEN i + k - Capacity ELSE i + k

(***************************************************************************)
(* The strengthening of FifoOrder.  The consumer's view of head_ lies      *)
(* between tail_ and head_; the producer's view of tail_ lies at or behind *)
(* tail_ on the free side of the ring; a side that is past its test has a  *)
(* view that passes it.                                                    *)
(***************************************************************************)
Counts == Len(pushed) = Len(popped) + Occupancy

Contents ==
    \A k \in 0..(Occupancy - 1) : buffer[At(tail, k)] = pushed[Len(popped) + k + 1]

HandedOut == \A k \in 1..Len(popped) : popped[k] = pushed[k]

ViewsLag ==
    /\ Distance(tail, seenHead) <= Occupancy
    /\ Distance(seenTail, tail) <= Distance(seenTail, head)

ProducerPassed ==
    /\ ppc \in {"write", "publish"} => NextSlot(head) # seenTail /\ pitem \in Items
    /\ ppc = "publish" => buffer[head] = pitem

ConsumerPassed ==
    /\ cpc \in {"read", "advance"} => seenHead # tail
    /\ cpc = "advance" => citem = buffer[tail]

\* wait_pop: the head_ seen when a permit was acquired lies beyond tail_.
PermitSeen == (BlockMode /\ cpc = "pop") => seenHead # tail

Inv ==
    /\ TypeOK
    /\ Counts
    /\ Contents
    /\ HandedOut
    /\ ViewsLag
    /\ ProducerPassed
    /\ ConsumerPassed
    /\ PermitsMatchItems
    /\ PermitSeen

\* The empty ring satisfies the invariant.
LEMMA InvInit == Init => Inv
<1> SUFFICES ASSUME Init PROVE Inv
  OBVIOUS
<1> USE SlotsFacts
<1>1. TypeOK
  BY DEF Init, TypeOK
<1>2. Occupancy = 0 /\ Len(pushed) = 0 /\ Len(popped) = 0
  BY DEF Init, Occupancy, Distance
<1>3. Counts /\ Contents /\ HandedOut
  BY <1>2 DEF Counts, Contents, HandedOut
<1>4. ViewsLag
  BY DEF Init, ViewsLag, Occupancy, Distance
<1>5. ProducerPassed /\ ConsumerPassed
  BY DEF Init, ProducerPassed, ConsumerPassed
<1>6. PermitsMatchItems /\ PermitSeen
  BY <1>2 DEF Init, PermitsMatchItems, PermitSeen
<1> QED
  BY <1>1, <1>3, <1>4, <1>5, <1>6 DEF Inv

\* The slot the producer writes is none of the occupied ones.
LEMMA FreeSlot ==
  ASSUME TypeOK, ViewsLag, NextSlot(head) # seenTail
  PROVE  /\ Occupancy < Capacity - 1
         /\ \A k \in 0..(Occupancy - 1) : At(tail, k) \in Slots \ {head}
BY SlotsFacts DEF TypeOK, ViewsLag, NextSlot, Occupancy, Distance, At

\* An occupancy is always short of the capacity: one slot stays free.
LEMMA OccupancyType == TypeOK => Occupancy \in 0..(Capacity - 1)
BY SlotsFacts DEF TypeOK, Occupancy, Distance

\* A view that advances, but not past the index itself, still lags behind it.
LEMMA ViewAdvances ==
  ASSUME NEW seen \in Slots, NEW view \in Slots, NEW t \in Slots, NEW h \in Slots,
         Distance(seen, view) <= Distance(seen, t),
         Distance(seen, t) <= Distance(seen, h)
  PROVE  Distance(view, t) <= Distance(view, h)
BY SlotsFacts DEF Distance

\* push(), its test for a full ring: the view of tail_ it passes keeps it off the
\* occupied slots.
LEMMA PushLoadStep ==
  ASSUME Inv, NEW item \in Items, PushLoad(item) PROVE Inv'
<1> USE SlotsFacts DEF Inv, BlockMode
<1>1. TypeOK'
  BY DEF TypeOK, PushLoad, Views, consumerVars, history
<1>2. Counts' /\ Contents' /\ HandedOut'
  BY DEF Counts, Contents, HandedOut, PushLoad, consumerVars, history, Occupancy, At
<1>3. ViewsLag'
  <2>1. /\ seenTail' \in Slots
        /\ Distance(seenTail, seenTail') <= Distance(seenTail, tail)
        /\ head' = head /\ tail' = tail /\ seenHead' = seenHead
    BY DEF PushLoad, Views, consumerVars
  <2>2. Distance(tail, seenHead)' <= Occupancy'
    BY <2>1 DEF ViewsLag, Occupancy, Distance
  <2>3. Distance(seenTail', tail) <= Distance(seenTail', head)
    BY <2>1, ViewAdvances DEF TypeOK, ViewsLag
  <2>4. Distance(seenTail, tail)' <= Distance(seenTail, head)'
    BY <2>1, <2>3 DEF Distance
  <2> QED
    BY <2>2, <2>4 DEF ViewsLag
<1>4. ProducerPassed' /\ ConsumerPassed'
  BY DEF ProducerPassed, ConsumerPassed, PushLoad, consumerVars, NextSlot
<1>5. PermitsMatchItems' /\ PermitSeen'
  BY DEF PermitsMatchItems, PermitSeen, PushLoad, consumerVars, Occupancy
<1> QED
  BY <1>1, <1>2, <1>3, <1>4, <1>5

\* push() returning false disturbs nothing.
LEMMA PushFullStep ==
  ASSUME Inv, PushFull PROVE Inv'
<1> USE SlotsFacts DEF Inv, BlockMode
<1>1. TypeOK'
  BY DEF TypeOK, PushFull, Views, consumerVars, history
<1>2. Counts' /\ Contents' /\ HandedOut'
  BY DEF Counts, Contents, HandedOut, PushFull, consumerVars, history, Occupancy, At
<1>3. ViewsLag'
  <2>1. /\ seenTail' \in Slots
        /\ Distance(seenTail, seenTail') <= Distance(seenTail, tail)
        /\ head' = head /\ tail' = tail /\ seenHead' = seenHead
    BY DEF PushFull, Views, consumerVars
  <2>2. Distance(tail, seenHead)' <= Occupancy'
    BY <2>1 DEF ViewsLag, Occupancy, Distance
  <2>3. Distance(seenTail', tail) <= Distance(seenTail', head)
    BY <2>1, ViewAdvances DEF TypeOK, ViewsLag
  <2>4. Distance(seenTail, tail)' <= Distance(seenTail, head)'
    BY <2>1, <2>3 DEF Distance
  <2> QED
    BY <2>2, <2>4 DEF ViewsLag
<1>4. ProducerPassed' /\ ConsumerPassed'
  BY DEF ProducerPassed, ConsumerPassed, PushFull, consumerVars, NextSlot
<1>5. PermitsMatchItems' /\ PermitSeen'
  BY DEF PermitsMatchItems, PermitSeen, PushFull, consumerVars, Occupancy
<1> QED
  BY <1>1, <1>2, <1>3, <1>4, <1>5

\* push(), the copy into the free slot: no item in the ring is overwritten.
LEMMA PushWriteStep ==
  ASSUME Inv, PushWrite PROVE Inv'
<1> USE SlotsFacts DEF Inv, BlockMode
<1>1. TypeOK'
  BY DEF TypeOK, PushWrite, consumerVars, history
<1>2. Counts' /\ HandedOut' /\ ViewsLag'
  BY DEF Counts, HandedOut, ViewsLag, PushWrite, consumerVars, history, Occupancy,
         Distance
<1>3. Contents'
  <2>1. \A k \in 0..(Occupancy - 1) : buffer'[At(tail, k)] = buffer[At(tail, k)]
    BY FreeSlot DEF PushWrite, ProducerPassed, TypeOK
  <2> QED
    BY <2>1 DEF Contents, PushWrite, history, Occupancy, At
<1>4. ProducerPassed'
  BY DEF ProducerPassed, PushWrite, TypeOK, NextSlot
<1>5. ConsumerPassed'
  <2>1. cpc = "advance" => tail # head
    BY DEF ConsumerPassed, ViewsLag, Occupancy, Distance, TypeOK
  <2> QED
    BY <2>1 DEF ConsumerPassed, PushWrite, consumerVars, TypeOK
<1>6. PermitsMatchItems' /\ PermitSeen'
  BY DEF PermitsMatchItems, PermitSeen, PushWrite, consumerVars, Occupancy
<1> QED
  BY <1>1, <1>2, <1>3, <1>4, <1>5, <1>6

\* push(), the store of head_: the ring holds one item more, the last.
LEMMA PushPublishStep ==
  ASSUME Inv, PushPublish PROVE Inv'
<1> USE SlotsFacts DEF Inv, BlockMode
<1>1. /\ NextSlot(head) # seenTail
      /\ pitem \in Items
      /\ buffer[head] = pitem
  BY DEF ProducerPassed, PushPublish
<1>2. /\ pushed' = Append(pushed, pitem)
      /\ Len(pushed') = Len(pushed) + 1
      /\ \A k \in 1..Len(pushed) : pushed'[k] = pushed[k]
      /\ pushed'[Len(pushed) + 1] = pitem
  BY <1>1, AppendProperties DEF PushPublish, TypeOK
<1>3. TypeOK'
  BY <1>1, <1>2, AppendProperties DEF TypeOK, PushPublish, NextSlot, consumerVars
<1>4. Occupancy' = Occupancy + 1
  BY <1>1, FreeSlot DEF PushPublish, NextSlot, Occupancy, Distance, TypeOK
<1>5. Counts'
  BY <1>2, <1>4, OccupancyType DEF Counts, PushPublish, TypeOK
<1>6. HandedOut'
  BY <1>2, OccupancyType DEF HandedOut, Counts, PushPublish, TypeOK
<1>7. Contents'
  <2>1. At(tail, Occupancy) = head
    BY DEF At, Occupancy, Distance, TypeOK
  <2>2. ASSUME NEW k \in 0..Occupancy
        PROVE  buffer[At(tail, k)] = pushed'[Len(popped) + k + 1]
    <3>1. CASE k = Occupancy
      BY <1>1, <1>2, <2>1, <3>1, OccupancyType DEF Counts, TypeOK
    <3>2. CASE k # Occupancy
      <4>1. k \in 0..(Occupancy - 1)
        BY <3>2, OccupancyType
      <4>2. Len(popped) + k + 1 \in 1..Len(pushed)
        BY <4>1, OccupancyType DEF Counts, TypeOK
      <4> QED
        BY <1>2, <4>1, <4>2 DEF Contents
    <3> QED
      BY <3>1, <3>2
  <2>3. /\ Occupancy' - 1 = Occupancy
        /\ buffer' = buffer /\ popped' = popped /\ tail' = tail
    BY <1>4, OccupancyType DEF PushPublish
  <2>4. \A k \in 0..Occupancy : buffer'[At(tail', k)] = pushed'[Len(popped') + k + 1]
    BY <2>2, <2>3
  <2> QED
    BY <2>3, <2>4 DEF Contents, At
<1>8. ViewsLag'
  BY <1>1 DEF ViewsLag, PushPublish, NextSlot, Occupancy, Distance, TypeOK, consumerVars
<1>9. ProducerPassed' /\ ConsumerPassed'
  BY DEF ProducerPassed, ConsumerPassed, PushPublish, consumerVars
<1>10. PermitsMatchItems' /\ PermitSeen'
  BY <1>4, OccupancyType
     DEF PermitsMatchItems, PermitSeen, PushPublish, consumerVars, TypeOK
<1> QED
  BY <1>3, <1>5, <1>6, <1>7, <1>8, <1>9, <1>10

\* push(), the release of the permit for the item just published.
LEMMA PushReleaseStep ==
  ASSUME Inv, PushRelease PROVE Inv'
<1> USE SlotsFacts DEF Inv, BlockMode
<1>1. TypeOK'
  BY DEF TypeOK, PushRelease, consumerVars, history
<1>2. Counts' /\ Contents' /\ HandedOut' /\ ViewsLag'
  BY DEF Counts, Contents, HandedOut, ViewsLag, PushRelease, consumerVars, history,
         Occupancy, Distance, At
<1>3. ProducerPassed' /\ ConsumerPassed'
  BY DEF ProducerPassed, ConsumerPassed, PushRelease, consumerVars
<1>4. PermitsMatchItems' /\ PermitSeen'
  BY OccupancyType DEF PermitsMatchItems, PermitSeen, PushRelease, consumerVars,
                       Occupancy, TypeOK
<1> QED
  BY <1>1, <1>2, <1>3, <1>4

\* The head_ a permit makes visible lies beyond tail_ and not beyond head_.
LEMMA AcquiredView ==
  ASSUME Inv, Acquire
  PROVE  Distance(tail, seenHead') \in 1..Occupancy
<1> USE SlotsFacts DEF Inv, BlockMode
<1>1. Occupancy >= IF ppc = "release" THEN 2 ELSE 1
  BY OccupancyType DEF PermitsMatchItems, Acquire, TypeOK
<1> QED
  BY <1>1 DEF Acquire, ReleasedHead, Occupancy, Distance, TypeOK

\* wait_pop(), the permit taken: what it saw of head_ lies beyond tail_.
LEMMA AcquireStep ==
  ASSUME Inv, Acquire PROVE Inv'
<1> USE SlotsFacts DEF Inv, BlockMode
<1>1. TypeOK'
  BY DEF TypeOK, Acquire, ReleasedHead, producerVars, history
<1>2. Counts' /\ Contents' /\ HandedOut'
  BY DEF Counts, Contents, HandedOut, Acquire, history, Occupancy, At
<1>3. ProducerPassed' /\ ConsumerPassed'
  BY DEF ProducerPassed, ConsumerPassed, Acquire, producerVars, NextSlot
<1>4. ViewsLag'
  BY AcquiredView, OccupancyType DEF ViewsLag, Acquire, producerVars, Occupancy, Distance
<1>5. PermitsMatchItems'
  BY OccupancyType DEF PermitsMatchItems, Acquire, producerVars, Occupancy, TypeOK
<1>6. PermitSeen'
  BY AcquiredView DEF PermitSeen, Acquire, Distance, TypeOK
<1> QED
  BY <1>1, <1>2, <1>3, <1>4, <1>5, <1>6

\* pop(), its test for an empty ring, with any view of head_.
LEMMA PopLoadStep ==
  ASSUME Inv, PopLoad PROVE Inv'
<1> USE SlotsFacts DEF Inv, BlockMode
<1>1. TypeOK'
  BY DEF TypeOK, PopLoad, Views, producerVars, history
<1>2. Counts' /\ Contents' /\ HandedOut'
  BY DEF Counts, Contents, HandedOut, PopLoad, history, Occupancy, At
<1>3. ProducerPassed' /\ ConsumerPassed'
  BY DEF ProducerPassed, ConsumerPassed, PopLoad, producerVars, NextSlot
<1>4. ViewsLag'
  <2>1. /\ seenHead' \in Slots /\ Distance(seenHead, seenHead') <= Distance(seenHead, head)
        /\ UNCHANGED <<head, tail, seenTail>>
    BY DEF PopLoad, Views, producerVars
  <2>2. Distance(tail, seenHead') <= Distance(tail, head)
    BY <2>1 DEF ViewsLag, Occupancy, Distance, TypeOK
  <2> QED
    BY <2>1, <2>2 DEF ViewsLag, Occupancy, Distance
<1>5. PermitsMatchItems' /\ PermitSeen'
  BY DEF PermitsMatchItems, PermitSeen, PopLoad, AtPop, producerVars, Occupancy
<1> QED
  BY <1>1, <1>2, <1>3, <1>4, <1>5

\* The load after an acquired permit never finds the ring empty.
LEMMA PermitBacksPop == Inv /\ PopEmpty => ~BlockMode
BY SlotsFacts DEF Inv, BlockMode, PopEmpty, AtPop, Views, ViewsLag, PermitSeen, Occupancy,
                  Distance, TypeOK

\* pop() returning false disturbs nothing.
LEMMA PopEmptyStep ==
  ASSUME Inv, PopEmpty PROVE Inv'
<1> USE SlotsFacts DEF Inv, BlockMode
<1>1. TypeOK'
  BY DEF TypeOK, PopEmpty, Views, producerVars, history
<1>2. Counts' /\ Contents' /\ HandedOut'
  BY DEF Counts, Contents, HandedOut, PopEmpty, history, Occupancy, At
<1>3. ProducerPassed' /\ ConsumerPassed'
  BY DEF ProducerPassed, ConsumerPassed, PopEmpty, producerVars, NextSlot
<1>4. ViewsLag'
  BY DEF ViewsLag, PopEmpty, Views, producerVars, Occupancy, Distance, TypeOK
<1>5. PermitsMatchItems' /\ PermitSeen'
  BY PermitBacksPop DEF PermitsMatchItems, PermitSeen, PopEmpty
<1> QED
  BY <1>1, <1>2, <1>3, <1>4, <1>5

\* pop(), the copy out of the oldest slot.
LEMMA PopReadStep ==
  ASSUME Inv, PopRead PROVE Inv'
<1> USE SlotsFacts DEF Inv, BlockMode
<1>1. TypeOK'
  BY DEF TypeOK, PopRead, producerVars, history
<1>2. Counts' /\ Contents' /\ HandedOut' /\ ViewsLag'
  BY DEF Counts, Contents, HandedOut, ViewsLag, PopRead, producerVars, history,
         Occupancy, Distance, At
<1>3. ProducerPassed' /\ ConsumerPassed'
  BY DEF ProducerPassed, ConsumerPassed, PopRead, producerVars
<1>4. PermitsMatchItems' /\ PermitSeen'
  BY DEF PermitsMatchItems, PermitSeen, PopRead, producerVars, Occupancy
<1> QED
  BY <1>1, <1>2, <1>3, <1>4

\* What the consumer has copied is the oldest item not handed out.
LEMMA CopiedIsOldest ==
  ASSUME Inv, cpc = "advance"
  PROVE  /\ Occupancy >= 1
         /\ Len(popped) + 1 \in 1..Len(pushed)
         /\ citem = pushed[Len(popped) + 1]
         /\ citem \in Items
<1> USE SlotsFacts DEF Inv, BlockMode
<1>1. Occupancy \in Nat /\ Occupancy >= 1
  BY OccupancyType DEF ConsumerPassed, ViewsLag, Occupancy, Distance, TypeOK
<1>2. Len(popped) \in Nat /\ Len(pushed) \in Nat
  BY DEF TypeOK
<1>3. Len(popped) + 1 \in 1..Len(pushed)
  BY <1>1, <1>2 DEF Counts
<1>4. At(tail, 0) = tail
  BY DEF At, TypeOK
<1>5. buffer[tail] = pushed[Len(popped) + 1]
  <2>1. 0 \in 0..(Occupancy - 1)
    BY <1>1
  <2>2. buffer[At(tail, 0)] = pushed[Len(popped) + 0 + 1]
    BY <2>1 DEF Contents
  <2> QED
    BY <2>2, <1>4, <1>2
<1>6. pushed[Len(popped) + 1] \in Items
  BY <1>3 DEF TypeOK
<1> QED
  BY <1>1, <1>3, <1>5, <1>6 DEF ConsumerPassed

\* pop(), the store of tail_: the item handed out is the oldest of the ring.
LEMMA PopAdvanceStep ==
  ASSUME Inv, PopAdvance PROVE Inv'
<1> USE SlotsFacts DEF Inv, BlockMode
<1>1. /\ Occupancy >= 1
      /\ Len(popped) + 1 \in 1..Len(pushed)
      /\ citem = pushed[Len(popped) + 1]
      /\ citem \in Items
  BY CopiedIsOldest DEF PopAdvance
<1>2. /\ popped' = Append(popped, citem)
      /\ Len(popped') = Len(popped) + 1
      /\ \A k \in 1..Len(popped) : popped'[k] = popped[k]
      /\ popped'[Len(popped) + 1] = citem
      /\ popped' \in Seq(Items)
  BY <1>1, AppendProperties DEF PopAdvance, TypeOK
<1>3. TypeOK'
  BY <1>2 DEF TypeOK, PopAdvance, NextSlot, producerVars
<1>4. Occupancy' = Occupancy - 1
  BY <1>1 DEF PopAdvance, NextSlot, Occupancy, Distance, TypeOK
<1>5. Counts'
  BY <1>2, <1>4, OccupancyType DEF Counts, PopAdvance, TypeOK
<1>6. HandedOut'
  BY <1>1, <1>2 DEF HandedOut, PopAdvance, TypeOK
<1>7. Contents'
  <2>1. ASSUME NEW k \in 0..(Occupancy - 2)
        PROVE  buffer[At(NextSlot(tail), k)] = pushed[Len(popped) + 1 + k + 1]
    <3>1. k + 1 \in 0..(Occupancy - 1)
      BY OccupancyType
    <3>2. At(NextSlot(tail), k) = At(tail, k + 1)
      BY OccupancyType DEF At, NextSlot, TypeOK
    <3>3. Len(popped) + (k + 1) + 1 = Len(popped) + 1 + k + 1
      BY OccupancyType DEF TypeOK
    <3> QED
      BY <3>1, <3>2, <3>3 DEF Contents
  <2>2. /\ Occupancy' - 1 = Occupancy - 2
        /\ buffer' = buffer /\ pushed' = pushed /\ tail' = NextSlot(tail)
    BY <1>4, OccupancyType DEF PopAdvance
  <2>3. \A k \in 0..(Occupancy - 2) :
            buffer'[At(tail', k)] = pushed'[Len(popped') + k + 1]
    BY <1>2, <2>1, <2>2
  <2> QED
    BY <2>2, <2>3 DEF Contents, At
<1>8. ViewsLag'
  BY <1>1 DEF ViewsLag, ConsumerPassed, PopAdvance, NextSlot, Occupancy, Distance,
              TypeOK, producerVars
<1>9. ProducerPassed' /\ ConsumerPassed'
  BY DEF ProducerPassed, ConsumerPassed, PopAdvance, producerVars, NextSlot
<1>10. PermitsMatchItems' /\ PermitSeen'
  BY <1>4, OccupancyType
     DEF PermitsMatchItems, PermitSeen, PopAdvance, producerVars, TypeOK
<1> QED
  BY <1>3, <1>5, <1>6, <1>7, <1>8, <1>9, <1>10

\* A step that changes nothing keeps the invariant.
LEMMA StutterStep ==
  ASSUME Inv, UNCHANGED vars PROVE Inv'
BY DEF Inv, vars, producerVars, consumerVars, history, TypeOK, Counts, Contents,
       HandedOut, ViewsLag, ProducerPassed, ConsumerPassed, PermitsMatchItems,
       PermitSeen, Occupancy, Distance, At, NextSlot, BlockMode

\* Every step of either thread keeps the invariant.
LEMMA InvNext == Inv /\ [Next]_vars => Inv'
BY PushLoadStep, PushFullStep, PushWriteStep, PushPublishStep, PushReleaseStep,
   AcquireStep, PopLoadStep, PopEmptyStep, PopReadStep, PopAdvanceStep, StutterStep
   DEF Next, Producer, Consumer

\* The invariant holds in every reachable state.
LEMMA InvHolds == Spec => []Inv
BY InvInit, InvNext, PTL DEF Spec

\* The indices never leave the buffer, whatever the interleaving.
THEOREM TypeCorrect == Spec => []TypeOK
<1>1. Inv => TypeOK
  BY DEF Inv
<1> QED
  BY <1>1, InvHolds, PTL

\* Items are handed out in the order in which they were accepted, none lost
\* or repeated (push and pop, ring_buffer.tpp).
THEOREM FifoCorrect == Spec => []FifoOrder
<1>1. Inv => FifoOrder
  <2> SUFFICES ASSUME Inv PROVE FifoOrder
    OBVIOUS
  <2> USE SlotsFacts, OccupancyType DEF Inv
  <2>1. \A k \in DOMAIN popped : popped[k] = pushed[k]
    BY DEF HandedOut, TypeOK
  <2>2. ASSUME NEW k \in 1..Occupancy
        PROVE  LET i == tail + k - 1
               IN  buffer[IF i >= Capacity THEN i - Capacity ELSE i]
                       = pushed[Len(popped) + k]
    <3>1. k - 1 \in 0..(Occupancy - 1)
      OBVIOUS
    <3>2. buffer[At(tail, k - 1)] = pushed[Len(popped) + (k - 1) + 1]
      BY <3>1 DEF Contents
    <3> QED
      BY <3>2 DEF At, TypeOK
  <2> QED
    BY <2>1, <2>2 DEF FifoOrder, Counts
<1> QED
  BY <1>1, InvHolds, PTL

\* The copy into a slot and the copy out of it never overlap.
THEOREM RaceFree == Spec => []NoDataRace
<1>1. Inv => NoDataRace
  BY SlotsFacts DEF Inv, NoDataRace, ConsumerPassed, ViewsLag, Occupancy, Distance,
                    TypeOK
<1> QED
  BY <1>1, InvHolds, PTL

\* In block mode every item in the ring has its permit: no lost wakeup.
THEOREM PermitsCorrect == Spec => []PermitsMatchItems
<1>1. Inv => PermitsMatchItems
  BY DEF Inv
<1> QED
  BY <1>1, InvHolds, PTL

\* In block mode no permit is spent on a pop that fails.
THEOREM PermitsUsed == Spec => PermitNeverWasted
<1>1. Inv /\ [Next]_vars => [BlockMode => ~PopEmpty]_vars
  BY PermitBacksPop
<1> QED
  BY <1>1, InvHolds, PTL DEF Spec, PermitNeverWasted

\* The ring, at the grain of its atomic operations, implements the bounded
\* queue of Fifo: a publication is an Enqueue, the store of tail_ a Dequeue.
THEOREM ImplementsFifo == Spec => QueueSpec
<1>1. Init => Queue!Init
  BY DEF Init, Queue!Init
<1>2. ASSUME Inv, [Next]_vars PROVE [Queue!Next]_(Queue!vars)
  <2> USE SlotsFacts DEF Inv
  <2>1. CASE PushPublish
    <3>1. pitem \in Items /\ Occupancy < Capacity - 1
      BY <1>2, <2>1, FreeSlot DEF ProducerPassed, PushPublish
    <3>2. Len(pushed) < Len(popped) + (Capacity - 1)
      BY <1>2, <3>1, OccupancyType DEF Counts, TypeOK
    <3>3. Queue!Enqueue(pitem)
      BY <2>1, <3>2 DEF Queue!Enqueue, PushPublish
    <3> QED
      BY <3>1, <3>3 DEF Queue!Next
  <2>2. CASE PopAdvance
    <3>1. Len(popped) < Len(pushed) /\ citem = pushed[Len(popped) + 1]
      BY <1>2, <2>2, CopiedIsOldest DEF PopAdvance, TypeOK
    <3>2. Queue!Dequeue
      BY <2>2, <3>1 DEF Queue!Dequeue, PopAdvance
    <3> QED
      BY <3>2 DEF Queue!Next
  <2>3. CASE ~PushPublish /\ ~PopAdvance
    BY <1>2, <2>3
       DEF Next, Producer, Consumer, PushLoad, PushFull, PushWrite, PushRelease,
           Acquire, PopLoad, PopEmpty, PopRead, vars, history, Queue!vars
  <2> QED
    BY <2>1, <2>2, <2>3
<1> QED
  BY <1>1, <1>2, InvHolds, PTL DEF Spec, QueueSpec, Queue!Spec
=============================================================================
