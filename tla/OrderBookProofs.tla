--------------------------- MODULE OrderBookProofs ---------------------------
(***************************************************************************)
(* Theorems about OrderBook, for every set of prices, quantities and       *)
(* connections and any number of orders: its types, the look-up and the    *)
(* lists, no crossing, the totals of levels, fill-or-kill.                 *)
(***************************************************************************)
EXTENDS OrderBook, SequenceTheorems, FiniteSetTheorems, WellFoundedInduction, TLAPS

-----------------------------------------------------------------------------
(***************************************************************************)
(* The list of a level as a sequence of distinct ids.                      *)
(***************************************************************************)
Has(seq, x) == \E i \in DOMAIN seq : seq[i] = x
Distinct(seq) == \A i, j \in DOMAIN seq : seq[i] = seq[j] => i = j

\* push_back of an order that is not in the list
LEMMA AppendList ==
  ASSUME NEW S, NEW q \in Seq(S), NEW x \in S, Distinct(q), ~Has(q, x)
  PROVE  /\ Append(q, x) \in Seq(S)
         /\ Append(q, x) # <<>>
         /\ Distinct(Append(q, x))
         /\ \A y : Has(Append(q, x), y) <=> Has(q, y) \/ y = x
<1>1. /\ Append(q, x) \in Seq(S)
      /\ Len(Append(q, x)) = Len(q) + 1
      /\ \A i \in 1..Len(q) : Append(q, x)[i] = q[i]
      /\ Append(q, x)[Len(q) + 1] = x
  BY AppendProperties
<1>2. /\ Len(q) \in Nat
      /\ DOMAIN q = 1..Len(q)
      /\ DOMAIN Append(q, x) = 1..(Len(q) + 1)
  BY <1>1, LenProperties
<1>3. Append(q, x) # <<>>
  BY <1>1, <1>2, EmptySeq
<1>4. Distinct(Append(q, x))
  BY <1>1, <1>2 DEF Distinct, Has
<1>5. \A y : Has(Append(q, x), y) <=> Has(q, y) \/ y = x
  BY <1>1, <1>2 DEF Has
<1> QED
  BY <1>1, <1>3, <1>4, <1>5

\* The elements of a list without the one at position k.
LEMMA RemoveElements ==
  ASSUME NEW S, NEW q \in Seq(S), NEW k \in DOMAIN q
  PROVE  /\ RemoveAt(q, k) \in Seq(S)
         /\ DOMAIN RemoveAt(q, k) = 1..(Len(q) - 1)
         /\ \A i \in 1..(Len(q) - 1) :
                RemoveAt(q, k)[i] = IF i < k THEN q[i] ELSE q[i + 1]
<1> DEFINE r == RemoveAt(q, k)
<1>1. Len(q) \in Nat /\ DOMAIN q = 1..Len(q) /\ k \in 1..Len(q)
  BY LenProperties
<1>2. /\ SubSeq(q, 1, k - 1) \in Seq(S)
      /\ Len(SubSeq(q, 1, k - 1)) = k - 1
      /\ \A i \in 1..(k - 1) : SubSeq(q, 1, k - 1)[i] = q[i]
  BY <1>1, SubSeqProperties
<1>3. /\ SubSeq(q, k + 1, Len(q)) \in Seq(S)
      /\ Len(SubSeq(q, k + 1, Len(q))) = Len(q) - k
      /\ \A i \in 1..(Len(q) - k) : SubSeq(q, k + 1, Len(q))[i] = q[k + i]
  BY <1>1, SubSeqProperties
<1>4. /\ r \in Seq(S)
      /\ Len(r) = Len(q) - 1
      /\ \A i \in 1..(Len(q) - 1) : r[i] = IF i < k THEN q[i] ELSE q[i + 1]
  <2> DEFINE a == SubSeq(q, 1, k - 1)
             b == SubSeq(q, k + 1, Len(q))
  <2>1. r = a \o b
    BY DEF RemoveAt
  <2>2. a \in Seq(S) /\ Len(a) = k - 1 /\ (\A i \in 1..(k - 1) : a[i] = q[i])
    BY <1>2
  <2>3. /\ b \in Seq(S) /\ Len(b) = Len(q) - k
        /\ \A i \in 1..(Len(q) - k) : b[i] = q[k + i]
    BY <1>3
  <2> HIDE DEF a, b
  <2>4. a \o b \in Seq(S) /\ Len(a \o b) = Len(a) + Len(b)
    BY <2>2, <2>3, ConcatProperties
  <2>5. \A i \in 1..(Len(a) + Len(b)) :
            (a \o b)[i] = IF i <= Len(a) THEN a[i] ELSE b[i - Len(a)]
    BY <2>2, <2>3, ConcatProperties
  <2>6. Len(a) + Len(b) = Len(q) - 1
    BY <2>2, <2>3, <1>1
  <2>7. ASSUME NEW i \in 1..(Len(q) - 1)
        PROVE  (a \o b)[i] = IF i < k THEN q[i] ELSE q[i + 1]
    <3>1. CASE i < k
      BY <3>1, <2>2, <2>3, <2>5, <2>6, <1>1
    <3>2. CASE i >= k
      <4>1. /\ i - Len(a) \in 1..(Len(q) - k)
            /\ k + (i - Len(a)) = i + 1
        BY <3>2, <2>2, <1>1
      <4>2. (a \o b)[i] = b[i - Len(a)]
        BY <3>2, <2>2, <2>5, <2>6, <1>1
      <4>3. b[i - Len(a)] = q[k + (i - Len(a))]
        BY <4>1, <2>3
      <4>4. (a \o b)[i] = q[i + 1]
        BY <4>1, <4>2, <4>3
      <4> QED
        BY <4>4, <3>2, <1>1
    <3>3. i < k \/ i >= k
      BY <1>1
    <3> QED
      BY <3>1, <3>2, <3>3
  <2> QED
    BY <2>1, <2>4, <2>6, <2>7
<1>5. DOMAIN r = 1..(Len(q) - 1)
  BY <1>4, LenProperties
<1> QED
  BY <1>4, <1>5

\* erase of the element at position k; pop_front is the case k = 1
LEMMA RemoveList ==
  ASSUME NEW S, NEW q \in Seq(S), NEW k \in DOMAIN q, Distinct(q)
  PROVE  /\ RemoveAt(q, k) \in Seq(S)
         /\ Distinct(RemoveAt(q, k))
         /\ \A y : Has(RemoveAt(q, k), y) <=> Has(q, y) /\ y # q[k]
<1> DEFINE r == RemoveAt(q, k)
<1>1. Len(q) \in Nat /\ DOMAIN q = 1..Len(q) /\ k \in 1..Len(q)
  BY LenProperties
<1>2. r \in Seq(S) /\ \A i \in 1..(Len(q) - 1) : r[i] = IF i < k THEN q[i] ELSE q[i + 1]
  BY RemoveElements
<1>3. DOMAIN r = 1..(Len(q) - 1)
  BY RemoveElements
<1> HIDE DEF r
<1>4. Distinct(r)
  <2> DEFINE from(i) == IF i < k THEN i ELSE i + 1
  <2>1. \A i \in DOMAIN r : from(i) \in DOMAIN q
    BY <1>1, <1>3
  <2>2. \A i, j \in DOMAIN r : i # j => from(i) # from(j)
    BY <1>1, <1>3
  <2>3. \A i \in DOMAIN r : r[i] = q[from(i)]
    BY <1>2, <1>3
  <2> HIDE DEF from
  <2> QED
    BY <2>1, <2>2, <2>3 DEF Distinct
<1>5. ASSUME NEW y PROVE Has(r, y) <=> Has(q, y) /\ y # q[k]
  <2>1. ASSUME Has(r, y) PROVE Has(q, y) /\ y # q[k]
    BY <2>1, <1>1, <1>2, <1>3 DEF Has, Distinct
  <2>2. ASSUME NEW i \in DOMAIN q, q[i] = y, y # q[k] PROVE Has(r, y)
    <3>1. CASE i < k
      BY <3>1, <2>2, <1>1, <1>2, <1>3 DEF Has
    <3>2. CASE i > k
      <4>1. i - 1 \in 1..(Len(q) - 1) /\ r[i - 1] = q[i]
        BY <3>2, <1>1, <1>2
      <4> QED
        BY <4>1, <2>2, <1>3 DEF Has
    <3> QED
      BY <3>1, <3>2, <2>2, <1>1
  <2> QED
    BY <2>1, <2>2 DEF Has
<1> QED
  BY <1>2, <1>4, <1>5 DEF r

\* The tail of a list without repetition: its elements but the first.
LEMMA TailList ==
  ASSUME NEW S, NEW q \in Seq(S), q # <<>>, Distinct(q)
  PROVE  /\ Tail(q) \in Seq(S)
         /\ Distinct(Tail(q))
         /\ \A y : Has(Tail(q), y) <=> Has(q, y) /\ y # Head(q)
<1>1. Len(q) \in Nat /\ DOMAIN q = 1..Len(q) /\ Len(q) >= 1 /\ Head(q) = q[1]
  BY LenProperties, EmptySeq, HeadTailProperties
<1>2. /\ Tail(q) \in Seq(S)
      /\ Len(Tail(q)) = Len(q) - 1
      /\ \A i \in 1..Len(Tail(q)) : Tail(q)[i] = q[i + 1]
  BY HeadTailProperties
<1>3. DOMAIN Tail(q) = 1..(Len(q) - 1)
  BY <1>2, LenProperties
<1>4. Distinct(Tail(q))
  BY <1>1, <1>2, <1>3 DEF Distinct
<1>5. ASSUME NEW y PROVE Has(Tail(q), y) <=> Has(q, y) /\ y # Head(q)
  <2>1. ASSUME Has(Tail(q), y) PROVE Has(q, y) /\ y # Head(q)
    BY <2>1, <1>1, <1>2, <1>3 DEF Has, Distinct
  <2>2. ASSUME NEW i \in DOMAIN q, q[i] = y, y # Head(q) PROVE Has(Tail(q), y)
    <3>1. i - 1 \in 1..(Len(q) - 1)
      BY <2>2, <1>1
    <3>2. Tail(q)[i - 1] = q[i]
      BY <3>1, <1>1, <1>2
    <3> QED
      BY <3>1, <3>2, <2>2, <1>3 DEF Has
  <2> QED
    BY <2>1, <2>2 DEF Has
<1> QED
  BY <1>2, <1>4, <1>5

-----------------------------------------------------------------------------
(***************************************************************************)
(* The inductive invariant.  TypeOK alone is not inductive: that the maker *)
(* of a trade is an order and not NoOrder follows from the agreement of    *)
(* the lists with the look-up, and that a modified order may go back under *)
(* its id from its absence while it is matched.                            *)
(***************************************************************************)
LookupInv ==
    \A id \in OrderIds, s \in Sides, p \in Prices :
        (lookup[id] = [side |-> s, price |-> p]) <=> Has(queue[s][p], id)

LevelInv ==
    \A s \in Sides, p \in Prices :
        /\ p \in levels[s] <=> queue[s][p] # <<>>
        /\ Distinct(queue[s][p])

RestingInv ==
    \A id \in OrderIds :
        lookup[id] # Nowhere => resting[id] \in Order /\ resting[id].id = id

IdInv ==
    /\ \A id \in OrderIds : id >= nextId => lookup[id] = Nowhere
    /\ phase = "match" => incoming.id < nextId /\ lookup[incoming.id] = Nowhere
    /\ phase = "reply" => incoming.id < nextId

IInv ==
    /\ TypeOK
    /\ LookupInv
    /\ LevelInv
    /\ RestingInv
    /\ IdInv
    /\ Uncrossed
    /\ NeverFailed

\* What the assumption on the constants says of them.
LEMMA Constants ==
  /\ Prices \subseteq Int
  /\ MaxOrders \in Nat
  /\ OrderIds = 1..MaxOrders
BY BookAssumption DEF OrderIds

\* The placeholders differ from every real order, location and request.
LEMMA NoneDistinct ==
  /\ \A s \in Sides : \A p : [side |-> s, price |-> p] # Nowhere
  /\ NoOrder \notin Order
  /\ NoRequest \notin Request
<1>1. ASSUME NEW s \in Sides, NEW p PROVE [side |-> s, price |-> p] # Nowhere
  <2>1. [side |-> s, price |-> p].side # Nowhere.side
    BY DEF Sides, Nowhere
  <2> QED
    BY <2>1
<1>2. NoOrder \notin Order
  <2>1. NoOrder.id \notin OrderIds
    BY Constants DEF NoOrder
  <2> QED
    BY <2>1 DEF Order
<1>3. NoRequest \notin Request
  <2>1. NoRequest.kind \notin {"add", "modify"}
    BY DEF NoRequest
  <2> QED
    BY <2>1 DEF Request
<1> QED
  BY <1>1, <1>2, <1>3

\* A location in the look-up is the record of its two fields.
LEMMA Located ==
  ASSUME TypeOK, NEW id \in OrderIds, lookup[id] # Nowhere
  PROVE  /\ lookup[id].side \in Sides
         /\ lookup[id].price \in Prices
         /\ lookup[id] = [side |-> lookup[id].side, price |-> lookup[id].price]
<1>1. lookup[id] \in Location
  BY DEF TypeOK
<1> QED
  BY <1>1 DEF Location

\* The side matched against is a side, and the other one.
LEMMA OppositeSide == \A s \in Sides : Opposite(s) \in Sides /\ Opposite(s) # s
BY DEF Sides, Opposite

\* The empty book satisfies the invariant.
LEMMA InitInv == Init => IInv
<1> SUFFICES ASSUME Init PROVE IInv
  OBVIOUS
<1> USE Constants
<1>1. TypeOK
  BY EmptySeq DEF Init, TypeOK, Statuses
<1>2. LookupInv
  BY NoneDistinct DEF Init, LookupInv, Has
<1>3. LevelInv
  BY DEF Init, LevelInv, Distinct
<1>4. RestingInv /\ IdInv /\ Uncrossed /\ NeverFailed
  BY DEF Init, RestingInv, IdInv, Uncrossed, NeverFailed, Sides
<1> QED
  BY <1>1, <1>2, <1>3, <1>4 DEF IInv

\* Taking an order out of its list, its level when that is now empty, and the
\* look-up, as cancel_order and a complete fill both do.
LEMMA TakeOut ==
  ASSUME IInv,
         NEW id \in OrderIds, NEW s \in Sides, NEW p \in Prices,
         lookup[id] = [side |-> s, price |-> p],
         NEW rest \in Seq(OrderIds),
         Distinct(rest),
         \A y : Has(rest, y) <=> Has(queue[s][p], y) /\ y # id,
         lookup' = [lookup EXCEPT ![id] = Nowhere],
         queue' = [queue EXCEPT ![s][p] = rest],
         levels' = IF rest = <<>> THEN [levels EXCEPT ![s] = @ \ {p}] ELSE levels
  PROVE  /\ levels' \in [Sides -> SUBSET Prices]
         /\ queue' \in [Sides -> [Prices -> Seq(OrderIds)]]
         /\ lookup' \in [OrderIds -> Location \union {Nowhere}]
         /\ LookupInv' /\ LevelInv' /\ Uncrossed'
         /\ \A y \in OrderIds : lookup'[y] = IF y = id THEN Nowhere ELSE lookup[y]
<1> USE Constants
<1>1. \A t \in Sides, q \in Prices :
          queue'[t][q] = IF t = s /\ q = p THEN rest ELSE queue[t][q]
  BY DEF IInv, TypeOK
<1>2. /\ levels' \in [Sides -> SUBSET Prices]
      /\ queue' \in [Sides -> [Prices -> Seq(OrderIds)]]
      /\ lookup' \in [OrderIds -> Location \union {Nowhere}]
  BY DEF IInv, TypeOK
<1>3. \A y \in OrderIds : lookup'[y] = IF y = id THEN Nowhere ELSE lookup[y]
  BY DEF IInv, TypeOK
<1>4. \A t \in Sides : levels'[t] \subseteq levels[t]
  BY DEF IInv, TypeOK
<1>5. \A t \in Sides, q \in Prices :
          q \in levels'[t] <=> q \in levels[t] /\ ~(t = s /\ q = p /\ rest = <<>>)
  BY DEF IInv, TypeOK
<1>6. LookupInv'
  <2> SUFFICES ASSUME NEW y \in OrderIds, NEW t \in Sides, NEW q \in Prices
               PROVE  lookup'[y] = [side |-> t, price |-> q] <=> Has(queue'[t][q], y)
    BY DEF LookupInv
  <2>1. lookup[y] = [side |-> t, price |-> q] <=> Has(queue[t][q], y)
    BY DEF IInv, LookupInv
  <2>2. CASE t = s /\ q = p
    BY <2>1, <2>2, <1>1, <1>3, NoneDistinct
  <2>3. CASE ~(t = s /\ q = p)
    <3>1. [side |-> t, price |-> q] # [side |-> s, price |-> p]
      <4>1. \/ [side |-> t, price |-> q].side # [side |-> s, price |-> p].side
            \/ [side |-> t, price |-> q].price # [side |-> s, price |-> p].price
        BY <2>3
      <4> QED
        BY <4>1
    <3>2. queue'[t][q] = queue[t][q]
      BY <2>3, <1>1
    <3> QED
      BY <2>1, <3>1, <3>2, <1>3, NoneDistinct
  <2> QED
    BY <2>2, <2>3
<1>7. LevelInv'
  <2>1. Has(queue[s][p], id) /\ queue[s][p] # <<>>
    BY DEF IInv, LookupInv, Has
  <2> QED
    BY <2>1, <1>1, <1>5 DEF IInv, LevelInv
<1>8. Uncrossed'
  BY <1>4 DEF IInv, Uncrossed, Sides
<1> QED
  BY <1>2, <1>3, <1>6, <1>7, <1>8

-----------------------------------------------------------------------------
(***************************************************************************)
(* The steps.                                                              *)
(***************************************************************************)
\* What cancel_order leaves behind.
LEMMA EraseStep ==
  ASSUME IInv, NEW id \in OrderIds, lookup[id] # Nowhere, Erase(id)
  PROVE  /\ levels' \in [Sides -> SUBSET Prices]
         /\ queue' \in [Sides -> [Prices -> Seq(OrderIds)]]
         /\ total' \in [Sides -> [Prices -> Int]]
         /\ resting' \in [OrderIds -> Order \union {NoOrder}]
         /\ lookup' \in [OrderIds -> Location \union {Nowhere}]
         /\ LookupInv' /\ LevelInv' /\ Uncrossed' /\ RestingInv'
         /\ \A y \in OrderIds : lookup'[y] = IF y = id THEN Nowhere ELSE lookup[y]
<1> DEFINE s == lookup[id].side
           p == lookup[id].price
           q == queue[s][p]
           k == IndexIn(q, id)
           rest == RemoveAt(q, k)
<1>1. s \in Sides /\ p \in Prices /\ lookup[id] = [side |-> s, price |-> p]
  BY Located DEF IInv
<1>2. q \in Seq(OrderIds) /\ Distinct(q) /\ Has(q, id)
  BY <1>1 DEF IInv, TypeOK, LookupInv, LevelInv
<1>3. k \in DOMAIN q /\ q[k] = id
  BY <1>2 DEF IndexIn, Has
<1>4. /\ rest \in Seq(OrderIds)
      /\ Distinct(rest)
      /\ \A y : Has(rest, y) <=> Has(q, y) /\ y # id
  BY <1>2, <1>3, RemoveList
<1>5. /\ lookup' = [lookup EXCEPT ![id] = Nowhere]
      /\ queue' = [queue EXCEPT ![s][p] = rest]
      /\ levels' = IF rest = <<>> THEN [levels EXCEPT ![s] = @ \ {p}] ELSE levels
      /\ resting' = [resting EXCEPT ![id] = NoOrder]
      /\ total' = [total EXCEPT ![s][p] = @ - resting[id].remaining]
  BY DEF Erase, Without
<1>6. resting[id].remaining \in Nat
  BY DEF IInv, RestingInv, Order
<1>7. total' \in [Sides -> [Prices -> Int]]
  BY <1>1, <1>5, <1>6 DEF IInv, TypeOK
<1>8. resting' \in [OrderIds -> Order \union {NoOrder}]
  BY <1>5 DEF IInv, TypeOK
<1> HIDE DEF s, p, q, k, rest
<1>9. /\ levels' \in [Sides -> SUBSET Prices]
      /\ queue' \in [Sides -> [Prices -> Seq(OrderIds)]]
      /\ lookup' \in [OrderIds -> Location \union {Nowhere}]
      /\ LookupInv' /\ LevelInv' /\ Uncrossed'
      /\ \A y \in OrderIds : lookup'[y] = IF y = id THEN Nowhere ELSE lookup[y]
  BY <1>1, <1>4, <1>5, TakeOut DEF q
<1>10. RestingInv'
  BY <1>5, <1>9 DEF IInv, TypeOK, RestingInv
<1> QED
  BY <1>7, <1>8, <1>9, <1>10

\* What the answer to a message, or an exception, leaves as it was.
LEMMA BookUnchanged ==
  ASSUME IInv, UNCHANGED bookVars
  PROVE  /\ levels' \in [Sides -> SUBSET Prices]
         /\ queue' \in [Sides -> [Prices -> Seq(OrderIds)]]
         /\ total' \in [Sides -> [Prices -> Int]]
         /\ resting' \in [OrderIds -> Order \union {NoOrder}]
         /\ lookup' = lookup
         /\ lookup' \in [OrderIds -> Location \union {Nowhere}]
         /\ LookupInv' /\ LevelInv' /\ Uncrossed' /\ RestingInv'
BY DEF IInv, TypeOK, bookVars, LookupInv, LevelInv, Uncrossed, RestingInv

\* Entering the matching loop leaves well-typed variables.
LEMMA AddOrderTypes ==
  ASSUME NEW order \in Order, NEW req \in Request, AddOrder(order, req)
  PROVE  /\ request' \in Request \union {NoRequest}
         /\ incoming' \in Order \union {NoOrder}
         /\ phase' \in {"match", "reply"}
         /\ incoming' # NoOrder /\ request' # NoRequest
         /\ incoming' = order
         /\ executed' \in Nat
         /\ status' \in Statuses /\ status' # "Failed"
BY NoneDistinct DEF AddOrder, Statuses

\* process(AddOrder) up to the matching loop.
LEMMA ProcessAddStep ==
  ASSUME IInv,
         NEW type \in OrderTypes, NEW tif \in TimesInForce, NEW side \in Sides,
         NEW price \in Prices, NEW quantity \in Quantities, NEW conn \in Conns,
         ProcessAdd(type, tif, side, price, quantity, conn)
  PROVE  IInv'
<1> USE Constants
<1> DEFINE order == [id |-> nextId, type |-> type, tif |-> tif, side |-> side,
                     price |-> price, remaining |-> quantity, conn |-> conn]
           req == [kind |-> "add", quantity |-> quantity, conn |-> conn]
<1>1. UNCHANGED bookVars /\ nextId' = nextId + 1 /\ nextId \in OrderIds
  BY DEF ProcessAdd, IInv, TypeOK
<1>2. nextId' \in 1..(MaxOrders + 1)
  BY <1>1
<1>3. lookup[nextId] = Nowhere
  BY <1>1 DEF IInv, IdInv
<1>4. \A id \in OrderIds : id >= nextId' => lookup[id] = Nowhere
  BY <1>1 DEF IInv, IdInv, TypeOK
<1>5. CASE quantity <= 0
  <2>1. phase' = "terminated" /\ UNCHANGED <<request, incoming, executed, status>>
    BY <1>5 DEF ProcessAdd, Throw
  <2>2. TypeOK'
    BY <1>1, <1>2, <2>1, BookUnchanged DEF IInv, TypeOK
  <2>3. IdInv' /\ NeverFailed'
    BY <1>1, <1>4, <2>1, BookUnchanged DEF IInv, IdInv, NeverFailed
  <2> QED
    BY <1>1, <2>2, <2>3, BookUnchanged DEF IInv
<1>6. CASE quantity > 0
  <2>1. order \in Order /\ req \in Request
    BY <1>1, <1>6, BookAssumption DEF Order, Request
  <2>2. AddOrder(order, req)
    BY <1>6, BookAssumption DEF ProcessAdd
  <2>3. TypeOK'
    BY <1>1, <1>2, <2>1, <2>2, AddOrderTypes, BookUnchanged DEF TypeOK
  <2>4. IdInv'
    BY <1>1, <1>3, <1>4, <2>1, <2>2, AddOrderTypes, BookUnchanged DEF IdInv
  <2>5. NeverFailed'
    BY <2>1, <2>2, AddOrderTypes DEF NeverFailed
  <2> QED
    BY <1>1, <2>3, <2>4, <2>5, BookUnchanged DEF IInv
<1> QED
  BY <1>5, <1>6, BookAssumption

\* process(ModifyOrder): the old order is out of the book before its
\* replacement is matched under the same id.
LEMMA ProcessModifyStep ==
  ASSUME IInv,
         NEW id \in OrderIds, NEW price \in Prices, NEW quantity \in Quantities,
         NEW conn \in Conns, ProcessModify(id, price, quantity, conn)
  PROVE  IInv'
<1> USE Constants
<1> DEFINE order == [resting[id] EXCEPT !.price = price, !.remaining = quantity]
           req == [kind |-> "modify", quantity |-> quantity, conn |-> conn]
<1>1. /\ lookup[id] # Nowhere /\ quantity > 0 /\ quantity \in Nat
      /\ AddOrder(order, req) /\ Erase(id) /\ nextId' = nextId
  BY BookAssumption DEF ProcessModify
<1>2. resting[id] \in Order /\ resting[id].id = id
  BY <1>1 DEF IInv, RestingInv
<1>3. order \in Order /\ req \in Request /\ order.id = id
  BY <1>1, <1>2 DEF Order, Request
<1>4. id < nextId
  BY <1>1 DEF IInv, IdInv, TypeOK
<1>5. TypeOK'
  BY <1>1, <1>3, AddOrderTypes, EraseStep DEF IInv, TypeOK
<1>6. IdInv'
  <2>1. \A y \in OrderIds : lookup'[y] = IF y = id THEN Nowhere ELSE lookup[y]
    BY <1>1, EraseStep
  <2>2. incoming' = order /\ phase' \in {"match", "reply"}
    BY <1>1, <1>3, AddOrderTypes
  <2>3. incoming'.id = id /\ nextId' = nextId
    BY <1>1, <1>3, <2>2
  <2>4. \A y \in OrderIds : y >= nextId' => lookup'[y] = Nowhere
    BY <2>1, <2>3 DEF IInv, IdInv
  <2>5. incoming'.id < nextId' /\ lookup'[incoming'.id] = Nowhere
    BY <1>4, <2>1, <2>3
  <2> QED
    BY <2>4, <2>5 DEF IdInv
<1>7. NeverFailed'
  BY <1>1, <1>3, AddOrderTypes DEF NeverFailed
<1> QED
  BY <1>1, <1>5, <1>6, <1>7, EraseStep DEF IInv

\* process(CancelOrder) of an order in the book.
LEMMA ProcessCancelStep ==
  ASSUME IInv, NEW id \in OrderIds, NEW conn \in Conns, ProcessCancel(id, conn)
  PROVE  IInv'
<1> USE Constants
<1>1. /\ lookup[id] # Nowhere /\ Erase(id) /\ phase = "idle" /\ phase' = "idle"
      /\ UNCHANGED <<nextId, request, incoming, executed, status>>
  BY DEF ProcessCancel
<1>2. TypeOK'
  BY <1>1, EraseStep DEF IInv, TypeOK
<1>3. IdInv' /\ NeverFailed'
  BY <1>1, EraseStep DEF IInv, IdInv, NeverFailed
<1> QED
  BY <1>1, <1>2, <1>3, EraseStep DEF IInv

\* The messages about unknown orders, the answer and the exceptions.
LEMMA AnswerStep ==
  ASSUME IInv, NEW event, Answer(event), UNCHANGED <<bookVars, nextId>>
  PROVE  IInv'
<1>1. UNCHANGED bookVars
  OBVIOUS
<1>2. TypeOK'
  BY <1>1, BookUnchanged DEF IInv, TypeOK, Answer, Statuses
<1>3. IdInv' /\ NeverFailed'
  BY <1>1, BookUnchanged DEF IInv, IdInv, NeverFailed, Answer
<1> QED
  BY <1>1, <1>2, <1>3, BookUnchanged DEF IInv

\* An exception leaves the book as it is.
LEMMA ThrowStep ==
  ASSUME IInv, Throw,
         UNCHANGED <<bookVars, nextId, request, incoming, executed, status>>
  PROVE  IInv'
<1>1. UNCHANGED bookVars
  OBVIOUS
<1>2. TypeOK'
  BY <1>1, BookUnchanged DEF IInv, TypeOK, Throw
<1>3. IdInv' /\ NeverFailed'
  BY <1>1, BookUnchanged DEF IInv, IdInv, NeverFailed, Throw
<1> QED
  BY <1>1, <1>2, <1>3, BookUnchanged DEF IInv

\* The end of the matching of an order that does not rest.
LEMMA SettleStep ==
  ASSUME IInv, Settle PROVE IInv'
<1>1. UNCHANGED bookVars
  BY DEF Settle
<1>2. status' \in Statuses /\ status' # "Failed"
  BY DEF Settle, FromMatch, Statuses
<1>3. TypeOK'
  BY <1>1, <1>2, BookUnchanged DEF IInv, TypeOK, Settle
<1>4. IdInv' /\ NeverFailed'
  BY <1>1, <1>2, BookUnchanged DEF IInv, IdInv, NeverFailed, Settle
<1> QED
  BY <1>1, <1>3, <1>4, BookUnchanged DEF IInv

\* Resting what a matched order has left.
LEMMA RestStep ==
  ASSUME IInv, Rest PROVE IInv'
<1> USE Constants
<1> DEFINE s == incoming.side
           p == incoming.price
           id == incoming.id
           q == queue[s][p]
<1>1. incoming \in Order /\ incoming.type = "Limit" /\ incoming.remaining > 0
  BY DEF Rest, ShouldRest, IInv, TypeOK
<1>2. s \in Sides /\ p \in Prices /\ id \in OrderIds /\ incoming.remaining \in Nat
  BY <1>1 DEF Order
<1>3. lookup[id] = Nowhere /\ id < nextId
  BY DEF IInv, IdInv, Rest
<1>4. /\ levels' = [levels EXCEPT ![s] = @ \union {p}]
      /\ queue' = [queue EXCEPT ![s][p] = Append(@, id)]
      /\ total' = [total EXCEPT ![s][p] = total[s][p] + incoming.remaining]
      /\ resting' = [resting EXCEPT ![id] = incoming]
      /\ lookup' = [lookup EXCEPT ![id] = [side |-> s, price |-> p]]
      /\ status' = FromMatch
      /\ phase' = "reply"
      /\ UNCHANGED <<nextId, request, incoming, executed>>
  BY <1>3 DEF Rest
<1>5. status' \in Statuses /\ status' # "Failed"
  BY <1>4 DEF FromMatch, Statuses
<1>6. q \in Seq(OrderIds) /\ Distinct(q) /\ ~Has(q, id)
  <2>1. ~Has(q, id)
    <3>1. lookup[id] # [side |-> s, price |-> p]
      BY <1>2, <1>3, NoneDistinct
    <3> QED
      BY <3>1, <1>2 DEF IInv, LookupInv
  <2>2. q \in Seq(OrderIds)
    <3>1. queue \in [Sides -> [Prices -> Seq(OrderIds)]]
      BY DEF IInv, TypeOK
    <3> QED
      BY <3>1, <1>2
  <2>3. Distinct(q)
    BY <1>2 DEF IInv, LevelInv
  <2> QED
    BY <2>1, <2>2, <2>3
<1>7. /\ Append(q, id) \in Seq(OrderIds)
      /\ Append(q, id) # <<>>
      /\ Distinct(Append(q, id))
      /\ \A y : Has(Append(q, id), y) <=> Has(q, y) \/ y = id
  BY <1>2, <1>6, AppendList
<1>8. \A t \in Sides, r \in Prices :
          queue'[t][r] = IF t = s /\ r = p THEN Append(q, id) ELSE queue[t][r]
  BY <1>2, <1>4 DEF IInv, TypeOK
<1>9. TypeOK'
  <2>1. queue' \in [Sides -> [Prices -> Seq(OrderIds)]]
    BY <1>2, <1>4, <1>7 DEF IInv, TypeOK
  <2>2. total' \in [Sides -> [Prices -> Int]]
    <3>1. total[s][p] + incoming.remaining \in Int
      <4>1. total[s] \in [Prices -> Int]
        BY <1>2 DEF IInv, TypeOK
      <4>2. total[s][p] \in Int
        BY <4>1, <1>2
      <4>3. incoming.remaining \in Int
        BY <1>2
      <4> QED
        BY <4>2, <4>3
    <3> QED
      BY <3>1, <1>2, <1>4 DEF IInv, TypeOK
  <2>3. levels' \in [Sides -> SUBSET Prices]
    BY <1>2, <1>4 DEF IInv, TypeOK
  <2>4. /\ resting' \in [OrderIds -> Order \union {NoOrder}]
        /\ lookup' \in [OrderIds -> Location \union {Nowhere}]
    BY <1>1, <1>2, <1>4 DEF IInv, TypeOK, Location
  <2>5. /\ request' = request /\ incoming' = incoming
        /\ incoming # NoOrder /\ request # NoRequest
    BY <1>4 DEF Rest, IInv, TypeOK
  <2> QED
    BY <2>1, <2>2, <2>3, <2>4, <2>5, <1>4, <1>5 DEF IInv, TypeOK
<1>10. LookupInv'
  <2> SUFFICES ASSUME NEW y \in OrderIds, NEW t \in Sides, NEW r \in Prices
               PROVE  lookup'[y] = [side |-> t, price |-> r] <=> Has(queue'[t][r], y)
    BY DEF LookupInv
  <2>1. lookup[y] = [side |-> t, price |-> r] <=> Has(queue[t][r], y)
    BY DEF IInv, LookupInv
  <2>2. lookup'[y] = IF y = id THEN [side |-> s, price |-> p] ELSE lookup[y]
    BY <1>4 DEF IInv, TypeOK
  <2>3. CASE t = s /\ r = p
    BY <2>1, <2>2, <2>3, <1>7, <1>8
  <2>4. CASE ~(t = s /\ r = p)
    <3>1. [side |-> t, price |-> r] # [side |-> s, price |-> p]
      <4>1. \/ [side |-> t, price |-> r].side # [side |-> s, price |-> p].side
            \/ [side |-> t, price |-> r].price # [side |-> s, price |-> p].price
        BY <2>4
      <4> QED
        BY <4>1
    <3>2. queue'[t][r] = queue[t][r]
      BY <2>4, <1>8
    <3>3. lookup[id] # [side |-> t, price |-> r]
      BY <1>3, NoneDistinct
    <3> QED
      BY <2>1, <2>2, <3>1, <3>2, <3>3
  <2> QED
    BY <2>3, <2>4
<1>11. LevelInv'
  <2>1. \A t \in Sides, r \in Prices :
            r \in levels'[t] <=> r \in levels[t] \/ (t = s /\ r = p)
    BY <1>2, <1>4 DEF IInv, TypeOK
  <2> SUFFICES ASSUME NEW t \in Sides, NEW r \in Prices
               PROVE  /\ r \in levels'[t] <=> queue'[t][r] # <<>>
                      /\ Distinct(queue'[t][r])
    BY DEF LevelInv
  <2>2. /\ r \in levels[t] <=> queue[t][r] # <<>>
        /\ Distinct(queue[t][r])
    BY DEF IInv, LevelInv
  <2>3. CASE t = s /\ r = p
    BY <2>1, <2>3, <1>7, <1>8
  <2>4. CASE ~(t = s /\ r = p)
    BY <2>1, <2>2, <2>4, <1>8
  <2> QED
    BY <2>3, <2>4
<1>12. RestingInv'
  <2>1. \A y \in OrderIds :
            /\ y # id => lookup'[y] = lookup[y] /\ resting'[y] = resting[y]
            /\ y = id => resting'[y] = incoming
    BY <1>2, <1>4 DEF IInv, TypeOK
  <2> QED
    BY <2>1, <1>1 DEF IInv, RestingInv
<1>13. IdInv' /\ NeverFailed'
  <2>1. \A y \in OrderIds : y # id => lookup'[y] = lookup[y]
    BY <1>2, <1>4 DEF IInv, TypeOK
  <2>2. id \in Int /\ nextId \in Int /\ nextId' = nextId /\ id < nextId
    BY <1>2, <1>3, <1>4 DEF IInv, TypeOK
  <2>3. \A y \in OrderIds : y >= nextId' => lookup'[y] = Nowhere
    BY <2>1, <2>2 DEF IInv, IdInv
  <2> QED
    BY <2>2, <2>3, <1>4, <1>5 DEF IdInv, NeverFailed
\* The level it joins crosses no level of the other side: the loop has ended
\* with something left of the order.
<1>14. Uncrossed'
  <2>1. MatchingDone
    BY DEF Rest
  <2>2. ASSUME NEW price \in levels[Opposite(s)] PROVE ~Crosses(incoming, price)
    <3>1. price \in Prices
      BY <1>2, OppositeSide DEF IInv, TypeOK
    <3> QED
      BY <2>1, <2>2, <3>1, <1>1 DEF MatchingDone, CanTradeAt
  <2>3. \A t \in Sides : levels'[t] = IF t = s THEN levels[t] \union {p} ELSE levels[t]
    BY <1>2, <1>4 DEF IInv, TypeOK
  <2>4. \A t \in Sides : levels[t] \subseteq Int
    BY DEF IInv, TypeOK
  <2>5. p \in Int
    BY <1>2
  <2>6. CASE s = "Buy"
    BY <2>2, <2>3, <2>4, <2>5, <2>6 DEF Opposite, Crosses, Uncrossed, IInv, Sides
  <2>7. CASE s = "Sell"
    BY <2>2, <2>3, <2>4, <2>5, <2>7 DEF Opposite, Crosses, Uncrossed, IInv, Sides
  <2> QED
    BY <2>6, <2>7, <1>2 DEF Sides
<1> QED
  BY <1>9, <1>10, <1>11, <1>12, <1>13, <1>14 DEF IInv

\* One trade with the front order of a level.
LEMMA ExecuteTradeStep ==
  ASSUME IInv, ExecuteTrade PROVE IInv'
<1> USE Constants
<1>1. PICK p \in Prices : CanTradeAt(p) /\ ExecuteTradeAt(p)
  BY DEF ExecuteTrade
<1> DEFINE s == Opposite(incoming.side)
           q == queue[s][p]
           m == Head(q)
           maker == resting[m]
           fill == ExecutionQuantity(maker)
           left == maker.remaining - fill
<1>2. /\ phase = "match" /\ UNCHANGED <<nextId, phase, request, status>>
      /\ incoming \in Order /\ incoming # NoOrder /\ request # NoRequest
  BY DEF ExecuteTrade, IInv, TypeOK
<1>3. s \in Sides /\ incoming.remaining \in Nat /\ incoming.id \in OrderIds
  BY <1>2, OppositeSide DEF Order
<1>4. q \in Seq(OrderIds) /\ q # <<>> /\ Distinct(q)
  BY <1>1, <1>3 DEF CanTradeAt, IInv, TypeOK, LevelInv
<1>5. m \in OrderIds /\ Has(q, m)
  <2>1. Len(q) >= 1 /\ m = q[1] /\ 1 \in DOMAIN q
    BY <1>4, LenProperties, EmptySeq, HeadTailProperties
  <2> QED
    BY <2>1, <1>4, ElementOfSeq DEF Has
<1>6. lookup[m] = [side |-> s, price |-> p] /\ lookup[m] # Nowhere
  BY <1>3, <1>5, NoneDistinct DEF IInv, LookupInv
<1>7. maker \in Order /\ maker.id = m /\ maker.remaining \in Nat
  BY <1>5, <1>6 DEF IInv, RestingInv, Order
<1>8. /\ fill \in Nat /\ fill <= incoming.remaining /\ left \in Nat
  BY <1>3, <1>7 DEF ExecutionQuantity
<1> DEFINE rest == IF left = 0 THEN Tail(q) ELSE q
<1>9. /\ incoming' = [incoming EXCEPT !.remaining = @ - fill]
      /\ executed' = executed + fill
      /\ resting' = [resting EXCEPT ![m] =
                         IF left = 0 THEN NoOrder ELSE [@ EXCEPT !.remaining = left]]
      /\ lookup' = IF left = 0 THEN [lookup EXCEPT ![m] = Nowhere] ELSE lookup
      /\ queue' = [queue EXCEPT ![s][p] = rest]
      /\ total' = [total EXCEPT ![s][p] = total[s][p] - fill]
      /\ levels' = IF rest = <<>> THEN [levels EXCEPT ![s] = @ \ {p}] ELSE levels
      /\ maker = resting[m]
  BY <1>1, <1>7 DEF ExecuteTradeAt
<1> HIDE DEF s, q, m, maker, fill, left, rest
<1>10. /\ incoming' \in Order /\ incoming'.id = incoming.id /\ incoming' # NoOrder
       /\ executed' \in Nat
       /\ total' \in [Sides -> [Prices -> Int]]
  <2>1. incoming' \in Order /\ incoming'.id = incoming.id
    BY <1>2, <1>3, <1>8, <1>9 DEF Order
  <2>2. incoming' # NoOrder
    BY <2>1, NoneDistinct
  <2>3. executed' \in Nat
    BY <1>8, <1>9 DEF IInv, TypeOK
  <2>4. total' \in [Sides -> [Prices -> Int]]
    <3>1. total[s][p] - fill \in Int
      BY <1>3, <1>8 DEF IInv, TypeOK
    <3> QED
      BY <3>1, <1>3, <1>9 DEF IInv, TypeOK
  <2> QED
    BY <2>1, <2>2, <2>3, <2>4
<1>11. /\ resting' \in [OrderIds -> Order \union {NoOrder}]
       /\ \A y \in OrderIds : y # m => resting'[y] = resting[y]
       /\ left # 0 => resting'[m] \in Order /\ resting'[m].id = m
  <2>1. [maker EXCEPT !.remaining = left] \in Order
    BY <1>7, <1>8 DEF Order
  <2> QED
    BY <2>1, <1>5, <1>7, <1>9 DEF IInv, TypeOK
<1>12. /\ levels' \in [Sides -> SUBSET Prices]
       /\ queue' \in [Sides -> [Prices -> Seq(OrderIds)]]
       /\ lookup' \in [OrderIds -> Location \union {Nowhere}]
       /\ LookupInv' /\ LevelInv' /\ Uncrossed'
       /\ \A y \in OrderIds :
              lookup'[y] = IF y = m /\ left = 0 THEN Nowhere ELSE lookup[y]
  <2>1. CASE left = 0
    <3>1. /\ rest \in Seq(OrderIds)
          /\ Distinct(rest)
          /\ \A y : Has(rest, y) <=> Has(q, y) /\ y # m
      BY <2>1, <1>4, TailList DEF rest, m
    <3>2. lookup' = [lookup EXCEPT ![m] = Nowhere]
      BY <2>1, <1>9
    <3>3. queue' = [queue EXCEPT ![s][p] = rest]
      BY <1>9
    <3>4. levels' = IF rest = <<>> THEN [levels EXCEPT ![s] = @ \ {p}] ELSE levels
      BY <1>9
    <3>5. \A y : Has(rest, y) <=> Has(queue[s][p], y) /\ y # m
      BY <3>1 DEF q
    <3>6. /\ levels' \in [Sides -> SUBSET Prices]
          /\ queue' \in [Sides -> [Prices -> Seq(OrderIds)]]
          /\ lookup' \in [OrderIds -> Location \union {Nowhere}]
          /\ LookupInv' /\ LevelInv' /\ Uncrossed'
          /\ \A y \in OrderIds : lookup'[y] = IF y = m THEN Nowhere ELSE lookup[y]
      BY <3>1, <3>2, <3>3, <3>4, <3>5, <1>1, <1>3, <1>5, <1>6, TakeOut
    <3> QED
      BY <3>6, <2>1
  <2>2. CASE left # 0
    <3>1. rest = q /\ lookup' = lookup
      BY <2>2, <1>9 DEF rest
    <3>2. queue' = queue
      BY <3>1, <1>3, <1>9 DEF IInv, TypeOK, q
    <3>3. levels' = levels
      BY <3>1, <1>4, <1>9
    <3>4. /\ levels' \in [Sides -> SUBSET Prices]
          /\ queue' \in [Sides -> [Prices -> Seq(OrderIds)]]
          /\ lookup' \in [OrderIds -> Location \union {Nowhere}]
      BY <3>1, <3>2, <3>3 DEF IInv, TypeOK
    <3>5. LookupInv' /\ LevelInv' /\ Uncrossed'
      BY <3>1, <3>2, <3>3 DEF IInv, LookupInv, LevelInv, Uncrossed
    <3> QED
      BY <3>1, <3>4, <3>5, <2>2
  <2> QED
    BY <2>1, <2>2
<1>13. TypeOK'
  BY <1>2, <1>10, <1>11, <1>12 DEF IInv, TypeOK
<1>14. RestingInv'
  BY <1>11, <1>12 DEF IInv, RestingInv
<1>15. IdInv' /\ NeverFailed'
  BY <1>2, <1>3, <1>10, <1>12 DEF IInv, IdInv, NeverFailed
<1> QED
  BY <1>12, <1>13, <1>14, <1>15 DEF IInv

\* A step that changes nothing keeps the invariant.
LEMMA StutterStep ==
  ASSUME IInv, UNCHANGED vars PROVE IInv'
<1>1. UNCHANGED bookVars
  BY DEF vars
<1>2. TypeOK' /\ IdInv' /\ NeverFailed'
  BY <1>1, BookUnchanged DEF vars, IInv, TypeOK, IdInv, NeverFailed
<1> QED
  BY <1>1, <1>2, BookUnchanged DEF IInv

\* Every step of the engine keeps the invariant.
LEMMA NextInv == IInv /\ [Next]_vars => IInv'
<1> SUFFICES ASSUME IInv, [Next]_vars PROVE IInv'
  OBVIOUS
<1>1. CASE Receive
  BY <1>1, ProcessAddStep, ProcessModifyStep, ProcessCancelStep, AnswerStep, ThrowStep
     DEF Receive, ModifyThrows, ModifyUnknown, CancelUnknown
<1>2. CASE Process
  BY <1>2, ExecuteTradeStep, SettleStep, RestStep, ThrowStep, AnswerStep
     DEF Process, RestThrows, Reply
<1>3. CASE UNCHANGED vars
  BY <1>3, StutterStep
<1> QED
  BY <1>1, <1>2, <1>3 DEF Next

\* The invariant holds in every reachable state.
LEMMA InvHolds == Spec => []IInv
BY InitInv, NextInv, PTL DEF Spec

-----------------------------------------------------------------------------
\* The variables of the engine keep their types: in particular a trade never
\* fills more than either party has left (Order::fill_order would throw).
THEOREM TypeCorrect == Spec => []TypeOK
<1>1. IInv => TypeOK
  BY DEF IInv
<1> QED
  BY <1>1, InvHolds, PTL

\* No bid ever reaches an ask, during a sweep either.
THEOREM NeverCrossed == Spec => []Uncrossed
<1>1. IInv => Uncrossed
  BY DEF IInv
<1> QED
  BY <1>1, InvHolds, PTL

\* The look-up, the lists and the maps of levels describe the same orders, so
\* no iterator kept in order_look_up_ ever dangles.
THEOREM LookupCorrect == Spec => []LookupMatchesLevels
<1>1. IInv => LookupMatchesLevels
  BY DEF IInv, LookupInv, LevelInv, LookupMatchesLevels, Has, Distinct
<1> QED
  BY <1>1, InvHolds, PTL

\* An id is never taken when add_order_to_side inserts it.
THEOREM IdsUnique == Spec => []NeverFailed
<1>1. IInv => NeverFailed
  BY DEF IInv
<1> QED
  BY <1>1, InvHolds, PTL

-----------------------------------------------------------------------------
(***************************************************************************)
(* Sums over finite sets.  The library's induction theorems are about      *)
(* operators; here the sets without a property are a set that, if not      *)
(* empty, has a smallest member (LeastSet).                                *)
(***************************************************************************)
\* A set of finite sets has one that contains no other.
LEMMA LeastSet ==
  ASSUME NEW S, NEW Bad, Bad \subseteq FiniteSubsetsOf(S), Bad # {}
  PROVE  \E T \in Bad : \A U \in SUBSET T : U # T => U \notin Bad
<1>1. PICK T \in Bad : \A U \in Bad : <<U, T>> \notin StrictSubsetOrdering(S)
  BY FS_StrictSubsetOrderingWellFounded, WFMin
<1>2. ASSUME NEW U \in SUBSET T, U # T, U \in Bad PROVE FALSE
  BY <1>1, <1>2 DEF StrictSubsetOrdering, FiniteSubsetsOf
<1> QED
  BY <1>1, <1>2

\* The parts of a finite set are finite.
LEMMA FiniteParts ==
  ASSUME NEW S, IsFiniteSet(S)
  PROVE  \A T \in SUBSET S : IsFiniteSet(T) /\ T \in FiniteSubsetsOf(S)
BY FS_Subset DEF FiniteSubsetsOf

\* What SumFunctionOnSet is, a function defined by recursion over the parts.
Pick(T) == CHOOSE x \in T : TRUE
IsSum(h, f, S) ==
    h = [T \in SUBSET S |-> IF T = {} THEN 0 ELSE f[Pick(T)] + h[T \ {Pick(T)}]]

\* The sum is the value of such a function at the whole set.
LEMMA SumIs ==
  ASSUME NEW f, NEW S
  PROVE  SumFunctionOnSet(f, S) = (CHOOSE h : IsSum(h, f, S))[S]
BY Zenon DEF SumFunctionOnSet, FoldFunctionOnSet, MapThenFoldSet, IsSum, Pick

\* A set that is not empty contains the element that is taken first.
LEMMA PickIn == ASSUME NEW T, T # {} PROVE Pick(T) \in T
BY DEF Pick

\* The recursion, at one part.
LEMMA SumAt ==
  ASSUME NEW h, NEW f, NEW S, IsSum(h, f, S), NEW T \in SUBSET S
  PROVE  h[T] = IF T = {} THEN 0 ELSE f[Pick(T)] + h[T \ {Pick(T)}]
BY DEF IsSum

\* Two such functions agree where both are defined.
LEMMA SumUnique ==
  ASSUME NEW f, NEW S, NEW W, IsFiniteSet(S), NEW g, NEW h, IsSum(g, f, S), IsSum(h, f, W),
         NEW U, U \subseteq S, U \subseteq W
  PROVE  g[U] = h[U]
<1> DEFINE Bad == { T \in SUBSET S : T \subseteq W /\ g[T] # h[T] }
<1>1. SUFFICES ASSUME Bad # {} PROVE FALSE
  OBVIOUS
<1>2. Bad \subseteq FiniteSubsetsOf(S)
  BY FiniteParts
<1> HIDE DEF Bad
<1>3. PICK T \in Bad : \A V \in SUBSET T : V # T => V \notin Bad
  BY <1>1, <1>2, LeastSet
<1> USE DEF Bad
<1>4. CASE T = {}
  BY <1>3, <1>4, SumAt
<1>5. CASE T # {}
  <2> DEFINE V == T \ {Pick(T)}
  <2>1. Pick(T) \in T /\ V \in SUBSET T /\ V # T /\ V \subseteq S /\ V \subseteq W
    BY <1>3, <1>5, PickIn
  <2>2. g[V] = h[V]
    BY <1>3, <2>1
  <2>3. g[T] = f[Pick(T)] + g[V] /\ h[T] = f[Pick(T)] + h[V]
    BY <1>3, <1>5, SumAt
  <2> QED
    BY <1>3, <2>2, <2>3
<1> QED
  BY <1>4, <1>5

\* There is such a function for every finite set.
LEMMA SumExists ==
  ASSUME NEW f, NEW S, IsFiniteSet(S)
  PROVE  \E h : IsSum(h, f, S)
<1> DEFINE Bad == { T \in SUBSET S : ~\E h : IsSum(h, f, T) }
<1>1. SUFFICES ASSUME Bad # {} PROVE FALSE
  OBVIOUS
<1>2. Bad \subseteq FiniteSubsetsOf(S)
  BY FiniteParts
<1> HIDE DEF Bad
<1>3. PICK T \in Bad : \A V \in SUBSET T : V # T => V \notin Bad
  BY <1>1, <1>2, LeastSet
<1> USE DEF Bad
<1> DEFINE of(V) == CHOOSE h : IsSum(h, f, V)
           val(V) == of(V)[V]
           step(V) == IF V = {} THEN 0 ELSE f[Pick(V)] + val(V \ {Pick(V)})
           h == [V \in SUBSET T |-> step(V)]
<1>4. \A V \in SUBSET T : V # T => IsSum(of(V), f, V)
  BY <1>3
<1>5. ASSUME NEW V \in SUBSET T, V # T PROVE val(V) = step(V)
  <2>1. IsSum(of(V), f, V) /\ IsFiniteSet(V)
    BY <1>3, <1>4, <1>5, FiniteParts
  <2>2. CASE V = {}
    BY <2>1, <2>2, SumAt
  <2>3. CASE V # {}
    <3> DEFINE R == V \ {Pick(V)}
    <3>1. Pick(V) \in V /\ R \subseteq V /\ R \in SUBSET T /\ R # T
      BY <1>5, <2>3, PickIn
    <3>2. of(V)[V] = f[Pick(V)] + of(V)[R]
      BY <2>1, <2>3, SumAt
    <3>3. IsSum(of(R), f, R)
      BY <1>4, <3>1
    <3> HIDE DEF of, R
    <3>4. of(V)[R] = of(R)[R]
      BY <2>1, <3>1, <3>3, SumUnique
    <3> QED
      BY <2>3, <3>2, <3>4 DEF R
  <2> QED
    BY <2>2, <2>3
<1>6. IsSum(h, f, T)
  <2>1. ASSUME NEW V \in SUBSET T
        PROVE  step(V) = IF V = {} THEN 0 ELSE f[Pick(V)] + h[V \ {Pick(V)}]
    <3>1. CASE V = {}
      BY <3>1
    <3>2. CASE V # {}
      <4>1. V \ {Pick(V)} \in SUBSET T /\ V \ {Pick(V)} # T
        BY <3>2, PickIn
      <4>2. h[V \ {Pick(V)}] = val(V \ {Pick(V)})
        BY <1>5, <4>1
      <4> QED
        BY <3>2, <4>2
    <3> QED
      BY <3>1, <3>2
  <2> HIDE DEF step
  <2>2. h = [V \in SUBSET T |-> IF V = {} THEN 0 ELSE f[Pick(V)] + h[V \ {Pick(V)}]]
    BY <2>1
  <2> HIDE DEF h
  <2> QED
    BY <2>2 DEF IsSum
<1> QED
  BY <1>3, <1>6

\* The sum over nothing, and over a set that is not empty.
LEMMA SumRec ==
  ASSUME NEW f, NEW S, IsFiniteSet(S)
  PROVE  /\ S = {} => SumFunctionOnSet(f, S) = 0
         /\ S # {} => SumFunctionOnSet(f, S) = f[Pick(S)] + SumFunctionOnSet(f, S \ {Pick(S)})
<1> DEFINE of(V) == CHOOSE h : IsSum(h, f, V)
           R == S \ {Pick(S)}
<1>1. IsSum(of(S), f, S) /\ IsSum(of(R), f, R)
  BY SumExists, FiniteParts
<1>2. SumFunctionOnSet(f, S) = of(S)[S] /\ SumFunctionOnSet(f, R) = of(R)[R]
  BY SumIs
<1> HIDE DEF of
<1>3. of(S)[R] = of(R)[R]
  BY <1>1, SumUnique
<1> QED
  BY <1>1, <1>2, <1>3, SumAt

\* A sum of integers is an integer.
LEMMA SumInt ==
  ASSUME NEW f, NEW S, IsFiniteSet(S), \A x \in S : f[x] \in Int
  PROVE  SumFunctionOnSet(f, S) \in Int
<1> DEFINE Bad == { T \in SUBSET S : SumFunctionOnSet(f, T) \notin Int }
<1>1. SUFFICES ASSUME Bad # {} PROVE FALSE
  OBVIOUS
<1>2. Bad \subseteq FiniteSubsetsOf(S)
  BY FiniteParts
<1> HIDE DEF Bad
<1>3. PICK T \in Bad : \A V \in SUBSET T : V # T => V \notin Bad
  BY <1>1, <1>2, LeastSet
<1> USE DEF Bad
<1>4. IsFiniteSet(T)
  BY <1>3, FiniteParts
<1>5. T # {}
  <2>1. T = {} => SumFunctionOnSet(f, T) = 0
    BY <1>4, SumRec
  <2> QED
    BY <1>3, <2>1
<1>6. Pick(T) \in T /\ T \ {Pick(T)} \in SUBSET T /\ T \ {Pick(T)} # T
  BY <1>5, PickIn
<1>7. SumFunctionOnSet(f, T \ {Pick(T)}) \in Int
  BY <1>3, <1>6
<1>8. SumFunctionOnSet(f, T) = f[Pick(T)] + SumFunctionOnSet(f, T \ {Pick(T)})
  BY <1>4, <1>5, SumRec
<1> QED
  BY <1>3, <1>6, <1>7, <1>8

\* Any element can be taken out of the sum.
LEMMA SumSplit ==
  ASSUME NEW f, NEW S, IsFiniteSet(S), \A x \in S : f[x] \in Int, NEW x \in S
  PROVE  SumFunctionOnSet(f, S) = f[x] + SumFunctionOnSet(f, S \ {x})
<1> DEFINE Bad == { T \in SUBSET S :
             \E y \in T : SumFunctionOnSet(f, T) # f[y] + SumFunctionOnSet(f, T \ {y}) }
<1>1. SUFFICES ASSUME Bad # {} PROVE FALSE
  OBVIOUS
<1>2. Bad \subseteq FiniteSubsetsOf(S)
  BY FiniteParts
<1> HIDE DEF Bad
<1>3. PICK T \in Bad : \A V \in SUBSET T : V # T => V \notin Bad
  BY <1>1, <1>2, LeastSet
<1> USE DEF Bad
<1>4. PICK y \in T : SumFunctionOnSet(f, T) # f[y] + SumFunctionOnSet(f, T \ {y})
  BY <1>3
<1>5. PICK p \in T : p = Pick(T)
  BY <1>4, PickIn
<1>6. SumFunctionOnSet(f, T) = f[p] + SumFunctionOnSet(f, T \ {p})
  BY <1>3, <1>4, <1>5, SumRec, FiniteParts
<1>7. p # y
  BY <1>4, <1>6
<1>8. \A V \in SUBSET T : V # T =>
          \A z \in V : SumFunctionOnSet(f, V) = f[z] + SumFunctionOnSet(f, V \ {z})
  BY <1>3
<1> HIDE DEF Bad
<1>9. PICK A, B, R : A = T \ {p} /\ B = T \ {y} /\ R = T \ {p, y}
  OBVIOUS
<1>10. /\ A \in SUBSET T /\ A # T /\ y \in A /\ A \ {y} = R
       /\ B \in SUBSET T /\ B # T /\ p \in B /\ B \ {p} = R
  BY <1>7, <1>9
<1>11. SumFunctionOnSet(f, A) = f[y] + SumFunctionOnSet(f, R)
  BY <1>8, <1>10
<1>12. SumFunctionOnSet(f, B) = f[p] + SumFunctionOnSet(f, R)
  BY <1>8, <1>10
<1>13. T \in SUBSET S
  BY <1>3 DEF Bad
<1>14. R \in SUBSET S /\ p \in S /\ y \in S
  BY <1>9, <1>13
<1>15. SumFunctionOnSet(f, R) \in Int
  BY <1>14, SumInt, FiniteParts
<1>16. f[p] \in Int /\ f[y] \in Int
  BY <1>14
<1>17. SumFunctionOnSet(f, T) = f[p] + SumFunctionOnSet(f, A)
  BY <1>6, <1>9
<1>18. SumFunctionOnSet(f, T) # f[y] + SumFunctionOnSet(f, B)
  BY <1>4, <1>9
<1> QED
  BY <1>11, <1>12, <1>15, <1>16, <1>17, <1>18

\* Only the values that are added matter.
LEMMA SumSame ==
  ASSUME NEW f, NEW g, NEW S, IsFiniteSet(S), \A x \in S : f[x] = g[x]
  PROVE  SumFunctionOnSet(f, S) = SumFunctionOnSet(g, S)
<1> DEFINE Bad == { T \in SUBSET S : SumFunctionOnSet(f, T) # SumFunctionOnSet(g, T) }
<1>1. SUFFICES ASSUME Bad # {} PROVE FALSE
  OBVIOUS
<1>2. Bad \subseteq FiniteSubsetsOf(S)
  BY FiniteParts
<1> HIDE DEF Bad
<1>3. PICK T \in Bad : \A V \in SUBSET T : V # T => V \notin Bad
  BY <1>1, <1>2, LeastSet
<1> USE DEF Bad
<1>4. IsFiniteSet(T)
  BY <1>3, FiniteParts
<1>5. T # {}
  <2>1. T = {} => SumFunctionOnSet(f, T) = 0
    BY <1>4, SumRec
  <2>2. T = {} => SumFunctionOnSet(g, T) = 0
    BY <1>4, SumRec
  <2> QED
    BY <1>3, <2>1, <2>2
<1>6. Pick(T) \in T /\ T \ {Pick(T)} \in SUBSET T /\ T \ {Pick(T)} # T
  BY <1>5, PickIn
<1> DEFINE R == T \ {Pick(T)}
<1>7. SumFunctionOnSet(f, R) = SumFunctionOnSet(g, R)
  BY <1>3, <1>6
<1>8. /\ SumFunctionOnSet(f, T) = f[Pick(T)] + SumFunctionOnSet(f, R)
      /\ SumFunctionOnSet(g, T) = g[Pick(T)] + SumFunctionOnSet(g, R)
  BY <1>4, <1>5, SumRec
<1>9. f[Pick(T)] = g[Pick(T)]
  BY <1>3, <1>6
<1> QED
  BY <1>3, <1>7, <1>8, <1>9

\* x apart from the others, where x adds nothing to a set it is not in.
LEMMA SumOthers ==
  ASSUME NEW f, NEW S, IsFiniteSet(S), NEW x, f[x] \in Int, \A y \in S \ {x} : f[y] \in Int,
         x \notin S => f[x] = 0
  PROVE  /\ SumFunctionOnSet(f, S) = f[x] + SumFunctionOnSet(f, S \ {x})
         /\ SumFunctionOnSet(f, S \ {x}) \in Int
<1>1. IsFiniteSet(S \ {x})
  BY FiniteParts
<1>2. SumFunctionOnSet(f, S \ {x}) \in Int
  BY <1>1, SumInt
<1>3. CASE x \in S
  <2>1. \A y \in S : f[y] \in Int
    OBVIOUS
  <2> QED
    BY <1>2, <1>3, <2>1, SumSplit
<1>4. CASE x \notin S
  <2>1. PICK rest : rest = S \ {x}
    OBVIOUS
  <2>2. rest = S
    BY <1>4, <2>1
  <2>3. SumFunctionOnSet(f, rest) \in Int
    BY <1>2, <2>1
  <2>4. SumFunctionOnSet(f, S) = f[x] + SumFunctionOnSet(f, rest)
    BY <1>4, <2>2, <2>3
  <2> QED
    BY <2>1, <2>3, <2>4
<1> QED
  BY <1>3, <1>4

\* old and new differ in x at most, and so do f and g on them.
Moves(f, g, old, new, x) ==
    /\ IsFiniteSet(old) /\ old \ {x} = new \ {x}
    /\ \A y \in old \ {x} : f[y] \in Int /\ g[y] = f[y]
    /\ f[x] \in Int /\ (x \notin old => f[x] = 0)
    /\ g[x] \in Int /\ (x \notin new => g[x] = 0)

\* Changing the share of one element changes the sum by as much.
LEMMA SumMoves ==
  ASSUME NEW f, NEW g, NEW old, NEW new, NEW x, Moves(f, g, old, new, x)
  PROVE  SumFunctionOnSet(g, new) = SumFunctionOnSet(f, old) - f[x] + g[x]
<1> USE DEF Moves
<1>1. PICK rest : rest = old \ {x}
  OBVIOUS
<1>2. IsFiniteSet(rest)
  BY <1>1, FiniteParts
<1>3. IsFiniteSet(new)
  <2>1. new \subseteq old \union {x}
    OBVIOUS
  <2> QED
    BY <2>1, FS_AddElement, FS_Subset
<1>4. SumFunctionOnSet(f, old) = f[x] + SumFunctionOnSet(f, rest)
  BY <1>1, SumOthers
<1>5. SumFunctionOnSet(g, new) = g[x] + SumFunctionOnSet(g, rest)
  <2>1. rest = new \ {x} /\ \A y \in new \ {x} : g[y] \in Int
    BY <1>1
  <2> QED
    BY <1>3, <2>1, SumOthers
<1>6. SumFunctionOnSet(f, rest) = SumFunctionOnSet(g, rest) /\ SumFunctionOnSet(f, rest) \in Int
  <2>1. \A y \in rest : f[y] \in Int /\ f[y] = g[y]
    BY <1>1
  <2> QED
    BY <1>2, <2>1, SumSame, SumInt
<1> QED
  BY <1>4, <1>5, <1>6

-----------------------------------------------------------------------------
(***************************************************************************)
(* total_quantity_ of a level and the orders of its list.                  *)
(***************************************************************************)
Ids(s, p) == ToSet(queue[s][p])

\* The orders of a level are those the look-up places there, finitely many.
LEMMA LevelIds ==
  ASSUME IInv, NEW s \in Sides, NEW p \in Prices
  PROVE  /\ IsFiniteSet(Ids(s, p)) /\ Ids(s, p) \subseteq OrderIds
         /\ \A x : x \in Ids(s, p) <=> Has(queue[s][p], x)
         /\ \A x \in OrderIds : x \in Ids(s, p) <=> lookup[x] = [side |-> s, price |-> p]
<1>1. queue[s][p] \in Seq(OrderIds)
  BY DEF IInv, TypeOK
<1>2. \A x : x \in Ids(s, p) <=> Has(queue[s][p], x)
  BY DEF Ids, ToSet, Has
<1>3. Ids(s, p) \subseteq OrderIds
  BY <1>1, <1>2, ElementOfSeq, LenProperties DEF Has
<1>4. IsFiniteSet(OrderIds)
  BY Constants, FS_Interval
<1>5. IsFiniteSet(Ids(s, p))
  BY <1>3, <1>4, FS_Subset
<1> QED
  BY <1>2, <1>3, <1>5 DEF IInv, LookupInv

\* What an order has left is a number, none for an order not in the book.
LEMMA OpenTypes ==
  ASSUME IInv
  PROVE  /\ OpenQuantity \in [OrderIds -> Nat]
         /\ \A id \in OrderIds : lookup[id] = Nowhere => OpenQuantity[id] = 0
         /\ \A id \in OrderIds : lookup[id] # Nowhere => OpenQuantity[id] = resting[id].remaining
<1>1. \A id \in OrderIds : lookup[id] # Nowhere => resting[id].remaining \in Nat
  BY DEF IInv, RestingInv, Order
<1> QED
  BY <1>1 DEF OpenQuantity

\* A step that changes what one order has left, or puts it into a list or
\* takes it out, changes the total of its level by as much.
LEMMA TotalsStep ==
  ASSUME IInv, IInv', TotalsMatchOrders,
         NEW s \in Sides, NEW p \in Prices, NEW id \in OrderIds,
         lookup[id] \in {Nowhere, [side |-> s, price |-> p]},
         lookup'[id] \in {Nowhere, [side |-> s, price |-> p]},
         \A x \in OrderIds \ {id} : lookup'[x] = lookup[x] /\ resting'[x] = resting[x],
         \A t \in Sides, r \in Prices :
             total'[t][r] = IF t = s /\ r = p
                            THEN total[s][p] - OpenQuantity[id] + OpenQuantity'[id]
                            ELSE total[t][r]
  PROVE  TotalsMatchOrders'
<1> USE Constants
<1>1. PICK f : f = OpenQuantity
  OBVIOUS
<1>2. PICK g : g = OpenQuantity'
  OBVIOUS
<1>3. f \in [OrderIds -> Nat] /\ (lookup[id] = Nowhere => f[id] = 0)
  BY <1>1, OpenTypes
<1>4. g \in [OrderIds -> Nat] /\ (lookup'[id] = Nowhere => g[id] = 0)
  <2>1. /\ OpenQuantity' \in [OrderIds -> Nat]
        /\ \A x \in OrderIds : lookup'[x] = Nowhere => OpenQuantity'[x] = 0
    <3>1. \A x \in OrderIds : lookup'[x] # Nowhere => resting'[x].remaining \in Nat
      BY DEF IInv, RestingInv, Order
    <3> QED
      BY <3>1 DEF OpenQuantity
  <2> QED
    BY <1>2, <2>1
<1>5. \A x \in OrderIds \ {id} : g[x] = f[x]
  BY <1>1, <1>2 DEF OpenQuantity
<1> SUFFICES ASSUME NEW t \in Sides, NEW r \in Prices
             PROVE  total'[t][r] = SumFunctionOnSet(g, Ids(t, r)')
  BY <1>2 DEF TotalsMatchOrders, Ids
<1>6. PICK old : /\ old = Ids(t, r) /\ IsFiniteSet(old) /\ old \subseteq OrderIds
                 /\ \A x \in OrderIds : x \in old <=> lookup[x] = [side |-> t, price |-> r]
  BY LevelIds
<1>7. PICK new : /\ new = Ids(t, r)' /\ new \subseteq OrderIds
                 /\ \A x \in OrderIds : x \in new <=> lookup'[x] = [side |-> t, price |-> r]
  <2>1. queue'[t][r] \in Seq(OrderIds)
    BY DEF IInv, TypeOK
  <2>2. \A x : x \in Ids(t, r)' <=> Has(queue'[t][r], x)
    BY DEF Ids, ToSet, Has
  <2>3. Ids(t, r)' \subseteq OrderIds
    BY <2>1, <2>2, ElementOfSeq, LenProperties DEF Has
  <2>4. \A x \in OrderIds : x \in Ids(t, r)' <=> lookup'[x] = [side |-> t, price |-> r]
    BY <2>2 DEF IInv, LookupInv
  <2> QED
    BY <2>3, <2>4
<1>8. total[t][r] = SumFunctionOnSet(f, old)
  BY <1>1, <1>6 DEF TotalsMatchOrders, Ids
<1>9. SumFunctionOnSet(f, old) \in Int
  BY <1>3, <1>6, SumInt
<1>10. CASE t = s /\ r = p
  <2>1. old \ {id} = new \ {id}
    BY <1>6, <1>7
  <2>2. (id \notin old => f[id] = 0) /\ (id \notin new => g[id] = 0)
    BY <1>3, <1>4, <1>6, <1>7, <1>10
  <2>3. \A x \in old \ {id} : f[x] \in Int /\ g[x] = f[x]
    BY <1>3, <1>5, <1>6
  <2>4. f[id] \in Int /\ g[id] \in Int
    BY <1>3, <1>4
  <2>5. Moves(f, g, old, new, id)
    BY <1>6, <2>1, <2>2, <2>3, <2>4 DEF Moves
  <2>6. total'[t][r] = total[t][r] - f[id] + g[id]
    BY <1>1, <1>2, <1>10
  <2> QED
    BY <1>7, <1>8, <2>5, <2>6, SumMoves
<1>11. CASE ~(t = s /\ r = p)
  <2>1. [side |-> t, price |-> r] # [side |-> s, price |-> p]
    <3>1. \/ [side |-> t, price |-> r].side # [side |-> s, price |-> p].side
          \/ [side |-> t, price |-> r].price # [side |-> s, price |-> p].price
      BY <1>11
    <3> QED
      BY <3>1
  <2>2. id \notin old /\ id \notin new
    BY <1>6, <1>7, <2>1, NoneDistinct
  <2>3. new = old
    <3>1. \A x \in OrderIds : x \in new <=> x \in old
      BY <1>6, <1>7, <2>2
    <3> QED
      BY <3>1, <1>6, <1>7
  <2>4. SumFunctionOnSet(f, old) = SumFunctionOnSet(g, old)
    <3>1. \A x \in old : f[x] = g[x]
      BY <1>5, <1>6, <2>2
    <3> QED
      BY <3>1, <1>6, SumSame
  <2>5. total'[t][r] = total[t][r]
    BY <1>11
  <2> QED
    BY <1>7, <1>8, <2>3, <2>4, <2>5
<1> QED
  BY <1>10, <1>11

\* cancel_order takes off the total what the order had left.
LEMMA EraseTotals ==
  ASSUME IInv, IInv', TotalsMatchOrders, NEW id \in OrderIds, lookup[id] # Nowhere, Erase(id)
  PROVE  TotalsMatchOrders'
<1>1. PICK s \in Sides, p \in Prices :
          lookup[id] = [side |-> s, price |-> p] /\ s = lookup[id].side /\ p = lookup[id].price
  BY Located DEF IInv
<1>2. /\ \A x \in OrderIds : lookup'[x] = IF x = id THEN Nowhere ELSE lookup[x]
      /\ \A x \in OrderIds \ {id} : resting'[x] = resting[x]
  BY EraseStep DEF Erase, IInv, TypeOK
<1>3. OpenQuantity[id] = resting[id].remaining /\ OpenQuantity'[id] = 0
  BY <1>2, OpenTypes DEF OpenQuantity
<1>4. resting[id].remaining \in Nat /\ total[s][p] \in Int
  BY DEF IInv, TypeOK, RestingInv, Order
<1>5. total' = [total EXCEPT ![s][p] = @ - resting[id].remaining]
  BY <1>1 DEF Erase
<1>6. \A t \in Sides, r \in Prices :
          total'[t][r] = IF t = s /\ r = p THEN total[s][p] - resting[id].remaining
                         ELSE total[t][r]
  BY <1>5 DEF IInv, TypeOK
<1>7. total[s][p] - OpenQuantity[id] + OpenQuantity'[id] = total[s][p] - resting[id].remaining
  BY <1>3, <1>4
<1>8. \A t \in Sides, r \in Prices :
          total'[t][r] = IF t = s /\ r = p
                         THEN total[s][p] - OpenQuantity[id] + OpenQuantity'[id]
                         ELSE total[t][r]
  BY <1>6, <1>7
<1> QED
  BY <1>1, <1>2, <1>8, TotalsStep

\* add_order_to_side adds what the order has left.
LEMMA RestTotals ==
  ASSUME IInv, IInv', TotalsMatchOrders, Rest
  PROVE  TotalsMatchOrders'
<1>1. PICK s, p, id : s = incoming.side /\ p = incoming.price /\ id = incoming.id
  OBVIOUS
<1>2. incoming \in Order /\ incoming.remaining \in Nat
  BY DEF Rest, IInv, TypeOK, ShouldRest, Order
<1>3. s \in Sides /\ p \in Prices /\ id \in OrderIds
  BY <1>1, <1>2 DEF Order
<1>4. lookup[id] = Nowhere
  BY <1>1 DEF IInv, IdInv, Rest
<1>5. /\ lookup' = [lookup EXCEPT ![id] = [side |-> s, price |-> p]]
      /\ resting' = [resting EXCEPT ![id] = incoming]
      /\ total' = [total EXCEPT ![s][p] = total[s][p] + incoming.remaining]
  BY <1>1, <1>4 DEF Rest
<1>6. /\ \A x \in OrderIds \ {id} : lookup'[x] = lookup[x] /\ resting'[x] = resting[x]
      /\ lookup'[id] = [side |-> s, price |-> p] /\ resting'[id] = incoming
  BY <1>3, <1>5 DEF IInv, TypeOK
<1>7. OpenQuantity[id] = 0 /\ OpenQuantity'[id] = incoming.remaining
  BY <1>3, <1>4, <1>6, NoneDistinct DEF OpenQuantity
<1>8. total[s][p] \in Int
  BY <1>3 DEF IInv, TypeOK
<1>9. \A t \in Sides, r \in Prices :
          total'[t][r] = IF t = s /\ r = p THEN total[s][p] + incoming.remaining
                         ELSE total[t][r]
  <2>1. PICK depth : depth = total[s][p] + incoming.remaining
    OBVIOUS
  <2>2. total \in [Sides -> [Prices -> Int]] /\ total' = [total EXCEPT ![s][p] = depth]
    BY <1>5, <2>1 DEF IInv, TypeOK
  <2> QED
    BY <1>3, <2>1, <2>2
<1>10. total[s][p] - OpenQuantity[id] + OpenQuantity'[id] = total[s][p] + incoming.remaining
  BY <1>2, <1>7, <1>8
<1>11. \A t \in Sides, r \in Prices :
           total'[t][r] = IF t = s /\ r = p
                          THEN total[s][p] - OpenQuantity[id] + OpenQuantity'[id]
                          ELSE total[t][r]
  BY <1>9, <1>10
<1> QED
  BY <1>3, <1>4, <1>6, <1>11, TotalsStep

\* A trade: the maker m, the level it rests at, and what the trade takes.
Trade(s, p, m, fill) ==
    /\ s = Opposite(incoming.side) /\ s \in Sides /\ p \in Prices /\ CanTradeAt(p)
    /\ m = Head(queue[s][p]) /\ m \in OrderIds
    /\ lookup[m] = [side |-> s, price |-> p] /\ lookup[m] # Nowhere
    /\ resting[m] \in Order /\ resting[m].id = m
    /\ fill = ExecutionQuantity(resting[m])
    /\ fill \in Nat /\ fill <= incoming.remaining /\ fill <= resting[m].remaining
    /\ fill = incoming.remaining \/ fill = resting[m].remaining

\* Every trade has a maker at the head of the best level, and takes from both
\* orders at most what they have left, and all of it from one.
LEMMA TradeIs ==
  ASSUME IInv, ExecuteTrade
  PROVE  \E s, p, m, fill : Trade(s, p, m, fill) /\ ExecuteTradeAt(p) /\ IsBest(s, p)
<1>1. PICK p \in Prices : /\ CanTradeAt(p) /\ ExecuteTradeAt(p)
                          /\ IsBest(Opposite(incoming.side), p)
  BY DEF ExecuteTrade
<1>2. PICK s : s = Opposite(incoming.side)
  OBVIOUS
<1>3. PICK m : m = Head(queue[s][p])
  OBVIOUS
<1>4. incoming \in Order /\ incoming.remaining \in Nat /\ s \in Sides
  BY <1>2, OppositeSide DEF ExecuteTrade, IInv, TypeOK, Order
<1>5. queue[s][p] \in Seq(OrderIds) /\ queue[s][p] # <<>>
  BY <1>1, <1>2, <1>4 DEF CanTradeAt, IInv, TypeOK, LevelInv
<1>6. m \in OrderIds /\ Has(queue[s][p], m)
  <2>1. Len(queue[s][p]) >= 1 /\ m = queue[s][p][1] /\ 1 \in DOMAIN queue[s][p]
    BY <1>3, <1>5, LenProperties, EmptySeq, HeadTailProperties
  <2> QED
    BY <2>1, <1>5, ElementOfSeq DEF Has
<1>7. lookup[m] = [side |-> s, price |-> p] /\ lookup[m] # Nowhere
  BY <1>4, <1>6, NoneDistinct DEF IInv, LookupInv
<1>8. resting[m] \in Order /\ resting[m].id = m /\ resting[m].remaining \in Nat
  BY <1>6, <1>7 DEF IInv, RestingInv, Order
<1>9. PICK fill : fill = ExecutionQuantity(resting[m])
  OBVIOUS
<1>10. /\ fill \in Nat /\ fill <= incoming.remaining /\ fill <= resting[m].remaining
       /\ fill = incoming.remaining \/ fill = resting[m].remaining
  BY <1>4, <1>8, <1>9 DEF ExecutionQuantity
<1> QED
  BY <1>1, <1>2, <1>3, <1>4, <1>6, <1>7, <1>8, <1>9, <1>10 DEF Trade

\* execute_trade with its local names, but for the events.
TradeMoves(s, p, m, fill, left, rest) ==
    /\ left = resting[m].remaining - fill
    /\ rest = IF left = 0 THEN Tail(queue[s][p]) ELSE queue[s][p]
    /\ incoming' = [incoming EXCEPT !.remaining = @ - fill]
    /\ executed' = executed + fill
    /\ resting' = [resting EXCEPT ![m] =
                       IF left = 0 THEN NoOrder ELSE [@ EXCEPT !.remaining = left]]
    /\ lookup' = IF left = 0 THEN [lookup EXCEPT ![m] = Nowhere] ELSE lookup
    /\ queue' = [queue EXCEPT ![s][p] = rest]
    /\ total' = [total EXCEPT ![s][p] = total[s][p] - fill]
    /\ levels' = IF rest = <<>> THEN [levels EXCEPT ![s] = @ \ {p}] ELSE levels

\* The names in the code and those of Trade are about the same.
LEMMA TradeMovesIs ==
  ASSUME NEW s, NEW p, NEW m, NEW fill, Trade(s, p, m, fill), ExecuteTradeAt(p),
         NEW left, left = resting[m].remaining - fill,
         NEW rest, rest = IF left = 0 THEN Tail(queue[s][p]) ELSE queue[s][p]
  PROVE  TradeMoves(s, p, m, fill, left, rest)
<1>1. /\ Opposite(incoming.side) = s /\ Head(queue[s][p]) = m /\ resting[m].id = m
      /\ ExecutionQuantity(resting[m]) = fill
  BY Zenon DEF Trade
<1>2. PICK maker : maker = resting[m]
  OBVIOUS
<1>3. maker = resting[Head(queue[Opposite(incoming.side)][p])]
  BY <1>1, <1>2
<1>4. maker.id = m /\ ExecutionQuantity(maker) = fill /\ left = maker.remaining - fill
  BY <1>1, <1>2
<1>5. incoming' = [incoming EXCEPT !.remaining = @ - fill] /\ executed' = executed + fill
  BY <1>3, <1>4, Zenon DEF ExecuteTradeAt
<1>6. resting' = [resting EXCEPT ![m] =
                      IF left = 0 THEN NoOrder ELSE [@ EXCEPT !.remaining = left]]
  BY <1>3, <1>4, Zenon DEF ExecuteTradeAt
<1>7. lookup' = IF left = 0 THEN [lookup EXCEPT ![m] = Nowhere] ELSE lookup
  BY <1>3, <1>4, Zenon DEF ExecuteTradeAt
<1>8. queue' = [queue EXCEPT ![s][p] = rest]
  BY <1>1, <1>3, <1>4, Zenon DEF ExecuteTradeAt
<1>9. total' = [total EXCEPT ![s][p] = total[s][p] - fill]
  BY <1>1, <1>3, <1>4, Zenon DEF ExecuteTradeAt
<1>10. levels' = IF rest = <<>> THEN [levels EXCEPT ![s] = @ \ {p}] ELSE levels
  BY <1>1, <1>3, <1>4, Zenon DEF ExecuteTradeAt
<1> QED
  BY <1>5, <1>6, <1>7, <1>8, <1>9, <1>10, Zenon DEF TradeMoves

\* What a trade changes of the book.
Traded(s, p, m, fill) ==
    /\ \A x \in OrderIds \ {m} : lookup'[x] = lookup[x] /\ resting'[x] = resting[x]
    /\ fill = resting[m].remaining => lookup'[m] = Nowhere /\ resting'[m] = NoOrder
    /\ fill # resting[m].remaining =>
           /\ lookup'[m] = lookup[m]
           /\ resting'[m] = [resting[m] EXCEPT !.remaining = @ - fill]
    /\ total' = [total EXCEPT ![s][p] = total[s][p] - fill]
    /\ executed' = executed + fill
    /\ incoming' = [incoming EXCEPT !.remaining = @ - fill]
    /\ levels' = IF queue'[s][p] = <<>> THEN [levels EXCEPT ![s] = @ \ {p}] ELSE levels
    /\ OpenQuantity'[m] = resting[m].remaining - fill

\* execute_trade changes the maker, its level and the taker, and nothing else.
LEMMA TradeChanges ==
  ASSUME IInv, NEW s, NEW p, NEW m, NEW fill, Trade(s, p, m, fill), ExecuteTradeAt(p)
  PROVE  Traded(s, p, m, fill)
<1>1. /\ m \in OrderIds /\ s \in Sides /\ p \in Prices /\ fill \in Nat
      /\ resting[m] \in Order /\ resting[m].remaining \in Nat /\ lookup[m] # Nowhere
  BY DEF Trade, Order
<1>2. PICK left, rest : TradeMoves(s, p, m, fill, left, rest)
  <2>1. PICK left : left = resting[m].remaining - fill
    OBVIOUS
  <2>2. PICK rest : rest = IF left = 0 THEN Tail(queue[s][p]) ELSE queue[s][p]
    OBVIOUS
  <2>3. TradeMoves(s, p, m, fill, left, rest)
    BY <2>1, <2>2, TradeMovesIs
  <2> QED
    BY <2>3
<1>3. /\ left = resting[m].remaining - fill
      /\ resting' = [resting EXCEPT ![m] =
                        IF left = 0 THEN NoOrder ELSE [@ EXCEPT !.remaining = left]]
      /\ lookup' = IF left = 0 THEN [lookup EXCEPT ![m] = Nowhere] ELSE lookup
      /\ total' = [total EXCEPT ![s][p] = total[s][p] - fill]
      /\ executed' = executed + fill
      /\ incoming' = [incoming EXCEPT !.remaining = @ - fill]
  BY <1>2 DEF TradeMoves
<1>4. levels' = IF queue'[s][p] = <<>> THEN [levels EXCEPT ![s] = @ \ {p}] ELSE levels
  <2>1. /\ queue' = [queue EXCEPT ![s][p] = rest]
        /\ levels' = IF rest = <<>> THEN [levels EXCEPT ![s] = @ \ {p}] ELSE levels
    BY <1>2 DEF TradeMoves
  <2>2. queue'[s][p] = rest
    BY <2>1, <1>1 DEF IInv, TypeOK
  <2> QED
    BY <2>1, <2>2
<1>5. \A x \in OrderIds \ {m} : lookup'[x] = lookup[x] /\ resting'[x] = resting[x]
  BY <1>1, <1>3 DEF IInv, TypeOK
<1>6. left = 0 <=> fill = resting[m].remaining
  BY <1>1, <1>3
<1>7. /\ left = 0 => lookup'[m] = Nowhere /\ resting'[m] = NoOrder
      /\ left # 0 => /\ lookup'[m] = lookup[m]
                     /\ resting'[m] = [resting[m] EXCEPT !.remaining = left]
  BY <1>1, <1>3 DEF IInv, TypeOK
<1>8. left # 0 => resting'[m].remaining = left
  BY <1>1, <1>7 DEF Order
<1>9. OpenQuantity'[m] = left
  BY <1>1, <1>7, <1>8 DEF OpenQuantity
<1> QED
  BY <1>2, <1>3, <1>4, <1>5, <1>6, <1>7, <1>9 DEF Traded

\* execute_trade takes off the total what it takes off the order.
LEMMA TradeTotals ==
  ASSUME IInv, IInv', TotalsMatchOrders, ExecuteTrade
  PROVE  TotalsMatchOrders'
<1>1. PICK s, p, m, fill : Trade(s, p, m, fill) /\ ExecuteTradeAt(p)
  BY TradeIs
<1>2. /\ s \in Sides /\ p \in Prices /\ m \in OrderIds /\ fill \in Nat
      /\ lookup[m] = [side |-> s, price |-> p] /\ lookup[m] # Nowhere
      /\ resting[m].remaining \in Nat
  BY <1>1 DEF Trade, Order
<1>3. Traded(s, p, m, fill)
  BY <1>1, TradeChanges
<1>4. /\ \A x \in OrderIds \ {m} : lookup'[x] = lookup[x] /\ resting'[x] = resting[x]
      /\ total' = [total EXCEPT ![s][p] = total[s][p] - fill]
      /\ OpenQuantity'[m] = resting[m].remaining - fill
      /\ lookup'[m] \in {Nowhere, lookup[m]}
  BY <1>3 DEF Traded
<1>5. OpenQuantity[m] = resting[m].remaining
  BY <1>2, OpenTypes
<1>6. total[s][p] \in Int
  BY <1>2 DEF IInv, TypeOK
<1>7. \A t \in Sides, r \in Prices :
          total'[t][r] = IF t = s /\ r = p THEN total[s][p] - fill ELSE total[t][r]
  BY <1>2, <1>4 DEF IInv, TypeOK
<1>8. total[s][p] - OpenQuantity[m] + OpenQuantity'[m] = total[s][p] - fill
  BY <1>2, <1>4, <1>5, <1>6
<1>9. \A t \in Sides, r \in Prices :
          total'[t][r] = IF t = s /\ r = p
                         THEN total[s][p] - OpenQuantity[m] + OpenQuantity'[m]
                         ELSE total[t][r]
  BY <1>7, <1>8
<1> QED
  BY <1>2, <1>4, <1>9, TotalsStep

\* The other steps leave the book as it is.
LEMMA SameTotals ==
  ASSUME TotalsMatchOrders, UNCHANGED bookVars
  PROVE  TotalsMatchOrders'
<1>1. OpenQuantity' = OpenQuantity
  BY DEF OpenQuantity, bookVars
<1> QED
  BY <1>1 DEF TotalsMatchOrders, bookVars

\* A step takes an order out, rests one, trades, or keeps the book.
LEMMA BookSteps ==
  ASSUME [Next]_vars
  PROVE  \/ \E id \in OrderIds : lookup[id] # Nowhere /\ Erase(id)
         \/ Rest \/ ExecuteTrade \/ UNCHANGED bookVars
<1>1. CASE Receive
  BY <1>1, Zenon DEF Receive, ProcessAdd, ProcessModify, ModifyThrows, ModifyUnknown, ProcessCancel,
                     CancelUnknown
<1>2. CASE Process
  BY <1>2 DEF Process, Settle, RestThrows, Reply
<1>3. CASE UNCHANGED vars
  BY <1>3 DEF vars
<1> QED
  BY <1>1, <1>2, <1>3 DEF Next

\* Every step keeps the totals what the orders have left.
LEMMA NextTotals == IInv /\ IInv' /\ TotalsMatchOrders /\ [Next]_vars => TotalsMatchOrders'
BY BookSteps, EraseTotals, RestTotals, TradeTotals, SameTotals

\* An empty book has empty totals.
LEMMA InitTotals == Init => TotalsMatchOrders
<1> SUFFICES ASSUME Init, NEW s \in Sides, NEW p \in Prices
             PROVE  total[s][p] = SumFunctionOnSet(OpenQuantity, ToSet(queue[s][p]))
  BY DEF TotalsMatchOrders
<1>1. ToSet(queue[s][p]) = {} /\ total[s][p] = 0
  BY DEF Init, ToSet
<1> QED
  BY <1>1, SumRec, FS_EmptySet

\* The total of every level is what the orders in its list have left.
THEOREM TotalsCorrect == Spec => []TotalsMatchOrders
BY InvHolds, InitTotals, NextTotals, PTL DEF Spec

-----------------------------------------------------------------------------
(***************************************************************************)
(* Fill-or-kill.  While such an order is matched, the levels it can reach  *)
(* hold what it has left: can_fully_fill has seen to it before the sweep,  *)
(* and a trade takes the same from both.  A level the sweep removes had    *)
(* nothing else in it, which is where TotalsMatchOrders is needed.         *)
(***************************************************************************)
FillOrKill(order) == order.type = "Limit" /\ order.tif = "FillOrKill"
Reachable(order) == { p \in levels[Opposite(order.side)] : Crosses(order, p) }
Depth(order) == SumFunctionOnSet(total[Opposite(order.side)], Reachable(order))

LevelsFinite == \A s \in Sides : IsFiniteSet(levels[s])
NoKillRests == \A id \in OrderIds : lookup[id] # Nowhere => ~FillOrKill(resting[id])
DepthSuffices == phase = "match" /\ FillOrKill(incoming) => Depth(incoming) >= incoming.remaining
KillAnswered ==
    phase = "reply" /\ FillOrKill(incoming) =>
        incoming.remaining = 0 \/ (executed = 0 /\ status = "Rejected")
KillInv == LevelsFinite /\ NoKillRests /\ DepthSuffices /\ KillAnswered

\* No fill-or-kill order comes to rest.
LEMMA NoKillRestsStep ==
  ASSUME IInv, NoKillRests, [Next]_vars
  PROVE  NoKillRests'
<1>1. CASE UNCHANGED bookVars
  BY <1>1 DEF NoKillRests, bookVars
<1>2. ASSUME NEW id \in OrderIds, lookup[id] # Nowhere, Erase(id) PROVE NoKillRests'
  <2>1. /\ \A x \in OrderIds : lookup'[x] = IF x = id THEN Nowhere ELSE lookup[x]
        /\ \A x \in OrderIds \ {id} : resting'[x] = resting[x]
    BY <1>2, EraseStep DEF Erase, IInv, TypeOK
  <2> QED
    BY <2>1 DEF NoKillRests
<1>3. CASE Rest
  <2>1. PICK id : id = incoming.id
    OBVIOUS
  <2>2. incoming \in Order /\ id \in OrderIds
    BY <1>3, <2>1 DEF Rest, IInv, TypeOK, Order
  <2>3. lookup[id] = Nowhere
    BY <1>3, <2>1 DEF IInv, IdInv, Rest
  <2>4. /\ \A x \in OrderIds \ {id} : lookup'[x] = lookup[x] /\ resting'[x] = resting[x]
        /\ resting'[id] = incoming
    BY <1>3, <2>1, <2>2, <2>3 DEF Rest, IInv, TypeOK
  <2>5. ~FillOrKill(incoming)
    BY <1>3 DEF Rest, ShouldRest, FillOrKill
  <2> QED
    BY <2>4, <2>5 DEF NoKillRests
<1>4. CASE ExecuteTrade
  <2>1. PICK s, p, m, fill : Trade(s, p, m, fill) /\ ExecuteTradeAt(p)
    BY <1>4, TradeIs
  <2>2. Traded(s, p, m, fill)
    BY <2>1, TradeChanges
  <2>3. m \in OrderIds /\ lookup[m] # Nowhere /\ resting[m] \in Order
    BY <2>1 DEF Trade
  <2>4. lookup'[m] # Nowhere => resting'[m] = [resting[m] EXCEPT !.remaining = @ - fill]
    BY <2>2 DEF Traded
  <2>5. lookup'[m] # Nowhere => ~FillOrKill(resting'[m])
    BY <2>3, <2>4 DEF NoKillRests, FillOrKill, Order
  <2>6. \A x \in OrderIds \ {m} : lookup'[x] = lookup[x] /\ resting'[x] = resting[x]
    BY <2>2 DEF Traded
  <2> QED
    BY <2>5, <2>6 DEF NoKillRests
<1> QED
  BY <1>1, <1>2, <1>3, <1>4, BookSteps

\* The maps hold finitely many levels.
LEMMA LevelsFiniteStep ==
  ASSUME IInv, LevelsFinite, [Next]_vars
  PROVE  LevelsFinite'
<1>1. CASE UNCHANGED bookVars
  BY <1>1 DEF LevelsFinite, bookVars
<1>2. ASSUME NEW id \in OrderIds, lookup[id] # Nowhere, Erase(id) PROVE LevelsFinite'
  <2>1. \A s \in Sides : levels'[s] \subseteq levels[s]
    BY <1>2, Located DEF Erase, IInv, TypeOK
  <2> QED
    BY <2>1, FS_Subset DEF LevelsFinite
<1>3. CASE Rest
  <2>1. PICK s, p : levels' = [levels EXCEPT ![s] = @ \union {p}]
    BY <1>3 DEF Rest
  <2>2. \A t \in Sides : levels'[t] = levels[t] \/ levels'[t] = levels[t] \union {p}
    BY <2>1 DEF IInv, TypeOK
  <2>3. \A t \in Sides : IsFiniteSet(levels[t] \union {p})
    BY FS_AddElement DEF LevelsFinite
  <2> QED
    BY <2>2, <2>3 DEF LevelsFinite
<1>4. CASE ExecuteTrade
  <2>1. PICK s, p, m, fill : Trade(s, p, m, fill) /\ ExecuteTradeAt(p)
    BY <1>4, TradeIs
  <2>2. Traded(s, p, m, fill)
    BY <2>1, TradeChanges
  <2>3. s \in Sides /\ (levels' = [levels EXCEPT ![s] = @ \ {p}] \/ levels' = levels)
    <3>1. s \in Sides
      BY <2>1 DEF Trade
    <3>2. levels' = IF queue'[s][p] = <<>> THEN [levels EXCEPT ![s] = @ \ {p}] ELSE levels
      BY <2>2 DEF Traded
    <3> QED
      BY <3>1, <3>2
  <2>4. \A t \in Sides : levels'[t] \subseteq levels[t]
    BY <2>3 DEF IInv, TypeOK
  <2> QED
    BY <2>4, FS_Subset DEF LevelsFinite
<1> QED
  BY <1>1, <1>2, <1>3, <1>4, BookSteps

\* The depth is a number.
LEMMA DepthInt ==
  ASSUME IInv, LevelsFinite, NEW order \in Order
  PROVE  Depth(order) \in Int
<1>1. PICK s : s = Opposite(order.side) /\ s \in Sides
  BY OppositeSide DEF Order
<1>2. PICK f : f = total[s] /\ f \in [Prices -> Int]
  BY <1>1 DEF IInv, TypeOK
<1>3. IsFiniteSet(Reachable(order)) /\ Reachable(order) \subseteq Prices
  <2>1. levels[s] \subseteq Prices /\ IsFiniteSet(levels[s]) /\ Reachable(order) \subseteq levels[s]
    BY <1>1 DEF LevelsFinite, Reachable, IInv, TypeOK
  <2> QED
    BY <2>1, FS_Subset
<1> QED
  BY <1>1, <1>2, <1>3, SumInt DEF Depth

\* A trade takes what it fills off the depth the order can reach.
DepthFollows ==
    \E fill \in Nat : /\ incoming'.remaining = incoming.remaining - fill
                      /\ Depth(incoming)' = Depth(incoming) - fill
                      /\ FillOrKill(incoming)' <=> FillOrKill(incoming)

\* A trade takes from the depth in reach what it takes from the taker, also
\* where it removes the level: an empty list has an empty total.
LEMMA TradeDepth ==
  ASSUME IInv, IInv', TotalsMatchOrders', LevelsFinite, ExecuteTrade
  PROVE  DepthFollows
<1>1. PICK s, p, m, fill : Trade(s, p, m, fill) /\ ExecuteTradeAt(p)
  BY TradeIs
<1>2. /\ s \in Sides /\ p \in Prices /\ fill \in Nat /\ s = Opposite(incoming.side)
      /\ p \in Reachable(incoming)
  BY <1>1 DEF Trade, CanTradeAt, Reachable
<1>3. Traded(s, p, m, fill)
  BY <1>1, TradeChanges
<1>4. /\ total' = [total EXCEPT ![s][p] = total[s][p] - fill]
      /\ incoming' = [incoming EXCEPT !.remaining = @ - fill]
      /\ levels' = IF queue'[s][p] = <<>> THEN [levels EXCEPT ![s] = @ \ {p}] ELSE levels
  BY <1>3 DEF Traded
<1>5. incoming \in Order
  BY DEF ExecuteTrade, IInv, TypeOK
<1>6. /\ incoming'.remaining = incoming.remaining - fill
      /\ \A f \in {"type", "tif", "side", "price"} : incoming'[f] = incoming[f]
  BY <1>4, <1>5 DEF Order
<1>7. /\ incoming'.type = incoming.type /\ incoming'.tif = incoming.tif
      /\ incoming'.side = incoming.side /\ incoming'.price = incoming.price
  BY <1>6
<1>8. FillOrKill(incoming)' <=> FillOrKill(incoming)
  BY <1>7 DEF FillOrKill
<1>9. PICK f : f = total[s]
  OBVIOUS
<1>10. PICK g : g = total'[s]
  OBVIOUS
<1>11. PICK old : old = Reachable(incoming)
  OBVIOUS
<1>12. PICK new : new = Reachable(incoming)'
  OBVIOUS
<1>13. Depth(incoming) = SumFunctionOnSet(f, old)
  BY <1>2, <1>9, <1>11 DEF Depth
<1>14. Depth(incoming)' = SumFunctionOnSet(g, new)
  BY <1>2, <1>7, <1>10, <1>12 DEF Depth
<1>15. \A r : Crosses(incoming, r)' <=> Crosses(incoming, r)
  BY <1>7 DEF Crosses
<1>16. new = { r \in levels'[s] : Crosses(incoming, r) }
  BY <1>2, <1>7, <1>12, <1>15 DEF Reachable
<1>17. levels'[s] = IF queue'[s][p] = <<>> THEN levels[s] \ {p} ELSE levels[s]
  BY <1>2, <1>4 DEF IInv, TypeOK
<1>18. old \ {p} = new \ {p} /\ (p \notin new => queue'[s][p] = <<>>) /\ p \in old
  BY <1>2, <1>11, <1>16, <1>17 DEF Reachable
<1>19. f \in [Prices -> Int] /\ g \in [Prices -> Int] /\ g[p] = f[p] - fill
  BY <1>2, <1>4, <1>9, <1>10 DEF IInv, TypeOK
<1>20. \A r \in Prices \ {p} : g[r] = f[r]
  BY <1>2, <1>4, <1>9, <1>10 DEF IInv, TypeOK
<1>21. IsFiniteSet(old) /\ old \subseteq Prices
  <2>1. levels[s] \subseteq Prices /\ IsFiniteSet(levels[s]) /\ old \subseteq levels[s]
    BY <1>2, <1>11 DEF LevelsFinite, Reachable, IInv, TypeOK
  <2> QED
    BY <2>1, FS_Subset
<1>22. p \notin new => g[p] = 0
  <2> SUFFICES ASSUME queue'[s][p] = <<>> PROVE g[p] = 0
    BY <1>18
  <2>1. g[p] = SumFunctionOnSet(OpenQuantity', ToSet(queue'[s][p]))
    BY <1>2, <1>10 DEF TotalsMatchOrders
  <2>2. ToSet(queue'[s][p]) = {}
    BY DEF ToSet
  <2> QED
    BY <2>1, <2>2, SumRec, FS_EmptySet
<1>23. Moves(f, g, old, new, p)
  BY <1>2, <1>18, <1>19, <1>20, <1>21, <1>22 DEF Moves
<1>24. SumFunctionOnSet(f, old) \in Int
  BY <1>19, <1>21, SumInt
<1>25. SumFunctionOnSet(g, new) = SumFunctionOnSet(f, old) - f[p] + g[p]
  BY <1>23, SumMoves
<1>26. SumFunctionOnSet(g, new) = SumFunctionOnSet(f, old) - fill
  BY <1>2, <1>19, <1>24, <1>25
<1> QED
  BY <1>2, <1>6, <1>8, <1>13, <1>14, <1>26 DEF DepthFollows

\* Every step keeps the depth of a fill-or-kill order sufficient.
LEMMA KillStep ==
  ASSUME IInv, IInv', TotalsMatchOrders', KillInv, [Next]_vars
  PROVE  KillInv'
<1> USE Constants
<1>1. LevelsFinite' /\ NoKillRests'
  BY LevelsFiniteStep, NoKillRestsStep DEF KillInv
<1>2. CASE Receive
  <2>1. CASE \E type \in OrderTypes, tif \in TimesInForce, side \in Sides,
                price \in Prices, quantity \in Quantities, conn \in Conns :
                 ProcessAdd(type, tif, side, price, quantity, conn)
    <3>1. PICK type \in OrderTypes, tif \in TimesInForce, side \in Sides,
               price \in Prices, quantity \in Quantities, conn \in Conns :
                 ProcessAdd(type, tif, side, price, quantity, conn)
      BY <2>1
    <3>2. CASE quantity <= 0
      <4>1. phase' = "terminated"
        BY <3>1, <3>2 DEF ProcessAdd, Throw
      <4> QED
        BY <4>1, <1>1 DEF KillInv, DepthSuffices, KillAnswered
    <3>3. CASE ~(quantity <= 0)
      <4>1. PICK order, req : AddOrder(order, req)
        BY <3>1, <3>3 DEF ProcessAdd
      <4>2. /\ incoming' = order /\ executed' = 0
            /\ phase' \in {"match", "reply"}
            /\ phase' = "match" /\ FillOrKill(order) => CanFullyFill(order)
            /\ phase' = "reply" => status' = "Rejected"
        BY <4>1 DEF AddOrder, FillOrKill
      <4>3. UNCHANGED bookVars
        BY <3>1 DEF ProcessAdd
      <4>4. CanFullyFill(order) => Depth(order) >= order.remaining
        BY DEF CanFullyFill, Depth, Reachable
      <4>5. /\ Depth(incoming)' = Depth(order)
            /\ FillOrKill(incoming)' <=> FillOrKill(order)
        <5>1. levels' = levels /\ total' = total /\ incoming' = order
          BY <4>2, <4>3 DEF bookVars
        <5>2. Reachable(incoming)' = Reachable(order)
          BY <5>1 DEF Reachable, Crosses
        <5> QED
          BY <5>1, <5>2 DEF Depth, FillOrKill
      <4>6. DepthSuffices'
        BY <4>2, <4>4, <4>5 DEF DepthSuffices
      <4>7. KillAnswered'
        BY <4>2 DEF KillAnswered
      <4> QED
        BY <4>6, <4>7, <1>1 DEF KillInv
    <3> QED
      BY <3>2, <3>3
  <2>2. CASE \E id \in OrderIds, price \in Prices, quantity \in Quantities, conn \in Conns :
                ProcessModify(id, price, quantity, conn)
    <3>1. PICK id \in OrderIds, price \in Prices, quantity \in Quantities, conn \in Conns :
                 ProcessModify(id, price, quantity, conn)
      BY <2>2
    <3>2. /\ incoming' = [resting[id] EXCEPT !.price = price, !.remaining = quantity]
          /\ resting[id] \in Order /\ lookup[id] # Nowhere
      BY <3>1 DEF ProcessModify, AddOrder, IInv, RestingInv
    <3>3. incoming'.type = resting[id].type /\ incoming'.tif = resting[id].tif
      BY <3>2 DEF Order
    <3>4. ~FillOrKill(incoming)'
      BY <3>2, <3>3 DEF KillInv, NoKillRests, FillOrKill
    <3> QED
      BY <3>4, <1>1 DEF KillInv, DepthSuffices, KillAnswered, FillOrKill
  <2>3. CASE phase' \notin {"match", "reply"}
    BY <2>3, <1>1 DEF KillInv, DepthSuffices, KillAnswered
  <2> QED
    BY <1>2, <2>1, <2>2, <2>3 DEF Receive, ModifyThrows, ModifyUnknown, ProcessCancel, CancelUnknown,
       Throw, Answer
<1>3. CASE ExecuteTrade
  <2>1. phase = "match" /\ phase' = "match" /\ incoming \in Order
    BY <1>3 DEF ExecuteTrade, IInv, TypeOK
  <2>2. PICK fill \in Nat : /\ incoming'.remaining = incoming.remaining - fill
                            /\ Depth(incoming)' = Depth(incoming) - fill
                            /\ FillOrKill(incoming)' <=> FillOrKill(incoming)
    <3>1. LevelsFinite
      BY DEF KillInv
    <3>2. DepthFollows
      BY <1>3, <3>1, TradeDepth
    <3> QED
      BY <3>2 DEF DepthFollows
  <2>3. Depth(incoming) \in Int /\ incoming.remaining \in Nat
    BY <2>1, DepthInt DEF KillInv, Order
  <2>4. DepthSuffices'
    BY <2>1, <2>2, <2>3 DEF KillInv, DepthSuffices
  <2> QED
    BY <2>1, <2>4, <1>1 DEF KillInv, KillAnswered
<1>4. CASE Settle
  <2>1. /\ phase = "match" /\ phase' = "reply" /\ MatchingDone /\ UNCHANGED <<incoming, executed>>
        /\ incoming \in Order /\ incoming.remaining \in Nat
    BY <1>4 DEF Settle, IInv, TypeOK, Order
  <2>2. ASSUME FillOrKill(incoming) PROVE incoming.remaining = 0
    <3>1. Depth(incoming) >= incoming.remaining
      BY <2>1, <2>2 DEF KillInv, DepthSuffices
    <3>2. SUFFICES ASSUME incoming.remaining > 0 PROVE FALSE
      BY <2>1
    <3>3. Reachable(incoming) = {}
      <4>1. Opposite(incoming.side) \in Sides
        BY <2>1, OppositeSide DEF Order
      <4>2. levels[Opposite(incoming.side)] \subseteq Prices
        BY <4>1 DEF IInv, TypeOK
      <4>3. ASSUME NEW p \in levels[Opposite(incoming.side)] PROVE ~Crosses(incoming, p)
        BY <2>1, <3>2, <4>2 DEF MatchingDone, CanTradeAt
      <4> QED
        BY <4>3 DEF Reachable
    <3>4. Depth(incoming) = 0
      BY <3>3, SumRec, FS_EmptySet DEF Depth
    <3> QED
      BY <2>1, <3>1, <3>2, <3>4
  <2> QED
    BY <2>1, <2>2, <1>1 DEF KillInv, DepthSuffices, KillAnswered, FillOrKill
<1>5. CASE Rest
  <2>1. phase' = "reply" /\ UNCHANGED incoming /\ ~FillOrKill(incoming)
    BY <1>5 DEF Rest, ShouldRest, FillOrKill
  <2> QED
    BY <2>1, <1>1 DEF KillInv, DepthSuffices, KillAnswered, FillOrKill
<1>6. CASE RestThrows \/ Reply
  BY <1>6, <1>1 DEF RestThrows, Throw, Reply, Answer, KillInv, DepthSuffices, KillAnswered
<1>7. CASE UNCHANGED vars
  <2>1. UNCHANGED <<levels, total, phase, incoming, executed, status>>
    BY <1>7 DEF vars, bookVars
  <2>2. Depth(incoming)' = Depth(incoming) /\ (FillOrKill(incoming)' <=> FillOrKill(incoming))
    BY <2>1 DEF Depth, Reachable, Crosses, FillOrKill
  <2> QED
    BY <2>1, <2>2, <1>1 DEF KillInv, DepthSuffices, KillAnswered
<1> QED
  BY <1>2, <1>3, <1>4, <1>5, <1>6, <1>7 DEF Next, Process

\* The empty book has no levels and no orders.
LEMMA InitKill == Init => KillInv
BY FS_EmptySet DEF Init, KillInv, LevelsFinite, NoKillRests, DepthSuffices, KillAnswered

\* What can_fully_fill promises of a fill-or-kill order before the sweep, the
\* sweep delivers: the order is filled completely or nothing is traded.
THEOREM FillOrKillAtomic == Spec => []FillOrKillIsAtomic
<1>1. KillInv => FillOrKillIsAtomic
  BY DEF KillInv, KillAnswered, FillOrKill, FillOrKillIsAtomic
<1>2. Spec => []TotalsMatchOrders
  BY TotalsCorrect
<1> QED
  BY <1>1, <1>2, InvHolds, InitKill, KillStep, PTL DEF Spec
==============================================================================
