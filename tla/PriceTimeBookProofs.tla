-------------------------- MODULE PriceTimeBookProofs --------------------------
(***************************************************************************)
(* OrderBook implements PriceTimeBook: levels, lists, look-up and running  *)
(* totals are a way to keep a set of orders with price-time priority.      *)
(***************************************************************************)
EXTENDS OrderBookProofs

-----------------------------------------------------------------------------
(***************************************************************************)
(* The order within a list.                                                *)
(***************************************************************************)
Earlier(q, x, y) == \E i, j \in DOMAIN q : i < j /\ q[i] = x /\ q[j] = y

\* erase keeps the order of what is left
LEMMA RemoveKeepsOrder ==
  ASSUME NEW S, NEW q \in Seq(S), NEW k \in DOMAIN q, NEW x, NEW y,
         Earlier(RemoveAt(q, k), x, y)
  PROVE  Earlier(q, x, y)
<1> DEFINE from(i) == IF i < k THEN i ELSE i + 1
<1>1. PICK r : r = RemoveAt(q, k)
  OBVIOUS
<1>2. /\ DOMAIN r = 1..(Len(q) - 1)
      /\ \A i \in 1..(Len(q) - 1) : r[i] = q[from(i)]
  BY <1>1, RemoveElements
<1>3. Len(q) \in Nat /\ DOMAIN q = 1..Len(q) /\ k \in Int
  BY LenProperties
<1>4. PICK i, j \in DOMAIN r : i < j /\ r[i] = x /\ r[j] = y
  BY <1>1 DEF Earlier
<1>5. q[from(i)] = x /\ q[from(j)] = y
  BY <1>2, <1>4
<1>6. from(i) \in DOMAIN q /\ from(j) \in DOMAIN q /\ from(i) < from(j)
  BY <1>2, <1>3, <1>4
<1> QED
  BY <1>5, <1>6 DEF Earlier

\* pop_front keeps the order of what is left
LEMMA TailKeepsOrder ==
  ASSUME NEW S, NEW q \in Seq(S), q # <<>>, NEW x, NEW y, Earlier(Tail(q), x, y)
  PROVE  Earlier(q, x, y)
<1>1. Len(q) \in Nat /\ DOMAIN q = 1..Len(q) /\ Len(q) >= 1
  BY LenProperties, EmptySeq
<1>2. /\ Len(Tail(q)) = Len(q) - 1 /\ Tail(q) \in Seq(S)
      /\ \A i \in 1..Len(Tail(q)) : Tail(q)[i] = q[i + 1]
  BY HeadTailProperties
<1>3. DOMAIN Tail(q) = 1..(Len(q) - 1)
  BY <1>2, LenProperties
<1>4. PICK i, j \in 1..(Len(q) - 1) : i < j /\ Tail(q)[i] = x /\ Tail(q)[j] = y
  BY <1>3 DEF Earlier
<1>5. q[i + 1] = x /\ q[j + 1] = y
  BY <1>2, <1>4
<1>6. i + 1 \in DOMAIN q /\ j + 1 \in DOMAIN q /\ i + 1 < j + 1
  BY <1>1, <1>4
<1> QED
  BY <1>5, <1>6 DEF Earlier

\* push_back puts an order behind all others
LEMMA AppendKeepsOrder ==
  ASSUME NEW S, NEW q \in Seq(S), NEW z \in S, NEW x, NEW y, Earlier(Append(q, z), x, y)
  PROVE  Earlier(q, x, y) \/ (Has(q, x) /\ y = z)
<1>1. /\ Append(q, z) \in Seq(S)
      /\ Len(Append(q, z)) = Len(q) + 1
      /\ \A i \in 1..Len(q) : Append(q, z)[i] = q[i]
      /\ Append(q, z)[Len(q) + 1] = z
  BY AppendProperties
<1>2. /\ Len(q) \in Nat /\ DOMAIN q = 1..Len(q)
      /\ DOMAIN Append(q, z) = 1..(Len(q) + 1)
  BY <1>1, LenProperties
<1>3. PICK i, j \in 1..(Len(q) + 1) : i < j /\ Append(q, z)[i] = x /\ Append(q, z)[j] = y
  BY <1>2 DEF Earlier
<1>4. i \in 1..Len(q) /\ q[i] = x
  BY <1>1, <1>2, <1>3
<1>5. CASE j = Len(q) + 1
  BY <1>1, <1>2, <1>3, <1>4, <1>5 DEF Has
<1>6. CASE j # Len(q) + 1
  <2>1. j \in 1..Len(q) /\ q[j] = y
    BY <1>1, <1>2, <1>3, <1>6
  <2> QED
    BY <1>2, <1>3, <1>4, <2>1 DEF Earlier
<1> QED
  BY <1>5, <1>6

\* The front of a list is earlier than the rest of it.
LEMMA HeadFirst ==
  ASSUME NEW S, NEW q \in Seq(S), NEW y, Has(q, y), y # Head(q)
  PROVE  Earlier(q, Head(q), y)
<1>1. PICK j \in DOMAIN q : q[j] = y
  BY DEF Has
<1>2. Len(q) \in Nat /\ DOMAIN q = 1..Len(q)
  BY LenProperties
<1>3. q # <<>> /\ Head(q) = q[1]
  BY <1>1, <1>2, EmptySeq, HeadTailProperties
<1>4. 1 \in DOMAIN q /\ 1 < j
  BY <1>1, <1>2, <1>3
<1> QED
  BY <1>1, <1>3, <1>4 DEF Earlier

\* After erase two orders are in a row exactly as before, but for the erased one.
LEMMA RemoveOrder ==
  ASSUME NEW S, NEW q \in Seq(S), Distinct(q), NEW k \in DOMAIN q, NEW x, NEW y
  PROVE  Earlier(RemoveAt(q, k), x, y) <=> Earlier(q, x, y) /\ x # q[k] /\ y # q[k]
<1>1. PICK r : r = RemoveAt(q, k)
  OBVIOUS
<1>2. /\ DOMAIN r = 1..(Len(q) - 1)
      /\ \A i \in 1..(Len(q) - 1) : r[i] = IF i < k THEN q[i] ELSE q[i + 1]
  BY <1>1, RemoveElements
<1>3. Len(q) \in Nat /\ DOMAIN q = 1..Len(q) /\ k \in 1..Len(q)
  BY LenProperties
<1>4. ASSUME Earlier(r, x, y) PROVE Earlier(q, x, y) /\ x # q[k] /\ y # q[k]
  <2>1. Earlier(q, x, y)
    BY <1>1, <1>4, RemoveKeepsOrder
  <2>2. Has(r, x) /\ Has(r, y)
    BY <1>4 DEF Earlier, Has
  <2> QED
    BY <1>1, <2>1, <2>2, RemoveList
<1>5. ASSUME Earlier(q, x, y), x # q[k], y # q[k] PROVE Earlier(r, x, y)
  <2>1. PICK i, j \in DOMAIN q : i < j /\ q[i] = x /\ q[j] = y
    BY <1>5 DEF Earlier
  <2>2. i # k /\ j # k
    BY <1>5, <2>1
  <2> DEFINE to(n) == IF n < k THEN n ELSE n - 1
  <2>3. ASSUME NEW n \in DOMAIN q, n # k PROVE to(n) \in DOMAIN r /\ r[to(n)] = q[n]
    <3>1. CASE n < k
      BY <1>2, <1>3, <3>1
    <3>2. CASE n > k
      <4>1. n - 1 \in 1..(Len(q) - 1) /\ ~(n - 1 < k) /\ n - 1 + 1 = n
        BY <1>3, <3>2
      <4>2. r[n - 1] = q[n - 1 + 1]
        BY <1>2, <4>1
      <4>3. to(n) = n - 1
        BY <1>3, <3>2
      <4> QED
        BY <1>2, <4>1, <4>2, <4>3
    <3> QED
      BY <1>3, <2>3, <3>1, <3>2
  <2>4. to(i) < to(j)
    BY <1>3, <2>1, <2>2
  <2>5. /\ to(i) \in DOMAIN r /\ r[to(i)] = x
        /\ to(j) \in DOMAIN r /\ r[to(j)] = y
    BY <2>1, <2>2, <2>3
  <2> HIDE DEF to
  <2> QED
    BY <2>4, <2>5 DEF Earlier
<1> QED
  BY <1>1, <1>4, <1>5

\* After pop_front two orders are in a row exactly as before, but for the first.
LEMMA TailOrder ==
  ASSUME NEW S, NEW q \in Seq(S), q # <<>>, Distinct(q), NEW x, NEW y
  PROVE  Earlier(Tail(q), x, y) <=> Earlier(q, x, y) /\ x # Head(q) /\ y # Head(q)
<1>1. Len(q) \in Nat /\ DOMAIN q = 1..Len(q) /\ Len(q) >= 1 /\ Head(q) = q[1]
  BY LenProperties, EmptySeq, HeadTailProperties
<1>2. /\ Len(Tail(q)) = Len(q) - 1 /\ Tail(q) \in Seq(S)
      /\ \A i \in 1..Len(Tail(q)) : Tail(q)[i] = q[i + 1]
  BY HeadTailProperties
<1>3. DOMAIN Tail(q) = 1..(Len(q) - 1)
  BY <1>2, LenProperties
<1>4. ASSUME Earlier(Tail(q), x, y) PROVE Earlier(q, x, y) /\ x # Head(q) /\ y # Head(q)
  <2>1. Earlier(q, x, y)
    BY <1>4, TailKeepsOrder
  <2>2. Has(Tail(q), x) /\ Has(Tail(q), y)
    BY <1>4 DEF Earlier, Has
  <2> QED
    BY <2>1, <2>2, TailList
<1>5. ASSUME Earlier(q, x, y), x # Head(q), y # Head(q) PROVE Earlier(Tail(q), x, y)
  <2>1. PICK i, j \in 1..Len(q) : i < j /\ q[i] = x /\ q[j] = y
    BY <1>1, <1>5 DEF Earlier
  <2>2. i # 1 /\ j # 1
    BY <1>1, <1>5, <2>1
  <2>3. /\ i - 1 \in 1..(Len(q) - 1) /\ j - 1 \in 1..(Len(q) - 1) /\ i - 1 < j - 1
        /\ i - 1 + 1 = i /\ j - 1 + 1 = j
    BY <1>1, <2>1, <2>2
  <2>4. Tail(q)[i - 1] = q[i - 1 + 1] /\ Tail(q)[j - 1] = q[j - 1 + 1]
    BY <1>2, <2>3
  <2> QED
    BY <1>3, <2>1, <2>3, <2>4 DEF Earlier
<1> QED
  BY <1>4, <1>5

\* After push_back the new order is behind all others.
LEMMA AppendOrder ==
  ASSUME NEW S, NEW q \in Seq(S), NEW z \in S, NEW x, NEW y
  PROVE  Earlier(Append(q, z), x, y) <=> Earlier(q, x, y) \/ (Has(q, x) /\ y = z)
<1>1. /\ Append(q, z) \in Seq(S)
      /\ Len(Append(q, z)) = Len(q) + 1
      /\ \A i \in 1..Len(q) : Append(q, z)[i] = q[i]
      /\ Append(q, z)[Len(q) + 1] = z
  BY AppendProperties
<1>2. /\ Len(q) \in Nat /\ DOMAIN q = 1..Len(q)
      /\ DOMAIN Append(q, z) = 1..(Len(q) + 1)
  BY <1>1, LenProperties
<1>3. ASSUME Earlier(q, x, y) PROVE Earlier(Append(q, z), x, y)
  <2>1. PICK i, j \in 1..Len(q) : i < j /\ q[i] = x /\ q[j] = y
    BY <1>2, <1>3 DEF Earlier
  <2> QED
    BY <1>1, <1>2, <2>1 DEF Earlier
<1>4. ASSUME Has(q, x), y = z PROVE Earlier(Append(q, z), x, y)
  <2>1. PICK i \in 1..Len(q) : q[i] = x
    BY <1>2, <1>4 DEF Has
  <2>2. i < Len(q) + 1 /\ Append(q, z)[i] = x /\ Append(q, z)[Len(q) + 1] = y
    BY <1>1, <1>2, <1>4, <2>1
  <2> QED
    BY <1>2, <2>1, <2>2 DEF Earlier
<1> QED
  BY <1>3, <1>4, AppendKeepsOrder

-----------------------------------------------------------------------------
(***************************************************************************)
(* What is needed of the engine's state: the order of the look-up and that *)
(* behind it agree, and what was matched of an order, what is left of it   *)
(* and the status tell the same.                                           *)
(***************************************************************************)
PlaceInv ==
    \A id \in OrderIds : lookup[id] # Nowhere =>
        resting[id].side = lookup[id].side /\ resting[id].price = lookup[id].price

\* An order in the book is on the side and at the price its location says.
LEMMA PlaceStep ==
  ASSUME IInv, PlaceInv, [Next]_vars
  PROVE  PlaceInv'
<1>1. CASE UNCHANGED bookVars
  BY <1>1 DEF PlaceInv, bookVars
<1>2. ASSUME NEW id \in OrderIds, lookup[id] # Nowhere, Erase(id) PROVE PlaceInv'
  <2>1. /\ \A x \in OrderIds : lookup'[x] = IF x = id THEN Nowhere ELSE lookup[x]
        /\ \A x \in OrderIds \ {id} : resting'[x] = resting[x]
    BY <1>2, EraseStep DEF Erase, IInv, TypeOK
  <2> QED
    BY <2>1 DEF PlaceInv
<1>3. CASE Rest
  <2>1. PICK id : id = incoming.id
    OBVIOUS
  <2>2. incoming \in Order /\ id \in OrderIds /\ lookup[id] = Nowhere
    BY <1>3, <2>1 DEF Rest, IInv, TypeOK, Order, IdInv
  <2>3. /\ \A x \in OrderIds \ {id} : lookup'[x] = lookup[x] /\ resting'[x] = resting[x]
        /\ resting'[id] = incoming
        /\ lookup'[id].side = incoming.side /\ lookup'[id].price = incoming.price
    BY <1>3, <2>1, <2>2 DEF Rest, IInv, TypeOK
  <2> QED
    BY <2>3 DEF PlaceInv
<1>4. CASE ExecuteTrade
  <2>1. PICK s, p, m, fill : Trade(s, p, m, fill) /\ ExecuteTradeAt(p)
    BY <1>4, TradeIs
  <2>2. Traded(s, p, m, fill)
    BY <2>1, TradeChanges
  <2>3. m \in OrderIds /\ lookup[m] # Nowhere /\ resting[m] \in Order
    BY <2>1 DEF Trade
  <2>4. lookup'[m] # Nowhere =>
            resting'[m] = [resting[m] EXCEPT !.remaining = @ - fill] /\ lookup'[m] = lookup[m]
    BY <2>2 DEF Traded
  <2>5. lookup'[m] # Nowhere =>
            resting'[m].side = lookup'[m].side /\ resting'[m].price = lookup'[m].price
    BY <2>3, <2>4 DEF PlaceInv, Order
  <2>6. \A x \in OrderIds \ {m} : lookup'[x] = lookup[x] /\ resting'[x] = resting[x]
    BY <2>2 DEF Traded
  <2> QED
    BY <2>5, <2>6 DEF PlaceInv
<1> QED
  BY <1>1, <1>2, <1>3, <1>4, BookSteps

\* Between messages nothing is being processed.
IdleInv == phase = "idle" => incoming = NoOrder /\ request = NoRequest

\* What came in is what was executed and what is left.
QuantityInv ==
    phase \in {"match", "reply"} =>
        request.quantity > 0 /\ executed + incoming.remaining = request.quantity

\* The status is what the match made it, or that of a killed order.
StatusInv ==
    phase = "reply" =>
        \/ status = FromMatch
        \/ FillOrKill(incoming) /\ status = "Rejected" /\ executed = 0

RoundInv == IdleInv /\ QuantityInv /\ StatusInv

\* A message that is accepted starts with nothing executed.
LEMMA EntersRound ==
  ASSUME NEW order, NEW req, AddOrder(order, req), req.quantity = order.remaining,
         req.quantity \in Int, req.quantity > 0
  PROVE  RoundInv'
<1>1. /\ incoming' = order /\ request' = req /\ executed' = 0
      /\ phase' \in {"match", "reply"}
      /\ phase' = "reply" => FillOrKill(order) /\ status' = "Rejected"
  BY DEF AddOrder, FillOrKill
<1>2. IdleInv'
  BY <1>1 DEF IdleInv
<1>3. QuantityInv'
  BY <1>1 DEF QuantityInv
<1>4. StatusInv'
  BY <1>1 DEF StatusInv, FillOrKill
<1> QED
  BY <1>2, <1>3, <1>4 DEF RoundInv

\* Every step keeps the account of the order being matched.
LEMMA RoundStep ==
  ASSUME IInv, RoundInv, [Next]_vars
  PROVE  RoundInv'
<1> USE Constants
<1>1. ASSUME NEW type \in OrderTypes, NEW tif \in TimesInForce, NEW side \in Sides,
             NEW price \in Prices, NEW quantity \in Quantities, NEW conn \in Conns,
             ProcessAdd(type, tif, side, price, quantity, conn)
      PROVE  RoundInv'
  <2>1. quantity \in Int
    BY BookAssumption
  <2>2. CASE quantity <= 0
    BY <1>1, <2>2 DEF ProcessAdd, Throw, RoundInv, IdleInv, QuantityInv, StatusInv
  <2>3. CASE quantity > 0
    <3>1. PICK order, req : /\ AddOrder(order, req)
                            /\ req.quantity = quantity /\ order.remaining = quantity
      BY <1>1, <2>1, <2>3 DEF ProcessAdd
    <3> QED
      BY <2>1, <2>3, <3>1, EntersRound
  <2> QED
    BY <2>1, <2>2, <2>3
<1>2. ASSUME NEW id \in OrderIds, NEW price \in Prices, NEW quantity \in Quantities,
             NEW conn \in Conns, ProcessModify(id, price, quantity, conn)
      PROVE  RoundInv'
  <2>1. quantity \in Int /\ quantity > 0 /\ resting[id] \in Order
    BY <1>2, BookAssumption DEF ProcessModify, IInv, RestingInv
  <2>2. PICK order, req : /\ order = [resting[id] EXCEPT !.price = price, !.remaining = quantity]
                          /\ req = [kind |-> "modify", quantity |-> quantity, conn |-> conn]
    OBVIOUS
  <2>3. AddOrder(order, req)
    BY <1>2, <2>2, Zenon DEF ProcessModify
  <2>4. req.quantity = quantity /\ order.remaining = quantity
    BY <2>1, <2>2 DEF Order
  <2> QED
    BY <2>1, <2>3, <2>4, EntersRound
<1>3. ASSUME NEW event, Answer(event) PROVE RoundInv'
  BY <1>3 DEF Answer, RoundInv, IdleInv, QuantityInv, StatusInv
<1>4. ASSUME NEW id \in OrderIds, NEW quantity \in Quantities, ModifyThrows(id, quantity)
      PROVE  RoundInv'
  BY <1>4 DEF ModifyThrows, Throw, RoundInv, IdleInv, QuantityInv, StatusInv
<1>5. ASSUME NEW id \in OrderIds, NEW conn \in Conns, ProcessCancel(id, conn)
      PROVE  RoundInv'
  BY <1>5 DEF ProcessCancel, RoundInv, IdleInv, QuantityInv, StatusInv
<1>6. CASE ExecuteTrade
  <2>1. PICK s, p, m, fill : Trade(s, p, m, fill) /\ ExecuteTradeAt(p)
    BY <1>6, TradeIs
  <2>2. executed' = executed + fill /\ incoming' = [incoming EXCEPT !.remaining = @ - fill]
    <3>1. Traded(s, p, m, fill)
      BY <2>1, TradeChanges
    <3> QED
      BY <3>1 DEF Traded
  <2>3. /\ incoming \in Order /\ incoming.remaining \in Nat /\ executed \in Nat /\ fill \in Nat
        /\ phase = "match" /\ phase' = "match" /\ request' = request
    BY <1>6, <2>1 DEF ExecuteTrade, IInv, TypeOK, Order, Trade
  <2>4. incoming'.remaining = incoming.remaining - fill
    BY <2>2, <2>3 DEF Order
  <2>5. QuantityInv'
    BY <2>2, <2>3, <2>4 DEF RoundInv, QuantityInv
  <2> QED
    BY <2>3, <2>5 DEF RoundInv, IdleInv, StatusInv
<1>7. CASE Settle
  BY <1>7 DEF Settle, FromMatch, RoundInv, IdleInv, QuantityInv, StatusInv
<1>8. CASE Rest
  <2>1. lookup[incoming.id] = Nowhere
    BY <1>8 DEF Rest, IInv, IdInv
  <2>2. /\ phase = "match" /\ phase' = "reply" /\ status' = FromMatch
        /\ UNCHANGED <<request, incoming, executed>>
    BY <1>8, <2>1 DEF Rest
  <2> QED
    BY <2>2 DEF FromMatch, RoundInv, IdleInv, QuantityInv, StatusInv
<1>9. CASE RestThrows
  BY <1>9 DEF RestThrows, Throw, RoundInv, IdleInv, QuantityInv, StatusInv
<1>10. CASE UNCHANGED vars
  BY <1>10 DEF vars, FromMatch, FillOrKill, RoundInv, IdleInv, QuantityInv, StatusInv
<1>11. CASE Receive
  BY <1>1, <1>2, <1>3, <1>4, <1>5, <1>11, Zenon DEF Receive, ModifyUnknown, CancelUnknown
<1>12. CASE Process
  BY <1>3, <1>6, <1>7, <1>8, <1>9, <1>12, Zenon DEF Process, Reply
<1> QED
  BY <1>10, <1>11, <1>12 DEF Next

-----------------------------------------------------------------------------
(***************************************************************************)
(* The book that the engine keeps, as PriceTimeBook sees it.               *)
(***************************************************************************)
\* The sums of the two modules are the same.
LEMMA SameSum ==
  ASSUME NEW f, NEW S
  PROVE  Ideal!SumFunctionOnSet(f, S) = SumFunctionOnSet(f, S)
<1>1. Ideal!SumFunctionOnSet(f, S) = (CHOOSE h : IsSum(h, f, S))[S]
  BY Zenon DEF Ideal!SumFunctionOnSet, Ideal!FoldFunctionOnSet, Ideal!MapThenFoldSet, IsSum, Pick
<1> QED
  BY <1>1, SumIs

\* What the orders at a price have left is the total of the level.
DepthIs ==
    \A s \in Sides, p \in Prices : Ideal!Quantity(Book, Ideal!At(Book, s, p)) = total[s][p]

LEMMA DepthHolds == IInv /\ PlaceInv /\ TotalsMatchOrders => DepthIs
<1> SUFFICES ASSUME IInv, PlaceInv, TotalsMatchOrders, NEW s \in Sides, NEW p \in Prices
             PROVE  Ideal!Quantity(Book, Ideal!At(Book, s, p)) = total[s][p]
  BY DEF DepthIs
<1>1. PICK ids : ids = Ids(s, p)
  OBVIOUS
<1>2. /\ IsFiniteSet(ids) /\ ids \subseteq OrderIds
      /\ \A x \in OrderIds : x \in ids <=> lookup[x] = [side |-> s, price |-> p]
  BY <1>1, LevelIds
<1>3. ASSUME NEW x \in OrderIds
      PROVE  /\ x \in ids => lookup[x] # Nowhere /\ resting[x].side = s /\ resting[x].price = p
             /\ lookup[x] # Nowhere /\ resting[x].side = s /\ resting[x].price = p => x \in ids
  <2>1. ASSUME x \in ids
        PROVE  lookup[x] # Nowhere /\ resting[x].side = s /\ resting[x].price = p
    BY <1>2, <2>1, NoneDistinct DEF PlaceInv
  <2>2. ASSUME lookup[x] # Nowhere, resting[x].side = s, resting[x].price = p
        PROVE  x \in ids
    BY <1>2, <2>2, Located DEF PlaceInv, IInv
  <2> QED
    BY <2>1, <2>2
<1>4. DOMAIN Book = InBook /\ \A x \in InBook : Book[x] = resting[x]
  BY DEF Book
<1>5. ids = Ideal!At(Book, s, p)
  <2>1. \A x \in OrderIds : x \in InBook <=> lookup[x] # Nowhere
    BY DEF InBook
  <2>2. InBook \subseteq OrderIds
    BY DEF InBook
  <2> QED
    BY <1>2, <1>3, <1>4, <2>1, <2>2 DEF Ideal!At
<1>6. PICK g : g = [x \in InBook |-> Book[x].remaining]
  OBVIOUS
<1>7. \A x \in ids : g[x] = OpenQuantity[x]
  <2>1. ASSUME NEW x \in ids PROVE g[x] = OpenQuantity[x]
    <3>1. x \in InBook /\ lookup[x] # Nowhere
      BY <1>2, <1>3, <2>1 DEF InBook
    <3> QED
      BY <1>2, <1>4, <1>6, <3>1, OpenTypes
  <2> QED
    BY <2>1
<1>8. SumFunctionOnSet(g, ids) = SumFunctionOnSet(OpenQuantity, ids)
  BY <1>2, <1>7, SumSame
<1>9. total[s][p] = SumFunctionOnSet(OpenQuantity, ids)
  BY <1>1 DEF TotalsMatchOrders, Ids
<1>10. Ideal!Quantity(Book, ids) = SumFunctionOnSet(g, ids)
  BY <1>4, <1>6, SameSum DEF Ideal!Quantity
<1> QED
  BY <1>5, <1>8, <1>9, <1>10

\* One order is ahead of another when it is earlier in the same list.
AheadIs ==
    /\ Ahead \subseteq OrderIds \X OrderIds
    /\ \A x, y \in OrderIds :
           <<x, y>> \in Ahead <=> \E s \in Sides, p \in Prices : Earlier(queue[s][p], x, y)

LEMMA AheadHolds == IInv => AheadIs
<1> SUFFICES ASSUME IInv PROVE AheadIs
  OBVIOUS
<1>1. InBook \subseteq OrderIds
  BY DEF InBook
<1>2. Ahead \subseteq OrderIds \X OrderIds
  BY <1>1 DEF Ahead
<1>3. ASSUME NEW x \in OrderIds, NEW y \in OrderIds
      PROVE  <<x, y>> \in Ahead <=>
                 \E s \in Sides, p \in Prices : Earlier(queue[s][p], x, y)
  <2>1. <<x, y>> \in Ahead => \E s \in Sides, p \in Prices : Earlier(queue[s][p], x, y)
    BY DEF Ahead, Earlier
  <2>2. ASSUME NEW s \in Sides, NEW p \in Prices, Earlier(queue[s][p], x, y)
        PROVE  <<x, y>> \in Ahead
    <3>1. Has(queue[s][p], x) /\ Has(queue[s][p], y)
      BY <2>2 DEF Earlier, Has
    <3>2. lookup[x] = [side |-> s, price |-> p] /\ lookup[y] = [side |-> s, price |-> p]
      BY <3>1 DEF IInv, LookupInv
    <3>3. x \in InBook /\ y \in InBook
      BY <3>2, NoneDistinct DEF InBook
    <3> QED
      BY <2>2, <3>3 DEF Ahead, Earlier
  <2> QED
    BY <2>1, <2>2
<1> QED
  BY <1>2, <1>3 DEF AheadIs

\* The same, after a step.
Shape == DepthIs /\ AheadIs

LEMMA ShapeHolds == IInv /\ PlaceInv /\ TotalsMatchOrders => Shape
BY DepthHolds, AheadHolds DEF Shape

\* Taking an order out of its list takes it away, and keeps the order of the rest.
TakenOut(id, s, p, rest) ==
    /\ id \in OrderIds /\ s \in Sides /\ p \in Prices /\ lookup[id] = [side |-> s, price |-> p]
    /\ \A x \in OrderIds : lookup'[x] = IF x = id THEN Nowhere ELSE lookup[x]
    /\ \A x \in OrderIds \ {id} : resting'[x] = resting[x]
    /\ queue' = [queue EXCEPT ![s][p] = rest]
    /\ \A x, y : Earlier(rest, x, y) <=> Earlier(queue[s][p], x, y) /\ x # id /\ y # id

LEMMA OutLeaves ==
  ASSUME IInv, Shape, Shape', NEW id, NEW s, NEW p, NEW rest, TakenOut(id, s, p, rest)
  PROVE  Ideal!Leaves(id)
<1>1. /\ id \in OrderIds /\ s \in Sides /\ p \in Prices /\ lookup[id] = [side |-> s, price |-> p]
      /\ \A x \in OrderIds : lookup'[x] = IF x = id THEN Nowhere ELSE lookup[x]
      /\ \A x \in OrderIds \ {id} : resting'[x] = resting[x]
      /\ queue' = [queue EXCEPT ![s][p] = rest]
      /\ \A x, y : Earlier(rest, x, y) <=> Earlier(queue[s][p], x, y) /\ x # id /\ y # id
  BY Zenon DEF TakenOut
<1>2. InBook' = InBook \ {id} /\ InBook \subseteq OrderIds
  BY <1>1 DEF InBook
<1>3. Book' = [x \in InBook \ {id} |-> resting[x]]
  <2>1. Book' = [x \in InBook' |-> resting'[x]]
    BY DEF Book
  <2> QED
    BY <1>1, <1>2, <2>1
<1>4. DOMAIN Book = InBook /\ \A x \in InBook : Book[x] = resting[x]
  BY DEF Book
<1>5. Book' = [x \in DOMAIN Book \ {id} |-> Book[x]]
  BY <1>3, <1>4
<1>6. \A t \in Sides, r \in Prices :
          queue'[t][r] = IF t = s /\ r = p THEN rest ELSE queue[t][r]
  BY <1>1 DEF IInv, TypeOK
<1>7. ASSUME NEW t \in Sides, NEW r \in Prices, ~(t = s /\ r = p)
      PROVE  ~Has(queue[t][r], id)
  <2>1. [side |-> t, price |-> r] # [side |-> s, price |-> p]
    <3>1. \/ [side |-> t, price |-> r].side # [side |-> s, price |-> p].side
          \/ [side |-> t, price |-> r].price # [side |-> s, price |-> p].price
      BY <1>7
    <3> QED
      BY <3>1
  <2> QED
    BY <1>1, <2>1 DEF IInv, LookupInv
<1>8. ASSUME NEW t \in Sides, NEW r \in Prices, NEW x \in OrderIds, NEW y \in OrderIds
      PROVE  Earlier(queue'[t][r], x, y) <=> Earlier(queue[t][r], x, y) /\ x # id /\ y # id
  <2>1. CASE t = s /\ r = p
    BY <1>1, <1>6, <2>1
  <2>2. CASE ~(t = s /\ r = p)
    <3>1. queue'[t][r] = queue[t][r] /\ ~Has(queue[t][r], id)
      BY <1>6, <1>7, <2>2
    <3>2. Earlier(queue[t][r], x, y) => x # id /\ y # id
      BY <3>1 DEF Earlier, Has
    <3> QED
      BY <3>1, <3>2
  <2> QED
    BY <2>1, <2>2
<1>9. ASSUME NEW x \in OrderIds, NEW y \in OrderIds
      PROVE  <<x, y>> \in Ahead' <=> <<x, y>> \in Ahead /\ x # id /\ y # id
  <2>1. <<x, y>> \in Ahead' <=> \E t \in Sides, r \in Prices : Earlier(queue'[t][r], x, y)
    BY Zenon DEF Shape, AheadIs
  <2>2. <<x, y>> \in Ahead <=> \E t \in Sides, r \in Prices : Earlier(queue[t][r], x, y)
    BY Zenon DEF Shape, AheadIs
  <2> QED
    BY <1>8, <2>1, <2>2, Zenon
<1>10. Ahead' = { pair \in Ahead : id \notin {pair[1], pair[2]} }
  <2>1. Ahead \subseteq OrderIds \X OrderIds /\ Ahead' \subseteq OrderIds \X OrderIds
    BY DEF Shape, AheadIs
  <2> QED
    BY <1>9, <2>1
<1> QED
  BY <1>5, <1>10 DEF Ideal!Leaves

\* erase does so,
LEMMA EraseLeaves ==
  ASSUME IInv, Shape, Shape', NEW id \in OrderIds, lookup[id] # Nowhere, Erase(id)
  PROVE  Ideal!Leaves(id)
<1>1. /\ \A x \in OrderIds : lookup'[x] = IF x = id THEN Nowhere ELSE lookup[x]
      /\ \A x \in OrderIds \ {id} : resting'[x] = resting[x]
  BY EraseStep DEF Erase, IInv, TypeOK
<1>2. PICK s \in Sides, p \in Prices :
          lookup[id] = [side |-> s, price |-> p] /\ s = lookup[id].side /\ p = lookup[id].price
  BY Located DEF IInv
<1>3. PICK q : q = queue[s][p]
  OBVIOUS
<1>4. q \in Seq(OrderIds) /\ Has(q, id) /\ Distinct(q)
  BY <1>2, <1>3 DEF IInv, TypeOK, LookupInv, LevelInv
<1>5. PICK k : k = IndexIn(q, id)
  OBVIOUS
<1>6. k \in DOMAIN q /\ q[k] = id
  BY <1>4, <1>5 DEF IndexIn, Has
<1>7. PICK rest : rest = RemoveAt(q, k)
  OBVIOUS
<1>8. queue' = [queue EXCEPT ![s][p] = rest]
  BY <1>2, <1>3, <1>5, <1>7 DEF Erase, Without
<1>9. \A x, y : Earlier(rest, x, y) <=> Earlier(q, x, y) /\ x # id /\ y # id
  BY <1>4, <1>6, <1>7, RemoveOrder
<1>10. TakenOut(id, s, p, rest)
  BY <1>1, <1>2, <1>3, <1>8, <1>9, Zenon DEF TakenOut
<1> QED
  BY <1>10, OutLeaves

\* ... and what the level then holds is announced.
LEMMA EraseShown ==
  ASSUME IInv, PlaceInv, TotalsMatchOrders', Shape',
         NEW id \in OrderIds, lookup[id] # Nowhere, Erase(id)
  PROVE  Erased(id) = Ideal!Shown(resting[id].side, resting[id].price)
<1>1. PICK s \in Sides, p \in Prices :
          lookup[id] = [side |-> s, price |-> p] /\ s = lookup[id].side /\ p = lookup[id].price
  BY Located DEF IInv
<1>2. resting[id].side = s /\ resting[id].price = p
  BY <1>1 DEF PlaceInv
<1>3. PICK q : q = queue[s][p] /\ q \in Seq(OrderIds) /\ Has(q, id)
  BY <1>1 DEF IInv, TypeOK, LookupInv
<1>4. PICK k : k = IndexIn(q, id) /\ k \in DOMAIN q
  BY <1>3 DEF IndexIn, Has
<1>5. PICK rest : rest = RemoveAt(q, k)
  OBVIOUS
<1>6. /\ queue' = [queue EXCEPT ![s][p] = rest]
      /\ total' = [total EXCEPT ![s][p] = total[s][p] - resting[id].remaining]
  BY <1>1, <1>3, <1>4, <1>5 DEF Erase, Without
<1>7. queue'[s][p] = rest /\ total'[s][p] = total[s][p] - resting[id].remaining
  BY <1>6 DEF IInv, TypeOK
<1>8. Len(q) = 1 => total'[s][p] = 0
  <2> SUFFICES ASSUME Len(q) = 1 PROVE total'[s][p] = 0
    OBVIOUS
  <2>1. DOMAIN rest = 1..(Len(q) - 1)
    BY <1>3, <1>4, <1>5, RemoveElements
  <2>2. DOMAIN rest = {}
    BY <2>1
  <2>3. ToSet(rest) = {}
    BY <2>2 DEF ToSet
  <2>4. total'[s][p] = SumFunctionOnSet(OpenQuantity', ToSet(rest))
    BY <1>7 DEF TotalsMatchOrders
  <2>5. PICK open : open = OpenQuantity'
    OBVIOUS
  <2>6. SumFunctionOnSet(open, {}) = 0
    BY SumRec, FS_EmptySet
  <2> QED
    BY <2>3, <2>4, <2>5, <2>6
<1>9. Erased(id) = BookUpdate(s, p, total'[s][p])
  BY <1>1, <1>3, <1>7, <1>8 DEF Erased
<1>10. Ideal!Quantity(Book', Ideal!At(Book', s, p)) = total'[s][p]
  BY DEF Shape, DepthIs
<1>11. Ideal!Shown(s, p) = BookUpdate(s, p, total'[s][p])
  BY <1>10 DEF Ideal!Shown, Ideal!BookUpdate, BookUpdate
<1> QED
  BY <1>2, <1>9, <1>11

-----------------------------------------------------------------------------
(***************************************************************************)
(* What a taker can get: the orders it accepts, counted by level.          *)
(***************************************************************************)
\* The sum over two sets apart.
LEMMA SumUnion ==
  ASSUME NEW f, NEW A, NEW B, IsFiniteSet(A), IsFiniteSet(B), A \cap B = {},
         \A x \in A \union B : f[x] \in Int
  PROVE  SumFunctionOnSet(f, A \union B) = SumFunctionOnSet(f, A) + SumFunctionOnSet(f, B)
<1> DEFINE Bad == { T \in SUBSET A : SumFunctionOnSet(f, T \union B)
                                       # SumFunctionOnSet(f, T) + SumFunctionOnSet(f, B) }
<1>1. SUFFICES ASSUME Bad # {} PROVE FALSE
  OBVIOUS
<1>2. Bad \subseteq FiniteSubsetsOf(A)
  BY FiniteParts
<1> HIDE DEF Bad
<1>3. PICK T \in Bad : \A V \in SUBSET T : V # T => V \notin Bad
  BY <1>1, <1>2, LeastSet
<1> USE DEF Bad
<1>4. T \in SUBSET A /\ IsFiniteSet(T)
  BY <1>3, FiniteParts
<1>5. SumFunctionOnSet(f, B) \in Int
  BY SumInt
<1>6. T # {}
  <2> SUFFICES ASSUME T = {} PROVE FALSE
    OBVIOUS
  <2>1. T \union B = B /\ SumFunctionOnSet(f, T) = 0
    BY <1>4, SumRec
  <2> QED
    BY <1>3, <1>5, <2>1
<1>7. PICK x \in T : TRUE
  BY <1>6
<1>8. PICK V, U, W : V = T \ {x} /\ U = V \union B /\ W = T \union B
  OBVIOUS
<1>9. V \in SUBSET T /\ V # T /\ V \in SUBSET A
  BY <1>4, <1>7, <1>8
<1>10. SumFunctionOnSet(f, U) = SumFunctionOnSet(f, V) + SumFunctionOnSet(f, B)
  BY <1>3, <1>8, <1>9
<1>11. SumFunctionOnSet(f, W) # SumFunctionOnSet(f, T) + SumFunctionOnSet(f, B)
  BY <1>3, <1>8
<1> HIDE DEF Bad
<1>12. IsFiniteSet(W) /\ x \in W /\ W \ {x} = U /\ W \subseteq A \union B
  BY <1>4, <1>7, <1>8, FS_Union
<1>13. \A y \in W : f[y] \in Int
  BY <1>12
<1>14. SumFunctionOnSet(f, W) = f[x] + SumFunctionOnSet(f, U)
  BY <1>12, <1>13, SumSplit
<1>15. \A y \in T : f[y] \in Int
  BY <1>4
<1>16. SumFunctionOnSet(f, T) = f[x] + SumFunctionOnSet(f, V)
  BY <1>4, <1>7, <1>8, <1>15, SumSplit
<1>17. SumFunctionOnSet(f, V) \in Int
  BY <1>4, <1>8, <1>15, SumInt, FiniteParts
<1>18. f[x] \in Int
  BY <1>7, <1>15
<1> QED
  BY <1>5, <1>10, <1>11, <1>14, <1>16, <1>17, <1>18

\* The sum of the sums over groups apart.
Grouped(f, sums, group, S) ==
    /\ \A p \in S : /\ IsFiniteSet(group[p]) /\ sums[p] = SumFunctionOnSet(f, group[p])
                    /\ \A x \in group[p] : f[x] \in Int
    /\ \A p, r \in S : p # r => group[p] \cap group[r] = {}

LEMMA SumGroups ==
  ASSUME NEW f, NEW sums, NEW group, NEW S, IsFiniteSet(S), Grouped(f, sums, group, S)
  PROVE  SumFunctionOnSet(sums, S) = SumFunctionOnSet(f, UNION { group[p] : p \in S })
<1> DEFINE All(T) == UNION { group[p] : p \in T }
           Bad == { T \in SUBSET S : \/ ~IsFiniteSet(All(T))
                                     \/ SumFunctionOnSet(sums, T) # SumFunctionOnSet(f, All(T)) }
<1>1. SUFFICES ASSUME Bad # {} PROVE FALSE
  OBVIOUS
<1>2. Bad \subseteq FiniteSubsetsOf(S)
  BY FiniteParts
<1> HIDE DEF Bad
<1>3. PICK T \in Bad : \A V \in SUBSET T : V # T => V \notin Bad
  BY <1>1, <1>2, LeastSet
<1> USE DEF Bad
<1>4. T \in SUBSET S /\ IsFiniteSet(T)
  BY <1>3, FiniteParts
<1>5. T # {}
  <2> SUFFICES ASSUME T = {} PROVE FALSE
    OBVIOUS
  <2>1. All(T) = {}
    OBVIOUS
  <2>2. SumFunctionOnSet(sums, {}) = 0 /\ SumFunctionOnSet(f, {}) = 0 /\ IsFiniteSet({})
    BY SumRec, FS_EmptySet
  <2> HIDE DEF All
  <2> QED
    BY <1>3, <2>1, <2>2
<1>6. PICK p \in T : TRUE
  BY <1>5
<1>7. PICK V, A, B, C : V = T \ {p} /\ A = All(V) /\ B = group[p] /\ C = All(T)
  OBVIOUS
<1>8. V \in SUBSET T /\ V # T /\ V \in SUBSET S /\ IsFiniteSet(V)
  BY <1>4, <1>6, <1>7, FiniteParts
<1>9. C = B \union A
  BY <1>6, <1>7
<1>10. IsFiniteSet(A) /\ SumFunctionOnSet(sums, V) = SumFunctionOnSet(f, A)
  BY <1>3, <1>7, <1>8
<1>11. ~(IsFiniteSet(C) /\ SumFunctionOnSet(sums, T) = SumFunctionOnSet(f, C))
  BY <1>3, <1>7
<1> HIDE DEF Bad
<1>12. /\ IsFiniteSet(B) /\ sums[p] = SumFunctionOnSet(f, B)
       /\ \A x \in B : f[x] \in Int
  BY <1>4, <1>6, <1>7 DEF Grouped
<1>13. B \cap A = {} /\ \A x \in A : f[x] \in Int
  BY <1>4, <1>6, <1>7 DEF Grouped
<1> HIDE DEF All
<1>14. IsFiniteSet(C)
  BY <1>9, <1>10, <1>12, FS_Union
<1>15. SumFunctionOnSet(f, C) = SumFunctionOnSet(f, B) + SumFunctionOnSet(f, A)
  BY <1>9, <1>10, <1>12, <1>13, SumUnion
<1>16. \A r \in T : sums[r] \in Int
  BY <1>4, SumInt DEF Grouped
<1>17. SumFunctionOnSet(sums, T) = sums[p] + SumFunctionOnSet(sums, V)
  BY <1>4, <1>6, <1>7, <1>16, SumSplit
<1> QED
  BY <1>10, <1>11, <1>12, <1>14, <1>15, <1>17

\* What can_fully_fill counts is what the orders within the limit have left.
LEMMA ReachIs ==
  ASSUME IInv, PlaceInv, TotalsMatchOrders, LevelsFinite, NEW order \in Order
  PROVE  Depth(order) = Ideal!Quantity(Book, Ideal!Within(order))
<1>1. PICK s \in Sides : s = Opposite(order.side)
  BY OppositeSide DEF Order
<1>2. PICK reach : reach = Reachable(order)
  OBVIOUS
<1>3. reach \subseteq levels[s] /\ levels[s] \subseteq Prices /\ IsFiniteSet(reach)
  <2>1. reach \subseteq levels[s] /\ levels[s] \subseteq Prices /\ IsFiniteSet(levels[s])
    BY <1>1, <1>2 DEF Reachable, LevelsFinite, IInv, TypeOK
  <2> QED
    BY <2>1, FS_Subset
<1>4. PICK group : group = [p \in Prices |-> Ids(s, p)]
  OBVIOUS
<1>5. PICK open : open = OpenQuantity
  OBVIOUS
<1>6. /\ open \in [OrderIds -> Nat]
      /\ \A x \in OrderIds : lookup[x] # Nowhere => open[x] = resting[x].remaining
  BY <1>5, OpenTypes
<1>7. ASSUME NEW p \in Prices
      PROVE  /\ group[p] = Ids(s, p) /\ IsFiniteSet(group[p]) /\ group[p] \subseteq OrderIds
             /\ \A x \in OrderIds : x \in group[p] <=> lookup[x] = [side |-> s, price |-> p]
             /\ total[s][p] = SumFunctionOnSet(open, group[p])
  BY <1>4, <1>5, LevelIds DEF TotalsMatchOrders, Ids
<1>8. Grouped(open, total[s], group, reach)
  <2>1. \A p \in reach : /\ IsFiniteSet(group[p])
                         /\ total[s][p] = SumFunctionOnSet(open, group[p])
                         /\ \A x \in group[p] : open[x] \in Int
    <3>1. \A p \in reach : p \in Prices
      BY <1>3
    <3>2. \A p \in reach : /\ IsFiniteSet(group[p]) /\ group[p] \subseteq OrderIds
                           /\ total[s][p] = SumFunctionOnSet(open, group[p])
      BY <1>7, <3>1, Zenon
    <3>3. \A x \in OrderIds : open[x] \in Int
      BY <1>6
    <3> QED
      BY <3>2, <3>3, Zenon
  <2>2. ASSUME NEW p \in reach, NEW r \in reach, p # r PROVE group[p] \cap group[r] = {}
    <3>1. [side |-> s, price |-> p] # [side |-> s, price |-> r]
      <4>1. [side |-> s, price |-> p].price # [side |-> s, price |-> r].price
        BY <2>2
      <4> QED
        BY <4>1
    <3> QED
      BY <1>3, <1>7, <3>1
  <2> QED
    BY <2>1, <2>2 DEF Grouped
<1>9. PICK ids : ids = UNION { group[p] : p \in reach }
  OBVIOUS
<1>10. Depth(order) = SumFunctionOnSet(open, ids)
  <2>1. Depth(order) = SumFunctionOnSet(total[s], reach)
    BY <1>1, <1>2 DEF Depth
  <2> QED
    BY <1>3, <1>8, <1>9, <2>1, SumGroups
<1>11. DOMAIN Book = InBook /\ InBook \subseteq OrderIds /\ \A x \in InBook : Book[x] = resting[x]
  BY DEF Book, InBook
<1>12. ASSUME NEW x \in OrderIds PROVE x \in ids <=> x \in Ideal!Within(order)
  <2>1. x \in ids <=> \E p \in reach : lookup[x] = [side |-> s, price |-> p]
    <3>1. x \in ids <=> \E p \in reach : x \in group[p]
      BY <1>9
    <3> QED
      BY <1>3, <1>7, <3>1, Zenon
  <2>2. x \in Ideal!Within(order) <=>
            /\ lookup[x] # Nowhere /\ resting[x].side = s
            /\ Crosses(order, resting[x].price)
    BY <1>1, <1>11 DEF Ideal!Within, Ideal!Opposite, Ideal!Crosses, Opposite, Crosses, InBook
  <2>3. ASSUME NEW p \in reach, lookup[x] = [side |-> s, price |-> p]
        PROVE  /\ lookup[x] # Nowhere /\ resting[x].side = s
               /\ Crosses(order, resting[x].price)
    <3>1. lookup[x] # Nowhere /\ resting[x].side = s /\ resting[x].price = p
      BY <2>3, NoneDistinct DEF PlaceInv
    <3> QED
      BY <1>2, <3>1 DEF Reachable
  <2>4. ASSUME lookup[x] # Nowhere, resting[x].side = s, Crosses(order, resting[x].price)
        PROVE  \E p \in reach : lookup[x] = [side |-> s, price |-> p]
    <3>1. PICK p \in Prices : p = resting[x].price /\ lookup[x] = [side |-> s, price |-> p]
      BY <2>4, Located DEF PlaceInv, IInv
    <3>2. Has(queue[s][p], x)
      BY <3>1 DEF IInv, LookupInv
    <3>3. p \in levels[s]
      BY <3>2 DEF IInv, LevelInv, Has
    <3> QED
      BY <1>1, <1>2, <2>4, <3>1, <3>3 DEF Reachable
  <2> QED
    BY <2>1, <2>2, <2>3, <2>4
<1>13. ids \subseteq OrderIds
  <2>1. \A p \in reach : group[p] \subseteq OrderIds
    BY <1>3, <1>7, Zenon
  <2> QED
    BY <1>9, <2>1
<1>14. ids = Ideal!Within(order) /\ ids \subseteq InBook
  <2>1. Ideal!Within(order) \subseteq InBook
    BY <1>11 DEF Ideal!Within
  <2> QED
    BY <1>11, <1>12, <1>13, <2>1
<1>15. PICK g : g = [x \in InBook |-> Book[x].remaining]
  OBVIOUS
<1>16. \A x \in ids : g[x] = open[x]
  BY <1>6, <1>11, <1>14, <1>15 DEF InBook
<1>17. IsFiniteSet(ids)
  <2>1. IsFiniteSet(OrderIds)
    BY Constants, FS_Interval
  <2> QED
    BY <1>13, <2>1, FS_Subset
<1>18. SumFunctionOnSet(g, ids) = SumFunctionOnSet(open, ids)
  BY <1>16, <1>17, SumSame
<1>19. Ideal!Quantity(Book, ids) = SumFunctionOnSet(g, ids)
  BY <1>11, <1>15, SameSum DEF Ideal!Quantity
<1> QED
  BY <1>10, <1>14, <1>18, <1>19

-----------------------------------------------------------------------------
(***************************************************************************)
(* Each step of the engine is a step of PriceTimeBook.                     *)
(***************************************************************************)
\* The two modules speak of the same things.
LEMMA Vocabulary ==
  /\ Ideal!NoOrder = NoOrder /\ Ideal!NoRequest = NoRequest
  /\ Ideal!Sides = Sides /\ Ideal!OrderTypes = OrderTypes
  /\ Ideal!TimesInForce = TimesInForce /\ Ideal!OrderIds = OrderIds
  /\ \A s, p, n : Ideal!BookUpdate(s, p, n) = BookUpdate(s, p, n)
  /\ \A k, id, c : Ideal!Private(k, id, c) = Private(k, id, c)
  /\ \A id, c, n : Ideal!OrderRested(id, c, n) = OrderRested(id, c, n)
  /\ \A id, c, p, n : Ideal!OrderModified(id, c, p, n) = OrderModified(id, c, p, n)
  /\ \A t, m, p, n : Ideal!TradeExecuted(t, m, p, n) = TradeExecuted(t, m, p, n)
BY DEF Ideal!NoOrder, NoOrder, Ideal!NoRequest, NoRequest, Ideal!Sides, Sides,
       Ideal!OrderTypes, OrderTypes, Ideal!TimesInForce, TimesInForce, Ideal!OrderIds, OrderIds,
       Ideal!BookUpdate, BookUpdate, Ideal!Private, Private, Ideal!OrderRested, OrderRested,
       Ideal!OrderModified, OrderModified, Ideal!TradeExecuted, TradeExecuted

\* The resting orders are those of the look-up.
LEMMA BookIs ==
  /\ DOMAIN Book = InBook /\ InBook \subseteq OrderIds
  /\ \A id \in OrderIds : id \in InBook <=> lookup[id] # Nowhere
  /\ \A id \in InBook : Book[id] = resting[id]
BY DEF Book, InBook

\* A step that leaves the book alone leaves it alone.
LEMMA SameBook == ASSUME UNCHANGED bookVars PROVE UNCHANGED <<Book, Ahead>>
BY DEF bookVars, Book, InBook, Ahead

\* add_order is Enter: a killed order is one that finds too little.
LEMMA EntersIdeal ==
  ASSUME NEW order, NEW req, AddOrder(order, req), order.remaining \in Int,
         FillOrKill(order) =>
             Depth(order) = Ideal!Quantity(Book, Ideal!Within(order)) /\ Depth(order) \in Int
  PROVE  Ideal!Enter(order, req)
<1>1. CanFullyFill(order) <=> Depth(order) >= order.remaining
  BY DEF CanFullyFill, Depth, Reachable
<1>2. /\ incoming' = order /\ request' = req
      /\ phase' = IF FillOrKill(order) /\ ~CanFullyFill(order) THEN "reply" ELSE "match"
  BY DEF AddOrder, FillOrKill
<1>3. CASE ~FillOrKill(order)
  BY <1>2, <1>3, Zenon DEF FillOrKill, Ideal!Enter
<1>4. CASE FillOrKill(order)
  <2>1. PICK depth : depth = Ideal!Quantity(Book, Ideal!Within(order)) /\ depth = Depth(order)
    BY <1>4
  <2>2. depth \in Int
    BY <1>4, <2>1
  <2>3. ~CanFullyFill(order) <=> depth < order.remaining
    BY <1>1, <2>1, <2>2
  <2> QED
    BY <1>2, <1>4, <2>1, <2>3, Zenon DEF FillOrKill, Ideal!Enter
<1> QED
  BY <1>3, <1>4

\* A new order.
LEMMA AddIdeal ==
  ASSUME IInv, PlaceInv, TotalsMatchOrders, LevelsFinite,
         NEW type \in OrderTypes, NEW tif \in TimesInForce, NEW side \in Sides,
         NEW price \in Prices, NEW quantity \in Quantities, NEW conn \in Conns,
         ProcessAdd(type, tif, side, price, quantity, conn)
  PROVE  Ideal!Add(nextId, type, tif, side, price, quantity, conn) /\ nextId \in OrderIds
<1> USE Constants
<1>1. phase = "idle" /\ nextId' = nextId + 1 /\ nextId \in OrderIds /\ UNCHANGED bookVars
  BY DEF ProcessAdd, IInv, TypeOK
<1>2. nextId \notin 1..(nextId - 1) /\ 1..(nextId' - 1) = 1..(nextId - 1) \union {nextId}
  BY <1>1
<1>3. UNCHANGED <<Book, Ahead>>
  BY <1>1, SameBook
<1>4. quantity \in Int
  BY BookAssumption
<1>5. CASE quantity <= 0
  <2>1. Throw /\ UNCHANGED <<request, incoming>>
    BY <1>5 DEF ProcessAdd
  <2>2. Ideal!Fail
    BY <1>3, <2>1 DEF Throw, Ideal!Fail
  <2> QED
    BY <1>1, <1>2, <1>5, <2>2 DEF Ideal!Add
<1>6. CASE quantity > 0
  <2>1. PICK order, req :
            /\ order = [id |-> nextId, type |-> type, tif |-> tif, side |-> side,
                        price |-> price, remaining |-> quantity, conn |-> conn]
            /\ req = [kind |-> "add", quantity |-> quantity, conn |-> conn]
    OBVIOUS
  <2>2. AddOrder(order, req) /\ emitted' = <<>>
    <3>1. ~(quantity <= 0)
      BY <1>4, <1>6
    <3> QED
      BY <2>1, <3>1, Zenon DEF ProcessAdd
  <2>3. order \in Order /\ order.remaining \in Int
    BY <1>1, <1>4, <1>6, <2>1 DEF Order
  <2>4. Depth(order) = Ideal!Quantity(Book, Ideal!Within(order))
    BY <2>3, ReachIs
  <2>5. Depth(order) \in Int
    BY <2>3, DepthInt
  <2>6. Ideal!Enter(order, req)
    BY <2>2, <2>3, <2>4, <2>5, EntersIdeal
  <2> QED
    BY <1>1, <1>2, <1>3, <1>6, <2>1, <2>2, <2>6, Zenon DEF Ideal!Add
<1> QED
  BY <1>4, <1>5, <1>6

\* A modified order: none of them is fill-or-kill.
LEMMA ModifyIdeal ==
  ASSUME IInv, PlaceInv, NoKillRests, TotalsMatchOrders', Shape, Shape',
         NEW id \in OrderIds, NEW price \in Prices, NEW quantity \in Quantities,
         NEW conn \in Conns, ProcessModify(id, price, quantity, conn)
  PROVE  Ideal!Modify(id, price, quantity, conn)
<1>1. /\ phase = "idle" /\ lookup[id] # Nowhere /\ quantity > 0 /\ Erase(id)
      /\ emitted' = <<Erased(id)>> /\ nextId' = nextId
  BY DEF ProcessModify
<1>2. quantity \in Int /\ resting[id] \in Order
  BY <1>1, BookAssumption DEF IInv, RestingInv
<1>3. PICK order, req : /\ order = [resting[id] EXCEPT !.price = price, !.remaining = quantity]
                        /\ req = [kind |-> "modify", quantity |-> quantity, conn |-> conn]
  OBVIOUS
<1>4. AddOrder(order, req)
  BY <1>3, Zenon DEF ProcessModify
<1>5. /\ order.remaining \in Int /\ order.type = resting[id].type /\ order.tif = resting[id].tif
  BY <1>2, <1>3 DEF Order
<1>6. ~FillOrKill(order)
  BY <1>1, <1>5 DEF NoKillRests, FillOrKill
<1>7. Ideal!Enter(order, req)
  BY <1>4, <1>5, <1>6, EntersIdeal
<1>8. Ideal!Leaves(id)
  BY <1>1, EraseLeaves
<1>9. Erased(id) = Ideal!Shown(resting[id].side, resting[id].price)
  BY <1>1, EraseShown
<1>10. id \in DOMAIN Book /\ Book[id] = resting[id]
  BY <1>1, BookIs
<1>11. emitted' = <<Ideal!Shown(Book[id].side, Book[id].price)>>
  BY <1>1, <1>9, <1>10, Zenon
<1> QED
  BY <1>1, <1>3, <1>7, <1>8, <1>10, <1>11, Zenon DEF Ideal!Modify

\* An order that is taken out.
LEMMA CancelIdeal ==
  ASSUME IInv, PlaceInv, TotalsMatchOrders', Shape, Shape',
         NEW id \in OrderIds, NEW conn \in Conns, ProcessCancel(id, conn)
  PROVE  Ideal!Cancel(id, conn)
<1>1. /\ phase = "idle" /\ phase' = "idle" /\ lookup[id] # Nowhere /\ Erase(id)
      /\ emitted' = <<Erased(id), Private("OrderCanceled", id, conn)>>
      /\ UNCHANGED <<nextId, request, incoming>>
  BY DEF ProcessCancel
<1>2. Ideal!Leaves(id)
  BY <1>1, EraseLeaves
<1>3. Erased(id) = Ideal!Shown(resting[id].side, resting[id].price)
  BY <1>1, EraseShown
<1>4. id \in DOMAIN Book /\ Book[id] = resting[id]
  BY <1>1, BookIs
<1>5. emitted' = << Ideal!Shown(Book[id].side, Book[id].price),
                    Ideal!Private("OrderCanceled", id, conn) >>
  BY <1>1, <1>3, <1>4, Vocabulary, Zenon
<1> QED
  BY <1>1, <1>2, <1>4, <1>5, Zenon DEF Ideal!Cancel

\* The messages about an order that is not in the book.
LEMMA RefuseIdeal ==
  ASSUME IdleInv, phase = "idle", NEW kind, NEW id \in OrderIds, NEW conn, lookup[id] = Nowhere,
         Answer(Private(kind, id, conn)), UNCHANGED <<bookVars, nextId>>
  PROVE  Ideal!Refuse(kind, id, conn)
<1>1. id \notin DOMAIN Book
  BY BookIs
<1>2. UNCHANGED <<Book, Ahead>>
  BY SameBook
<1>3. UNCHANGED <<incoming, request, phase>> /\ emitted' = <<Ideal!Private(kind, id, conn)>>
  BY Vocabulary DEF Answer, IdleInv
<1> QED
  BY <1>1, <1>2, <1>3, Zenon DEF Ideal!Refuse

\* A modify with a quantity that the constructor of Order does not take.
LEMMA ModifyFails ==
  ASSUME IInv, NEW id \in OrderIds, NEW quantity \in Quantities, ModifyThrows(id, quantity)
  PROVE  \E price \in Prices, conn \in Conns : Ideal!Modify(id, price, quantity, conn)
<1>1. /\ phase = "idle" /\ lookup[id] # Nowhere /\ quantity <= 0 /\ Throw
      /\ UNCHANGED <<bookVars, nextId, request, incoming>>
  BY DEF ModifyThrows
<1>2. resting[id].price \in Prices /\ resting[id].conn \in Conns
  BY <1>1 DEF IInv, RestingInv, Order
<1>3. id \in DOMAIN Book
  BY <1>1, BookIs
<1>4. Ideal!Fail
  BY <1>1, SameBook DEF Throw, Ideal!Fail
<1>5. \A price \in Prices, conn \in Conns : Ideal!Modify(id, price, quantity, conn)
  BY <1>1, <1>3, <1>4, Zenon DEF Ideal!Modify
<1> QED
  BY <1>2, <1>5

\* execute_trade is Trade, with the order at the head of the best level.
LEMMA HeadIsFirst ==
  ASSUME IInv, PlaceInv, Shape, NEW s, NEW p, NEW m, NEW fill, Trade(s, p, m, fill), IsBest(s, p)
  PROVE  Ideal!IsFirst(m)
<1>1. /\ s \in Sides /\ p \in Prices /\ m \in OrderIds /\ m = Head(queue[s][p])
      /\ lookup[m] = [side |-> s, price |-> p] /\ lookup[m] # Nowhere
  BY DEF Trade
<1>2. m \in InBook /\ Book[m].side = s /\ Book[m].price = p
  BY <1>1, BookIs DEF PlaceInv
<1>3. ASSUME NEW other \in InBook \ {m}, Book[other].side = s
      PROVE  Ideal!GoesBefore(m, other)
  <2>1. other \in OrderIds /\ lookup[other] # Nowhere /\ Book[other] = resting[other]
    BY BookIs
  <2>2. PICK r \in Prices : r = Book[other].price /\ lookup[other] = [side |-> s, price |-> r]
    BY <1>3, <2>1, Located DEF IInv, PlaceInv
  <2>3. Has(queue[s][r], other)
    BY <1>1, <2>1, <2>2 DEF IInv, LookupInv
  <2>4. r \in levels[s]
    BY <1>1, <2>2, <2>3 DEF IInv, LevelInv, Has
  <2>5. ASSUME r = p PROVE <<m, other>> \in Ahead
    <3>1. queue[s][p] \in Seq(OrderIds)
      BY <1>1 DEF IInv, TypeOK
    <3>2. Earlier(queue[s][p], m, other)
      BY <1>1, <2>3, <2>5, <3>1, HeadFirst
    <3> QED
      BY <1>1, <2>1, <3>2, Zenon DEF Shape, AheadIs
  <2>6. IF s = "Sell" THEN p <= r ELSE p >= r
    BY <2>4, Zenon DEF IsBest
  <2>7. p \in Int /\ r \in Int
    BY <1>1, <2>2, BookAssumption
  <2>8. \/ p = r /\ <<m, other>> \in Ahead
        \/ p # r /\ (p < r <=> s = "Sell")
    BY <2>5, <2>6, <2>7
  <2> QED
    BY <1>2, <2>2, <2>8, Zenon DEF Ideal!GoesBefore
<1> QED
  BY <1>2, <1>3, BookIs, Zenon DEF Ideal!IsFirst

\* The events of a trade, as they are pushed.
LEMMA TradePushes ==
  ASSUME NEW s, NEW p, NEW m, NEW fill, Trade(s, p, m, fill), ExecuteTradeAt(p)
  PROVE  emitted' = << TradeExecuted(incoming, resting[m], p, fill),
                       BookUpdate(s, p, total[s][p] - fill), MakerEvent(resting[m], fill) >>
<1>1. /\ Opposite(incoming.side) = s /\ Head(queue[s][p]) = m
      /\ ExecutionQuantity(resting[m]) = fill
  BY Zenon DEF Trade
<1> QED
  BY <1>1, Zenon DEF ExecuteTradeAt

\* What a trade makes of the book.
TradeLeaves(m, left) ==
    IF left = 0 THEN Ideal!Leaves(m)
    ELSE Book' = [Book EXCEPT ![m].remaining = left] /\ UNCHANGED Ahead

LEMMA TradeBook ==
  ASSUME IInv, Shape, Shape', NEW s, NEW p, NEW m, NEW fill,
         Trade(s, p, m, fill), ExecuteTradeAt(p)
  PROVE  TradeLeaves(m, resting[m].remaining - fill)
<1>1. /\ s \in Sides /\ p \in Prices /\ m \in OrderIds /\ m = Head(queue[s][p]) /\ fill \in Nat
      /\ lookup[m] = [side |-> s, price |-> p] /\ lookup[m] # Nowhere
      /\ resting[m] \in Order /\ resting[m].remaining \in Nat
  BY DEF Trade, Order
<1>2. Traded(s, p, m, fill)
  BY TradeChanges
<1>3. PICK left, rest : left = resting[m].remaining - fill
                        /\ rest = IF left = 0 THEN Tail(queue[s][p]) ELSE queue[s][p]
  OBVIOUS
<1>4. TradeMoves(s, p, m, fill, left, rest)
  BY <1>3, TradeMovesIs
<1>5. queue' = [queue EXCEPT ![s][p] = rest]
  BY <1>4 DEF TradeMoves
<1>6. left = 0 <=> fill = resting[m].remaining
  BY <1>1, <1>3
<1>7. \A x \in OrderIds \ {m} : lookup'[x] = lookup[x] /\ resting'[x] = resting[x]
  BY <1>2 DEF Traded
<1>8. PICK q : q = queue[s][p]
  OBVIOUS
<1>9. q \in Seq(OrderIds) /\ Has(q, m) /\ Distinct(q) /\ q # <<>>
  BY <1>1, <1>8 DEF IInv, TypeOK, LookupInv, LevelInv, Has
<1>10. CASE left = 0
  <2>1. lookup'[m] = Nowhere
    BY <1>2, <1>6, <1>10 DEF Traded
  <2>2. \A x, y : Earlier(rest, x, y) <=> Earlier(q, x, y) /\ x # m /\ y # m
    BY <1>1, <1>3, <1>8, <1>9, <1>10, TailOrder
  <2>3. TakenOut(m, s, p, rest)
    BY <1>1, <1>5, <1>7, <1>8, <2>1, <2>2 DEF TakenOut
  <2>4. Ideal!Leaves(m)
    BY <2>3, OutLeaves
  <2> QED
    BY <1>3, <1>10, <2>4 DEF TradeLeaves
<1>11. CASE left # 0
  <2>1. lookup'[m] = lookup[m] /\ resting'[m] = [resting[m] EXCEPT !.remaining = left]
    <3>1. lookup'[m] = lookup[m] /\ resting'[m] = [resting[m] EXCEPT !.remaining = @ - fill]
      BY <1>2, <1>6, <1>11, Zenon DEF Traded
    <3> QED
      BY <1>3, <3>1
  <2>2. InBook' = InBook
    BY <1>7, <2>1 DEF InBook
  <2>3. queue' = queue
    BY <1>3, <1>5, <1>11 DEF IInv, TypeOK
  <2>4. Ahead' = Ahead
    BY <2>2, <2>3 DEF Ahead
  <2>5. Book' = [x \in InBook |-> IF x = m THEN [resting[m] EXCEPT !.remaining = left]
                                  ELSE resting[x]]
    <3>1. Book' = [x \in InBook' |-> resting'[x]]
      BY DEF Book
    <3>2. \A x \in InBook : resting'[x] = IF x = m THEN [resting[m] EXCEPT !.remaining = left]
                                          ELSE resting[x]
      BY <1>7, <2>1, BookIs
    <3> QED
      BY <2>2, <3>1, <3>2
  <2>6. Book' = [Book EXCEPT ![m].remaining = left]
    <3>1. PICK order, changed : /\ order = resting[m]
                                /\ changed = [order EXCEPT !.remaining = left]
      OBVIOUS
    <3>2. m \in InBook /\ Book[m] = order
      BY <1>1, <3>1, BookIs
    <3>3. Book' = [Book EXCEPT ![m] = changed]
      BY <2>5, <3>1, <3>2, BookIs
    <3> QED
      BY <3>1, <3>2, <3>3
  <2> QED
    BY <1>3, <1>11, <2>4, <2>6 DEF TradeLeaves
<1> QED
  BY <1>10, <1>11

LEMMA TradeIdeal ==
  ASSUME IInv, PlaceInv, Shape, Shape', ExecuteTrade
  PROVE  \E maker \in DOMAIN Book : Ideal!Trade(maker)
<1>1. PICK s, p, m, fill : Trade(s, p, m, fill) /\ ExecuteTradeAt(p) /\ IsBest(s, p)
  BY TradeIs
<1>2. /\ phase = "match" /\ UNCHANGED <<nextId, phase, request>> /\ incoming \in Order
  BY DEF ExecuteTrade, IInv, TypeOK
<1>3. /\ s \in Sides /\ p \in Prices /\ m \in OrderIds /\ s = Opposite(incoming.side)
      /\ incoming.remaining > 0 /\ Crosses(incoming, p)
      /\ lookup[m] = [side |-> s, price |-> p] /\ lookup[m] # Nowhere
      /\ resting[m].id = m /\ fill = ExecutionQuantity(resting[m]) /\ fill \in Nat
  BY <1>1 DEF Trade, CanTradeAt
<1>4. PICK order, left : /\ order = resting[m] /\ left = order.remaining - fill
  OBVIOUS
<1>5. m \in DOMAIN Book /\ Book[m] = order /\ order.side = s /\ order.price = p /\ order.id = m
  BY <1>3, <1>4, BookIs DEF PlaceInv
<1>6. fill = IF incoming.remaining <= order.remaining THEN incoming.remaining ELSE order.remaining
  BY <1>3, <1>4 DEF ExecutionQuantity
<1>7. m \in Ideal!Within(incoming)
  BY <1>3, <1>5 DEF Ideal!Within, Ideal!Opposite, Ideal!Crosses, Opposite, Crosses
<1>8. Ideal!IsFirst(m)
  BY <1>1, HeadIsFirst
<1>9. TradeLeaves(m, left)
  BY <1>1, <1>4, TradeBook
<1>10. IF left = 0 THEN Ideal!Leaves(m)
       ELSE Book' = [Book EXCEPT ![m].remaining = left] /\ UNCHANGED Ahead
  BY <1>9 DEF TradeLeaves
<1>11. Traded(s, p, m, fill)
  BY <1>1, TradeChanges
<1>12. /\ incoming' = [incoming EXCEPT !.remaining = @ - fill]
       /\ total' = [total EXCEPT ![s][p] = total[s][p] - fill]
  BY <1>11 DEF Traded
<1>13. Ideal!Shown(s, p) = BookUpdate(s, p, total[s][p] - fill)
  <2>1. total'[s][p] = total[s][p] - fill
    <3>1. PICK depth : depth = total[s][p] - fill
      OBVIOUS
    <3> QED
      BY <1>3, <1>12, <3>1 DEF IInv, TypeOK
  <2>2. Ideal!Quantity(Book', Ideal!At(Book', s, p)) = total'[s][p]
    BY <1>3 DEF Shape, DepthIs
  <2> QED
    BY <2>1, <2>2, Vocabulary DEF Ideal!Shown
<1>14. MakerEvent(order, fill) = IF left = 0 THEN Private("OrderFilled", m, order.conn)
                                 ELSE OrderRested(m, order.conn, left)
  <2>1. order.remaining \in Nat
    BY <1>1, <1>4 DEF Trade, Order
  <2>2. left = 0 <=> order.remaining = fill
    BY <1>3, <1>4, <2>1
  <2> QED
    BY <1>4, <1>5, <2>2, Zenon DEF MakerEvent
<1>15. emitted' = << Ideal!TradeExecuted(incoming, order, order.price, fill),
                     Ideal!Shown(order.side, order.price),
                     IF left = 0 THEN Ideal!Private("OrderFilled", m, order.conn)
                     ELSE Ideal!OrderRested(m, order.conn, left) >>
  <2>1. emitted' = << TradeExecuted(incoming, order, p, fill),
                      BookUpdate(s, p, total[s][p] - fill), MakerEvent(order, fill) >>
    BY <1>1, <1>4, TradePushes
  <2>2. /\ Ideal!TradeExecuted(incoming, order, p, fill) = TradeExecuted(incoming, order, p, fill)
        /\ Ideal!Private("OrderFilled", m, order.conn) = Private("OrderFilled", m, order.conn)
        /\ Ideal!OrderRested(m, order.conn, left) = OrderRested(m, order.conn, left)
    BY Vocabulary, Zenon
  <2> QED
    BY <1>5, <1>13, <1>14, <2>1, <2>2, Zenon
<1>16. UNCHANGED (1..(nextId - 1))
  BY <1>2
<1>17. Ideal!Trade(m)
  BY <1>2, <1>3, <1>4, <1>5, <1>6, <1>7, <1>8, <1>10, <1>12, <1>15, <1>16, Zenon
     DEF Ideal!Trade
<1> QED
  BY <1>5, <1>17

\* The loops end when nothing is left of the order or to trade with.
LEMMA DoneIsMatched ==
  ASSUME IInv, PlaceInv, phase = "match", MatchingDone
  PROVE  /\ Ideal!Matched
         /\ Ideal!ToRest <=> ShouldRest
<1>1. incoming \in Order /\ incoming.remaining \in Nat
  BY DEF IInv, TypeOK, Order
<1>2. ASSUME incoming.remaining # 0, NEW x \in Ideal!Within(incoming) PROVE FALSE
  <2>1. PICK s \in Sides : s = Opposite(incoming.side)
    BY <1>1, OppositeSide DEF Order
  <2>2. x \in OrderIds /\ lookup[x] # Nowhere /\ resting[x].side = s
        /\ Crosses(incoming, resting[x].price)
    BY <1>2, <2>1, BookIs DEF Ideal!Within, Ideal!Opposite, Ideal!Crosses, Opposite, Crosses
  <2>3. PICK p \in Prices : p = resting[x].price /\ lookup[x] = [side |-> s, price |-> p]
    BY <2>2, Located DEF PlaceInv, IInv
  <2>4. Has(queue[s][p], x)
    BY <2>2, <2>3 DEF IInv, LookupInv
  <2>5. p \in levels[s]
    BY <2>4 DEF IInv, LevelInv, Has
  <2> QED
    BY <1>1, <1>2, <2>1, <2>2, <2>3, <2>5 DEF MatchingDone, CanTradeAt
<1>3. Ideal!Matched
  BY <1>2, Zenon DEF Ideal!Matched
<1>4. Ideal!ToRest <=> ShouldRest
  BY Zenon DEF Ideal!ToRest, ShouldRest
<1> QED
  BY <1>3, <1>4

\* add_order_to_side is Rest.
LEMMA RestIdeal ==
  ASSUME IInv, PlaceInv, Shape, Shape', Rest
  PROVE  Ideal!Rest
<1>1. PICK s, p, id : s = incoming.side /\ p = incoming.price /\ id = incoming.id
  OBVIOUS
<1>2. /\ incoming \in Order /\ s \in Sides /\ p \in Prices /\ id \in OrderIds
      /\ lookup[id] = Nowhere /\ incoming.remaining \in Nat
  BY <1>1 DEF Rest, IInv, TypeOK, Order, IdInv
<1>3. PICK depth : depth = total[s][p] + incoming.remaining
  OBVIOUS
<1>4. /\ phase = "match" /\ MatchingDone /\ ShouldRest /\ p > 0
      /\ queue' = [queue EXCEPT ![s][p] = Append(@, id)]
      /\ resting' = [resting EXCEPT ![id] = incoming]
      /\ lookup' = [lookup EXCEPT ![id] = [side |-> s, price |-> p]]
      /\ total' = [total EXCEPT ![s][p] = depth]
      /\ emitted' = <<BookUpdate(s, p, depth)>>
      /\ phase' = "reply" /\ UNCHANGED <<nextId, request, incoming>>
  BY <1>1, <1>2, <1>3 DEF Rest
<1>5. /\ \A x \in OrderIds : lookup'[x] = IF x = id THEN [side |-> s, price |-> p] ELSE lookup[x]
      /\ \A x \in OrderIds : resting'[x] = IF x = id THEN incoming ELSE resting[x]
  BY <1>2, <1>4 DEF IInv, TypeOK
<1>6. InBook' = InBook \union {id}
  BY <1>2, <1>5, NoneDistinct DEF InBook
<1>7. Book' = [x \in DOMAIN Book \union {id} |-> IF x = id THEN incoming ELSE Book[x]]
  <2>1. Book' = [x \in InBook' |-> resting'[x]]
    BY DEF Book
  <2>2. \A x \in InBook \union {id} :
            resting'[x] = IF x = id THEN incoming ELSE resting[x]
    BY <1>2, <1>5, BookIs
  <2>3. \A x \in InBook \union {id} :
            resting'[x] = IF x = id THEN incoming ELSE Book[x]
    BY <2>2, BookIs
  <2> QED
    BY <1>6, <2>1, <2>3, BookIs
<1>8. PICK q : q = queue[s][p] /\ q \in Seq(OrderIds)
  BY <1>2 DEF IInv, TypeOK
<1>9. \A t \in Sides, r \in Prices :
          queue'[t][r] = IF t = s /\ r = p THEN Append(q, id) ELSE queue[t][r]
  BY <1>2, <1>4, <1>8 DEF IInv, TypeOK
<1>10. \A x, y : Earlier(Append(q, id), x, y) <=> Earlier(q, x, y) \/ (Has(q, x) /\ y = id)
  BY <1>2, <1>8, AppendOrder
<1>11. PICK there : there = Ideal!At(Book, s, p)
  OBVIOUS
<1>12. ASSUME NEW x \in OrderIds PROVE x \in there <=> Has(q, x)
  <2>1. x \in there <=> lookup[x] # Nowhere /\ resting[x].side = s /\ resting[x].price = p
    BY <1>11, BookIs DEF Ideal!At
  <2>2. Has(q, x) <=> lookup[x] = [side |-> s, price |-> p]
    BY <1>2, <1>8 DEF IInv, LookupInv
  <2>3. lookup[x] = [side |-> s, price |-> p] =>
            lookup[x] # Nowhere /\ resting[x].side = s /\ resting[x].price = p
    BY <1>2, NoneDistinct DEF PlaceInv
  <2>4. lookup[x] # Nowhere /\ resting[x].side = s /\ resting[x].price = p =>
            lookup[x] = [side |-> s, price |-> p]
    BY Located DEF PlaceInv, IInv
  <2> QED
    BY <2>1, <2>2, <2>3, <2>4
<1>13. there \subseteq OrderIds
  BY <1>11, BookIs DEF Ideal!At
<1>14. ASSUME NEW x \in OrderIds, NEW y \in OrderIds
       PROVE  <<x, y>> \in Ahead' <=> <<x, y>> \in Ahead \/ (x \in there /\ y = id)
  <2>1. <<x, y>> \in Ahead' <=> \E t \in Sides, r \in Prices : Earlier(queue'[t][r], x, y)
    BY Zenon DEF Shape, AheadIs
  <2>2. <<x, y>> \in Ahead <=> \E t \in Sides, r \in Prices : Earlier(queue[t][r], x, y)
    BY Zenon DEF Shape, AheadIs
  <2>3. ASSUME NEW t \in Sides, NEW r \in Prices
        PROVE  Earlier(queue'[t][r], x, y) <=>
                   Earlier(queue[t][r], x, y) \/ (t = s /\ r = p /\ x \in there /\ y = id)
    BY <1>8, <1>9, <1>10, <1>12
  <2> QED
    BY <1>2, <2>1, <2>2, <2>3, Zenon
<1>15. Ahead' = Ahead \union (there \X {id})
  <2>1. Ahead \subseteq OrderIds \X OrderIds /\ Ahead' \subseteq OrderIds \X OrderIds
    BY DEF Shape, AheadIs
  <2> QED
    BY <1>2, <1>13, <1>14, <2>1
<1>16. Ideal!Shown(s, p) = BookUpdate(s, p, depth)
  <2>1. total'[s][p] = depth
    BY <1>2, <1>4 DEF IInv, TypeOK
  <2>2. Ideal!Quantity(Book', Ideal!At(Book', s, p)) = total'[s][p]
    BY <1>2 DEF Shape, DepthIs
  <2> QED
    BY <2>1, <2>2, Vocabulary DEF Ideal!Shown
<1>17. Ideal!Matched /\ Ideal!ToRest
  BY <1>4, DoneIsMatched
<1>18. emitted' = <<Ideal!Shown(s, p)>>
  BY <1>4, <1>16
<1>19. UNCHANGED <<1..(nextId - 1), incoming, request>>
  BY <1>4
<1> QED
  BY <1>1, <1>4, <1>7, <1>11, <1>15, <1>17, <1>18, <1>19, Zenon DEF Ideal!Rest

\* The end of the matching without resting.
LEMMA SettleIdeal ==
  ASSUME IInv, PlaceInv, Settle
  PROVE  Ideal!LeaveNothing
<1>1. /\ phase = "match" /\ MatchingDone /\ ~ShouldRest /\ emitted' = <<>> /\ phase' = "reply"
      /\ UNCHANGED <<bookVars, nextId, incoming, request>>
  BY DEF Settle
<1>2. Ideal!Matched /\ ~Ideal!ToRest
  BY <1>1, DoneIsMatched
<1>3. UNCHANGED <<Book, Ahead, 1..(nextId - 1), incoming, request>>
  BY <1>1, SameBook
<1> QED
  BY <1>1, <1>2, <1>3, Zenon DEF Ideal!LeaveNothing

\* A level cannot be made for a price of 0 or below.
LEMMA RestFailsIdeal ==
  ASSUME IInv, PlaceInv, RestThrows
  PROVE  Ideal!RestFails
<1>1. /\ phase = "match" /\ MatchingDone /\ ShouldRest /\ incoming.price <= 0 /\ Throw
      /\ UNCHANGED <<bookVars, nextId, incoming, request>>
  BY DEF RestThrows
<1>2. Ideal!Matched /\ Ideal!ToRest
  BY <1>1, DoneIsMatched
<1>3. UNCHANGED <<Book, Ahead, 1..(nextId - 1), incoming, request>>
  BY <1>1, SameBook
<1>4. Ideal!Fail
  BY <1>1, <1>3, Zenon DEF Throw, Ideal!Fail
<1> QED
  BY <1>1, <1>2, <1>3, <1>4, Zenon DEF Ideal!RestFails

\* The answer to a new order can be read off the order.
LEMMA AnswerIsOutcome ==
  ASSUME IInv, KillAnswered, RoundInv, phase = "reply"
  PROVE  AddAnswer = Ideal!Outcome
<1>1. /\ incoming \in Order /\ incoming.remaining \in Nat /\ executed \in Nat
      /\ incoming.type \in {"Limit", "Market"}
      /\ incoming.tif \in {"FillOrKill", "GoodTillCancel", "ImmediateOrCancel"}
  BY DEF IInv, TypeOK, Order, OrderTypes, TimesInForce
<1>2. request \in Request /\ request.quantity \in Int
  BY BookAssumption DEF IInv, TypeOK, Request
<1>3. request.quantity > 0 /\ executed + incoming.remaining = request.quantity
  BY DEF RoundInv, QuantityInv
<1>4. PICK id, conn, left, traded :
          /\ id = incoming.id /\ conn = request.conn /\ left = incoming.remaining
          /\ traded = (incoming.remaining < request.quantity)
  OBVIOUS
<1>5. traded <=> executed > 0
  <2>1. incoming.remaining < request.quantity <=> executed > 0
    BY <1>1, <1>2, <1>3
  <2> QED
    BY <1>4, <2>1, Zenon
<1>6. PICK filled, rested, expired, rejected :
          /\ filled = Private("OrderFilled", id, conn)
          /\ rested = OrderRested(id, conn, left)
          /\ expired = Private("OrderExpired", id, conn)
          /\ rejected = Private("OrderRejected", id, conn)
  OBVIOUS
<1>7. AddAnswer =
          CASE status \in {"Failed", "Rejected"} -> rejected
            [] status = "FullyFilled" -> filled
            [] status = "Resting" ->
                   IF incoming.tif = "ImmediateOrCancel" THEN expired ELSE rested
            [] status = "PartiallyFilled" ->
                   IF incoming.tif = "GoodTillCancel" THEN rested ELSE expired
  BY <1>4, <1>6, Zenon DEF AddAnswer
<1>8. Ideal!Outcome =
          IF left = 0 THEN filled
          ELSE IF incoming.tif = "GoodTillCancel" /\ (incoming.type = "Limit" \/ traded)
               THEN rested
          ELSE IF traded \/ (incoming.type = "Limit" /\ incoming.tif = "ImmediateOrCancel")
               THEN expired
          ELSE rejected
  <2>1. /\ Ideal!Private("OrderFilled", id, conn) = filled
        /\ Ideal!Private("OrderExpired", id, conn) = expired
        /\ Ideal!Private("OrderRejected", id, conn) = rejected
        /\ Ideal!OrderRested(id, conn, left) = rested
    BY <1>6, Vocabulary, Zenon
  <2> QED
    BY <1>4, <2>1, Zenon DEF Ideal!Outcome
<1>9. CASE FillOrKill(incoming) /\ status = "Rejected" /\ executed = 0
  <2>1. AddAnswer = rejected
    BY <1>7, <1>9
  <2>2. left # 0 /\ ~traded /\ incoming.tif = "FillOrKill"
    BY <1>1, <1>3, <1>4, <1>5, <1>9 DEF FillOrKill
  <2>3. Ideal!Outcome = rejected
    BY <1>8, <2>2
  <2> QED
    BY <2>1, <2>3
<1>10. CASE status = FromMatch
  <2>1. CASE left = 0
    <3>1. status = "FullyFilled"
      BY <1>4, <1>10, <2>1 DEF FromMatch
    <3> QED
      BY <1>7, <1>8, <2>1, <3>1
  <2>2. CASE left # 0 /\ traded
    <3>1. status = "PartiallyFilled"
      BY <1>4, <1>5, <1>10, <2>2 DEF FromMatch
    <3> QED
      BY <1>7, <1>8, <2>2, <3>1
  <2>3. CASE left # 0 /\ ~traded /\ incoming.type = "Market"
    <3>1. status = "Rejected"
      BY <1>1, <1>4, <1>5, <1>10, <2>3 DEF FromMatch
    <3> QED
      BY <1>7, <1>8, <2>3, <3>1
  <2>4. CASE left # 0 /\ ~traded /\ incoming.type = "Limit"
    <3>1. status = "Resting"
      BY <1>1, <1>4, <1>5, <1>10, <2>4 DEF FromMatch
    <3>2. incoming.tif # "FillOrKill"
      BY <1>4, <2>4, <3>1 DEF KillAnswered, FillOrKill
    <3> QED
      BY <1>1, <1>7, <1>8, <2>4, <3>1, <3>2
  <2> QED
    BY <1>1, <1>4, <2>1, <2>2, <2>3, <2>4
<1> QED
  BY <1>9, <1>10 DEF RoundInv, StatusInv

LEMMA ReplyIdeal ==
  ASSUME IInv, KillAnswered, RoundInv, Reply
  PROVE  Ideal!Reply
<1>1. PICK event : /\ event = (IF request.kind = "add" THEN AddAnswer ELSE ModifyAnswer)
                   /\ Answer(event)
  BY Zenon DEF Reply
<1>2. phase = "reply" /\ UNCHANGED <<bookVars, nextId>>
  BY DEF Reply
<1>3. AddAnswer = Ideal!Outcome
  BY <1>2, AnswerIsOutcome
<1>4. ModifyAnswer = Ideal!OrderModified(incoming.id, request.conn, incoming.price,
                                         request.quantity)
  BY Vocabulary DEF ModifyAnswer, IInv, NeverFailed
<1>5. emitted' = << IF request.kind = "add" THEN Ideal!Outcome
                    ELSE Ideal!OrderModified(incoming.id, request.conn, incoming.price,
                                             request.quantity) >>
  BY <1>1, <1>3, <1>4, Zenon DEF Answer
<1>6. UNCHANGED <<Book, Ahead, 1..(nextId - 1)>>
  BY <1>2, SameBook
<1>7. phase' = "idle" /\ incoming' = Ideal!NoOrder /\ request' = Ideal!NoRequest
  BY <1>1, Vocabulary DEF Answer
<1> QED
  BY <1>2, <1>5, <1>6, <1>7, Zenon DEF Ideal!Reply

-----------------------------------------------------------------------------
(***************************************************************************)
(* The inductive invariant of the refinement, and the theorem.             *)
(***************************************************************************)
EngineInv == IInv /\ TotalsMatchOrders /\ KillInv /\ PlaceInv /\ RoundInv

\* The empty book satisfies it.
LEMMA InitEngine == Init => EngineInv
<1> SUFFICES ASSUME Init PROVE EngineInv
  OBVIOUS
<1>1. IInv /\ TotalsMatchOrders /\ KillInv
  BY InitInv, InitTotals, InitKill
<1>2. PlaceInv
  BY DEF Init, PlaceInv
<1>3. RoundInv
  BY DEF Init, RoundInv, IdleInv, QuantityInv, StatusInv
<1> QED
  BY <1>1, <1>2, <1>3 DEF EngineInv

\* Every step of the engine keeps it.
LEMMA NextEngine == EngineInv /\ [Next]_vars => EngineInv'
<1> SUFFICES ASSUME EngineInv, [Next]_vars PROVE EngineInv'
  OBVIOUS
<1>1. IInv /\ TotalsMatchOrders /\ KillInv /\ PlaceInv /\ RoundInv
  BY DEF EngineInv
<1>2. IInv'
  BY <1>1, NextInv
<1>3. TotalsMatchOrders'
  BY <1>1, <1>2, NextTotals
<1>4. KillInv' /\ PlaceInv' /\ RoundInv'
  BY <1>1, <1>2, <1>3, KillStep, PlaceStep, RoundStep
<1> QED
  BY <1>2, <1>3, <1>4 DEF EngineInv

\* The empty book is an empty set of orders.
LEMMA InitIdeal == Init => Ideal!Init
<1> SUFFICES ASSUME Init PROVE Ideal!Init
  OBVIOUS
<1>1. InBook = {}
  BY DEF Init, InBook
<1>2. Book = [id \in {} |-> NoOrder] /\ Ahead = {}
  BY <1>1 DEF Book, Ahead
<1>3. 1..(nextId - 1) = {}
  BY DEF Init
<1> QED
  BY <1>2, <1>3, Vocabulary, Zenon DEF Init, Ideal!Init

\* Every step is a step of PriceTimeBook, or leaves all it speaks of as it is.
LEMMA NextIdeal ==
  EngineInv /\ Shape /\ EngineInv' /\ Shape' /\ [Next]_vars => [Ideal!Next]_(Ideal!vars)
<1> SUFFICES ASSUME EngineInv, Shape, EngineInv', Shape', [Next]_vars
             PROVE  [Ideal!Next]_(Ideal!vars)
  OBVIOUS
<1>1. /\ IInv /\ TotalsMatchOrders /\ PlaceInv /\ RoundInv /\ IdleInv
      /\ LevelsFinite /\ NoKillRests /\ KillAnswered /\ TotalsMatchOrders'
  BY DEF EngineInv, KillInv, RoundInv
<1>2. ASSUME NEW type \in OrderTypes, NEW tif \in TimesInForce, NEW side \in Sides,
             NEW price \in Prices, NEW quantity \in Quantities, NEW conn \in Conns,
             ProcessAdd(type, tif, side, price, quantity, conn)
      PROVE  Ideal!Next
  <2>1. Ideal!Add(nextId, type, tif, side, price, quantity, conn) /\ nextId \in OrderIds
    BY <1>1, <1>2, AddIdeal
  <2> QED
    BY <2>1, Vocabulary, Zenon DEF Ideal!Next
<1>3. ASSUME NEW id \in OrderIds, NEW price \in Prices, NEW quantity \in Quantities,
             NEW conn \in Conns, ProcessModify(id, price, quantity, conn)
      PROVE  Ideal!Next
  <2>1. Ideal!Modify(id, price, quantity, conn)
    BY <1>1, <1>3, ModifyIdeal
  <2> QED
    BY <2>1, Vocabulary, Zenon DEF Ideal!Next
<1>4. ASSUME NEW id \in OrderIds, NEW quantity \in Quantities, ModifyThrows(id, quantity)
      PROVE  Ideal!Next
  <2>1. PICK price \in Prices, conn \in Conns : Ideal!Modify(id, price, quantity, conn)
    BY <1>1, <1>4, ModifyFails
  <2> QED
    BY <2>1, Vocabulary, Zenon DEF Ideal!Next
<1>5. ASSUME NEW id \in OrderIds, NEW conn \in Conns, ModifyUnknown(id, conn)
      PROVE  Ideal!Next
  <2>1. Ideal!Refuse("ModifyRejected", id, conn)
    BY <1>1, <1>5, RefuseIdeal DEF ModifyUnknown
  <2> QED
    BY <2>1, Vocabulary, Zenon DEF Ideal!Next
<1>6. ASSUME NEW id \in OrderIds, NEW conn \in Conns, ProcessCancel(id, conn)
      PROVE  Ideal!Next
  <2>1. Ideal!Cancel(id, conn)
    BY <1>1, <1>6, CancelIdeal
  <2> QED
    BY <2>1, Vocabulary, Zenon DEF Ideal!Next
<1>7. ASSUME NEW id \in OrderIds, NEW conn \in Conns, CancelUnknown(id, conn)
      PROVE  Ideal!Next
  <2>1. Ideal!Refuse("CancelRejected", id, conn)
    BY <1>1, <1>7, RefuseIdeal DEF CancelUnknown
  <2> QED
    BY <2>1, Vocabulary, Zenon DEF Ideal!Next
<1>8. CASE ExecuteTrade
  <2>1. PICK maker \in DOMAIN Book : Ideal!Trade(maker)
    BY <1>1, <1>8, TradeIdeal
  <2> QED
    BY <2>1, Zenon DEF Ideal!Next
<1>9. CASE Settle
  BY <1>1, <1>9, SettleIdeal, Zenon DEF Ideal!Next
<1>10. CASE Rest
  BY <1>1, <1>10, RestIdeal, Zenon DEF Ideal!Next
<1>11. CASE RestThrows
  BY <1>1, <1>11, RestFailsIdeal, Zenon DEF Ideal!Next
<1>12. CASE Reply
  BY <1>1, <1>12, ReplyIdeal, Zenon DEF Ideal!Next
<1>13. CASE UNCHANGED vars
  <2>1. UNCHANGED <<bookVars, nextId, incoming, request, phase, emitted>>
    BY <1>13 DEF vars
  <2>2. UNCHANGED <<Book, Ahead, 1..(nextId - 1), incoming, request, phase, emitted>>
    BY <2>1, SameBook
  <2> QED
    BY <2>2 DEF Ideal!vars
<1>14. CASE Receive
  BY <1>2, <1>3, <1>4, <1>5, <1>6, <1>7, <1>14, Zenon DEF Receive
<1>15. CASE Process
  BY <1>8, <1>9, <1>10, <1>11, <1>12, <1>15, Zenon DEF Process
<1> QED
  BY <1>13, <1>14, <1>15 DEF Next

\* The engine is a price-time priority book: what it does with its levels,
\* lists, look-up and totals, and every event it pushes, is what a set of
\* orders of which the best and oldest trades first would do and say.
THEOREM ImplementsPriceTimeBook == Spec => BookSpec
<1>1. EngineInv => Shape
  BY ShapeHolds DEF EngineInv
<1> QED
  BY <1>1, InitEngine, NextEngine, InitIdeal, NextIdeal, PTL DEF Spec, BookSpec, Ideal!Spec
================================================================================
