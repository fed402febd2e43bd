------------------------- MODULE OrderBookFeedProofs -------------------------
(***************************************************************************)
(* Proofs about OrderBookFeed: what a client can conclude from the events of*)
(* the engine alone is what the book holds.                                *)
(***************************************************************************)
EXTENDS OrderBookFeed, PriceTimeBookProofs

\* What the events of a step are, as a set.
LEMMA EventSets ==
  /\ ToSet(<<>>) = {}
  /\ \A a : ToSet(<<a>>) = {a}
  /\ \A a, b : ToSet(<<a, b>>) = {a, b}
  /\ \A a, b, c : ToSet(<<a, b, c>>) = {a, b, c}
<1>1. ToSet(<<>>) = {}
  BY DEF ToSet
<1>2. ASSUME NEW a PROVE ToSet(<<a>>) = {a}
  BY DEF ToSet
<1>3. ASSUME NEW a, NEW b PROVE ToSet(<<a, b>>) = {a, b}
  BY DEF ToSet
<1>4. ASSUME NEW a, NEW b, NEW c PROVE ToSet(<<a, b, c>>) = {a, b, c}
  BY DEF ToSet
<1> QED
  BY <1>1, <1>2, <1>3, <1>4

-----------------------------------------------------------------------------
(***************************************************************************)
(* The depth a client has from the updates.                                *)
(***************************************************************************)
\* The depth announced for one level, and for none.
Announces(s, p, quantity) == NewEvents("BookUpdate") = {BookUpdate(s, p, quantity)}

\* A client that sees one update sets that level, and no other.
LEMMA FollowOne ==
  ASSUME FollowDepth, NEW s, NEW p, NEW quantity, Announces(s, p, quantity),
         NEW t \in Sides, NEW r \in Prices
  PROVE  mirror'[t][r] = IF t = s /\ r = p THEN quantity ELSE mirror[t][r]
<1> DEFINE new == { e \in NewEvents("BookUpdate") : e.side = t /\ e.price = r }
<1>1. mirror'[t][r] = IF new = {} THEN mirror[t][r] ELSE (CHOOSE e \in new : TRUE).quantity
  BY DEF FollowDepth
<1>2. PICK e : e = BookUpdate(s, p, quantity)
  OBVIOUS
<1>3. e.side = s /\ e.price = p /\ e.quantity = quantity
  BY <1>2 DEF BookUpdate
<1>4. new = IF t = s /\ r = p THEN {e} ELSE {}
  BY <1>2, <1>3 DEF Announces
<1> HIDE DEF new
<1> QED
  BY <1>1, <1>3, <1>4

\* A client that sees no update keeps what it has.
LEMMA FollowNone ==
  ASSUME FollowDepth, NewEvents("BookUpdate") = {}, NEW t \in Sides, NEW r \in Prices
  PROVE  mirror'[t][r] = mirror[t][r]
BY DEF FollowDepth

\* Every change of a level is announced, with what the level then holds.
LevelAnnounced ==
    \E s \in Sides, p \in Prices :
        /\ Announces(s, p, LevelQuantity(s, p)')
        /\ \A t \in Sides, r \in Prices :
               ~(t = s /\ r = p) => LevelQuantity(t, r)' = LevelQuantity(t, r)

\* A range from 1 is empty only if it ends at 0.
LEMMA EmptyRange == ASSUME NEW n \in Nat, 1..n = {} PROVE n = 0
<1>1. n >= 1 => 1 \in 1..n
  OBVIOUS
<1> QED
  BY <1>1

\* The list without one of its orders is empty if that was the only one.
LEMMA OnlyOne ==
  ASSUME NEW S, NEW q \in Seq(S), Distinct(q), NEW id, NEW k \in DOMAIN q, q[k] = id,
         NEW rest \in Seq(S), \A y : Has(rest, y) <=> Has(q, y) /\ y # id
  PROVE  rest = <<>> <=> Len(q) = 1
<1>1. DOMAIN q = 1..Len(q) /\ Len(q) \in Nat /\ DOMAIN rest = 1..Len(rest) /\ Len(rest) \in Nat
  BY LenProperties
<1>2. ASSUME rest = <<>> PROVE Len(q) = 1
  <2>1. \A i \in DOMAIN q : q[i] = id
    BY <1>2 DEF Has
  <2>2. \A i \in DOMAIN q : i = k
    BY <2>1 DEF Distinct
  <2> QED
    BY <1>1, <2>2
<1>3. ASSUME Len(q) = 1 PROVE rest = <<>>
  <2>1. \A i \in DOMAIN q : q[i] = id
    BY <1>1, <1>3
  <2>2. ASSUME NEW i \in DOMAIN rest PROVE FALSE
    <3>1. Has(rest, rest[i])
      BY DEF Has
    <3>2. Has(q, rest[i]) /\ rest[i] # id
      BY <3>1
    <3> QED
      BY <2>1, <3>2 DEF Has
  <2>3. Len(rest) = 0
    <3>1. PICK n \in Nat : n = Len(rest)
      BY <1>1, Zenon
    <3>2. 1..n = DOMAIN rest
      BY <1>1, <3>1
    <3>3. 1..n = {}
      BY <2>2, <3>2, Zenon
    <3> QED
      BY <3>1, <3>3, EmptyRange
  <2> QED
    BY <2>3, EmptySeq
<1> QED
  BY <1>2, <1>3

\* Taking an order out is announced with what its level holds afterwards.
LEMMA EraseAnnounced ==
  ASSUME IInv, NEW id \in OrderIds, lookup[id] # Nowhere, Erase(id),
         NewEvents("BookUpdate") = {Erased(id)}
  PROVE  LevelAnnounced
<1>1. PICK s \in Sides, p \in Prices :
          lookup[id] = [side |-> s, price |-> p] /\ s = lookup[id].side /\ p = lookup[id].price
  BY Located DEF IInv
<1>2. PICK q : q = queue[s][p]
  OBVIOUS
<1>3. q \in Seq(OrderIds) /\ Has(q, id)
  BY <1>1, <1>2 DEF IInv, TypeOK, LookupInv
<1>4. PICK k : k = IndexIn(q, id) /\ k \in DOMAIN q
  BY <1>3 DEF IndexIn, Has
<1>5. /\ q[k] = id /\ Distinct(q) /\ RemoveAt(q, k) \in Seq(OrderIds)
      /\ \A y : Has(RemoveAt(q, k), y) <=> Has(q, y) /\ y # id
  <2>1. q[k] = id
    BY <1>3, <1>4 DEF IndexIn, Has
  <2>2. Distinct(q)
    BY <1>2 DEF IInv, LevelInv
  <2> QED
    BY <1>3, <1>4, <2>1, <2>2, RemoveList
<1>6. RemoveAt(q, k) = <<>> <=> Len(q) = 1
  BY <1>3, <1>4, <1>5, OnlyOne
<1>7. p \in levels[s]
  BY <1>2, <1>3 DEF IInv, LevelInv, Has
<1>8. /\ total' = [total EXCEPT ![s][p] = total[s][p] - resting[id].remaining]
      /\ levels' = IF Len(q) = 1 THEN [levels EXCEPT ![s] = @ \ {p}] ELSE levels
  <2>1. PICK rest : rest = RemoveAt(q, k) /\ (rest = <<>> <=> Len(q) = 1)
    BY <1>6
  <2>2. /\ total' = [total EXCEPT ![s][p] = total[s][p] - resting[id].remaining]
        /\ levels' = IF rest = <<>> THEN [levels EXCEPT ![s] = @ \ {p}] ELSE levels
    BY <1>1, <1>2, <1>4, <2>1 DEF Erase, Without
  <2> QED
    BY <2>1, <2>2
<1>9. Erased(id) = BookUpdate(s, p, LevelQuantity(s, p)')
  BY <1>1, <1>2, <1>7, <1>8 DEF Erased, LevelQuantity, IInv, TypeOK
<1>10. \A t \in Sides, r \in Prices :
           ~(t = s /\ r = p) => LevelQuantity(t, r)' = LevelQuantity(t, r)
  BY <1>1, <1>8 DEF LevelQuantity, IInv, TypeOK
<1> QED
  BY <1>9, <1>10 DEF LevelAnnounced, Announces

\* Resting an order is announced with what its level holds afterwards.
LEMMA RestAnnounced ==
  ASSUME IInv, Rest
  PROVE  LevelAnnounced
<1>1. PICK s, p : s = incoming.side /\ p = incoming.price
  OBVIOUS
<1>2. s \in Sides /\ p \in Prices
  BY <1>1 DEF Rest, IInv, TypeOK, Order
<1>3. PICK depth : /\ depth = total[s][p] + incoming.remaining
                   /\ levels' = [levels EXCEPT ![s] = @ \union {p}]
                   /\ total' = [total EXCEPT ![s][p] = depth]
                   /\ emitted' = <<BookUpdate(s, p, depth)>>
  BY <1>1 DEF Rest
<1>4. LevelQuantity(s, p)' = depth
  BY <1>2, <1>3 DEF LevelQuantity, IInv, TypeOK
<1>5. \A t \in Sides, r \in Prices :
          ~(t = s /\ r = p) => LevelQuantity(t, r)' = LevelQuantity(t, r)
  BY <1>2, <1>3 DEF LevelQuantity, IInv, TypeOK
<1>6. Announces(s, p, depth)
  <2>1. ToSet(emitted') = {BookUpdate(s, p, depth)}
    BY <1>3, EventSets
  <2> QED
    BY <2>1 DEF NewEvents, BookUpdate, Announces
<1> QED
  BY <1>2, <1>4, <1>5, <1>6 DEF LevelAnnounced

\* The events of a trade.
LEMMA TradeEvents ==
  ASSUME IInv, NEW s, NEW p, NEW m, NEW fill, Trade(s, p, m, fill), ExecuteTradeAt(p)
  PROVE  ToSet(emitted') = { TradeExecuted(incoming, resting[m], p, fill),
                             BookUpdate(s, p, total[s][p] - fill), MakerEvent(resting[m], fill) }
<1>1. PICK a, b, c : /\ a = TradeExecuted(incoming, resting[m], p, fill)
                     /\ b = BookUpdate(s, p, total[s][p] - fill) /\ c = MakerEvent(resting[m], fill)
  OBVIOUS
<1>2. emitted' = <<a, b, c>>
  BY <1>1, TradePushes
<1> QED
  BY <1>1, <1>2, EventSets

\* A step that trades reports one trade.
LEMMA TradeReported ==
  ASSUME IInv, NEW s, NEW p, NEW m, NEW fill, Trade(s, p, m, fill), ExecuteTradeAt(p)
  PROVE  NewEvents("TradeExecuted") = { TradeExecuted(incoming, resting[m], p, fill) }
<1>1. PICK a, b, c : /\ a = TradeExecuted(incoming, resting[m], p, fill)
                     /\ b = BookUpdate(s, p, total[s][p] - fill) /\ c = MakerEvent(resting[m], fill)
  OBVIOUS
<1>2. ToSet(emitted') = {a, b, c}
  BY <1>1, TradeEvents
<1>3. a.kind = "TradeExecuted" /\ b.kind # "TradeExecuted" /\ c.kind # "TradeExecuted"
  BY <1>1 DEF TradeExecuted, BookUpdate, MakerEvent, Private, OrderRested
<1> QED
  BY <1>1, <1>2, <1>3 DEF NewEvents

\* A trade is announced with what the level holds afterwards, 0 when it is gone.
LEMMA TradeAnnounced ==
  ASSUME IInv, IInv', TotalsMatchOrders', ExecuteTrade
  PROVE  LevelAnnounced
<1>1. PICK s, p, m, fill : Trade(s, p, m, fill) /\ ExecuteTradeAt(p)
  BY TradeIs
<1>2. s \in Sides /\ p \in Prices /\ p \in levels[s] /\ fill \in Nat
  BY <1>1 DEF Trade, CanTradeAt
<1>3. Traded(s, p, m, fill)
  BY <1>1, TradeChanges
<1>4. /\ total' = [total EXCEPT ![s][p] = total[s][p] - fill]
      /\ levels' = IF queue'[s][p] = <<>> THEN [levels EXCEPT ![s] = @ \ {p}] ELSE levels
  BY <1>3 DEF Traded
<1>5. PICK depth : depth = total[s][p] - fill
  OBVIOUS
<1>6. queue'[s][p] = <<>> => total'[s][p] = 0
  <2> SUFFICES ASSUME queue'[s][p] = <<>> PROVE total'[s][p] = 0
    OBVIOUS
  <2>1. PICK open : /\ open = OpenQuantity'
                    /\ total'[s][p] = SumFunctionOnSet(open, ToSet(queue'[s][p]))
    BY <1>2 DEF TotalsMatchOrders
  <2>2. ToSet(queue'[s][p]) = {}
    BY EventSets
  <2>3. SumFunctionOnSet(open, {}) = 0
    BY SumRec, FS_EmptySet
  <2> QED
    BY <2>1, <2>2, <2>3
<1>7. total'[s][p] = depth
  BY <1>2, <1>4, <1>5 DEF IInv, TypeOK
<1>8. LevelQuantity(s, p)' = depth
  <2>1. CASE queue'[s][p] = <<>>
    BY <1>2, <1>4, <1>6, <1>7, <2>1 DEF LevelQuantity, IInv, TypeOK
  <2>2. CASE queue'[s][p] # <<>>
    BY <1>2, <1>4, <1>7, <2>2 DEF LevelQuantity, IInv, TypeOK
  <2> QED
    BY <2>1, <2>2
<1>9. \A t \in Sides, r \in Prices :
          ~(t = s /\ r = p) => LevelQuantity(t, r)' = LevelQuantity(t, r)
  BY <1>2, <1>4 DEF LevelQuantity, IInv, TypeOK
<1>10. Announces(s, p, depth)
  <2>1. PICK a, b, c : /\ a = TradeExecuted(incoming, resting[m], p, fill)
                       /\ b = BookUpdate(s, p, depth) /\ c = MakerEvent(resting[m], fill)
    OBVIOUS
  <2>2. ToSet(emitted') = {a, b, c}
    BY <1>1, <1>5, <2>1, TradeEvents
  <2>3. a.kind # "BookUpdate" /\ b.kind = "BookUpdate" /\ c.kind # "BookUpdate"
    BY <2>1 DEF TradeExecuted, BookUpdate, MakerEvent, Private, OrderRested
  <2> QED
    BY <2>1, <2>2, <2>3 DEF Announces, NewEvents
<1> QED
  BY <1>2, <1>8, <1>9, <1>10 DEF LevelAnnounced

\* An answer is neither an update nor a trade.
LEMMA AnswerKinds ==
  ASSUME status \in Statuses \ {"None"}
  PROVE  /\ AddAnswer.kind \in {"OrderRejected", "OrderFilled", "OrderExpired", "OrderRested"}
         /\ ModifyAnswer.kind \in {"ModifyRejected", "OrderModified"}
BY DEF AddAnswer, ModifyAnswer, Private, OrderRested, OrderModified, Statuses

-----------------------------------------------------------------------------
(***************************************************************************)
(* What an order is when the engine answers it.                            *)
(***************************************************************************)
AnswerInv ==
    phase = "reply" =>
        /\ status \in {"Rejected", "FullyFilled", "Resting", "PartiallyFilled"}
        /\ status = "Rejected" => executed = 0 /\ ~ShouldRest
        /\ status = "FullyFilled" => incoming.remaining = 0
        /\ status \in {"Resting", "PartiallyFilled"} => incoming.remaining > 0
        /\ lookup[incoming.id] # Nowhere <=> ShouldRest
        /\ ShouldRest => resting[incoming.id] = incoming

\* A message that is accepted: a new order, or one that is modified.
Enters(order, req) == phase = "idle" /\ AddOrder(order, req)
EntersNew(order, req) ==
    /\ Enters(order, req) /\ order \in Order /\ req \in Request
    /\ order.id = nextId /\ lookup[nextId] = Nowhere
    /\ req.kind = "add" /\ req.conn = order.conn /\ req.quantity = order.remaining
    /\ UNCHANGED bookVars /\ ToSet(emitted') = {}
EntersAgain(order, req, id) ==
    /\ Enters(order, req) /\ order \in Order /\ req \in Request
    /\ order.id = id /\ lookup[id] # Nowhere /\ order.conn = resting[id].conn
    /\ ~FillOrKill(order)
    /\ req.kind = "modify" /\ req.quantity = order.remaining
    /\ Erase(id) /\ ToSet(emitted') = {Erased(id)}
Cancels(id, conn) ==
    /\ lookup[id] # Nowhere /\ Erase(id) /\ phase = "idle" /\ phase' = "idle"
    /\ ToSet(emitted') = {Erased(id), Private("OrderCanceled", id, conn)}
\* The end of a message that was never matched, or of the process.
Ends ==
    /\ UNCHANGED bookVars /\ phase \in {"idle", "match"} /\ phase' \in {"idle", "terminated"}
    /\ \A e \in ToSet(emitted') : e.kind \in {"ModifyRejected", "CancelRejected"}

\* The steps of the engine, as the observers see them.
LEMMA Steps ==
  ASSUME IInv, KillInv, Next
  PROVE  \/ \E order, req : EntersNew(order, req)
         \/ \E order, req : \E id \in OrderIds : EntersAgain(order, req, id)
         \/ \E id \in OrderIds, conn \in Conns : Cancels(id, conn)
         \/ Ends \/ ExecuteTrade \/ Settle \/ Rest \/ Reply
<1> USE Constants
<1>1. ASSUME NEW type \in OrderTypes, NEW tif \in TimesInForce, NEW side \in Sides,
             NEW price \in Prices, NEW quantity \in Quantities, NEW conn \in Conns,
             ProcessAdd(type, tif, side, price, quantity, conn)
      PROVE  Ends \/ \E order, req : EntersNew(order, req)
  <2>1. CASE quantity <= 0
    BY <1>1, <2>1, EventSets DEF ProcessAdd, Throw, Ends
  <2>2. CASE ~(quantity <= 0)
    <3>1. PICK order, req :
             /\ order = [id |-> nextId, type |-> type, tif |-> tif, side |-> side,
                         price |-> price, remaining |-> quantity, conn |-> conn]
             /\ req = [kind |-> "add", quantity |-> quantity, conn |-> conn]
      OBVIOUS
    <3>2. quantity \in Nat /\ nextId \in OrderIds
      BY <1>1, <2>2, BookAssumption DEF ProcessAdd, IInv, TypeOK
    <3>3. order \in Order /\ req \in Request
      BY <3>1, <3>2 DEF Order, Request
    <3>4. /\ order.id = nextId /\ req.kind = "add"
          /\ req.conn = order.conn /\ req.quantity = order.remaining
      BY <3>1
    <3>5. AddOrder(order, req) /\ phase = "idle" /\ UNCHANGED bookVars /\ emitted' = <<>>
      BY <1>1, <2>2, <3>1 DEF ProcessAdd
    <3>6. lookup[nextId] = Nowhere
      BY <3>2 DEF IInv, IdInv
    <3>7. ToSet(emitted') = {}
      BY <3>5, EventSets
    <3> QED
      BY <3>3, <3>4, <3>5, <3>6, <3>7 DEF EntersNew, Enters
  <2> QED
    BY <2>1, <2>2
<1>2. ASSUME NEW id \in OrderIds, NEW price \in Prices, NEW quantity \in Quantities,
             NEW conn \in Conns, ProcessModify(id, price, quantity, conn)
      PROVE  \E order, req : EntersAgain(order, req, id)
  <2>1. PICK order, req : /\ order = [resting[id] EXCEPT !.price = price, !.remaining = quantity]
                          /\ req = [kind |-> "modify", quantity |-> quantity, conn |-> conn]
    OBVIOUS
  <2>2. /\ phase = "idle" /\ lookup[id] # Nowhere /\ quantity \in Nat
        /\ AddOrder(order, req) /\ Erase(id) /\ emitted' = <<Erased(id)>>
    BY <1>2, <2>1, BookAssumption DEF ProcessModify
  <2>3. resting[id] \in Order /\ resting[id].id = id /\ ~FillOrKill(resting[id])
    BY <2>2 DEF IInv, RestingInv, KillInv, NoKillRests
  <2>4. /\ order \in Order /\ req \in Request /\ order.id = id /\ order.conn = resting[id].conn
        /\ order.type = resting[id].type /\ order.tif = resting[id].tif
        /\ req.kind = "modify" /\ req.quantity = order.remaining
    BY <2>1, <2>2, <2>3 DEF Order, Request
  <2>5. ToSet(emitted') = {Erased(id)}
    BY <2>2, EventSets
  <2> QED
    BY <2>2, <2>3, <2>4, <2>5 DEF EntersAgain, Enters, FillOrKill
<1>3. ASSUME NEW id \in OrderIds, NEW conn \in Conns, ProcessCancel(id, conn)
      PROVE  Cancels(id, conn)
  BY <1>3, EventSets DEF ProcessCancel, Cancels
<1>4. ASSUME NEW id \in OrderIds, NEW quantity \in Quantities, ModifyThrows(id, quantity)
      PROVE  Ends
  BY <1>4, EventSets DEF ModifyThrows, Throw, Ends
<1>5. ASSUME NEW id \in OrderIds, NEW conn \in Conns,
             ModifyUnknown(id, conn) \/ CancelUnknown(id, conn)
      PROVE  Ends
  <2>1. PICK e : e.kind \in {"ModifyRejected", "CancelRejected"} /\ Answer(e)
    BY <1>5 DEF ModifyUnknown, CancelUnknown, Private
  <2>2. ToSet(emitted') = {e}
    BY <2>1, EventSets DEF Answer
  <2> QED
    BY <1>5, <2>1, <2>2 DEF ModifyUnknown, CancelUnknown, Answer, Ends
<1>6. ASSUME RestThrows PROVE Ends
  BY <1>6, EventSets DEF RestThrows, Throw, Ends
<1> QED
  BY <1>1, <1>2, <1>3, <1>4, <1>5, <1>6 DEF Next, Receive, Process

\* An accepted order is matched, or rejected as a fill-or-kill order.
LEMMA EntersPhase ==
  ASSUME NEW order, NEW req, Enters(order, req)
  PROVE  /\ phase = "idle" /\ phase' \in {"match", "reply"}
         /\ incoming' = order /\ request' = req /\ executed' = 0
         /\ phase' = "reply" => status' = "Rejected" /\ FillOrKill(order)
BY DEF Enters, AddOrder, FillOrKill

\* match_order leaves the status that fits what the order has left.
LEMMA AnswerStays ==
  ASSUME IInv, KillInv, AnswerInv, Next
  PROVE  AnswerInv'
<1>1. ASSUME NEW order, NEW req, Enters(order, req), order \in Order,
             FillOrKill(order) => lookup'[order.id] = Nowhere
      PROVE  AnswerInv'
  BY <1>1, EntersPhase DEF AnswerInv, FillOrKill, ShouldRest
<1>2. CASE \E order, req : EntersNew(order, req)
  BY <1>1, <1>2 DEF EntersNew, bookVars
<1>3. CASE \E order, req : \E id \in OrderIds : EntersAgain(order, req, id)
  BY <1>1, <1>3 DEF EntersAgain
<1>4. CASE phase' # "reply"
  BY <1>4 DEF AnswerInv
<1>5. CASE Settle
  <2>1. /\ phase = "match" /\ UNCHANGED <<bookVars, incoming, executed>> /\ ~ShouldRest
        /\ status' = FromMatch /\ lookup[incoming.id] = Nowhere
        /\ incoming.remaining \in Nat /\ executed \in Nat
    BY <1>5 DEF Settle, IInv, IdInv, TypeOK, Order
  <2>2. ~ShouldRest'
    BY <2>1 DEF ShouldRest
  <2> QED
    BY <2>1, <2>2 DEF AnswerInv, FromMatch, bookVars
<1>6. CASE Rest
  <2>1. PICK id : id = incoming.id
    OBVIOUS
  <2>2. /\ id \in OrderIds /\ lookup[id] = Nowhere /\ incoming.side \in Sides
        /\ incoming.remaining \in Nat /\ executed \in Nat
    BY <1>6, <2>1 DEF Rest, IInv, TypeOK, Order, IdInv
  <2>3. /\ resting'[id] = incoming /\ UNCHANGED <<incoming, executed>>
        /\ lookup'[id] = [side |-> incoming.side, price |-> incoming.price]
        /\ status' = FromMatch /\ ShouldRest
    BY <1>6, <2>1, <2>2 DEF Rest, IInv, TypeOK
  <2>4. lookup'[id] # Nowhere
    BY <2>2, <2>3, NoneDistinct
  <2>5. ShouldRest' /\ incoming.remaining > 0 /\ incoming.type = "Limit"
    BY <2>3 DEF ShouldRest
  <2> QED
    BY <2>1, <2>2, <2>3, <2>4, <2>5 DEF AnswerInv, FromMatch
<1>7. phase' = "reply" => \/ \E order, req : EntersNew(order, req)
                          \/ \E order, req : \E id \in OrderIds : EntersAgain(order, req, id)
                          \/ Settle \/ Rest
  BY Steps DEF Cancels, Ends, ExecuteTrade, Reply, Answer
<1> QED
  BY <1>2, <1>3, <1>4, <1>5, <1>6, <1>7

-----------------------------------------------------------------------------
(***************************************************************************)
(* Depth.                                                                  *)
(***************************************************************************)
\* A step announces what it does to the one level it changes, or changes none.
LEMMA StepAnnounced ==
  ASSUME IInv, IInv', TotalsMatchOrders', KillInv, AnswerInv, Next
  PROVE  LevelAnnounced \/ (UNCHANGED bookVars /\ NewEvents("BookUpdate") = {})
<1>1. ASSUME NEW order, NEW req, EntersNew(order, req)
      PROVE  UNCHANGED bookVars /\ NewEvents("BookUpdate") = {}
  BY <1>1 DEF EntersNew, NewEvents
<1>2. ASSUME NEW order, NEW req, NEW id \in OrderIds, EntersAgain(order, req, id)
      PROVE  LevelAnnounced
  <2>1. lookup[id] # Nowhere /\ Erase(id) /\ ToSet(emitted') = {Erased(id)}
    BY <1>2 DEF EntersAgain
  <2>2. Erased(id).kind = "BookUpdate"
    BY DEF Erased, BookUpdate
  <2>3. NewEvents("BookUpdate") = {Erased(id)}
    BY <2>1, <2>2 DEF NewEvents
  <2> QED
    BY <2>1, <2>3, EraseAnnounced
<1>3. ASSUME NEW id \in OrderIds, NEW conn \in Conns, Cancels(id, conn)
      PROVE  LevelAnnounced
  <2>1. PICK e : e = Private("OrderCanceled", id, conn)
    OBVIOUS
  <2>2. lookup[id] # Nowhere /\ Erase(id) /\ ToSet(emitted') = {Erased(id), e}
    BY <1>3, <2>1 DEF Cancels
  <2>3. Erased(id).kind = "BookUpdate" /\ e.kind # "BookUpdate"
    BY <2>1 DEF Erased, BookUpdate, Private
  <2>4. NewEvents("BookUpdate") = {Erased(id)}
    BY <2>2, <2>3 DEF NewEvents
  <2> QED
    BY <2>2, <2>4, EraseAnnounced
<1>4. ASSUME Ends PROVE UNCHANGED bookVars /\ NewEvents("BookUpdate") = {}
  BY <1>4 DEF Ends, NewEvents
<1>5. ASSUME Settle PROVE UNCHANGED bookVars /\ NewEvents("BookUpdate") = {}
  BY <1>5, EventSets DEF Settle, NewEvents
<1>6. ASSUME Reply PROVE UNCHANGED bookVars /\ NewEvents("BookUpdate") = {}
  <2>1. PICK e : Answer(e) /\ e.kind # "BookUpdate" /\ UNCHANGED bookVars
    <3>1. status \in Statuses \ {"None"}
      BY <1>6 DEF Reply, AnswerInv, Statuses
    <3> QED
      BY <1>6, <3>1, AnswerKinds DEF Reply
  <2>2. ToSet(emitted') = {e}
    BY <2>1, EventSets DEF Answer
  <2> QED
    BY <2>1, <2>2 DEF NewEvents
<1> QED
  BY <1>1, <1>2, <1>3, <1>4, <1>5, <1>6, RestAnnounced, TradeAnnounced, Steps

\* A client that follows the updates of a step keeps the depth of the book.
LEMMA DepthStep ==
  ASSUME IInv, IInv', TotalsMatchOrders', KillInv, AnswerInv, DepthFeedIsBook, Next, FollowDepth
  PROVE  DepthFeedIsBook'
<1>1. CASE LevelAnnounced
  <2>1. PICK s \in Sides, p \in Prices :
          /\ Announces(s, p, LevelQuantity(s, p)')
          /\ \A t \in Sides, r \in Prices :
                 ~(t = s /\ r = p) => LevelQuantity(t, r)' = LevelQuantity(t, r)
    BY <1>1 DEF LevelAnnounced
  <2>2. PICK depth : depth = LevelQuantity(s, p)'
    OBVIOUS
  <2>3. \A t \in Sides, r \in Prices :
            mirror'[t][r] = IF t = s /\ r = p THEN depth ELSE mirror[t][r]
    BY <2>1, <2>2, FollowOne
  <2> SUFFICES ASSUME NEW t \in Sides, NEW r \in Prices
               PROVE  mirror'[t][r] = LevelQuantity(t, r)'
    BY DEF DepthFeedIsBook
  <2>4. CASE t = s /\ r = p
    BY <2>2, <2>3, <2>4
  <2>5. CASE ~(t = s /\ r = p)
    BY <2>1, <2>3, <2>5 DEF DepthFeedIsBook
  <2> QED
    BY <2>4, <2>5
<1>2. CASE UNCHANGED bookVars /\ NewEvents("BookUpdate") = {}
  <2> SUFFICES ASSUME NEW t \in Sides, NEW r \in Prices
               PROVE  mirror'[t][r] = LevelQuantity(t, r)'
    BY DEF DepthFeedIsBook
  <2>1. mirror'[t][r] = mirror[t][r]
    BY <1>2, FollowNone
  <2>2. LevelQuantity(t, r)' = LevelQuantity(t, r)
    BY <1>2 DEF bookVars, LevelQuantity
  <2> QED
    BY <2>1, <2>2 DEF DepthFeedIsBook
<1> QED
  BY <1>1, <1>2, StepAnnounced

-----------------------------------------------------------------------------
(***************************************************************************)
(* Trades.                                                                 *)
(***************************************************************************)
MatchedInv ==
    phase \in {"match", "reply"} =>
        /\ traded[incoming.id] + incoming.remaining = placed[incoming.id]
        /\ traded[incoming.id] = executed
FillsInv == traded \in [OrderIds -> Nat] /\ MatchedInv /\ FillsAddUp

\* What an observer forgets or starts anew.
Fresh(id) == (Entering /\ id = incoming'.id) \/ ~Live(id)

\* Without a trade the accounts stay, or start anew.
LEMMA NoTrade ==
  ASSUME FollowTrades, traded \in [OrderIds -> Nat], NewEvents("TradeExecuted") = {}
  PROVE  /\ traded' \in [OrderIds -> Nat]
         /\ \A id \in OrderIds : traded'[id] = IF Fresh(id) THEN 0 ELSE traded[id]
<1>1. ASSUME NEW id \in OrderIds PROVE traded'[id] = IF Fresh(id) THEN 0 ELSE traded[id]
  <2>1. PICK trades : /\ trades = { e \in NewEvents("TradeExecuted") : Party(id, e) }
                      /\ traded'[id] = IF Fresh(id) THEN 0
                            ELSE traded[id] + SumFunction([e \in trades |-> e.quantity])
    BY DEF FollowTrades, Fresh
  <2>2. trades = {}
    BY <2>1
  <2>3. PICK f : f = [e \in trades |-> e.quantity]
    OBVIOUS
  <2>4. SumFunction(f) = 0
    BY <2>2, <2>3, SumRec, FS_EmptySet DEF SumFunction
  <2> QED
    BY <2>1, <2>3, <2>4
<1>2. traded' = [id \in OrderIds |-> traded'[id]]
  BY DEF FollowTrades
<1> QED
  BY <1>1, <1>2

\* One trade is added to the accounts of its two orders.
LEMMA OneTrade ==
  ASSUME FollowTrades, traded \in [OrderIds -> Nat], NEW a, a.quantity \in Nat,
         NewEvents("TradeExecuted") = {a}
  PROVE  /\ traded' \in [OrderIds -> Nat]
         /\ \A id \in OrderIds :
                traded'[id] = IF Fresh(id) THEN 0
                              ELSE IF Party(id, a) THEN traded[id] + a.quantity ELSE traded[id]
<1>1. ASSUME NEW id \in OrderIds
      PROVE  traded'[id] = IF Fresh(id) THEN 0
                           ELSE IF Party(id, a) THEN traded[id] + a.quantity ELSE traded[id]
  <2>1. PICK trades : /\ trades = { e \in NewEvents("TradeExecuted") : Party(id, e) }
                      /\ traded'[id] = IF Fresh(id) THEN 0
                            ELSE traded[id] + SumFunction([e \in trades |-> e.quantity])
    BY DEF FollowTrades, Fresh
  <2>2. PICK f : f = [e \in trades |-> e.quantity]
    OBVIOUS
  <2>3. CASE ~Party(id, a)
    <3>1. trades = {}
      BY <2>1, <2>3
    <3>2. SumFunction(f) = 0
      BY <2>2, <3>1, SumRec, FS_EmptySet DEF SumFunction
    <3> QED
      BY <2>1, <2>2, <2>3, <3>2
  <2>4. CASE Party(id, a)
    <3>1. trades = {a}
      BY <2>1, <2>4
    <3>2. DOMAIN f = {a} /\ f[a] = a.quantity
      BY <2>2, <3>1
    <3>3. IsFiniteSet({a}) /\ {a} # {} /\ Pick({a}) = a /\ {a} \ {a} = {}
      BY FS_Singleton DEF Pick
    <3>4. SumFunctionOnSet(f, {a}) = f[a] + SumFunctionOnSet(f, {})
      BY <3>3, SumRec
    <3>5. SumFunctionOnSet(f, {}) = 0
      BY SumRec, FS_EmptySet
    <3>6. SumFunction(f) = a.quantity
      BY <3>2, <3>4, <3>5 DEF SumFunction
    <3> QED
      BY <2>1, <2>2, <2>4, <3>6
  <2> QED
    BY <2>3, <2>4
<1>2. traded' = [id \in OrderIds |-> traded'[id]]
  BY DEF FollowTrades
<1> QED
  BY <1>1, <1>2

\* What is placed is set when the order enters.
LEMMA PlacedIs ==
  ASSUME FollowTrades, NEW id \in OrderIds
  PROVE  placed'[id] = IF Entering /\ id = incoming'.id THEN request'.quantity
                       ELSE IF Live(id) THEN placed[id] ELSE 0
BY DEF FollowTrades

\* Orders that stay in the book, and are not entering, keep their sum.
LEMMA KeptFills ==
  ASSUME FollowTrades, FillsInv, NewEvents("TradeExecuted") = {},
         NEW x \in OrderIds, lookup[x] # Nowhere, resting'[x] = resting[x],
         ~(Entering /\ x = incoming'.id)
  PROVE  traded'[x] + resting'[x].remaining = placed'[x]
<1>1. Live(x) /\ ~Fresh(x)
  BY DEF Live, Fresh
<1>2. traded'[x] = traded[x] /\ placed'[x] = placed[x]
  BY <1>1, NoTrade, PlacedIs DEF FillsInv
<1> QED
  BY <1>2 DEF FillsInv, FillsAddUp

\* Entering starts the account of an order.
LEMMA EnterFills ==
  ASSUME FollowTrades, FillsInv, NewEvents("TradeExecuted") = {},
         NEW order \in Order, NEW req, Enters(order, req), req.quantity = order.remaining
  PROVE  MatchedInv'
<1>1. /\ Entering /\ incoming' = order /\ request' = req /\ executed' = 0
  BY EntersPhase DEF Entering
<1>2. order.id \in OrderIds /\ order.remaining \in Nat
  BY DEF Order
<1>3. traded'[order.id] = 0 /\ placed'[order.id] = order.remaining
  BY <1>1, <1>2, NoTrade, PlacedIs DEF FillsInv, Fresh
<1> QED
  BY <1>1, <1>2, <1>3 DEF MatchedInv

\* A trade adds to the accounts of its two orders what it takes from both.
MakerAccount(m, fill) == traded'[m] + (resting[m].remaining - fill) = placed'[m]

\* A trade keeps the accounts of the taker, the maker and all others.
LEMMA TradeFills ==
  ASSUME IInv, PlaceInv, FillsInv, FollowTrades, ExecuteTrade,
         NEW s, NEW p, NEW m, NEW fill, Trade(s, p, m, fill), ExecuteTradeAt(p)
  PROVE  FillsInv' /\ MakerAccount(m, fill)
<1>2. Traded(s, p, m, fill)
  BY TradeChanges
<1>3. PICK x : x = incoming.id
  OBVIOUS
<1>4. /\ s \in Sides /\ m \in OrderIds /\ fill \in Nat /\ s = Opposite(incoming.side)
      /\ lookup[m] # Nowhere /\ lookup[m].side = s
      /\ resting[m] \in Order /\ resting[m].id = m /\ resting[m].remaining \in Nat
  BY DEF Trade, Order
<1>5. /\ phase = "match" /\ phase' = "match" /\ incoming \in Order /\ x \in OrderIds
      /\ lookup[x] = Nowhere /\ executed \in Nat /\ incoming.remaining \in Nat
  BY <1>3 DEF ExecuteTrade, IInv, IdInv, TypeOK, Order
<1>6. x # m /\ resting[m].side = s
  BY <1>4, <1>5 DEF PlaceInv
<1>7. PICK a : a = TradeExecuted(incoming, resting[m], p, fill)
  OBVIOUS
<1>8. NewEvents("TradeExecuted") = {a}
  BY <1>7, TradeReported
<1>9. /\ a.quantity = fill
      /\ a.buyer = IF incoming.side = "Buy" THEN x ELSE m
      /\ a.seller = IF incoming.side = "Buy" THEN m ELSE x
  BY <1>3, <1>4, <1>7 DEF TradeExecuted
<1>10. \A y \in OrderIds : Party(y, a) <=> y = x \/ y = m
  BY <1>3, <1>4, <1>5, <1>6, <1>9 DEF Party, Opposite
<1>11. ~Entering
  BY <1>5 DEF Entering
<1>12. /\ traded' \in [OrderIds -> Nat]
       /\ \A y \in OrderIds : traded'[y] = IF Fresh(y) THEN 0
                                 ELSE IF y = x \/ y = m THEN traded[y] + fill ELSE traded[y]
  BY <1>4, <1>8, <1>9, <1>10, OneTrade DEF FillsInv
<1>13. \A y \in OrderIds : Live(y) =>
           /\ placed'[y] = placed[y]
           /\ traded'[y] = IF y = x \/ y = m THEN traded[y] + fill ELSE traded[y]
  BY <1>11, <1>12, PlacedIs DEF Fresh
<1>14. /\ incoming'.id = x /\ incoming'.remaining = incoming.remaining - fill
       /\ executed' = executed + fill
  BY <1>2, <1>3, <1>5 DEF Traded, Order
<1>15. MatchedInv'
  <2>1. placed'[x] = placed[x] /\ traded'[x] = traded[x] + fill
    BY <1>3, <1>5, <1>13 DEF Live
  <2>2. traded[x] + incoming.remaining = placed[x] /\ traded[x] = executed
    BY <1>3, <1>5 DEF FillsInv, MatchedInv
  <2>3. traded'[x] + incoming'.remaining = placed'[x] /\ traded'[x] = executed'
    BY <1>4, <1>5, <1>14, <2>1, <2>2
  <2> QED
    BY <1>14, <2>3 DEF MatchedInv
<1>16. MakerAccount(m, fill)
  <2>1. placed'[m] = placed[m] /\ traded'[m] = traded[m] + fill
    BY <1>4, <1>13 DEF Live
  <2>2. traded[m] + resting[m].remaining = placed[m] /\ traded[m] \in Nat
    BY <1>4 DEF FillsInv, FillsAddUp
  <2> QED
    BY <1>4, <2>1, <2>2 DEF MakerAccount
<1>17. FillsAddUp'
  <2> SUFFICES ASSUME NEW y \in OrderIds, lookup'[y] # Nowhere
               PROVE  traded'[y] + resting'[y].remaining = placed'[y]
    BY DEF FillsAddUp
  <2>1. CASE y = m
    <3>1. resting'[m] = [resting[m] EXCEPT !.remaining = @ - fill]
      BY <1>2, <2>1 DEF Traded
    <3>2. resting'[m].remaining = resting[m].remaining - fill
      BY <1>4, <3>1 DEF Order
    <3> QED
      BY <1>16, <2>1, <3>2 DEF MakerAccount
  <2>2. CASE y # m
    <3>1. lookup[y] # Nowhere /\ resting'[y] = resting[y] /\ y # x
      BY <1>2, <1>5, <2>2 DEF Traded
    <3>2. placed'[y] = placed[y] /\ traded'[y] = traded[y]
      BY <1>13, <2>2, <3>1 DEF Live
    <3> QED
      BY <3>1, <3>2 DEF FillsInv, FillsAddUp
  <2> QED
    BY <2>1, <2>2
<1> QED
  BY <1>12, <1>15, <1>16, <1>17 DEF FillsInv

\* Only trades are announced as trades.
LEMMA OtherEvents ==
  ASSUME IInv, KillInv, AnswerInv, Next
  PROVE  ExecuteTrade \/ NewEvents("TradeExecuted") = {}
<1>1. ASSUME NEW id PROVE Erased(id).kind # "TradeExecuted"
  BY DEF Erased, BookUpdate
<1>2. ASSUME NEW order, NEW req, EntersNew(order, req) PROVE NewEvents("TradeExecuted") = {}
  BY <1>2 DEF EntersNew, NewEvents
<1>3. ASSUME NEW order, NEW req, NEW id \in OrderIds, EntersAgain(order, req, id)
      PROVE  NewEvents("TradeExecuted") = {}
  BY <1>1, <1>3 DEF EntersAgain, NewEvents
<1>4. ASSUME NEW id \in OrderIds, NEW conn \in Conns, Cancels(id, conn)
      PROVE  NewEvents("TradeExecuted") = {}
  <2>1. PICK e : e = Private("OrderCanceled", id, conn)
    OBVIOUS
  <2>2. e.kind # "TradeExecuted" /\ ToSet(emitted') = {Erased(id), e}
    BY <1>4, <2>1 DEF Cancels, Private
  <2> QED
    BY <1>1, <2>2 DEF NewEvents
<1>5. ASSUME Ends PROVE NewEvents("TradeExecuted") = {}
  BY <1>5 DEF Ends, NewEvents
<1>6. ASSUME Settle PROVE NewEvents("TradeExecuted") = {}
  BY <1>6, EventSets DEF Settle, NewEvents
<1>7. ASSUME Rest PROVE NewEvents("TradeExecuted") = {}
  <2>1. PICK e : e.kind = "BookUpdate" /\ emitted' = <<e>>
    BY <1>7 DEF Rest, BookUpdate
  <2>2. ToSet(emitted') = {e}
    BY <2>1, EventSets
  <2> QED
    BY <2>1, <2>2 DEF NewEvents
<1>8. ASSUME Reply PROVE NewEvents("TradeExecuted") = {}
  <2>1. PICK e : Answer(e) /\ e.kind # "TradeExecuted"
    <3>1. status \in Statuses \ {"None"}
      BY <1>8 DEF Reply, AnswerInv, Statuses
    <3> QED
      BY <1>8, <3>1, AnswerKinds DEF Reply
  <2>2. ToSet(emitted') = {e}
    BY <2>1, EventSets DEF Answer
  <2> QED
    BY <2>1, <2>2 DEF NewEvents
<1> QED
  BY <1>2, <1>3, <1>4, <1>5, <1>6, <1>7, <1>8, Steps

\* Every step keeps the accounts.
LEMMA FillsStep ==
  ASSUME IInv, KillInv, AnswerInv, PlaceInv, FillsInv, Next, FollowTrades
  PROVE  FillsInv'
<1>1. CASE ExecuteTrade
  BY <1>1, TradeIs, TradeFills
<1>2. CASE ~ExecuteTrade
  <2>1. NewEvents("TradeExecuted") = {}
    BY <1>2, OtherEvents
  <2>2. traded' \in [OrderIds -> Nat]
    BY <2>1, NoTrade DEF FillsInv
  <2>3. ASSUME NEW order, NEW req, EntersNew(order, req) PROVE MatchedInv' /\ FillsAddUp'
    <3>1. MatchedInv'
      BY <2>1, <2>3, EnterFills DEF EntersNew
    <3>2. incoming' = order /\ order.id = nextId /\ lookup[nextId] = Nowhere /\ UNCHANGED <<lookup, resting>>
      BY <2>3, EntersPhase DEF EntersNew, bookVars
    <3>3. \A x \in OrderIds : lookup'[x] # Nowhere =>
              lookup[x] # Nowhere /\ resting'[x] = resting[x] /\ x # incoming'.id
      BY <3>2
    <3> QED
      BY <2>1, <3>1, <3>3, KeptFills DEF FillsAddUp
  <2>4. ASSUME NEW order, NEW req, NEW id \in OrderIds, EntersAgain(order, req, id)
        PROVE  MatchedInv' /\ FillsAddUp'
    <3>1. MatchedInv'
      BY <2>1, <2>4, EnterFills DEF EntersAgain
    <3>2. incoming' = order /\ order.id = id /\ lookup[id] # Nowhere /\ Erase(id)
      BY <2>4, EntersPhase DEF EntersAgain
    <3>3. \A x \in OrderIds : lookup'[x] # Nowhere =>
              lookup[x] # Nowhere /\ resting'[x] = resting[x] /\ x # incoming'.id
      BY <3>2, EraseStep DEF Erase, IInv, TypeOK
    <3> QED
      BY <2>1, <3>1, <3>3, KeptFills DEF FillsAddUp
  <2>5. ASSUME NEW id \in OrderIds, NEW conn \in Conns, Cancels(id, conn)
        PROVE  MatchedInv' /\ FillsAddUp'
    <3>1. MatchedInv' /\ ~Entering /\ lookup[id] # Nowhere /\ Erase(id)
      BY <2>5 DEF Cancels, MatchedInv, Entering
    <3>2. \A x \in OrderIds : lookup'[x] # Nowhere =>
              lookup[x] # Nowhere /\ resting'[x] = resting[x]
      BY <3>1, EraseStep DEF Erase, IInv, TypeOK
    <3> QED
      BY <2>1, <3>1, <3>2, KeptFills DEF FillsAddUp
  <2>6. ASSUME Ends \/ Reply PROVE MatchedInv' /\ FillsAddUp'
    <3>1. MatchedInv' /\ ~Entering /\ UNCHANGED <<lookup, resting>>
      BY <2>6 DEF Ends, Reply, Answer, MatchedInv, Entering, bookVars
    <3> QED
      BY <2>1, <3>1, KeptFills DEF FillsAddUp
  <2>7. ASSUME Settle \/ Rest PROVE MatchedInv' /\ FillsAddUp'
    <3>1. PICK x : x = incoming.id
      OBVIOUS
    <3>2. /\ ~Entering /\ phase = "match" /\ UNCHANGED <<incoming, executed>>
          /\ x \in OrderIds /\ Live(x) /\ ~Fresh(x) /\ lookup[x] = Nowhere
      BY <2>7, <3>1 DEF Settle, Rest, Entering, Live, Fresh, IInv, IdInv, TypeOK, Order
    <3>3. traded'[x] = traded[x] /\ placed'[x] = placed[x]
      BY <2>1, <3>2, NoTrade, PlacedIs DEF FillsInv
    <3>4. traded'[x] + incoming.remaining = placed'[x] /\ traded'[x] = executed
      BY <3>1, <3>2, <3>3 DEF FillsInv, MatchedInv
    <3>5. MatchedInv'
      BY <3>1, <3>2, <3>4 DEF MatchedInv
    <3>6. resting'[x] = incoming \/ lookup'[x] = Nowhere
      BY <2>7, <3>1, <3>2 DEF Settle, Rest, bookVars, IInv, TypeOK
    <3>7. \A y \in OrderIds : y # x => lookup'[y] = lookup[y] /\ resting'[y] = resting[y]
      BY <2>7, <3>1, <3>2 DEF Settle, Rest, bookVars, IInv, TypeOK
    <3> QED
      BY <2>1, <3>2, <3>4, <3>5, <3>6, <3>7, KeptFills DEF FillsAddUp
  <2> QED
    BY <1>2, <2>2, <2>3, <2>4, <2>5, <2>6, <2>7, Steps DEF FillsInv
<1> QED
  BY <1>1, <1>2

-----------------------------------------------------------------------------
(***************************************************************************)
(* Answers.                                                                *)
(***************************************************************************)
Final == {"OrderFilled", "OrderExpired", "OrderRejected", "OrderRested"}

\* What an event says of its order, once the step is accounted for.
IsTrue(e) ==
    /\ e.kind = "OrderFilled" => traded'[e.id] = placed'[e.id]
    /\ e.kind = "OrderExpired" => traded'[e.id] < placed'[e.id]
    /\ e.kind = "OrderRejected" => traded'[e.id] = 0
    /\ e.kind = "OrderRested" => e.remaining = placed'[e.id] - traded'[e.id]

\* It is enough to look at the events as a set.
LEMMA AllTrue ==
  ASSUME \A e \in ToSet(emitted') : e.kind \in Final => IsTrue(e)
  PROVE  AnswersAreTrue'
<1> SUFFICES ASSUME NEW i \in DOMAIN emitted', NEW e, e = emitted'[i]
             PROVE  IsTrue(e)
  BY DEF AnswersAreTrue, IsTrue
<1>1. e \in ToSet(emitted')
  BY DEF ToSet
<1> QED
  BY <1>1 DEF IsTrue, Final

\* What a maker is told with a trade is true.
LEMMA TradeTrue ==
  ASSUME IInv, PlaceInv, FillsInv, FollowTrades, ExecuteTrade
  PROVE  AnswersAreTrue'
<1>1. PICK s, p, m, fill : Trade(s, p, m, fill) /\ ExecuteTradeAt(p)
  BY TradeIs
<1>2. FillsInv' /\ MakerAccount(m, fill)
  BY <1>1, TradeFills, Zenon
<1>3. /\ m \in OrderIds /\ fill \in Nat /\ resting[m].id = m /\ resting[m].remaining \in Nat
      /\ traded'[m] \in Nat
  BY <1>1, <1>2 DEF Trade, Order, FillsInv
<1>4. PICK a, b, c : /\ a = TradeExecuted(incoming, resting[m], p, fill)
                     /\ b = BookUpdate(s, p, total[s][p] - fill) /\ c = MakerEvent(resting[m], fill)
  OBVIOUS
<1>5. ToSet(emitted') = {a, b, c}
  BY <1>1, <1>4, TradeEvents
<1>6. a.kind \notin Final /\ b.kind \notin Final
  BY <1>4 DEF Final, TradeExecuted, BookUpdate
<1>7. c.id = m /\ \/ c.kind = "OrderFilled" /\ resting[m].remaining = fill
                  \/ c.kind = "OrderRested" /\ c.remaining = resting[m].remaining - fill
  BY <1>3, <1>4 DEF MakerEvent, Private, OrderRested
<1>8. placed'[m] = traded'[m] + (resting[m].remaining - fill)
  BY <1>2 DEF MakerAccount
<1>9. IsTrue(c)
  BY <1>3, <1>7, <1>8 DEF IsTrue
<1> QED
  BY <1>5, <1>6, <1>9, AllTrue

\* The answer to an add, from what is known of the order by then.
LEMMA AddAnswerIs ==
  ASSUME AnswerInv, phase = "reply", NEW e, e = AddAnswer
  PROVE  /\ e.id = incoming.id /\ e.conn = request.conn
         /\ \/ e.kind = "OrderRejected" /\ status = "Rejected"
            \/ e.kind = "OrderFilled" /\ status = "FullyFilled"
            \/ /\ e.kind = "OrderRested" /\ e.remaining = incoming.remaining
               /\ \/ status = "Resting" /\ incoming.tif # "ImmediateOrCancel"
                  \/ status = "PartiallyFilled" /\ incoming.tif = "GoodTillCancel"
            \/ /\ e.kind = "OrderExpired"
               /\ \/ status = "Resting" /\ incoming.tif = "ImmediateOrCancel"
                  \/ status = "PartiallyFilled" /\ incoming.tif # "GoodTillCancel"
BY DEF AnswerInv, AddAnswer, Private, OrderRested

\* What a taker is told when its message is answered is true.
LEMMA ReplyTrue ==
  ASSUME IInv, AnswerInv, FillsInv, FollowTrades, Reply, NewEvents("TradeExecuted") = {}
  PROVE  AnswersAreTrue'
<1>1. PICK x : x = incoming.id
  OBVIOUS
<1>2. /\ phase = "reply" /\ ~Entering /\ x \in OrderIds /\ Live(x) /\ ~Fresh(x)
      /\ incoming.remaining \in Nat
  BY <1>1 DEF Reply, Entering, Live, Fresh, IInv, TypeOK, Order
<1>3. traded'[x] = traded[x] /\ placed'[x] = placed[x] /\ traded[x] \in Nat
  BY <1>2, NoTrade, PlacedIs DEF FillsInv
<1>4. traded'[x] = executed /\ placed'[x] = traded'[x] + incoming.remaining
  BY <1>1, <1>2, <1>3 DEF FillsInv, MatchedInv
<1>5. PICK e : /\ Answer(e)
               /\ IF request.kind = "add" THEN e = AddAnswer ELSE e = ModifyAnswer
  BY DEF Reply
<1>6. ToSet(emitted') = {e}
  BY <1>5, EventSets DEF Answer
<1>7. CASE request.kind # "add"
  <2>1. e.kind \notin Final
    BY <1>5, <1>7 DEF ModifyAnswer, Private, OrderModified, Final
  <2> QED
    BY <1>6, <2>1, AllTrue
<1>8. CASE request.kind = "add"
  <2>1. /\ status = "Rejected" => executed = 0
        /\ status = "FullyFilled" => incoming.remaining = 0
        /\ status \in {"Resting", "PartiallyFilled"} => incoming.remaining > 0
    BY <1>2 DEF AnswerInv
  <2>2. IsTrue(e)
    BY <1>1, <1>2, <1>3, <1>4, <1>5, <1>8, <2>1, AddAnswerIs DEF IsTrue
  <2> QED
    BY <1>6, <2>2, AllTrue
<1> QED
  BY <1>7, <1>8

\* Every step tells only what is true.
LEMMA AnswersStep ==
  ASSUME IInv, KillInv, AnswerInv, PlaceInv, FillsInv, Next, FollowTrades
  PROVE  AnswersAreTrue'
<1>1. ASSUME NEW id PROVE Erased(id).kind \notin Final
  BY DEF Erased, BookUpdate, Final
<1>2. ASSUME NEW order, NEW req, EntersNew(order, req) PROVE AnswersAreTrue'
  BY <1>2, AllTrue DEF EntersNew
<1>3. ASSUME NEW order, NEW req, NEW id \in OrderIds, EntersAgain(order, req, id)
      PROVE  AnswersAreTrue'
  BY <1>1, <1>3, AllTrue DEF EntersAgain
<1>4. ASSUME NEW id \in OrderIds, NEW conn \in Conns, Cancels(id, conn) PROVE AnswersAreTrue'
  <2>1. Private("OrderCanceled", id, conn).kind \notin Final
    BY DEF Private, Final
  <2> QED
    BY <1>1, <1>4, <2>1, AllTrue DEF Cancels
<1>5. ASSUME Ends PROVE AnswersAreTrue'
  BY <1>5, AllTrue DEF Ends, Final
<1>6. ASSUME Settle PROVE AnswersAreTrue'
  BY <1>6, EventSets, AllTrue DEF Settle
<1>7. ASSUME Rest PROVE AnswersAreTrue'
  <2>1. PICK e : e.kind \notin Final /\ emitted' = <<e>>
    BY <1>7 DEF Rest, BookUpdate, Final
  <2>2. ToSet(emitted') = {e}
    BY <2>1, EventSets
  <2> QED
    BY <2>1, <2>2, AllTrue
<1>8. ASSUME Reply PROVE AnswersAreTrue'
  <2>1. NewEvents("TradeExecuted") = {}
    BY <1>8, OtherEvents DEF Reply, ExecuteTrade
  <2> QED
    BY <1>8, <2>1, ReplyTrue
<1> QED
  BY <1>2, <1>3, <1>4, <1>5, <1>6, <1>7, <1>8, TradeTrue, Steps

-----------------------------------------------------------------------------
(***************************************************************************)
(* What the owner of an order knows.                                       *)
(***************************************************************************)
Engaged == phase \in {"match", "reply"}

OwnerInv ==
    /\ \A id \in OrderIds : lookup[id] # Nowhere => owner[id] = resting[id].conn
    /\ Engaged =>
         /\ owner[incoming.id] = incoming.conn
         /\ incoming.id \notin untracked =>
              incoming.type = "Limit" /\ request.kind = "add" /\ request.conn = incoming.conn
    /\ phase = "match" /\ incoming.id \notin untracked => told[incoming.id] = 0
KnowInv == OwnerInv /\ OwnerKnowsOpenQuantity

\* An order gets its owner when it is added.
LEMMA OwnerIs ==
  ASSUME FollowOwn, NEW id \in OrderIds
  PROVE  owner'[id] = IF Entering /\ id = incoming'.id /\ request'.kind = "add" THEN request'.conn
                      ELSE IF Live(id) THEN owner[id] ELSE Nobody
BY DEF FollowOwn

\* Which orders are no longer followed.
LEMMA UntrackedGrows ==
  ASSUME FollowUntracked
  PROVE  /\ untracked \subseteq untracked'
         /\ Entering /\ incoming'.id \in OrderIds
                /\ (request'.kind = "modify" \/ incoming'.type = "Market") =>
              incoming'.id \in untracked'
         /\ \A e \in ToSet(emitted') :
              e.kind = "OrderCanceled" /\ e.conn # owner[e.id] => e.id \in untracked'
BY DEF FollowUntracked, NewEvents

\* The events that say nothing of an open quantity.
Silent == {"TradeExecuted", "BookUpdate", "ModifyRejected", "CancelRejected"}

\* What the owner hears of an order it follows: nothing, or one event.
LEMMA HearsNothing ==
  ASSUME FollowOwn, NEW id \in OrderIds \ untracked',
         \A e \in ToSet(emitted') : e.kind \in Silent \/ e.id # id
  PROVE  told'[id] = told[id]
<1>1. OwnEvents(id) = {}
  BY DEF OwnEvents, Silent
<1> QED
  BY <1>1 DEF FollowOwn

\* One event about the order, to its owner, and nothing else.
LEMMA HearsOne ==
  ASSUME FollowOwn, NEW id \in OrderIds \ untracked', NEW e \in ToSet(emitted'),
         e.kind \notin Silent, e.id = id, e.conn = owner'[id],
         \A f \in ToSet(emitted') : f = e \/ f.kind \in Silent
  PROVE  told'[id] = IF e.kind = "OrderRested" THEN e.remaining ELSE 0
<1>1. OwnEvents(id) = {e}
  BY DEF OwnEvents, Silent
<1>2. (CHOOSE f \in OwnEvents(id) : TRUE) = e
  BY <1>1
<1> QED
  BY <1>1, <1>2 DEF FollowOwn

\* An order that is not touched and not spoken of.
LEMMA KnowsStill ==
  ASSUME FollowOwn, FollowUntracked, OwnerKnowsOpenQuantity, NEW id \in OrderIds \ untracked',
         Engaged => incoming.id # id,
         \A e \in ToSet(emitted') : e.kind \in Silent \/ e.id # id,
         lookup'[id] = lookup[id], resting'[id] = resting[id]
  PROVE  told'[id] = OpenQuantity'[id]
<1>1. told'[id] = told[id] /\ id \notin untracked
  BY HearsNothing, UntrackedGrows
<1>2. OpenQuantity'[id] = OpenQuantity[id]
  BY DEF OpenQuantity
<1> QED
  BY <1>1, <1>2 DEF OwnerKnowsOpenQuantity, Engaged

\* The owners of orders that stay in the book.
LEMMA OwnerKept ==
  ASSUME FollowOwn, OwnerInv, NEW id \in OrderIds, lookup[id] # Nowhere,
         resting'[id].conn = resting[id].conn, ~(Entering /\ id = incoming'.id)
  PROVE  owner'[id] = resting'[id].conn
BY OwnerIs DEF OwnerInv, Live

\* A new order: its owner has heard nothing and nothing is open.
LEMMA EnterNewKnows ==
  ASSUME IInv, KnowInv, FollowOwn, FollowUntracked, NEW order, NEW req, EntersNew(order, req)
  PROVE  KnowInv'
<1>1. PICK x : x = order.id
  OBVIOUS
<1>2. /\ phase = "idle" /\ phase' \in {"match", "reply"} /\ incoming' = order /\ request' = req
      /\ order \in Order /\ req.kind = "add" /\ req.conn = order.conn
      /\ UNCHANGED <<lookup, resting>> /\ ToSet(emitted') = {} /\ lookup[x] = Nowhere
      /\ x \in OrderIds /\ Entering /\ ~Engaged /\ Engaged'
  BY <1>1, EntersPhase DEF EntersNew, bookVars, Order, Entering, Engaged
<1>3. owner'[x] = order.conn
  BY <1>1, <1>2, OwnerIs
<1>4. x \notin untracked' => order.type = "Limit"
  BY <1>1, <1>2, UntrackedGrows DEF Order, OrderTypes
<1>5. \A id \in OrderIds \ untracked' : told'[id] = OpenQuantity'[id]
  BY <1>2, KnowsStill DEF KnowInv
<1>6. OpenQuantity'[x] = 0
  BY <1>2 DEF OpenQuantity
<1>7. \A id \in OrderIds : lookup'[id] # Nowhere => owner'[id] = resting'[id].conn
  BY <1>1, <1>2, OwnerKept DEF KnowInv
<1>8. OwnerInv'
  BY <1>1, <1>2, <1>3, <1>4, <1>5, <1>6, <1>7 DEF OwnerInv
<1>9. OwnerKnowsOpenQuantity'
  BY <1>5 DEF OwnerKnowsOpenQuantity
<1> QED
  BY <1>8, <1>9 DEF KnowInv

\* A modified order is no longer followed.
LEMMA EnterAgainKnows ==
  ASSUME IInv, KnowInv, FollowOwn, FollowUntracked,
         NEW order, NEW req, NEW id \in OrderIds, EntersAgain(order, req, id)
  PROVE  KnowInv'
<1>1. /\ phase = "idle" /\ phase' \in {"match", "reply"} /\ incoming' = order /\ request' = req
      /\ order.id = id /\ order.conn = resting[id].conn /\ req.kind = "modify"
      /\ lookup[id] # Nowhere /\ Erase(id) /\ ToSet(emitted') = {Erased(id)}
      /\ Entering /\ ~Engaged /\ Engaged'
  BY EntersPhase DEF EntersAgain, Entering, Engaged
<1>2. /\ \A x \in OrderIds : lookup'[x] = IF x = id THEN Nowhere ELSE lookup[x]
      /\ \A x \in OrderIds \ {id} : resting'[x] = resting[x]
  BY <1>1, EraseStep DEF Erase, IInv, TypeOK
<1>3. id \in untracked'
  BY <1>1, UntrackedGrows
<1>4. owner'[id] = order.conn
  BY <1>1, OwnerIs DEF KnowInv, OwnerInv, Live
<1>5. Erased(id).kind \in Silent
  BY DEF Erased, BookUpdate, Silent
<1>6. \A x \in OrderIds \ untracked' : told'[x] = OpenQuantity'[x]
  BY <1>1, <1>2, <1>3, <1>5, KnowsStill DEF KnowInv
<1>7. \A x \in OrderIds : lookup'[x] # Nowhere => owner'[x] = resting'[x].conn
  BY <1>1, <1>2, OwnerKept DEF KnowInv
<1>8. OwnerInv'
  BY <1>1, <1>3, <1>4, <1>7 DEF OwnerInv
<1>9. OwnerKnowsOpenQuantity'
  BY <1>6 DEF OwnerKnowsOpenQuantity
<1> QED
  BY <1>8, <1>9 DEF KnowInv

\* A cancel by the owner is heard by the owner; any other ends the following.
LEMMA CancelKnows ==
  ASSUME IInv, KnowInv, FollowOwn, FollowUntracked,
         NEW id \in OrderIds, NEW conn \in Conns, Cancels(id, conn)
  PROVE  KnowInv'
<1>1. PICK e, b : e = Private("OrderCanceled", id, conn) /\ b = Erased(id)
  OBVIOUS
<1>2. /\ lookup[id] # Nowhere /\ Erase(id) /\ ~Engaged /\ ~Engaged' /\ ~Entering
      /\ ToSet(emitted') = {b, e} /\ phase' # "match"
  BY <1>1 DEF Cancels, Engaged, Entering
<1>3. /\ \A x \in OrderIds : lookup'[x] = IF x = id THEN Nowhere ELSE lookup[x]
      /\ \A x \in OrderIds \ {id} : resting'[x] = resting[x]
  BY <1>2, EraseStep DEF Erase, IInv, TypeOK
<1>4. b.kind \in Silent /\ e.kind = "OrderCanceled" /\ e.kind \notin Silent
      /\ e.id = id /\ e.conn = conn
  BY <1>1 DEF Erased, BookUpdate, Private, Silent
<1>5. owner'[id] = owner[id]
  BY <1>2, OwnerIs DEF Live
<1>6. id \notin untracked' => told'[id] = 0
  <2> SUFFICES ASSUME id \notin untracked' PROVE told'[id] = 0
    OBVIOUS
  <2>1. e.conn = owner'[id]
    BY <1>2, <1>4, <1>5, UntrackedGrows
  <2> QED
    BY <1>2, <1>4, <2>1, HearsOne
<1>7. OpenQuantity'[id] = 0
  BY <1>3 DEF OpenQuantity
<1>8. \A x \in OrderIds \ untracked' : x # id => told'[x] = OpenQuantity'[x]
  BY <1>2, <1>3, <1>4, KnowsStill DEF KnowInv
<1>9. \A x \in OrderIds : lookup'[x] # Nowhere => owner'[x] = resting'[x].conn
  BY <1>2, <1>3, OwnerKept DEF KnowInv
<1>10. OwnerInv'
  BY <1>2, <1>9 DEF OwnerInv
<1>11. OwnerKnowsOpenQuantity'
  BY <1>6, <1>7, <1>8 DEF OwnerKnowsOpenQuantity
<1> QED
  BY <1>10, <1>11 DEF KnowInv

\* A message that ends without touching the book.
LEMMA EndKnows ==
  ASSUME IInv, KnowInv, FollowOwn, FollowUntracked, Ends
  PROVE  KnowInv'
<1>1. /\ UNCHANGED <<lookup, resting>> /\ phase \in {"idle", "match"}
      /\ ~Engaged' /\ ~Entering /\ phase' # "match"
      /\ \A e \in ToSet(emitted') : e.kind \in Silent
  BY DEF Ends, bookVars, Engaged, Entering, Silent
<1>2. ASSUME NEW x \in OrderIds \ untracked' PROVE told'[x] = OpenQuantity'[x]
  <2>1. CASE Engaged /\ incoming.id = x
    <3>1. phase = "match" /\ lookup[x] = Nowhere /\ x \notin untracked
      BY <1>1, <2>1, UntrackedGrows DEF Engaged, IInv, IdInv
    <3>2. told[x] = 0
      BY <2>1, <3>1 DEF KnowInv, OwnerInv
    <3>3. told'[x] = told[x] /\ OpenQuantity'[x] = 0
      BY <1>1, <3>1, HearsNothing DEF OpenQuantity
    <3> QED
      BY <3>2, <3>3
  <2>2. CASE ~(Engaged /\ incoming.id = x)
    BY <1>1, <2>2, KnowsStill DEF KnowInv
  <2> QED
    BY <2>1, <2>2
<1>3. \A x \in OrderIds : lookup'[x] # Nowhere => owner'[x] = resting'[x].conn
  BY <1>1, OwnerKept DEF KnowInv
<1>4. OwnerInv'
  BY <1>1, <1>3 DEF OwnerInv
<1>5. OwnerKnowsOpenQuantity'
  BY <1>2 DEF OwnerKnowsOpenQuantity
<1> QED
  BY <1>4, <1>5 DEF KnowInv

\* While an order is matched or waits for its answer.
LEMMA EngagedKnows ==
  ASSUME IInv, KnowInv, FollowOwn, FollowUntracked, Engaged, Engaged',
         UNCHANGED request, incoming'.id = incoming.id, incoming'.conn = incoming.conn,
         incoming'.type = incoming.type, phase' = "match" => phase = "match",
         incoming.id \in OrderIds,
         \A e \in ToSet(emitted') : e.kind \in Silent \/ e.id # incoming.id
  PROVE  /\ owner'[incoming'.id] = incoming'.conn
         /\ incoming'.id \notin untracked' =>
              incoming'.type = "Limit" /\ request'.kind = "add" /\ request'.conn = incoming'.conn
         /\ phase' = "match" /\ incoming'.id \notin untracked' => told'[incoming'.id] = 0
<1>1. PICK x \in OrderIds : x = incoming.id
  OBVIOUS
<1>2. ~Entering /\ Live(x)
  BY <1>1 DEF Engaged, Entering, Live
<1>3. owner'[x] = incoming.conn
  BY <1>1, <1>2, OwnerIs DEF KnowInv, OwnerInv
<1>4. x \notin untracked' => x \notin untracked /\ told'[x] = told[x]
  BY <1>1, UntrackedGrows, HearsNothing
<1> QED
  BY <1>1, <1>3, <1>4 DEF KnowInv, OwnerInv

\* The end of the matching.
LEMMA SettleKnows ==
  ASSUME IInv, KnowInv, FollowOwn, FollowUntracked, Settle
  PROVE  KnowInv'
<1>1. /\ UNCHANGED <<lookup, resting, incoming, request>> /\ ToSet(emitted') = {}
      /\ Engaged /\ Engaged' /\ ~Entering /\ phase' = "reply" /\ incoming.id \in OrderIds
  BY EventSets DEF Settle, bookVars, Engaged, Entering, IInv, TypeOK, Order
<1>2. \A x \in OrderIds \ untracked' : x # incoming'.id => told'[x] = OpenQuantity'[x]
  BY <1>1, KnowsStill DEF KnowInv
<1>3. \A x \in OrderIds : lookup'[x] # Nowhere => owner'[x] = resting'[x].conn
  BY <1>1, OwnerKept DEF KnowInv
<1>4. OwnerInv'
  BY <1>1, <1>3, EngagedKnows DEF OwnerInv
<1>5. OwnerKnowsOpenQuantity'
  BY <1>1, <1>2 DEF OwnerKnowsOpenQuantity, Engaged
<1> QED
  BY <1>4, <1>5 DEF KnowInv

\* The order rests; its owner is told with the answer.
LEMMA RestKnows ==
  ASSUME IInv, KnowInv, FollowOwn, FollowUntracked, Rest
  PROVE  KnowInv'
<1>1. PICK id : id = incoming.id
  OBVIOUS
<1>2. /\ Engaged /\ Engaged' /\ ~Entering /\ phase' = "reply" /\ id \in OrderIds
      /\ lookup[id] = Nowhere /\ UNCHANGED <<incoming, request>>
  BY <1>1 DEF Rest, Engaged, Entering, IInv, IdInv, TypeOK, Order
<1>3. /\ \A x \in OrderIds \ {id} : lookup'[x] = lookup[x] /\ resting'[x] = resting[x]
      /\ resting'[id] = incoming
  BY <1>1, <1>2 DEF Rest, IInv, TypeOK
<1>4. \A e \in ToSet(emitted') : e.kind \in Silent
  <2>1. PICK e : e.kind \in Silent /\ emitted' = <<e>>
    BY DEF Rest, BookUpdate, Silent
  <2> QED
    BY <2>1, EventSets
<1>5. \A x \in OrderIds \ untracked' : x # id => told'[x] = OpenQuantity'[x]
  BY <1>1, <1>2, <1>3, <1>4, KnowsStill DEF KnowInv
<1>6. /\ owner'[id] = incoming.conn
      /\ id \notin untracked' =>
           incoming.type = "Limit" /\ request.kind = "add" /\ request.conn = incoming.conn
  BY <1>1, <1>2, <1>4, EngagedKnows
<1>7. \A x \in OrderIds : lookup'[x] # Nowhere => owner'[x] = resting'[x].conn
  BY <1>2, <1>3, <1>6, OwnerKept DEF KnowInv
<1>8. OwnerInv'
  BY <1>1, <1>2, <1>6, <1>7 DEF OwnerInv
<1>9. OwnerKnowsOpenQuantity'
  BY <1>1, <1>2, <1>5 DEF OwnerKnowsOpenQuantity, Engaged
<1> QED
  BY <1>8, <1>9 DEF KnowInv

\* A maker's owner is told what the trade leaves of its order.
LEMMA TradeKnows ==
  ASSUME IInv, KnowInv, FollowOwn, FollowUntracked, ExecuteTrade
  PROVE  KnowInv'
<1>1. PICK s, p, m, fill : Trade(s, p, m, fill) /\ ExecuteTradeAt(p)
  BY TradeIs
<1>2. Traded(s, p, m, fill)
  BY <1>1, TradeChanges
<1>3. PICK x : x = incoming.id
  OBVIOUS
<1>4. /\ m \in OrderIds /\ fill \in Nat /\ lookup[m] # Nowhere
      /\ resting[m] \in Order /\ resting[m].id = m /\ resting[m].remaining \in Nat
  BY <1>1 DEF Trade, Order
<1>5. /\ phase = "match" /\ phase' = "match" /\ UNCHANGED request /\ incoming \in Order
      /\ Engaged /\ Engaged' /\ ~Entering /\ x \in OrderIds /\ x # m
  BY <1>3, <1>4 DEF ExecuteTrade, Engaged, Entering, IInv, IdInv, TypeOK, Order
<1>6. incoming'.id = x /\ incoming'.conn = incoming.conn /\ incoming'.type = incoming.type
  BY <1>2, <1>3, <1>5 DEF Traded, Order
<1>7. PICK a, b, c : /\ a = TradeExecuted(incoming, resting[m], p, fill)
                     /\ b = BookUpdate(s, p, total[s][p] - fill) /\ c = MakerEvent(resting[m], fill)
  OBVIOUS
<1>8. ToSet(emitted') = {a, b, c}
  BY <1>1, <1>7, TradeEvents
<1>9. /\ a.kind \in Silent /\ b.kind \in Silent /\ c.kind \notin Silent
      /\ c.id = m /\ c.conn = resting[m].conn
      /\ \/ c.kind = "OrderFilled" /\ resting[m].remaining = fill
         \/ /\ c.kind = "OrderRested" /\ c.remaining = resting[m].remaining - fill
            /\ resting[m].remaining # fill
  BY <1>4, <1>7 DEF TradeExecuted, BookUpdate, MakerEvent, Private, OrderRested, Silent
<1>10. owner'[m] = resting[m].conn
  BY <1>4, <1>5, OwnerIs DEF KnowInv, OwnerInv, Live
<1>11. OpenQuantity'[m] = resting[m].remaining - fill
  BY <1>2 DEF Traded
<1>12. m \notin untracked' => told'[m] = OpenQuantity'[m]
  BY <1>4, <1>8, <1>9, <1>10, <1>11, HearsOne
<1>13. \A y \in OrderIds \ {m} : lookup'[y] = lookup[y] /\ resting'[y] = resting[y]
  BY <1>2 DEF Traded
<1>14. \A y \in OrderIds \ untracked' : y # x => told'[y] = OpenQuantity'[y]
  BY <1>3, <1>8, <1>9, <1>12, <1>13, KnowsStill DEF KnowInv
<1>15. lookup'[m] # Nowhere => owner'[m] = resting'[m].conn
  <2>1. lookup'[m] # Nowhere => resting'[m] = [resting[m] EXCEPT !.remaining = @ - fill]
    BY <1>2 DEF Traded
  <2> QED
    BY <1>4, <1>10, <2>1 DEF Order
<1>16. \A y \in OrderIds : lookup'[y] # Nowhere => owner'[y] = resting'[y].conn
  BY <1>5, <1>13, <1>15, OwnerKept DEF KnowInv
<1>17. OwnerInv'
  BY <1>3, <1>5, <1>6, <1>8, <1>9, <1>16, EngagedKnows DEF OwnerInv
<1>18. OwnerKnowsOpenQuantity'
  BY <1>5, <1>6, <1>14 DEF OwnerKnowsOpenQuantity, Engaged
<1> QED
  BY <1>17, <1>18 DEF KnowInv

\* The answer to an add says what rests, if anything.
LEMMA ReplyKnows ==
  ASSUME IInv, KillInv, AnswerInv, KnowInv, FollowOwn, FollowUntracked, Reply
  PROVE  KnowInv'
<1>1. PICK x : x = incoming.id
  OBVIOUS
<1>2. /\ UNCHANGED <<lookup, resting>> /\ Engaged /\ ~Engaged' /\ ~Entering /\ phase = "reply"
      /\ phase' # "match" /\ x \in OrderIds /\ Live(x) /\ incoming \in Order
  BY <1>1 DEF Reply, Answer, bookVars, Engaged, Entering, IInv, TypeOK, Order, Live
<1>3. PICK e : /\ Answer(e)
               /\ IF request.kind = "add" THEN e = AddAnswer ELSE e = ModifyAnswer
  BY DEF Reply
<1>4. ToSet(emitted') = {e}
  BY <1>3, EventSets DEF Answer
<1>5. e.id = x
  <2>1. CASE request.kind = "add"
    BY <1>1, <1>2, <1>3, <2>1, AddAnswerIs
  <2>2. CASE request.kind # "add"
    BY <1>1, <1>3, <2>2 DEF ModifyAnswer, Private, OrderModified
  <2> QED
    BY <2>1, <2>2
<1>6. \A y \in OrderIds \ untracked' : y # x => told'[y] = OpenQuantity'[y]
  BY <1>1, <1>2, <1>4, <1>5, KnowsStill DEF KnowInv
<1>7. ASSUME x \notin untracked' PROVE told'[x] = OpenQuantity'[x]
  <2>1. /\ incoming.type = "Limit" /\ request.kind = "add" /\ request.conn = incoming.conn
        /\ owner[x] = incoming.conn
    BY <1>1, <1>2, <1>7, UntrackedGrows DEF KnowInv, OwnerInv
  <2>2. e = AddAnswer /\ e.conn = owner'[x]
    BY <1>2, <1>3, <2>1, AddAnswerIs, OwnerIs
  <2>3. e.kind \notin Silent
    BY <1>2, <2>2, AddAnswerIs DEF Silent
  <2>4. told'[x] = IF e.kind = "OrderRested" THEN e.remaining ELSE 0
    BY <1>2, <1>4, <1>5, <1>7, <2>2, <2>3, HearsOne
  <2>5. OpenQuantity'[x] = IF ShouldRest THEN incoming.remaining ELSE 0
    BY <1>1, <1>2 DEF AnswerInv, OpenQuantity
  <2>6. /\ status = "Rejected" => ~ShouldRest
        /\ status = "FullyFilled" => incoming.remaining = 0
        /\ status \in {"Resting", "PartiallyFilled"} => incoming.remaining > 0
    BY <1>2 DEF AnswerInv
  <2>7. incoming.tif = "FillOrKill" => ~(status \in {"Resting", "PartiallyFilled"})
    BY <1>2, <2>1, <2>6 DEF KillInv, KillAnswered, FillOrKill
  <2>8. incoming.tif \in TimesInForce
    BY <1>2 DEF Order
  <2>9. e.kind = "OrderRested" <=> ShouldRest
    BY <1>2, <2>1, <2>2, <2>6, <2>7, <2>8, AddAnswerIs DEF ShouldRest, TimesInForce
  <2>10. e.kind = "OrderRested" => e.remaining = incoming.remaining
    BY <1>2, <2>2, AddAnswerIs
  <2> QED
    BY <2>4, <2>5, <2>9, <2>10
<1>8. \A y \in OrderIds : lookup'[y] # Nowhere => owner'[y] = resting'[y].conn
  BY <1>2, OwnerKept DEF KnowInv
<1>9. OwnerInv'
  BY <1>2, <1>8 DEF OwnerInv
<1>10. OwnerKnowsOpenQuantity'
  BY <1>6, <1>7 DEF OwnerKnowsOpenQuantity
<1> QED
  BY <1>9, <1>10 DEF KnowInv

\* Every step keeps the owners informed.
LEMMA KnowStep ==
  ASSUME IInv, KillInv, AnswerInv, KnowInv, Next, FollowOwn, FollowUntracked
  PROVE  KnowInv'
BY EnterNewKnows, EnterAgainKnows, CancelKnows, EndKnows, SettleKnows, RestKnows, TradeKnows,
   ReplyKnows, Steps

-----------------------------------------------------------------------------
(***************************************************************************)
(* Price-time priority.  The order within the list of a level is the order *)
(* of age.                                                                 *)
(***************************************************************************)
AgeInv ==
    \A s \in Sides, p \in Prices, x, y \in OrderIds :
        Earlier(queue[s][p], x, y) => <<x, y>> \in older

\* Whoever is behind another after a step was so before, or has just come.
KeepsOrder ==
    \A s \in Sides, p \in Prices, x, y \in OrderIds :
        Earlier(queue'[s][p], x, y) =>
            Earlier(queue[s][p], x, y) \/ (Has(queue[s][p], x) /\ lookup[y] = Nowhere)

\* Every step changes one list at most, and keeps its order.
LEMMA OrderSteps ==
  ASSUME IInv, [Next]_vars
  PROVE  KeepsOrder
<1>1. CASE UNCHANGED bookVars
  BY <1>1 DEF KeepsOrder, bookVars
<1>2. ASSUME NEW id \in OrderIds, lookup[id] # Nowhere, Erase(id) PROVE KeepsOrder
  <2>1. PICK s, p : s = lookup[id].side /\ p = lookup[id].price
    OBVIOUS
  <2>2. s \in Sides /\ p \in Prices /\ lookup[id] = [side |-> s, price |-> p]
    BY <1>2, <2>1, Located DEF IInv
  <2>3. PICK q : q = queue[s][p]
    OBVIOUS
  <2>4. q \in Seq(OrderIds) /\ Has(q, id)
    BY <2>2, <2>3 DEF IInv, TypeOK, LookupInv
  <2>5. PICK k : k = IndexIn(q, id)
    OBVIOUS
  <2>6. k \in DOMAIN q
    BY <2>4, <2>5 DEF IndexIn, Has
  <2>7. queue' = [queue EXCEPT ![s][p] = RemoveAt(q, k)]
    BY <1>2, <2>1, <2>3, <2>5 DEF Erase, Without
  <2>8. \A t \in Sides, r \in Prices :
            queue'[t][r] = IF t = s /\ r = p THEN RemoveAt(q, k) ELSE queue[t][r]
    BY <2>7 DEF IInv, TypeOK
  <2>9. \A x, y : Earlier(RemoveAt(q, k), x, y) => Earlier(q, x, y)
    BY <2>4, <2>6, RemoveKeepsOrder
  <2> QED
    BY <2>3, <2>8, <2>9 DEF KeepsOrder
<1>3. CASE Rest
  <2>1. PICK id, s, p : id = incoming.id /\ s = incoming.side /\ p = incoming.price
    OBVIOUS
  <2>2. id \in OrderIds /\ lookup[id] = Nowhere /\ s \in Sides /\ p \in Prices
    BY <1>3, <2>1 DEF Rest, IInv, TypeOK, Order, IdInv
  <2>3. PICK q : q = queue[s][p]
    OBVIOUS
  <2>4. q \in Seq(OrderIds)
    BY <2>2, <2>3 DEF IInv, TypeOK
  <2>5. queue' = [queue EXCEPT ![s][p] = Append(@, id)]
    BY <1>3, <2>1 DEF Rest
  <2>6. \A t \in Sides, r \in Prices :
            queue'[t][r] = IF t = s /\ r = p THEN Append(q, id) ELSE queue[t][r]
    BY <2>2, <2>3, <2>5 DEF IInv, TypeOK
  <2>7. \A x, y : Earlier(Append(q, id), x, y) => Earlier(q, x, y) \/ (Has(q, x) /\ y = id)
    BY <2>2, <2>4, AppendKeepsOrder
  <2> QED
    BY <2>2, <2>3, <2>6, <2>7 DEF KeepsOrder
<1>4. CASE ExecuteTrade
  <2>1. PICK s, p, m, fill : Trade(s, p, m, fill) /\ ExecuteTradeAt(p)
    BY <1>4, TradeIs
  <2>2. s \in Sides /\ p \in Prices /\ lookup[m] = [side |-> s, price |-> p] /\ m \in OrderIds
    BY <2>1 DEF Trade
  <2>3. PICK q : q = queue[s][p]
    OBVIOUS
  <2>4. q \in Seq(OrderIds) /\ q # <<>>
    BY <2>2, <2>3 DEF IInv, TypeOK, LookupInv, Has
  <2>5. PICK left, rest : left = resting[m].remaining - fill
                          /\ rest = IF left = 0 THEN Tail(q) ELSE q
    OBVIOUS
  <2>6. TradeMoves(s, p, m, fill, left, rest)
    BY <2>1, <2>3, <2>5, TradeMovesIs
  <2>7. queue' = [queue EXCEPT ![s][p] = rest]
    BY <2>6 DEF TradeMoves
  <2>8. \A t \in Sides, r \in Prices :
            queue'[t][r] = IF t = s /\ r = p THEN rest ELSE queue[t][r]
    BY <2>7 DEF IInv, TypeOK
  <2>9. \A x, y : Earlier(rest, x, y) => Earlier(q, x, y)
    BY <2>4, <2>5, TailKeepsOrder
  <2> QED
    BY <2>3, <2>8, <2>9 DEF KeepsOrder
<1> QED
  BY <1>1, <1>2, <1>3, <1>4, BookSteps

\* Orders that stay in the book keep their age, and a new one is the youngest.
LEMMA AgeStep ==
  ASSUME IInv, IInv', AgeInv, Next, FollowAge
  PROVE  AgeInv'
<1> SUFFICES ASSUME NEW s \in Sides, NEW p \in Prices, NEW x \in OrderIds, NEW y \in OrderIds,
                    Earlier(queue'[s][p], x, y)
             PROVE  <<x, y>> \in older'
  BY DEF AgeInv
<1>1. Earlier(queue[s][p], x, y) \/ (Has(queue[s][p], x) /\ lookup[y] = Nowhere)
  BY OrderSteps DEF KeepsOrder
<1>2. Has(queue'[s][p], x) /\ Has(queue'[s][p], y)
  BY DEF Earlier, Has
<1>3. lookup'[x] # Nowhere /\ lookup'[y] # Nowhere
  <2>1. lookup'[x] = [side |-> s, price |-> p] /\ lookup'[y] = [side |-> s, price |-> p]
    <3>1. LookupInv'
      BY Zenon DEF IInv
    <3> QED
      BY <1>2, <3>1 DEF LookupInv
  <2> QED
    BY <2>1, NoneDistinct
<1>4. CASE Earlier(queue[s][p], x, y)
  <2>1. <<x, y>> \in older
    BY <1>4 DEF AgeInv
  <2> QED
    BY <1>3, <2>1 DEF FollowAge
<1>5. CASE Has(queue[s][p], x) /\ lookup[y] = Nowhere
  <2>1. lookup[x] # Nowhere
    <3>1. lookup[x] = [side |-> s, price |-> p]
      <4>1. LookupInv
        BY Zenon DEF IInv
      <4> QED
        BY <1>5, <4>1 DEF LookupInv
    <3> QED
      BY <3>1, NoneDistinct
  <2> QED
    BY <1>3, <1>5, <2>1 DEF FollowAge
<1> QED
  BY <1>1, <1>4, <1>5

\* The head of the best level goes before every other order of its side.
LEMMA PriorityStep ==
  ASSUME IInv, PlaceInv, AgeInv, ExecuteTrade, NEW e \in NewEvents("TradeExecuted")
  PROVE  HasPriority(e)
<1>1. PICK s, p, m, fill : Trade(s, p, m, fill) /\ ExecuteTradeAt(p) /\ IsBest(s, p)
  BY TradeIs
<1>2. e = TradeExecuted(incoming, resting[m], p, fill)
  BY <1>1, TradeReported
<1>3. /\ s \in Sides /\ p \in Prices /\ s = Opposite(incoming.side) /\ m \in OrderIds
      /\ m = Head(queue[s][p]) /\ resting[m].id = m
      /\ lookup[m] = [side |-> s, price |-> p] /\ lookup[m] # Nowhere
  BY <1>1 DEF Trade
<1>4. incoming.side \in Sides
  BY DEF ExecuteTrade, IInv, TypeOK, Order
<1>5. e.price = p /\ m = IF s = "Sell" THEN e.seller ELSE e.buyer
  BY <1>2, <1>3, <1>4 DEF TradeExecuted, Opposite, Sides
<1>6. e.price = resting[m].price
  BY <1>3, <1>5 DEF PlaceInv
<1>7. ASSUME NEW id \in OrderIds \ {m}, lookup[id] # Nowhere, resting[id].side = s
      PROVE  /\ IF s = "Sell" THEN e.price <= resting[id].price
                ELSE e.price >= resting[id].price
             /\ resting[id].price = e.price => <<m, id>> \in older
  <2>1. PICK r : r = resting[id].price
    OBVIOUS
  <2>2. r \in Prices /\ lookup[id] = [side |-> s, price |-> r]
    BY <1>7, <2>1, Located DEF IInv, PlaceInv
  <2>3. Has(queue[s][r], id)
    BY <1>3, <2>2 DEF IInv, LookupInv
  <2>4. r \in levels[s]
    BY <1>3, <2>2, <2>3 DEF IInv, LevelInv, Has
  <2>5. r = p => <<m, id>> \in older
    <3> SUFFICES ASSUME r = p PROVE <<m, id>> \in older
      OBVIOUS
    <3>1. queue[s][p] \in Seq(OrderIds)
      BY <1>3 DEF IInv, TypeOK
    <3>2. Earlier(queue[s][p], m, id)
      BY <1>3, <2>3, <3>1, HeadFirst
    <3> QED
      BY <1>3, <3>2 DEF AgeInv
  <2>6. IF s = "Sell" THEN e.price <= r ELSE e.price >= r
    BY <1>1, <1>5, <2>4, Zenon DEF IsBest
  <2>7. r = e.price => <<m, id>> \in older
    BY <1>5, <2>5, Zenon
  <2> QED
    BY <2>1, <2>6, <2>7, Zenon
<1>8. PICK maker, rivals : /\ maker = IF s = "Sell" THEN e.seller ELSE e.buyer
                           /\ rivals = { id \in OrderIds \ {maker} :
                                            lookup[id] # Nowhere /\ resting[id].side = s }
  OBVIOUS
<1>9. maker = m
  BY <1>5, <1>8
<1>10. ASSUME NEW id \in rivals
       PROVE  /\ IF s = "Sell" THEN e.price <= resting[id].price
                 ELSE e.price >= resting[id].price
              /\ resting[id].price = e.price => <<maker, id>> \in older
  <2>1. id \in OrderIds \ {m} /\ lookup[id] # Nowhere /\ resting[id].side = s
    BY <1>8, <1>9, <1>10, Zenon
  <2> QED
    BY <1>7, <1>9, <2>1, Zenon
<1>11. lookup[maker] # Nowhere /\ e.price = resting[maker].price
  BY <1>3, <1>6, <1>9
<1> QED
  BY <1>3, <1>8, <1>10, <1>11, Zenon DEF HasPriority

-----------------------------------------------------------------------------
(***************************************************************************)
(* The inductive invariant of the feed, and the theorems.                  *)
(***************************************************************************)
FeedInv ==
    /\ IInv /\ TotalsMatchOrders /\ KillInv
    /\ PlaceInv /\ AnswerInv
    /\ DepthFeedIsBook /\ FillsInv /\ AnswersAreTrue /\ KnowInv
    /\ AgeInv

\* Nothing rests and nothing has been told.
LEMMA InitFeed == FeedInit => FeedInv
<1> SUFFICES ASSUME FeedInit PROVE FeedInv
  OBVIOUS
<1>1. Init /\ IInv /\ TotalsMatchOrders /\ KillInv
  BY InitInv, InitTotals, InitKill DEF FeedInit
<1>2. phase = "idle" /\ emitted = <<>> /\ \A id \in OrderIds : lookup[id] = Nowhere
  BY <1>1 DEF Init
<1>3. PlaceInv /\ AnswerInv
  BY <1>2 DEF PlaceInv, AnswerInv
<1>4. DepthFeedIsBook
  BY <1>1 DEF FeedInit, Init, DepthFeedIsBook, LevelQuantity
<1>5. FillsInv
  BY <1>2 DEF FeedInit, FillsInv, MatchedInv, FillsAddUp
<1>6. AnswersAreTrue
  BY <1>2 DEF AnswersAreTrue
<1>7. OwnerInv
  BY <1>2 DEF OwnerInv, Engaged
<1>8. OwnerKnowsOpenQuantity
  BY <1>2 DEF FeedInit, OwnerKnowsOpenQuantity, OpenQuantity
<1>9. AgeInv
  <2>1. \A s \in Sides, p \in Prices : queue[s][p] = <<>>
    BY <1>1 DEF Init
  <2> QED
    BY <2>1 DEF AgeInv, Earlier
<1> QED
  BY <1>1, <1>3, <1>4, <1>5, <1>6, <1>7, <1>8, <1>9 DEF FeedInv, KnowInv

\* Steps that change nothing.
LEMMA FeedStutters == FeedInv /\ UNCHANGED allVars => FeedInv'
<1> SUFFICES ASSUME FeedInv, UNCHANGED allVars PROVE FeedInv'
  OBVIOUS
<1>1. /\ UNCHANGED vars
      /\ UNCHANGED <<mirror, told, owner, placed, traded, older, untracked>>
  BY DEF allVars, feedVars
<1>2. /\ UNCHANGED <<lookup, resting, levels, total, queue>>
      /\ UNCHANGED <<phase, incoming, request, executed, status, emitted>>
  BY <1>1 DEF vars, bookVars
<1>3. IInv' /\ TotalsMatchOrders'
  BY <1>1, NextInv, NextTotals DEF FeedInv
<1>4. KillInv' /\ PlaceInv'
  BY <1>1, <1>3, KillStep, PlaceStep DEF FeedInv
<1>5. AnswerInv'
  BY <1>2 DEF FeedInv, AnswerInv, ShouldRest
<1>6. DepthFeedIsBook'
  BY <1>1, <1>2 DEF FeedInv, DepthFeedIsBook, LevelQuantity
<1>7. FillsInv' /\ AnswersAreTrue'
  BY <1>1, <1>2 DEF FeedInv, FillsInv, MatchedInv, FillsAddUp, AnswersAreTrue
<1>8. OwnerInv'
  BY <1>1, <1>2 DEF FeedInv, KnowInv, OwnerInv, Engaged
<1>9. OwnerKnowsOpenQuantity'
  BY <1>1, <1>2 DEF FeedInv, KnowInv, OwnerKnowsOpenQuantity, OpenQuantity
<1>10. AgeInv'
  BY <1>1, <1>2 DEF FeedInv, AgeInv
<1> QED
  BY <1>3, <1>4, <1>5, <1>6, <1>7, <1>8, <1>9, <1>10 DEF FeedInv, KnowInv

\* Every step of the engine, with what the observers make of its events.
LEMMA FeedStep == FeedInv /\ FeedNext => FeedInv'
<1> SUFFICES ASSUME FeedInv, FeedNext PROVE FeedInv'
  OBVIOUS
<1>1. Next /\ FollowDepth /\ FollowTrades /\ FollowUntracked /\ FollowOwn /\ FollowAge
  BY DEF FeedNext
<1>2. IInv' /\ TotalsMatchOrders'
  BY <1>1, NextInv, NextTotals DEF FeedInv
<1>3. KillInv' /\ PlaceInv' /\ AnswerInv'
  BY <1>1, <1>2, KillStep, PlaceStep, AnswerStays DEF FeedInv
<1>4. DepthFeedIsBook'
  BY <1>1, <1>2, DepthStep DEF FeedInv
<1>5. FillsInv' /\ AnswersAreTrue'
  BY <1>1, FillsStep, AnswersStep DEF FeedInv
<1>6. KnowInv'
  BY <1>1, KnowStep DEF FeedInv
<1>7. AgeInv'
  BY <1>1, <1>2, AgeStep DEF FeedInv
<1> QED
  BY <1>2, <1>3, <1>4, <1>5, <1>6, <1>7 DEF FeedInv

\* The invariant holds throughout.
LEMMA FeedHolds == FeedSpec => []FeedInv
BY InitFeed, FeedStutters, FeedStep, PTL DEF FeedSpec

\* A client that applies every BookUpdate has the depth of the book.
THEOREM DepthCorrect == FeedSpec => []DepthFeedIsBook
<1>1. FeedInv => DepthFeedIsBook
  BY DEF FeedInv
<1> QED
  BY <1>1, FeedHolds, PTL

\* What a resting order has left and what was traded of it are what was placed.
THEOREM FillsCorrect == FeedSpec => []FillsAddUp
<1>1. FeedInv => FillsAddUp
  BY DEF FeedInv, FillsInv
<1> QED
  BY <1>1, FeedHolds, PTL

\* What an answer says of an order agrees with the trades reported for it.
THEOREM AnswersCorrect == FeedSpec => []AnswersAreTrue
<1>1. FeedInv => AnswersAreTrue
  BY DEF FeedInv
<1> QED
  BY <1>1, FeedHolds, PTL

\* The owner of an order that is followed knows what is open of it.
THEOREM OwnersKnow == FeedSpec => []OwnerKnowsOpenQuantity
<1>1. FeedInv => OwnerKnowsOpenQuantity
  BY DEF FeedInv, KnowInv
<1> QED
  BY <1>1, FeedHolds, PTL

\* Every trade is made with the order that has price-time priority.
THEOREM PriorityCorrect == FeedSpec => PriceTimePriority
<1>1. FeedInv /\ [FeedNext]_allVars
          => [\A e \in NewEvents("TradeExecuted") : HasPriority(e)]_allVars
  BY PriorityStep, OtherEvents DEF FeedInv, FeedNext
<1> QED
  BY <1>1, FeedHolds, PTL DEF FeedSpec, PriceTimePriority
==============================================================================
