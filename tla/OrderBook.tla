------------------------------ MODULE OrderBook ------------------------------
(***************************************************************************)
(* The matching engine: class OrderBook of include/orderbook/order_book.h  *)
(* and order_book.tpp, with the PriceLevel it is built from.  One thread   *)
(* calls process() for one message at a time; a message takes several      *)
(* steps here, one per iteration of the matching loop, so that what the    *)
(* engine has announced part-way is visible.                               *)
(*                                                                         *)
(* bids_ and asks_ are `levels` (the keys of the two maps), `queue` (the   *)
(* list of a level, front first) and `total` (its total_quantity_).  An    *)
(* iterator into a list is the id of the order it points to, and `resting` *)
(* is the Order behind it.  trades_ is only ever appended to and read by   *)
(* tests; a trade is seen here as its TradeExecuted event.                 *)
(***************************************************************************)
EXTENDS Orders

VARIABLES levels, queue, total, resting,
          lookup,    \* order_look_up_
          nextId,    \* next_order_id_
          phase,     \* where process() is; "terminated": an exception left it
          request,   \* what is being processed, as its answer needs it
          incoming,  \* the order being matched
          executed,  \* execution_quantity of the matching loop
          status,    \* status_ of the AddOrderResult
          emitted    \* the events the last step pushed, oldest first

bookVars == <<levels, queue, total, resting, lookup>>
vars == <<bookVars, nextId, phase, request, incoming, executed, status, emitted>>

\* struct OrderLocation
Location == [side : Sides, price : Prices]
Nowhere == [side |-> "None"]

Statuses == {"None", "Failed", "Rejected", "FullyFilled", "Resting", "PartiallyFilled"}

TypeOK ==
    /\ levels \in [Sides -> SUBSET Prices]
    /\ queue \in [Sides -> [Prices -> Seq(OrderIds)]]
    /\ total \in [Sides -> [Prices -> Int]]
    /\ resting \in [OrderIds -> Order \union {NoOrder}]
    /\ lookup \in [OrderIds -> Location \union {Nowhere}]
    /\ nextId \in 1..(MaxOrders + 1)
    /\ phase \in {"idle", "match", "reply", "terminated"}
    /\ request \in Request \union {NoRequest}
    /\ incoming \in Order \union {NoOrder}
    /\ phase \in {"match", "reply"} => incoming # NoOrder /\ request # NoRequest
    /\ executed \in Nat
    /\ status \in Statuses

-----------------------------------------------------------------------------
(***************************************************************************)
(* The two sides of the book.                                              *)
(***************************************************************************)
\* begin() of the map: asks_ ascends, bids_ descends
IsBest(side, price) ==
    /\ price \in levels[side]
    /\ \A p \in levels[side] : IF side = "Sell" THEN price <= p ELSE price >= p

\* Seeded fault: the depth of the whole side is counted, at any price.
CanFullyFillAtAnyPrice(order) ==
    LET side == Opposite(order.side)
    IN  SumFunctionOnSet(total[side], levels[side]) >= order.remaining

\* can_fully_fill_against_side
CanFullyFill(order) ==
    LET side == Opposite(order.side)
        reachable == {p \in levels[side] : Crosses(order, p)}
    IN  SumFunctionOnSet(total[side], reachable) >= order.remaining

\* cancel_order and cancel_order_side, as the state they leave behind; the
\* event they push is Erased.
IndexIn(seq, id) == CHOOSE i \in DOMAIN seq : seq[i] = id
Without(seq, id) == RemoveAt(seq, IndexIn(seq, id))
LevelQuantity(side, price) == IF price \in levels[side] THEN total[side][price] ELSE 0

\* Seeded fault: an emptied level stays in its map.
EraseKeepsLevel(id) ==
    LET s == lookup[id].side
        p == lookup[id].price
        rest == Without(queue[s][p], id)
    IN  /\ lookup' = [lookup EXCEPT ![id] = Nowhere]
        /\ resting' = [resting EXCEPT ![id] = NoOrder]
        /\ queue' = [queue EXCEPT ![s][p] = rest]
        /\ total' = [total EXCEPT ![s][p] = @ - resting[id].remaining]
        /\ UNCHANGED levels

Erase(id) ==
    LET s == lookup[id].side
        p == lookup[id].price
        rest == Without(queue[s][p], id)
    IN  /\ lookup' = [lookup EXCEPT ![id] = Nowhere]
        /\ resting' = [resting EXCEPT ![id] = NoOrder]
        /\ queue' = [queue EXCEPT ![s][p] = rest]
        /\ total' = [total EXCEPT ![s][p] = @ - resting[id].remaining]
        /\ levels' = IF rest = <<>> THEN [levels EXCEPT ![s] = @ \ {p}] ELSE levels

\* Seeded fault: the depth before the cancel is announced.
ErasedTooEarly(id) ==
    BookUpdate(lookup[id].side, lookup[id].price,
               total[lookup[id].side][lookup[id].price])

Erased(id) ==
    LET s == lookup[id].side
        p == lookup[id].price
    IN  BookUpdate(s, p, IF Len(queue[s][p]) = 1 THEN 0
                         ELSE total[s][p] - resting[id].remaining)

-----------------------------------------------------------------------------
Init ==
    /\ levels = [s \in Sides |-> {}]
    /\ queue = [s \in Sides |-> [p \in Prices |-> <<>>]]
    /\ total = [s \in Sides |-> [p \in Prices |-> 0]]
    /\ resting = [id \in OrderIds |-> NoOrder]
    /\ lookup = [id \in OrderIds |-> Nowhere]
    /\ nextId = 1
    /\ phase = "idle" /\ request = NoRequest
    /\ incoming = NoOrder /\ executed = 0 /\ status = "None"
    /\ emitted = <<>>

\* The end of a message, and an exception that nothing in the thread catches
Answer(event) ==
    /\ emitted' = <<event>>
    /\ phase' = "idle"
    /\ request' = NoRequest
    /\ incoming' = NoOrder
    /\ executed' = 0
    /\ status' = "None"
Throw ==
    /\ emitted' = <<>>
    /\ phase' = "terminated"

\* add_order and add_limit_order up to the matching loop.  A fill-or-kill
\* limit order that the opposite side cannot fill is never matched.
AddOrder(order, req) ==
    LET unfillable == /\ order.type = "Limit"
                      /\ order.tif = "FillOrKill"
                      /\ ~CanFullyFill(order)
    IN  /\ incoming' = order
        /\ request' = req
        /\ executed' = 0
        /\ phase' = IF unfillable THEN "reply" ELSE "match"
        /\ status' = IF unfillable THEN "Rejected" ELSE "None"

(***************************************************************************)
(* process(): one message taken from the sink.                             *)
(***************************************************************************)
ProcessAdd(type, tif, side, price, quantity, conn) ==
    /\ phase = "idle"
    /\ nextId <= MaxOrders
    /\ nextId' = nextId + 1
    /\ IF quantity <= 0   \* Order::Order
       THEN Throw /\ UNCHANGED <<request, incoming, executed, status>>
       ELSE /\ AddOrder([id |-> nextId, type |-> type, tif |-> tif, side |-> side,
                         price |-> price, remaining |-> quantity, conn |-> conn],
                        [kind |-> "add", quantity |-> quantity, conn |-> conn])
            /\ emitted' = <<>>
    /\ UNCHANGED bookVars

\* Seeded fault: the old order is left in the book.
ModifyWithoutCancel(id, price, quantity, conn) ==
    /\ phase = "idle"
    /\ lookup[id] # Nowhere
    /\ quantity > 0
    /\ AddOrder([resting[id] EXCEPT !.price = price, !.remaining = quantity],
                [kind |-> "modify", quantity |-> quantity, conn |-> conn])
    /\ emitted' = <<>>
    /\ UNCHANGED <<bookVars, nextId>>

\* modify_order of an order in the book: the replacement is built first
\* (from_replacement, which throws on the quantity), then the old order is
\* cancelled, then the replacement enters under the same id and connection.
ProcessModify(id, price, quantity, conn) ==
    /\ phase = "idle"
    /\ lookup[id] # Nowhere
    /\ quantity > 0
    /\ AddOrder([resting[id] EXCEPT !.price = price, !.remaining = quantity],
                [kind |-> "modify", quantity |-> quantity, conn |-> conn])
    /\ Erase(id)
    /\ emitted' = <<Erased(id)>>
    /\ UNCHANGED nextId

ModifyThrows(id, quantity) ==
    /\ phase = "idle"
    /\ lookup[id] # Nowhere
    /\ quantity <= 0
    /\ Throw
    /\ UNCHANGED <<bookVars, nextId, request, incoming, executed, status>>

ModifyUnknown(id, conn) ==
    /\ phase = "idle"
    /\ lookup[id] = Nowhere
    /\ Answer(Private("ModifyRejected", id, conn))
    /\ UNCHANGED <<bookVars, nextId>>

ProcessCancel(id, conn) ==
    /\ phase = "idle"
    /\ lookup[id] # Nowhere
    /\ Erase(id)
    /\ phase' = "idle"
    /\ emitted' = <<Erased(id), Private("OrderCanceled", id, conn)>>
    /\ UNCHANGED <<nextId, request, incoming, executed, status>>

CancelUnknown(id, conn) ==
    /\ phase = "idle"
    /\ lookup[id] = Nowhere
    /\ Answer(Private("CancelRejected", id, conn))
    /\ UNCHANGED <<bookVars, nextId>>

(***************************************************************************)
(* One iteration of the matching loop: execute_trade against the front of  *)
(* the best level, and the erasure of that level when it is now empty.     *)
(***************************************************************************)
\* Seeded fault: the maker's quantity is always taken whole.
ExecutionQuantityOfMaker(maker) == maker.remaining

\* std::min of the two remaining quantities
ExecutionQuantity(maker) ==
    IF incoming.remaining <= maker.remaining THEN incoming.remaining
    ELSE maker.remaining

\* Seeded fault: maker_remaining_after_fill is read before the fill.
MakerEventBeforeFill(maker, fill) ==
    IF maker.remaining = fill THEN Private("OrderFilled", maker.id, maker.conn)
    ELSE OrderRested(maker.id, maker.conn, maker.remaining)

\* what the owner of the front order is told
MakerEvent(maker, fill) ==
    IF maker.remaining = fill THEN Private("OrderFilled", maker.id, maker.conn)
    ELSE OrderRested(maker.id, maker.conn, maker.remaining - fill)

ExecuteTradeAt(price) ==
    LET side   == Opposite(incoming.side)
        maker  == resting[Head(queue[side][price])]
        fill   == ExecutionQuantity(maker)
        left   == maker.remaining - fill
        rest   == IF left = 0 THEN Tail(queue[side][price]) ELSE queue[side][price]
        depth  == total[side][price] - fill
    IN  /\ incoming' = [incoming EXCEPT !.remaining = @ - fill]
        /\ executed' = executed + fill
        /\ resting' = [resting EXCEPT ![maker.id] =
                           IF left = 0 THEN NoOrder ELSE [@ EXCEPT !.remaining = left]]
        /\ lookup' = IF left = 0 THEN [lookup EXCEPT ![maker.id] = Nowhere] ELSE lookup
        /\ queue' = [queue EXCEPT ![side][price] = rest]
        /\ total' = [total EXCEPT ![side][price] = depth]
        /\ levels' = IF rest = <<>> THEN [levels EXCEPT ![side] = @ \ {price}]
                     ELSE levels
        /\ emitted' = << TradeExecuted(incoming, maker, price, fill),
                         BookUpdate(side, price, depth),
                         MakerEvent(maker, fill) >>

CanTradeAt(price) ==
    /\ incoming.remaining > 0
    /\ price \in levels[Opposite(incoming.side)]
    /\ Crosses(incoming, price)

ExecuteTrade ==
    /\ phase = "match"
    /\ \E price \in Prices :
           /\ CanTradeAt(price)
           /\ IsBest(Opposite(incoming.side), price)
           /\ ExecuteTradeAt(price)
    /\ UNCHANGED <<nextId, phase, request, status>>

\* Seeded fault: the loop runs once.
MatchingDoneAfterOne == executed > 0 \/ ~\E price \in Prices : CanTradeAt(price)

\* the conditions of the two matching loops, none of which holds any more
MatchingDone == ~\E price \in Prices : CanTradeAt(price)

\* Seeded fault: the execution is looked at before the remainder.
FromMatchExecutedFirst ==
    IF executed > 0 THEN "PartiallyFilled"
    ELSE IF incoming.remaining = 0 THEN "FullyFilled"
    ELSE IF incoming.type = "Market" THEN "Rejected" ELSE "Resting"

\* AddOrderResult::from_match
FromMatch ==
    IF incoming.remaining = 0 THEN "FullyFilled"
    ELSE IF executed > 0 THEN "PartiallyFilled"
    ELSE IF incoming.type = "Market" THEN "Rejected" ELSE "Resting"

ShouldRest ==
    /\ incoming.type = "Limit"
    /\ incoming.tif = "GoodTillCancel"
    /\ incoming.remaining > 0

\* Seeded fault: the loop waits for more liquidity.
SettleWhenFilled ==
    /\ phase = "match"
    /\ incoming.remaining = 0
    /\ status' = FromMatch
    /\ phase' = "reply"
    /\ emitted' = <<>>
    /\ UNCHANGED <<bookVars, nextId, request, incoming, executed>>

\* the return of add_limit_order or add_market_order without resting
Settle ==
    /\ phase = "match"
    /\ MatchingDone
    /\ ~ShouldRest
    /\ status' = FromMatch
    /\ phase' = "reply"
    /\ emitted' = <<>>
    /\ UNCHANGED <<bookVars, nextId, request, incoming, executed>>

\* Seeded fault: the level's total is not raised.
RestWithoutTotal ==
    /\ phase = "match"
    /\ MatchingDone
    /\ ShouldRest
    /\ LET s  == incoming.side
           p  == incoming.price
           id == incoming.id
       IN  /\ levels' = [levels EXCEPT ![s] = @ \union {p}]
           /\ queue' = [queue EXCEPT ![s][p] = Append(@, id)]
           /\ resting' = [resting EXCEPT ![id] = incoming]
           /\ lookup' = [lookup EXCEPT ![id] = [side |-> s, price |-> p]]
           /\ emitted' = <<BookUpdate(s, p, total[s][p])>>
    /\ status' = FromMatch
    /\ phase' = "reply"
    /\ UNCHANGED <<total, nextId, request, incoming, executed>>

\* Seeded fault: the order goes to the front of its level.
RestAtFront ==
    /\ phase = "match"
    /\ MatchingDone
    /\ ShouldRest
    /\ LET s  == incoming.side
           p  == incoming.price
           id == incoming.id
           depth == total[s][p] + incoming.remaining
       IN  /\ levels' = [levels EXCEPT ![s] = @ \union {p}]
           /\ queue' = [queue EXCEPT ![s][p] = <<id>> \o @]
           /\ total' = [total EXCEPT ![s][p] = depth]
           /\ resting' = [resting EXCEPT ![id] = incoming]
           /\ lookup' = [lookup EXCEPT ![id] = [side |-> s, price |-> p]]
           /\ emitted' = <<BookUpdate(s, p, depth)>>
    /\ status' = FromMatch
    /\ phase' = "reply"
    /\ UNCHANGED <<nextId, request, incoming, executed>>

\* add_order_to_side: a level is created for the price when there is none,
\* and its constructor throws on a price of 0 or below
Rest ==
    /\ phase = "match"
    /\ MatchingDone
    /\ ShouldRest
    /\ incoming.price > 0
    /\ LET s  == incoming.side
           p  == incoming.price
           id == incoming.id
           depth == total[s][p] + incoming.remaining
       IN  /\ levels' = [levels EXCEPT ![s] = @ \union {p}]
           /\ queue' = [queue EXCEPT ![s][p] = Append(@, id)]
           /\ total' = [total EXCEPT ![s][p] = depth]
           /\ resting' = [resting EXCEPT ![id] = incoming]
           /\ lookup' = IF lookup[id] = Nowhere
                        THEN [lookup EXCEPT ![id] = [side |-> s, price |-> p]]
                        ELSE lookup
           /\ status' = IF lookup[id] = Nowhere THEN FromMatch ELSE "Failed"
           /\ emitted' = <<BookUpdate(s, p, depth)>>
    /\ phase' = "reply"
    /\ UNCHANGED <<nextId, request, incoming, executed>>

RestThrows ==
    /\ phase = "match"
    /\ MatchingDone
    /\ ShouldRest
    /\ incoming.price <= 0
    /\ Throw
    /\ UNCHANGED <<bookVars, nextId, request, incoming, executed, status>>

(***************************************************************************)
(* The last event of process().                                            *)
(***************************************************************************)
\* process(AddOrder): what the status and the time in force say of the order
AddAnswer ==
    LET id == incoming.id
        conn == request.conn
        rested == OrderRested(id, conn, incoming.remaining)
        expired == Private("OrderExpired", id, conn)
    IN  CASE status \in {"Failed", "Rejected"} -> Private("OrderRejected", id, conn)
          [] status = "FullyFilled" -> Private("OrderFilled", id, conn)
          [] status = "Resting" ->
                 IF incoming.tif = "ImmediateOrCancel" THEN expired ELSE rested
          [] status = "PartiallyFilled" ->
                 IF incoming.tif = "GoodTillCancel" THEN rested ELSE expired

ModifyAnswer ==
    IF status = "Failed" THEN Private("ModifyRejected", incoming.id, request.conn)
    ELSE OrderModified(incoming.id, request.conn, incoming.price, request.quantity)

Reply ==
    /\ phase = "reply"
    /\ Answer(IF request.kind = "add" THEN AddAnswer ELSE ModifyAnswer)
    /\ UNCHANGED <<bookVars, nextId>>

-----------------------------------------------------------------------------
Receive ==
    \/ \E type \in OrderTypes, tif \in TimesInForce, side \in Sides,
          price \in Prices, quantity \in Quantities, conn \in Conns :
           ProcessAdd(type, tif, side, price, quantity, conn)
    \/ \E id \in OrderIds, price \in Prices, quantity \in Quantities, conn \in Conns :
           ProcessModify(id, price, quantity, conn)
    \/ \E id \in OrderIds, quantity \in Quantities : ModifyThrows(id, quantity)
    \/ \E id \in OrderIds, conn \in Conns : ModifyUnknown(id, conn)
    \/ \E id \in OrderIds, conn \in Conns : ProcessCancel(id, conn)
    \/ \E id \in OrderIds, conn \in Conns : CancelUnknown(id, conn)

Process == ExecuteTrade \/ Settle \/ Rest \/ RestThrows \/ Reply

Next == Receive \/ Process

Spec == Init /\ [][Next]_vars

\* The engine thread goes on with a message it has begun.
FairSpec == Spec /\ WF_vars(Process)

(***************************************************************************)
(* Properties.                                                             *)
(***************************************************************************)
\* order_look_up_ and the lists of the levels describe the same orders: an
\* iterator kept in the look-up always points into the list of the level the
\* look-up names, through fills, cancels and modifies, and no other order
\* rests.  A level is in its map exactly as long as its list is not empty.
LookupMatchesLevels ==
    /\ \A id \in OrderIds, s \in Sides, p \in Prices :
           (lookup[id] = [side |-> s, price |-> p])
               <=> (\E i \in DOMAIN queue[s][p] : queue[s][p][i] = id)
    /\ \A s \in Sides, p \in Prices :
           /\ p \in levels[s] <=> queue[s][p] # <<>>
           /\ \A i, j \in DOMAIN queue[s][p] :
                  queue[s][p][i] = queue[s][p][j] => i = j

\* What the orders in the book have left.
OpenQuantity ==
    [id \in OrderIds |-> IF lookup[id] = Nowhere THEN 0 ELSE resting[id].remaining]

\* total_quantity_ of a level is what its orders have left.  It is kept up
\* by four functions, each adding or subtracting on its own.
TotalsMatchOrders ==
    \A s \in Sides, p \in Prices :
        total[s][p] = SumFunctionOnSet(OpenQuantity, ToSet(queue[s][p]))

\* Between messages no bid reaches an ask: a modify, or a resting of what a
\* sweep has left, never leaves two orders in the book that should have traded.
Uncrossed ==
    \A bid \in levels["Buy"], ask \in levels["Sell"] : bid < ask

\* A fill-or-kill limit order is filled completely or not touched: what
\* can_fully_fill promises before the sweep, the sweep delivers.
FillOrKillIsAtomic ==
    (phase = "reply" /\ incoming.type = "Limit" /\ incoming.tif = "FillOrKill") =>
        incoming.remaining = 0 \/ executed = 0

\* The look-up insertion of add_order_to_side never finds the id taken, not
\* even when modify puts an order back under its old id.
NeverFailed == status # "Failed"

\* The engine implements the price-time priority book of PriceTimeBook, with
\* the look-up for its domain and the lists of the levels for its order.
InBook == { id \in OrderIds : lookup[id] # Nowhere }
Book == [id \in InBook |-> resting[id]]
Ahead ==
    { pair \in InBook \X InBook :
        \E s \in Sides, p \in Prices : \E i, j \in DOMAIN queue[s][p] :
            i < j /\ queue[s][p][i] = pair[1] /\ queue[s][p][j] = pair[2] }
Ideal == INSTANCE PriceTimeBook WITH
             book <- Book, ahead <- Ahead, used <- 1..(nextId - 1), taker <- incoming
BookSpec == Ideal!Spec

\* Every message is answered or the process is gone: the sweep ends.
Answered == phase \in {"match", "reply"} ~> phase \in {"idle", "terminated"}

\* A message with a price or a quantity the book cannot take is refused:
\* order_event.h:16 has a reason for it, InvalidParams.
EngineSurvives == phase # "terminated"
=============================================================================
