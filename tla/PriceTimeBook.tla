---------------------------- MODULE PriceTimeBook ----------------------------
(***************************************************************************)
(* What the matching engine promises: a set of resting orders, of which    *)
(* the best on price, and at one price the first that came, trades first;  *)
(* and after every step the events that say what has become of it.  No     *)
(* levels, no look-up, no running totals, no status: a depth is what the   *)
(* orders at a price have left, and an answer is read off the order.       *)
(***************************************************************************)
EXTENDS Orders

VARIABLES book,      \* the resting orders, by id
          ahead,     \* pairs of orders at one price of a side, the earlier one first
          used,      \* the ids that have been given to an order
          taker,     \* the order being matched
          request,   \* the message it came with
          phase,     \* how far that message is
          emitted    \* the events of the last step

vars == <<book, ahead, used, taker, request, phase, emitted>>

At(orders, side, price) ==
    { id \in DOMAIN orders : orders[id].side = side /\ orders[id].price = price }

\* The orders on the other side whose price an order accepts.
Within(order) ==
    { id \in DOMAIN book :
        book[id].side = Opposite(order.side) /\ Crosses(order, book[id].price) }

Quantity(orders, ids) ==
    SumFunctionOnSet([id \in DOMAIN orders |-> orders[id].remaining], ids)

\* the word to everyone on what a level holds after the step
Shown(side, price) == BookUpdate(side, price, Quantity(book', At(book', side, price)))

\* Price first, then time.
GoesBefore(id, other) ==
    LET price == book[id].price
        rival == book[other].price
    IN  \/ price = rival /\ <<id, other>> \in ahead
        \/ price # rival /\ (price < rival <=> book[id].side = "Sell")

IsFirst(id) == \A other \in DOMAIN book \ {id} :
                   book[other].side = book[id].side => GoesBefore(id, other)

Leaves(id) ==
    /\ book' = [other \in DOMAIN book \ {id} |-> book[other]]
    /\ ahead' = { pair \in ahead : id \notin {pair[1], pair[2]} }

Init ==
    /\ book = [id \in {} |-> NoOrder]
    /\ ahead = {} /\ used = {}
    /\ taker = NoOrder /\ request = NoRequest
    /\ phase = "idle" /\ emitted = <<>>

-----------------------------------------------------------------------------
\* An order comes in.  A fill-or-kill order that finds too little is killed.
Enter(order, req) ==
    /\ taker' = order
    /\ request' = req
    /\ phase' = IF /\ order.type = "Limit" /\ order.tif = "FillOrKill"
                   /\ Quantity(book, Within(order)) < order.remaining
                THEN "reply" ELSE "match"

\* The engine is gone: an exception that nothing catches.
Fail ==
    /\ phase' = "terminated"
    /\ emitted' = <<>>
    /\ UNCHANGED <<book, ahead, taker, request>>

Add(id, type, tif, side, price, quantity, conn) ==
    /\ phase = "idle"
    /\ id \notin used
    /\ used' = used \union {id}
    /\ \/ quantity <= 0 /\ Fail
       \/ /\ quantity > 0
          /\ Enter([id |-> id, type |-> type, tif |-> tif, side |-> side,
                    price |-> price, remaining |-> quantity, conn |-> conn],
                   [kind |-> "add", quantity |-> quantity, conn |-> conn])
          /\ emitted' = <<>>
          /\ UNCHANGED <<book, ahead>>

\* A modified order leaves the book, and comes in again as the last at its price.
Modify(id, price, quantity, conn) ==
    /\ phase = "idle"
    /\ id \in DOMAIN book
    /\ UNCHANGED used
    /\ \/ quantity <= 0 /\ Fail
       \/ /\ quantity > 0
          /\ Enter([book[id] EXCEPT !.price = price, !.remaining = quantity],
                   [kind |-> "modify", quantity |-> quantity, conn |-> conn])
          /\ Leaves(id)
          /\ emitted' = <<Shown(book[id].side, book[id].price)>>

Cancel(id, conn) ==
    /\ phase = "idle"
    /\ id \in DOMAIN book
    /\ Leaves(id)
    /\ emitted' = << Shown(book[id].side, book[id].price),
                     Private("OrderCanceled", id, conn) >>
    /\ UNCHANGED <<used, taker, request, phase>>

\* The order to modify or to cancel does not rest.
Refuse(kind, id, conn) ==
    /\ phase = "idle"
    /\ id \notin DOMAIN book
    /\ emitted' = <<Private(kind, id, conn)>>
    /\ UNCHANGED <<book, ahead, used, taker, request, phase>>

\* The order that goes before all others of its side trades, at its own price,
\* as much as both have.
Trade(maker) ==
    LET order == book[maker]
        fill  == IF taker.remaining <= order.remaining THEN taker.remaining
                 ELSE order.remaining
        left  == order.remaining - fill
    IN  /\ phase = "match"
        /\ taker.remaining > 0
        /\ maker \in Within(taker)
        /\ IsFirst(maker)
        /\ IF left = 0 THEN Leaves(maker)
           ELSE book' = [book EXCEPT ![maker].remaining = left] /\ UNCHANGED ahead
        /\ taker' = [taker EXCEPT !.remaining = @ - fill]
        /\ emitted' = << TradeExecuted(taker, order, order.price, fill),
                         Shown(order.side, order.price),
                         IF left = 0 THEN Private("OrderFilled", maker, order.conn)
                         ELSE OrderRested(maker, order.conn, left) >>
        /\ UNCHANGED <<used, request, phase>>

\* Nothing is left of the order, or nothing that it would trade with.
Matched == phase = "match" /\ (taker.remaining = 0 \/ Within(taker) = {})

ToRest == taker.type = "Limit" /\ taker.tif = "GoodTillCancel" /\ taker.remaining > 0

Rest ==
    /\ Matched /\ ToRest
    /\ taker.price > 0
    /\ book' = [id \in DOMAIN book \union {taker.id} |->
                    IF id = taker.id THEN taker ELSE book[id]]
    /\ ahead' = ahead \union (At(book, taker.side, taker.price) \X {taker.id})
    /\ emitted' = <<Shown(taker.side, taker.price)>>
    /\ phase' = "reply"
    /\ UNCHANGED <<used, taker, request>>

RestFails == Matched /\ ToRest /\ taker.price <= 0 /\ Fail /\ UNCHANGED used

LeaveNothing ==
    /\ Matched /\ ~ToRest
    /\ emitted' = <<>>
    /\ phase' = "reply"
    /\ UNCHANGED <<book, ahead, used, taker, request>>

\* What is said of a new order: nothing is left of it; or the rest of it is to
\* stay; or it is gone, after a part was traded or for want of a counterpart.
\* A market order with GoodTillCancel is said to rest as soon as it has traded.
Outcome ==
    LET traded == taker.remaining < request.quantity
        limit  == taker.type = "Limit"
    IN  IF taker.remaining = 0 THEN Private("OrderFilled", taker.id, request.conn)
        ELSE IF taker.tif = "GoodTillCancel" /\ (limit \/ traded)
             THEN OrderRested(taker.id, request.conn, taker.remaining)
        ELSE IF traded \/ (limit /\ taker.tif = "ImmediateOrCancel")
             THEN Private("OrderExpired", taker.id, request.conn)
        ELSE Private("OrderRejected", taker.id, request.conn)

Reply ==
    /\ phase = "reply"
    /\ emitted' = << IF request.kind = "add" THEN Outcome
                     ELSE OrderModified(taker.id, request.conn, taker.price, request.quantity) >>
    /\ phase' = "idle"
    /\ taker' = NoOrder
    /\ request' = NoRequest
    /\ UNCHANGED <<book, ahead, used>>

Next ==
    \/ \E maker \in DOMAIN book : Trade(maker)
    \/ Rest \/ RestFails \/ LeaveNothing \/ Reply
    \/ \E id \in OrderIds, conn \in Conns :
           Cancel(id, conn) \/ Refuse("ModifyRejected", id, conn)
                            \/ Refuse("CancelRejected", id, conn)
    \/ \E id \in OrderIds, price \in Prices, quantity \in Quantities, conn \in Conns :
           Modify(id, price, quantity, conn)
    \/ \E id \in OrderIds, type \in OrderTypes, tif \in TimesInForce, side \in Sides,
          price \in Prices, quantity \in Quantities, conn \in Conns :
           Add(id, type, tif, side, price, quantity, conn)

Spec == Init /\ [][Next]_vars
=============================================================================
