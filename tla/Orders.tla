-------------------------------- MODULE Orders --------------------------------
(***************************************************************************)
(* The vocabulary of the matching engine: orders, requests and events, as  *)
(* in types.h, order.h, order_messages.h, order_event.h and trade.h.       *)
(***************************************************************************)
EXTENDS Integers, Sequences, SequencesExt, Functions

CONSTANTS Prices,      \* prices a message may carry, 0 and below included
          Quantities,  \* quantities a message may carry, likewise
          Conns,       \* connection ids
          MaxOrders    \* bound on the orders a behaviour creates

ASSUME BookAssumption ==
    /\ Prices \subseteq Int
    /\ Quantities \subseteq Int
    /\ MaxOrders \in Nat

Sides == {"Buy", "Sell"}
OrderTypes == {"Limit", "Market"}
TimesInForce == {"FillOrKill", "GoodTillCancel", "ImmediateOrCancel"}
OrderIds == 1..MaxOrders

\* class Order, without the fields the engine only carries along
Order == [id : OrderIds, type : OrderTypes, tif : TimesInForce, side : Sides,
          price : Prices, remaining : Nat, conn : Conns]
NoOrder == [id |-> 0]

\* What process() still has to answer, and to whom
Request == [kind : {"add", "modify"}, quantity : Quantities, conn : Conns]
NoRequest == [kind |-> "none"]

Opposite(side) == IF side = "Buy" THEN "Sell" ELSE "Buy"

\* cmp_buy and cmp_sell; match_market_order_against_side asks for no price
Crosses(order, price) ==
    \/ order.type = "Market"
    \/ order.side = "Buy" /\ order.price >= price
    \/ order.side = "Sell" /\ order.price <= price

(***************************************************************************)
(* Events (order_event.h): private ones carry the connection they are      *)
(* routed to, public ones do not.                                          *)
(***************************************************************************)
\* Seeded fault: the two parties the wrong way round when the taker sells.
TradeExecutedTakerBuys(taker, maker, price, quantity) ==
    [kind |-> "TradeExecuted", buyer |-> taker.id, seller |-> maker.id,
     price |-> price, quantity |-> quantity, aggressor |-> taker.side]

TradeExecuted(taker, maker, price, quantity) ==
    [kind |-> "TradeExecuted",
     buyer |-> IF taker.side = "Buy" THEN taker.id ELSE maker.id,
     seller |-> IF taker.side = "Buy" THEN maker.id ELSE taker.id,
     price |-> price, quantity |-> quantity, aggressor |-> taker.side]
BookUpdate(side, price, quantity) ==
    [kind |-> "BookUpdate", side |-> side, price |-> price, quantity |-> quantity]
Private(kind, id, conn) == [kind |-> kind, id |-> id, conn |-> conn]
OrderRested(id, conn, remaining) ==
    [kind |-> "OrderRested", id |-> id, conn |-> conn, remaining |-> remaining]
OrderModified(id, conn, price, quantity) ==
    [kind |-> "OrderModified", id |-> id, conn |-> conn, price |-> price,
     quantity |-> quantity]
===============================================================================
