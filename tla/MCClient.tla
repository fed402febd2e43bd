------------------------------- MODULE MCClient -------------------------------
(***************************************************************************)
(* Instance of Client: an event of every kind, with values that are        *)
(* different in every field, and entries that are complete, broken in the  *)
(* middle, or out of the range of an enum.                                 *)
(***************************************************************************)
EXTENDS Client

Number == [order_id |-> 11, client_order_id |-> 12, remaining_quantity |-> 13, new_price |-> 14,
           new_quantity |-> 15, buyer_id |-> 16, seller_id |-> 17, price |-> 18, quantity |-> 19,
           new_total_quantity |-> 0]

Sample(kind, side, reason) ==
    [kind |-> kind,
     data |-> [f \in FieldsOf(EventLayout[kind]) |->
        IF f \in DOMAIN Number THEN Number[f] ELSE IF f = "reason" THEN reason ELSE side]]

Plain(kind) == Sample(kind, Buy, 1)

MCStreams ==
    {<<Plain("OrderRested"), Plain("TradeExecuted"), Plain("BookUpdate")>>,
     <<Plain("OrderCanceled"), Sample("BookUpdate", Sell, 1), Plain("OrderFilled")>>,
     <<Sample("OrderRejected", Buy, 255), Plain("OrderModified"), Plain("OrderExpired")>>,
     <<Sample("TradeExecuted", Sell, 1), Plain("ModifyRejected"), Plain("CancelRejected")>>}

Typed(kind, values, good) == [kind |-> kind, values |-> values, good |-> good]

MCSessions ==
    {<<Typed("AddOrder", <<1, 100, 10, 1, 2>>, 5), Typed("CancelOrder", <<4>>, 1)>>,
     <<Typed("AddOrder", <<2, 99, 5, 0, 257>>, 5), Typed("ModifyOrder", <<1, 101, 20>>, 3)>>,
     <<Typed("AddOrder", <<3, 98, 0, 0, 0>>, 2), Typed("AddOrder", <<4, 97, 1, 0, 1>>, 5)>>,
     <<Typed("ModifyOrder", <<1, 0, 0>>, 1), Typed("AddOrder", <<5, 96, 1, 1, 0>>, 5)>>}
===============================================================================
