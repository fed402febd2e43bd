--------------------------------- MODULE Wire ---------------------------------
(***************************************************************************)
(* The frames on the connections (include/networking/protocol.h): the two  *)
(* fields of the header, then those of a packed struct.  A stream is a     *)
(* sequence of such fields, a length counts fields, and a 64-bit field is  *)
(* copied as it is (both ends have the same byte order).  What happens to  *)
(* the fields of one byte, and where in the struct a field is, is kept.    *)
(***************************************************************************)
EXTENDS Integers, Sequences, SequencesExt

\* The fields of the Wire structs, server to client
EventLayout ==
    [OrderRested    |-> <<"order_id", "client_order_id", "remaining_quantity">>,
     OrderFilled    |-> <<"order_id", "client_order_id">>,
     OrderExpired   |-> <<"order_id", "client_order_id">>,
     OrderRejected  |-> <<"order_id", "reason">>,
     OrderCanceled  |-> <<"order_id">>,
     CancelRejected |-> <<"order_id", "reason">>,
     OrderModified  |-> <<"order_id", "new_price", "new_quantity">>,
     ModifyRejected |-> <<"order_id", "reason">>,
     TradeExecuted  |-> <<"buyer_id", "seller_id", "price", "quantity", "aggressive_side">>,
     BookUpdate     |-> <<"side", "price", "new_total_quantity">>]

EventTag ==
    [OrderRested |-> 1, OrderFilled |-> 2, OrderExpired |-> 3, OrderRejected |-> 4,
     OrderCanceled |-> 5, CancelRejected |-> 6, OrderModified |-> 7,
     ModifyRejected |-> 8, TradeExecuted |-> 9, BookUpdate |-> 10]

EventKinds == DOMAIN EventTag

\* ... and client to server
OrderLayout ==
    [AddOrder    |-> <<"order_type", "tif", "client_order_id", "price", "quantity", "side">>,
     CancelOrder |-> <<"order_id">>,
     ModifyOrder |-> <<"order_id", "new_price", "new_quantity">>]

OrderKinds == DOMAIN OrderLayout

Buy == 0    \* the enums of events and orders as numbers
Sell == 1
SideFields == {"side", "aggressive_side"}     \* of an event
ByteFields == {"order_type", "tif", "side"}   \* the enums of an order

HeaderSize == 2   \* type and payload_len
Position(field, layout) == CHOOSE i \in DOMAIN layout : layout[i] = field
FieldsOf(layout) == { layout[i] : i \in DOMAIN layout }

\* An event: its kind, and the value of each field
EventOf(k) ==
    { ev \in [kind : {k}, data : [FieldsOf(EventLayout[k]) -> Int]] :
        \A f \in DOMAIN ev.data : f \in SideFields => ev.data[f] \in {Buy, Sell} }
Event ==
    EventOf("OrderRested") \union EventOf("OrderFilled") \union EventOf("OrderExpired")
      \union EventOf("OrderRejected") \union EventOf("OrderCanceled")
      \union EventOf("CancelRejected") \union EventOf("OrderModified")
      \union EventOf("ModifyRejected") \union EventOf("TradeExecuted")
      \union EventOf("BookUpdate")

ToWire(field, value) ==
    IF field \in SideFields THEN IF value = Buy THEN 0 ELSE 1 ELSE value

\* Seeded fault: the sides are swapped on the way back
FromWireSellFirst(field, unit) ==
    IF field \in SideFields THEN IF unit = 0 THEN Sell ELSE Buy ELSE unit

FromWire(field, unit) ==
    IF field \in SideFields THEN IF unit = 0 THEN Buy ELSE Sell ELSE unit

SerialiseEvent(ev) ==
    LET layout == EventLayout[ev.kind]
    IN  <<EventTag[ev.kind], Len(layout)>>
          \o [i \in DOMAIN layout |-> ToWire(layout[i], ev.data[layout[i]])]

DeserialiseEvent(kind, payload) ==
    LET layout == EventLayout[kind]
    IN  [kind |-> kind,
         data |-> [f \in FieldsOf(layout) |-> FromWire(f, payload[Position(f, layout)])]]

\* Orders: the value of an enum is a number, of which the wire keeps a byte and
\* which the server casts back without a check.
SerialiseOrder(msg) ==
    [i \in DOMAIN OrderLayout[msg.kind] |->
        LET f == OrderLayout[msg.kind][i]
        IN  IF f \in ByteFields THEN msg.data[f] % 256 ELSE msg.data[f]]

DeserialiseOrder(kind, payload) ==
    [kind |-> kind,
     data |-> [f \in FieldsOf(OrderLayout[kind]) |-> payload[Position(f, OrderLayout[kind])]]]
===============================================================================
