------------------------------ MODULE EventLists ------------------------------
(***************************************************************************)
(* The engine together with the list of the events of a whole message,     *)
(* against the lists that README.md gives for each message of its worked   *)
(* example (README.md:248-273).  `said` is an observer of `emitted` and    *)
(* restricts no step of OrderBook.                                         *)
(***************************************************************************)
EXTENDS OrderBook

VARIABLE said   \* what the message at work, or else the last one, has pushed

ListInit == Init /\ said = <<>>

ListNext ==
    /\ Next
    /\ said' = IF phase = "idle" THEN emitted' ELSE said \o emitted'

ListSpec == ListInit /\ [][ListNext]_<<vars, said>>

MessageDone == phase = "idle" /\ said # <<>>
Kinds == [i \in DOMAIN said |-> said[i].kind]
Traded == "TradeExecuted" \in ToSet(Kinds)

Taker(trade) == IF trade.aggressor = "Buy" THEN trade.buyer ELSE trade.seller
Maker(trade) == IF trade.aggressor = "Buy" THEN trade.seller ELSE trade.buyer

\* The last message was an add (a modify announces a level first) whose order
\* was filled by one trade, with an order that has something left.
FilledByOneTrade ==
    /\ MessageDone
    /\ said[1].kind = "TradeExecuted"
    /\ lookup[Maker(said[1])] # Nowhere
    /\ \E e \in ToSet(said) : e.kind = "OrderFilled" /\ e.id = Taker(said[1])
    /\ \A i \in 2..Len(said) : said[i].kind # "TradeExecuted"

(***************************************************************************)
(* What the README says and the engine does not do (expected to be         *)
(* violated).                                                              *)
(***************************************************************************)
\* An order that fills against a larger one: trade, depth of the other side,
\* OrderFilled, and the depth of its own side, where it never rested; the
\* owner of the larger one gets nothing ("TradeExecuted{price=100,qty=5},
\* BookUpdate{Buy,100,5}, OrderFilled{order_id=2}, BookUpdate{Ask,100,0}":
\* README.md:257-259).
CrossingAddAsListed ==
    FilledByOneTrade =>
        LET trade == said[1]
        IN  /\ Kinds = <<"TradeExecuted", "BookUpdate", "OrderFilled", "BookUpdate">>
            /\ said[2].side = Opposite(trade.aggressor)
            /\ said[3].id = Taker(trade)
            /\ said[4] = BookUpdate(trade.aggressor, trade.price, 0)

\* A modify that trades with nothing is answered, and no level is announced
\* ("Events: OrderModified{order_id=1}": README.md:266-267).
ModifyAsListed ==
    MessageDone /\ ~Traded /\ Last(said).kind = "OrderModified" =>
        Kinds = <<"OrderModified">>
===============================================================================
