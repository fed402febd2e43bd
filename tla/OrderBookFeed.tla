---------------------------- MODULE OrderBookFeed ----------------------------
(***************************************************************************)
(* The engine together with its clients as readers of the events it        *)
(* pushes, none lost: what they can conclude from the events alone,        *)
(* compared with what the book holds.  The variables of this module are    *)
(* observers; they follow `emitted` and restrict no step of OrderBook.     *)
(***************************************************************************)
EXTENDS OrderBook

VARIABLES mirror,     \* depth per side and price, from BookUpdate
          told,       \* per order, the open quantity its owner was last told of
          owner,      \* per order, the connection that added it
          placed,     \* per order, the quantity added or last modified to
          traded,     \* per order, what TradeExecuted has reported since then
          older,      \* pairs of resting orders, the first at rest for longer
          untracked   \* orders whose owner the engine does not keep informed

Nobody == "nobody"

feedVars == <<mirror, told, owner, placed, traded, older, untracked>>
allVars == <<vars, feedVars>>

FeedInit ==
    /\ Init
    /\ mirror = [s \in Sides |-> [p \in Prices |-> 0]]
    /\ told = [id \in OrderIds |-> 0]
    /\ owner = [id \in OrderIds |-> Nobody]
    /\ placed = [id \in OrderIds |-> 0]
    /\ traded = [id \in OrderIds |-> 0]
    /\ older = {}
    /\ untracked = {}

NewEvents(kind) == { e \in ToSet(emitted') : e.kind = kind }

\* Entering: the order of this step's message, when it was accepted
Entering == phase = "idle" /\ phase' \in {"match", "reply"}

FollowDepth ==
    mirror' = [s \in Sides |-> [p \in Prices |->
        LET new == { e \in NewEvents("BookUpdate") : e.side = s /\ e.price = p }
        IN  IF new = {} THEN mirror[s][p] ELSE (CHOOSE e \in new : TRUE).quantity]]

\* An order is followed as long as it rests or is being matched; what was
\* known of it is forgotten one step later.
Live(id) == lookup[id] # Nowhere \/ incoming.id = id

\* A trade concerns an order on the side the order is on.
Party(id, trade) ==
    LET side == IF incoming.id = id THEN incoming.side ELSE resting[id].side
    IN  id = IF side = "Buy" THEN trade.buyer ELSE trade.seller

FollowTrades ==
    /\ placed' = [id \in OrderIds |->
           IF Entering /\ id = incoming'.id THEN request'.quantity
           ELSE IF Live(id) THEN placed[id] ELSE 0]
    /\ traded' = [id \in OrderIds |->
           IF (Entering /\ id = incoming'.id) \/ ~Live(id) THEN 0
           ELSE LET trades == { e \in NewEvents("TradeExecuted") : Party(id, e) }
                IN  traded[id] + SumFunction([e \in trades |-> e.quantity])]

\* A modify is not followed by word of its fills, a market order's rest is
\* announced as resting, and a cancel is answered to whoever asked for it.
FollowUntracked ==
    untracked' = untracked
        \union { id \in OrderIds : Entering /\ id = incoming'.id
                     /\ (request'.kind = "modify" \/ incoming'.type = "Market") }
        \union { e.id : e \in { f \in NewEvents("OrderCanceled") : f.conn # owner[f.id] } }

OwnEvents(id) ==
    { e \in ToSet(emitted') :
        /\ e.kind \notin {"TradeExecuted", "BookUpdate", "ModifyRejected", "CancelRejected"}
        /\ e.id = id /\ e.conn = owner'[id] }

FollowOwn ==
    /\ owner' = [id \in OrderIds |->
           IF Entering /\ id = incoming'.id /\ request'.kind = "add" THEN request'.conn
           ELSE IF Live(id) THEN owner[id] ELSE Nobody]
    /\ told' = [id \in OrderIds |->
           LET e == CHOOSE e \in OwnEvents(id) : TRUE
           IN  IF id \in untracked' THEN 0
               ELSE IF OwnEvents(id) = {} THEN told[id]
               ELSE IF e.kind = "OrderRested" THEN e.remaining ELSE 0]

FollowAge ==
    LET rests == { id \in OrderIds : lookup'[id] # Nowhere }
        new   == { id \in rests : lookup[id] = Nowhere }
    IN  older' = (older \intersect (rests \X rests)) \union ((rests \ new) \X new)

FeedNext ==
    /\ Next
    /\ FollowDepth
    /\ FollowTrades
    /\ FollowUntracked
    /\ FollowOwn
    /\ FollowAge

FeedSpec == FeedInit /\ [][FeedNext]_allVars

(***************************************************************************)
(* Properties.                                                             *)
(***************************************************************************)
\* A client that applies every BookUpdate ("0 means level is gone",
\* order_event.h:72) has the depth of the book, after each step of a sweep,
\* a cancel, a modify or a resting.
DepthFeedIsBook ==
    \A s \in Sides, p \in Prices : mirror[s][p] = LevelQuantity(s, p)

\* What a resting order has left and what the trades reported for it add up
\* to what was placed: execute_trade takes the same quantity from both orders,
\* from the level and into the trade, and names the right two orders.
FillsAddUp ==
    \A id \in OrderIds :
        lookup[id] # Nowhere => traded[id] + resting[id].remaining = placed[id]

\* The final word on an order agrees with the trades reported for it.
AnswersAreTrue ==
    \A i \in DOMAIN emitted :
        LET e == emitted[i]
        IN  /\ e.kind = "OrderFilled" => traded[e.id] = placed[e.id]
            /\ e.kind = "OrderExpired" => traded[e.id] < placed[e.id]
            /\ e.kind = "OrderRejected" => traded[e.id] = 0
            /\ e.kind = "OrderRested" => e.remaining = placed[e.id] - traded[e.id]

\* The owner of a limit order that nobody modified, and nobody else cancelled,
\* knows exactly what is open of it: as taker from the answer to its add, as
\* maker from the private event of every fill (ERR-016 of the tests).
OwnerKnowsOpenQuantity ==
    \A id \in OrderIds \ untracked :
        (phase \in {"match", "reply"} => incoming.id # id) =>
            told[id] = OpenQuantity[id]

\* The maker of a trade goes before every resting order of its side.
HasPriority(trade) ==
    LET side   == Opposite(incoming.side)
        maker  == IF side = "Sell" THEN trade.seller ELSE trade.buyer
        rivals == { id \in OrderIds \ {maker} :
                        lookup[id] # Nowhere /\ resting[id].side = side }
    IN  /\ lookup[maker] # Nowhere /\ trade.price = resting[maker].price
        /\ \A id \in rivals :
               /\ IF side = "Sell" THEN trade.price <= resting[id].price
                  ELSE trade.price >= resting[id].price
               /\ resting[id].price = trade.price => <<maker, id>> \in older

\* Price-time priority: a trade is made with an order that no resting order
\* of its side beats on price, and none at its price has rested longer.  A
\* modified order counts from its modify (test/data_driven.cpp:605-607).
PriceTimePriority == [][\A e \in NewEvents("TradeExecuted") : HasPriority(e)]_allVars

(***************************************************************************)
(* What the repository says and the engine does not do.                    *)
(***************************************************************************)
\* An order announced as resting rests ("fills what it can and does not
\* rest", "remainder gone (no resting)": test/data_driven.cpp:368, :373).
RestedMeansResting ==
    \A i \in DOMAIN emitted :
        emitted[i].kind = "OrderRested" => lookup[emitted[i].id] # Nowhere
==============================================================================
