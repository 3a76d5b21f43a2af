--------------------------- MODULE PriceTimeBook ---------------------------
(***************************************************************************)
(* What the order book promises, with no levels, queues or index: a set of  *)
(* resting orders, executed against in strict price-time priority.          *)
(***************************************************************************)
EXTENDS Integers, Sequences

CONSTANTS MaxOrders, Ids, NoId, Requests

Nil == 0
Ref == 1 .. MaxOrders
Buy == 0
Sell == 1
LimitOrder == 0
NoOrder == [id |-> NoId, side |-> Buy, type |-> LimitOrder, price |-> 0, qty |-> 0]

VARIABLES
    count,    \* orders received
    order,    \* their fields
    left,     \* the unfilled quantity of each
    resting,  \* the orders that can be executed against or withdrawn
    active,   \* the order being matched, Nil between requests
    trades    \* the executions of the order being, or last, matched

vars == <<count, order, left, resting, active, trades>>

Init ==
    /\ count = 0
    /\ order = [o \in Ref |-> NoOrder]
    /\ left = [o \in Ref |-> 0]
    /\ resting = {}
    /\ active = Nil
    /\ trades = <<>>

IsBuy(o) == order[o].side = Buy

\* The resting orders that o may trade with at its limit, if it has one. An
\* order that is neither a buy nor a sell counts as a sell without a limit.
Matchable(o) ==
    {m \in resting :
        /\ IsBuy(m) # IsBuy(o)
        /\ order[o].type = LimitOrder =>
            /\ order[o].side = Buy => order[m].price <= order[o].price
            /\ order[o].side = Sell => order[m].price >= order[o].price}

\* m is executed before n: a better price, or the same price and earlier.
Precedes(m, n) ==
    \/ IF IsBuy(m) THEN order[m].price > order[n].price
                   ELSE order[m].price < order[n].price
    \/ order[m].price = order[n].price /\ m < n

Submit(i, r) ==
    /\ active = Nil
    /\ count < MaxOrders
    /\ count' = count + 1
    /\ order' = [order EXCEPT ![count'] =
                    [id |-> i, side |-> r.side, type |-> r.type,
                     price |-> r.price, qty |-> r.qty]]
    /\ left' = [left EXCEPT ![count'] = r.qty]
    /\ active' = IF r.qty = 0 THEN Nil ELSE count'
    /\ trades' = <<>>
    /\ UNCHANGED resting

\* The active order trades with the resting order that has priority over
\* every other it could trade with, at that order's price, for as much as
\* both still want.
Execute ==
  /\ active # Nil
  /\ \E m \in Matchable(active) :
        /\ \A n \in Matchable(active) \ {m} : Precedes(m, n)
        /\ \E q \in {left[active], left[m]} :
            /\ q > 0 /\ q <= left[active] /\ q <= left[m]
            /\ left' = [left EXCEPT ![active] = @ - q, ![m] = @ - q]
            /\ resting' = IF left[m] = q THEN resting \ {m} ELSE resting
            /\ trades' = Append(trades, [maker |-> m, taker |-> active,
                                         price |-> order[m].price, qty |-> q])
        /\ UNCHANGED <<count, order, active>>

\* Nothing is left to trade: the remainder of a limit order rests.
Close ==
    /\ active # Nil
    /\ left[active] = 0 \/ Matchable(active) = {}
    /\ resting' = IF left[active] > 0 /\ order[active].type = LimitOrder
                  THEN resting \cup {active}
                  ELSE resting
    /\ active' = Nil
    /\ UNCHANGED <<count, order, left, trades>>

Withdraw(i) ==
    /\ active = Nil
    /\ \E o \in resting :
        /\ order[o].id = i
        /\ resting' = resting \ {o}
    /\ UNCHANGED <<count, order, left, active, trades>>

Next ==
    \/ \E i \in Ids, r \in Requests : Submit(i, r)
    \/ Execute
    \/ Close
    \/ \E i \in Ids : Withdraw(i)

Spec == Init /\ [][Next]_vars
=============================================================================
