----------------------------- MODULE OrderBook -----------------------------
(***************************************************************************)
(* The matching engine's book, pkg/orderbook/orderbook.go: two sorted       *)
(* slices of price levels, a map from order id to resting order, and the    *)
(* operations Process and Cancel. Process is split at its loop heads (pc):  *)
(* one step enters a level, one executes one match, one leaves the level,   *)
(* one ends the loop and rests what is left. The engine is single-threaded, *)
(* so no other operation of the book starts while pc is not "idle".         *)
(***************************************************************************)
EXTENDS Limit, Sequences

CONSTANTS
    Ids,        \* order ids clients may send
    NoId,       \* the empty id, Go's zero value
    Requests,   \* the bodies (side, type, price, quantity) clients may send
    FreshIds    \* TRUE: clients never reuse an id (pkg/loadgen sends uuids)

Request == [side : Int, type : Int, price : Nat, qty : Nat]
OrderRec == [id : Ids \cup {NoId}, side : Int, type : Int, price : Nat, qty : Nat]

ASSUME OrderBookAssumption ==
    /\ NoId \notin Ids
    /\ Requests \subseteq Request
    /\ FreshIds \in BOOLEAN

\* Side and OrderType are Go ints: any other value can arrive from the API.
Buy == 0
Sell == 1
LimitOrder == 0
MarketOrder == 1

Book == {"bids", "asks"}

VARIABLES
    count,    \* orders received so far: the reference of the newest one
    order,    \* the immutable fields of every Order
    filled,   \* Order.FilledQty
    levels,   \* OrderBook.bids and OrderBook.asks: slices of *Limit
    orders,   \* OrderBook.orders: id -> *Order, Nil for a missing key
    pc,       \* where Process is: "idle", "match" (outer loop), "fill" (inner)
    taker,    \* the order being processed (the last one processed when idle)
    trades    \* the trades Process has collected, and returns

bookVars == <<levels, orders>>
vars == <<limitVars, count, order, filled, levels, orders, pc, taker, trades>>

NoOrder == [id |-> NoId, side |-> Buy, type |-> LimitOrder, price |-> 0, qty |-> 0]

Init ==
    /\ LimitInit
    /\ count = 0
    /\ order = [o \in Ref |-> NoOrder]
    /\ filled = [o \in Ref |-> 0]
    /\ levels = [b \in Book |-> <<>>]
    /\ orders = [i \in Ids |-> Nil]
    /\ pc = "idle"
    /\ taker = Nil
    /\ trades = <<>>

Remaining(o) == order[o].qty - filled[o]

\* Limit.Price: a level has the price of the order it was created for.
LevelPrice(l) == order[l].price

\* The slice an order rests in and the one it matches against: Process and
\* Cancel treat every side other than Buy as a sell.
OwnBook(o) == IF order[o].side = Buy THEN "bids" ELSE "asks"
MakerBook(o) == IF order[o].side = Buy THEN "asks" ELSE "bids"

\* (*makerLimits)[0]
Best == Head(levels[MakerBook(taker)])

NewOrder(i, r) ==
    [id |-> i, side |-> r.side, type |-> r.type, price |-> r.price, qty |-> r.qty]

\* Process up to the matching loop, for the order NewOrder built from r.
Process(i, r) ==
    /\ pc = "idle"
    /\ count < MaxOrders
    /\ FreshIds => \A o \in 1 .. count : order[o].id # i
    /\ count' = count + 1
    /\ order' = [order EXCEPT ![count + 1] = NewOrder(i, r)]
    /\ taker' = count + 1
    /\ trades' = <<>>
    /\ pc' = IF r.qty = 0 THEN "idle" ELSE "match"
    /\ UNCHANGED <<limitVars, filled, bookVars>>

\* Mutant: a limit equal to the level's price does not cross.
Crosses_Strictly(o, l) ==
    order[o].type = LimitOrder =>
        /\ order[o].side = Buy => order[o].price > LevelPrice(l)
        /\ order[o].side = Sell => order[o].price < LevelPrice(l)

\* Mutant: only buys are checked.
Crosses_BuysOnly(o, l) ==
    order[o].type = LimitOrder /\ order[o].side = Buy => order[o].price >= LevelPrice(l)

\* The crossing check of matchOrder, made for limit orders only.
Crosses(o, l) ==
    order[o].type = LimitOrder =>
        /\ ~(order[o].side = Buy /\ order[o].price < LevelPrice(l))
        /\ ~(order[o].side = Sell /\ order[o].price > LevelPrice(l))

\* Mutant: the outer loop does not look at what the taker still wants.
MatchGoesOn_Exhausted ==
    /\ levels[MakerBook(taker)] # <<>>
    /\ Crosses(taker, Best)

\* The outer loop goes on with the best level, or stops.
MatchGoesOn ==
    /\ levels[MakerBook(taker)] # <<>>
    /\ Remaining(taker) > 0
    /\ Crosses(taker, Best)

EnterLevel ==
    /\ pc = "match"
    /\ MatchGoesOn
    /\ pc' = "fill"
    /\ UNCHANGED <<limitVars, count, order, filled, bookVars, taker, trades>>

\* min
SmallerOf(x, y) == IF x < y THEN x ELSE y

\* Mutant: the entry is never deleted.
DeleteEntry_Never(o) == UNCHANGED orders

\* delete(ob.orders, o.ID)
DeleteEntry(o) == orders' = [orders EXCEPT ![order[o].id] = Nil]

\* Mutant: a resting order is not entered in the map.
SetEntry_Never(o) == UNCHANGED orders

\* ob.orders[o.ID] = o
SetEntry(o) == orders' = [orders EXCEPT ![order[o].id] = o]

\* One iteration of the inner loop: match the taker with the level's head.
FillHead ==
    /\ pc = "fill"
    /\ head[Best] # Nil
    /\ Remaining(taker) > 0
    /\ LET maker == head[Best]
           matchQty == SmallerOf(Remaining(taker), Remaining(maker))
       IN  /\ filled' = [filled EXCEPT ![taker] = @ + matchQty,
                                       ![maker] = @ + matchQty]
           /\ volume' = [volume EXCEPT ![Best] = Wrap(@ - matchQty)]
           /\ trades' = Append(trades, [maker |-> maker, taker |-> taker,
                                        price |-> LevelPrice(Best), qty |-> matchQty])
           /\ IF Remaining(maker) = matchQty
              THEN Unlink(Best, maker) /\ DeleteEntry(maker)
              ELSE UNCHANGED <<linkVars, orders>>
    /\ UNCHANGED <<count, order, levels, pc, taker>>

\* The inner loop ends; a level whose total is zero leaves the slice.
LeaveLevel ==
    /\ pc = "fill"
    /\ head[Best] = Nil \/ Remaining(taker) = 0
    /\ levels' = IF volume[Best] = 0
                 THEN [levels EXCEPT ![MakerBook(taker)] = Tail(@)]
                 ELSE levels
    /\ pc' = "match"
    /\ UNCHANGED <<limitVars, count, order, filled, orders, taker, trades>>

\* sort.Search over a sorted slice: idx is the first level that is not
\* strictly ahead of the price, or one past the end.
SearchIndex(b, price, idx) ==
    LET notAhead(l) == IF b = "bids" THEN LevelPrice(l) <= price
                                     ELSE LevelPrice(l) >= price
    IN  /\ \A k \in 1 .. idx - 1 : ~notAhead(levels[b][k])
        /\ idx <= Len(levels[b]) => notAhead(levels[b][idx])

Found(b, price, idx) ==
    idx <= Len(levels[b]) /\ LevelPrice(levels[b][idx]) = price

\* The slice with a level put in at idx, and without the one at idx.
InsertAt(limits, idx, l) == SubSeq(limits, 1, idx - 1) \o <<l>> \o SubSeq(limits, idx, Len(limits))
RemoveAt(limits, idx) == SubSeq(limits, 1, idx - 1) \o SubSeq(limits, idx + 1, Len(limits))

\* addLimitOrder: queue o at the level of its price, created when missing.
AddLimitOrder(b, o) ==
    \E idx \in 1 .. Len(levels[b]) + 1 :
        /\ SearchIndex(b, order[o].price, idx)
        /\ IF Found(b, order[o].price, idx)
           THEN AddOrder(levels[b][idx], o, Remaining(o)) /\ UNCHANGED levels
           ELSE /\ levels' = [levels EXCEPT ![b] = InsertAt(@, idx, o)]
                /\ AddOrder(o, o, Remaining(o))
        /\ SetEntry(o)

\* The outer loop ends, Process rests the remainder of a limit order and
\* returns.
FinishProcess ==
    /\ pc = "match"
    /\ ~MatchGoesOn
    /\ IF Remaining(taker) > 0 /\ order[taker].type = LimitOrder
       THEN AddLimitOrder(OwnBook(taker), taker)
       ELSE UNCHANGED <<limitVars, bookVars>>
    /\ pc' = "idle"
    /\ UNCHANGED <<count, order, filled, taker, trades>>

\* removeLimitLevel: drop the level of this price from the slice, if any.
RemoveLimitLevel(b, price) ==
    \E idx \in 1 .. Len(levels[b]) + 1 :
        /\ SearchIndex(b, price, idx)
        /\ levels' = IF Found(b, price, idx)
                     THEN [levels EXCEPT ![b] = RemoveAt(@, idx)]
                     ELSE levels

\* Cancel returns true. Where it returns false it changes nothing.
Cancel(i) ==
    /\ pc = "idle"
    /\ orders[i] # Nil
    /\ limitOf[orders[i]] # Nil
    /\ LET o == orders[i]
           l == limitOf[o]
       IN  /\ RemoveOrder(l, o, Remaining(o))
           /\ DeleteEntry(o)
           /\ IF volume'[l] = 0
              THEN RemoveLimitLevel(OwnBook(o), LevelPrice(l))
              ELSE UNCHANGED levels
    /\ UNCHANGED <<count, order, filled, pc, taker, trades>>

\* Mutant: the loop stops one level early.
GetDepth_OffByOne(b, depth) ==
    [k \in {k \in 1 .. Len(levels[b]) : k < depth} |->
        [price |-> LevelPrice(levels[b][k]), volume |-> volume[levels[b][k]]]]

\* One side of GetDepth: the price and the total of the first levels.
GetDepth(b, depth) ==
    [k \in {k \in 1 .. Len(levels[b]) : k <= depth} |->
        [price |-> LevelPrice(levels[b][k]), volume |-> volume[levels[b][k]]]]

Matching == EnterLevel \/ FillHead \/ LeaveLevel \/ FinishProcess

Next ==
    \/ \E i \in Ids, r \in Requests : Process(i, r)
    \/ Matching
    \/ \E i \in Ids : Cancel(i)

Spec == Init /\ [][Next]_vars

-----------------------------------------------------------------------------
\* The book's state has the shape the Go types give it.
TypeOK ==
    /\ LimitTypeOK
    /\ count \in 0 .. MaxOrders
    /\ order \in [Ref -> OrderRec]
    /\ filled \in [Ref -> Nat]
    /\ levels \in [Book -> Seq(Ref)]
    /\ orders \in [Ids -> Ptr]
    /\ pc \in {"idle", "match", "fill"}
    /\ taker \in 0 .. count
    /\ pc # "idle" => taker # Nil
    /\ trades \in Seq([maker : Ref, taker : Ref, price : Nat, qty : Nat])

\* A level k of slice b is at a strictly better price than level j.
Ahead(b, k, j) ==
    IF b = "bids" THEN LevelPrice(levels[b][k]) > LevelPrice(levels[b][j])
                  ELSE LevelPrice(levels[b][k]) < LevelPrice(levels[b][j])

\* The slices stay sorted and hold each price once (orderbook.go:23-24):
\* what sort.Search needs at every later insertion and removal, and what
\* makes the first level the best one.
LevelsSorted ==
    \A b \in Book : \A k, j \in 1 .. Len(levels[b]) : k < j => Ahead(b, k, j)

\* No listed bid could trade with a listed ask, not even while an order is
\* being matched: Process has matched everything that crosses before it rests
\* what is left.
BookUncrossed ==
    \A k \in 1 .. Len(levels["bids"]), j \in 1 .. Len(levels["asks"]) :
        LevelPrice(levels["bids"][k]) < LevelPrice(levels["asks"][j])

\* The levels of a slice, and those of both.
Elements(limits) == {limits[k] : k \in 1 .. Len(limits)}

ListedLevels == Elements(levels["bids"]) \cup Elements(levels["asks"])

\* Whatever ids clients send, an entry of orders (orderbook.go:25) is a
\* resting order of that id: Cancel never unlinks an order twice.
IndexSound ==
    \A i \in Ids : orders[i] # Nil =>
        limitOf[orders[i]] # Nil /\ order[orders[i]].id = i

\* orders is a "lookup map of all active orders in the book"
\* (orderbook.go:25): every resting order can be cancelled by its id.
IndexComplete ==
    \A o \in Ref : limitOf[o] # Nil => orders[order[o].id] = o

\* A limit order on either side never trades at a price worse than its own
\* (orderbook.go:117-124), however many levels it walks through.
LimitRespected ==
    taker # Nil /\ order[taker].type = LimitOrder =>
        \A k \in 1 .. Len(trades) :
            /\ order[taker].side = Buy => trades[k].price <= order[taker].price
            /\ order[taker].side = Sell => trades[k].price >= order[taker].price

\* A bound on the steps that Process still has to take.
StepsLeft ==
    LET stage == IF pc = "fill" THEN 1 ELSE IF MatchGoesOn THEN 2 ELSE 0
    IN  2 * (Remaining(taker) + Len(levels[MakerBook(taker)])) + stage

\* Process returns: every step of matchOrder's loops (orderbook.go:114, 128)
\* brings their end nearer. The outer loop would spin for ever on a level
\* that is empty and still reports volume.
ProcessReturns ==
    [][pc # "idle" /\ pc' # "idle" => StepsLeft' < StepsLeft]_vars

\* What the three values of pc promise.
StageOK ==
    /\ pc # "idle" => taker = count
    /\ pc = "fill" => levels[MakerBook(taker)] # <<>>

\* Levels and queues hold only orders that have arrived, and not yet the one
\* being matched; a level is as old as its oldest possible order.
Arrived ==
    /\ \A b \in Book : \A k \in 1 .. Len(levels[b]) :
        levels[b][k] <= count /\ (pc # "idle" => levels[b][k] # taker)
    /\ \A o \in Ref : limitOf[o] # Nil =>
        limitOf[o] <= o /\ o <= count /\ (pc # "idle" => o # taker)

\* No order is filled beyond its quantity, and none before it arrives.
FillBound ==
    \A o \in Ref : filled[o] <= order[o].qty /\ (o > count => filled[o] = 0)

\* The inductive invariant behind TypeOK, FifoLinks, LevelsSorted,
\* BookUncrossed and IndexSound, whatever clients send.
BookInv ==
    /\ TypeOK
    /\ StageOK
    /\ Arrived
    /\ FillBound
    /\ FifoLinks
    /\ LevelsSorted
    /\ BookUncrossed
    /\ IndexSound

\* Behind LimitRespected: the level being filled is one the taker crosses.
TradeInv == LimitRespected /\ (pc = "fill" => Crosses(taker, Best))

\* Behind IndexComplete, for ids that are used once.
IdsInv ==
    FreshIds =>
        /\ \A o \in 1 .. count : order[o].id \in Ids
        /\ \A o, p \in 1 .. count : order[o].id = order[p].id => o = p
        /\ IndexComplete

\* Behind ProcessReturns: an order rests only while it wants something, so
\* every execution makes progress.
RestingOpen == \A o \in Ref : limitOf[o] # Nil => Remaining(o) > 0

\* What the levels' totals need to stay below the integer width: all orders
\* together ask for less than 2^64.
TotalsFit == \A r \in Requests : MaxOrders * r.qty < Modulus

\* Behind ImplementsPriceTime and DepthExact, when TotalsFit: a resting order
\* is in a listed level of its own side and price, and a listed level holds an
\* order, but for the one that is being filled.
ListingInv ==
    /\ \A o \in Ref : MaxOrders * order[o].qty < Modulus
    /\ \A o \in Ref : limitOf[o] # Nil =>
        /\ limitOf[o] \in Elements(levels[OwnBook(o)])
        /\ order[o].price = LevelPrice(limitOf[o])
    /\ \A l \in ListedLevels : Members(l) = {} => pc = "fill" /\ l = Best
=============================================================================
