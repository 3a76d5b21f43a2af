------------------------ MODULE PriceTimeRefinement ------------------------
(***************************************************************************)
(* What the book (OrderBook) shows and promises: the totals of its levels,  *)
(* its published depth, and price-time priority (PriceTimeBook).            *)
(***************************************************************************)
EXTENDS OrderBook, FiniteSets, Functions

\* What is left of each order, and of all orders of a level.
Unfilled == [o \in Ref |-> Remaining(o)]
Total(l) == SumFunctionOnSet(Unfilled, Members(l))

\* TotalVolume (limit.go:8) is the unfilled quantity of the level's orders,
\* as a uint64, through every partial fill, removal and cancel.
VolumeExact == \A l \in Ref : volume[l] = Wrap(Total(l))

\* The published depth, of any length, is what the resting orders say: the
\* best prices at which orders rest, best first, each with the unfilled
\* quantity of all orders at that price.
DepthExact ==
    pc = "idle" =>
        \A b \in Book, depth \in 0 .. MaxOrders :
            LET resting == {o \in Ref : limitOf[o] # Nil /\ OwnBook(o) = b}
                prices == {order[o].price : o \in resting}
                better(p) == {q \in prices : IF b = "bids" THEN q > p ELSE q < p}
                best == {p \in prices : Cardinality(better(p)) < depth}
                shown == GetDepth(b, depth)
            IN  /\ Len(shown) = Cardinality(best)
                /\ \A p \in best :
                    shown[Cardinality(better(p)) + 1] =
                        [price |-> p,
                         volume |-> SumFunctionOnSet(Unfilled,
                                        {o \in resting : order[o].price = p})]

\* The abstract book: the resting orders are those a taker can still reach.
Abstract == INSTANCE PriceTimeBook WITH
    left <- Unfilled,
    resting <- {o \in Ref : limitOf[o] \in ListedLevels},
    active <- IF pc = "idle" THEN Nil ELSE taker

\* The linked levels, the sorted slices and the loops of matchOrder implement
\* price-time priority (orderbook.go:21): each execution is with the resting
\* order of best price and, at that price, of earliest arrival, at its price,
\* and a remainder rests only when nothing it could trade with is left.
ImplementsPriceTime == Abstract!Spec
=============================================================================
