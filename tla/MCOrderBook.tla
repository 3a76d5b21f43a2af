---------------------------- MODULE MCOrderBook ----------------------------
(***************************************************************************)
(* Instances of OrderBook for TLC.                                          *)
(***************************************************************************)
EXTENDS PriceTimeRefinement, TLC

CONSTANTS a, b, c, d

FourIds == {a, b, c, d}
TwoIds == {a, b}
TwoIdSymmetry == Permutations(TwoIds)
IdSymmetry == Permutations(FourIds)

\* Three prices and two quantities on both sides, and market orders: what
\* pkg/loadgen and the trading clients send.
LimitBodies == [side : {Buy, Sell}, type : {LimitOrder}, price : 1 .. 3, qty : {1, 2}]
MarketBodies == [side : {Buy, Sell}, type : {MarketOrder}, price : {0}, qty : {2}]
ClientRequests == LimitBodies \cup MarketBodies

\* What handlePlaceOrder lets through beyond that: a side or a type that is
\* neither constant, and quantities whose sum exceeds the integer width.
OddBodies == [side : {2}, type : {LimitOrder}, price : {2}, qty : {1}]
                \cup [side : {Buy}, type : {2}, price : {1}, qty : {1}]
WideBodies == [side : {Buy, Sell}, type : {LimitOrder}, price : {1, 2}, qty : {1, 3}]
AnyRequests == OddBodies \cup WideBodies \cup {[side |-> Buy, type |-> LimitOrder, price |-> 1, qty |-> 0]}
=============================================================================
