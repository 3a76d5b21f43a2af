------------------------------- MODULE Limit -------------------------------
(***************************************************************************)
(* The price level of pkg/orderbook/limit.go: a doubly linked FIFO queue of *)
(* resting orders and a running total of their unfilled quantity.           *)
(*                                                                         *)
(* Heap objects are numbers. An *Order is the number of its arrival at the  *)
(* engine. A *Limit is the number of the order it was created for, since    *)
(* addLimitOrder creates at most one level per order. Nil is the nil        *)
(* pointer, and the zero value of every pointer field.                      *)
(***************************************************************************)
EXTENDS Integers

CONSTANTS
    MaxOrders,  \* bound: orders the engine receives in one behaviour
    Modulus     \* TotalVolume is a uint64 in the code: arithmetic modulo 2^64

ASSUME LimitAssumption == MaxOrders \in Nat \ {0} /\ Modulus \in Nat \ {0}

Nil == 0
Ref == 1 .. MaxOrders
Ptr == Ref \cup {Nil}

VARIABLES
    head,     \* Limit.Head
    tail,     \* Limit.Tail
    volume,   \* Limit.TotalVolume
    next,     \* Order.Next
    prev,     \* Order.Prev
    limitOf   \* Order.Limit

linkVars == <<head, tail, next, prev, limitOf>>
limitVars == <<head, tail, volume, next, prev, limitOf>>

\* uint64 wrap-around.
Wrap(n) == n % Modulus

\* NewLimit and NewOrder leave every pointer nil and the volume zero.
LimitInit ==
    /\ head = [l \in Ref |-> Nil]
    /\ tail = [l \in Ref |-> Nil]
    /\ volume = [l \in Ref |-> 0]
    /\ next = [o \in Ref |-> Nil]
    /\ prev = [o \in Ref |-> Nil]
    /\ limitOf = [o \in Ref |-> Nil]

\* Mutant: the new order is queued ahead of the level's oldest one.
AddOrder_AtHead(l, o, rem) ==
    /\ limitOf' = [limitOf EXCEPT ![o] = l]
    /\ next' = [next EXCEPT ![o] = head[l]]
    /\ prev' = [n \in Ref |-> IF n = head[l] THEN o ELSE prev[n]]
    /\ head' = [head EXCEPT ![l] = o]
    /\ tail' = [tail EXCEPT ![l] = IF @ = Nil THEN o ELSE @]
    /\ volume' = [volume EXCEPT ![l] = Wrap(@ + rem)]

\* AddOrder: append order o, with rem still unfilled, at the tail of level l.
AddOrder(l, o, rem) ==
    /\ limitOf' = [limitOf EXCEPT ![o] = l]
    /\ \/ /\ head[l] = Nil
          /\ head' = [head EXCEPT ![l] = o]
          /\ UNCHANGED <<next, prev>>
       \/ /\ head[l] # Nil
          /\ next' = [next EXCEPT ![tail[l]] = o, ![o] = Nil]
          /\ prev' = [prev EXCEPT ![o] = tail[l]]
          /\ UNCHANGED head
    /\ tail' = [tail EXCEPT ![l] = o]
    /\ volume' = [volume EXCEPT ![l] = Wrap(@ + rem)]

\* Mutant: the successor keeps its Prev pointer to the removed order.
Unlink_KeepsPrev(l, o) ==
    /\ head' = [head EXCEPT ![l] = IF prev[o] = Nil THEN next[o] ELSE @]
    /\ tail' = [tail EXCEPT ![l] = IF next[o] = Nil THEN prev[o] ELSE @]
    /\ next' = [p \in Ref |-> IF p = o THEN Nil
                              ELSE IF p = prev[o] THEN next[o] ELSE next[p]]
    /\ prev' = [prev EXCEPT ![o] = Nil]
    /\ limitOf' = [limitOf EXCEPT ![o] = Nil]

\* The pointer half of RemoveOrder: take o out of level l's queue.
Unlink(l, o) ==
    /\ head' = [head EXCEPT ![l] = IF prev[o] = Nil THEN next[o] ELSE @]
    /\ tail' = [tail EXCEPT ![l] = IF next[o] = Nil THEN prev[o] ELSE @]
    /\ next' = [p \in Ref |-> IF p = o THEN Nil
                              ELSE IF p = prev[o] THEN next[o] ELSE next[p]]
    /\ prev' = [n \in Ref |-> IF n = o THEN Nil
                              ELSE IF n = next[o] THEN prev[o] ELSE prev[n]]
    /\ limitOf' = [limitOf EXCEPT ![o] = Nil]

\* Mutant: the total still counts the removed order.
RemoveOrder_KeepsVolume(l, o, rem) == Unlink(l, o) /\ UNCHANGED volume

\* RemoveOrder: unlink o and take its unfilled quantity off the total.
RemoveOrder(l, o, rem) ==
    /\ Unlink(l, o)
    /\ volume' = [volume EXCEPT ![l] = Wrap(@ - rem)]

-----------------------------------------------------------------------------
LimitTypeOK ==
    /\ head \in [Ref -> Ptr]
    /\ tail \in [Ref -> Ptr]
    /\ volume \in [Ref -> 0 .. Modulus - 1]
    /\ next \in [Ref -> Ptr]
    /\ prev \in [Ref -> Ptr]
    /\ limitOf \in [Ref -> Ptr]

\* The orders whose Limit pointer says they rest in level l.
Members(l) == {o \in Ref : limitOf[o] = l}

\* No member of o's level arrived strictly between o and p.
Adjacent(o, p) ==
    /\ limitOf[o] = limitOf[p]
    /\ o < p
    /\ \A q \in Members(limitOf[o]) : q <= o \/ p <= q

\* Head and Tail of a level are its oldest and newest member, if it has any.
EndsOK(l) ==
    /\ head[l] = Nil <=> Members(l) = {}
    /\ tail[l] = Nil <=> Members(l) = {}
    /\ head[l] # Nil => head[l] \in Members(l) /\ \A o \in Members(l) : head[l] <= o
    /\ tail[l] # Nil => tail[l] \in Members(l) /\ \A o \in Members(l) : o <= tail[l]

\* Next and Prev of a member are its neighbours in order of arrival; an order
\* in no level points at nothing.
LinksOK(o) ==
    IF limitOf[o] = Nil
    THEN next[o] = Nil /\ prev[o] = Nil
    ELSE /\ IF next[o] = Nil THEN tail[limitOf[o]] = o
                             ELSE Adjacent(o, next[o]) /\ prev[next[o]] = o
         /\ IF prev[o] = Nil THEN head[limitOf[o]] = o
                             ELSE Adjacent(prev[o], o) /\ next[prev[o]] = o

\* FIFO time priority (limit.go:4-5): the pointers of every level spell
\* exactly its members in order of arrival, from Head along Next to Tail and
\* back along Prev.
FifoLinks == (\A l \in Ref : EndsOK(l)) /\ (\A o \in Ref : LinksOK(o))
=============================================================================
