-------------------------- MODULE OrderBookProofs --------------------------
(***************************************************************************)
(* Proofs about a price level (Limit) and the book (OrderBook) for any      *)
(* number of orders, any ids, any requests and any integer width. First     *)
(* the two operations of a level keep its links in FIFO order; then every   *)
(* step of the book preserves BookInv, and the theorems follow from it.     *)
(* Then come what a step does to the quantities and the members of a level  *)
(* and the steps that keep every resting order in a listed level; and last  *)
(* the step of PriceTimeBook that each step of the book is. What rests on   *)
(* sums over the orders of a level is in PriceTimeProofs.                   *)
(***************************************************************************)
EXTENDS PriceTimeRefinement, TLAPS

\* What the proofs need of sequences, under the names SequenceTheorems gives
\* these facts: restated, so that the obligations of this module and of
\* PriceTimeProofs do not carry that library.
LEMMA LenProperties ==
    ASSUME NEW S, NEW s \in Seq(S)
    PROVE  Len(s) \in Nat /\ s \in [1 .. Len(s) -> S] /\ DOMAIN s = 1 .. Len(s)
OBVIOUS

\* The elements of a slice of orders are orders.
LEMMA ElementOfSeq ==
    ASSUME NEW S, NEW s \in Seq(S), NEW n \in 1 .. Len(s)
    PROVE  s[n] \in S
OBVIOUS

\* A slice is empty when its length is zero.
LEMMA EmptySeq ==
    ASSUME NEW S
    PROVE  /\ <<>> \in Seq(S) /\ Len(<<>>) = 0
           /\ \A s \in Seq(S) : s # <<>> => Len(s) \in Nat \ {0}
OBVIOUS

\* The first element of a slice and the rest of it.
LEMMA HeadTailProperties ==
    ASSUME NEW S, NEW s \in Seq(S), s # <<>>
    PROVE  /\ Head(s) \in S /\ Tail(s) \in Seq(S) /\ Len(Tail(s)) = Len(s) - 1
           /\ \A i \in 1 .. Len(Tail(s)) : Tail(s)[i] = s[i + 1]
OBVIOUS

\* The trades so far, with one more.
LEMMA AppendProperties ==
    ASSUME NEW S, NEW s \in Seq(S), NEW e \in S
    PROVE  /\ Append(s, e) \in Seq(S) /\ Len(Append(s, e)) = Len(s) + 1
           /\ \A i \in 1 .. Len(s) : Append(s, e)[i] = s[i]
           /\ Append(s, e)[Len(s) + 1] = e
OBVIOUS

\* Two pieces of a slice, joined.
LEMMA ConcatProperties ==
    ASSUME NEW S, NEW s \in Seq(S), NEW t \in Seq(S)
    PROVE  /\ s \o t \in Seq(S) /\ Len(s \o t) = Len(s) + Len(t)
           /\ \A i \in 1 .. Len(s) + Len(t) :
                (s \o t)[i] = IF i <= Len(s) THEN s[i] ELSE t[i - Len(s)]
OBVIOUS

\* Unsigned arithmetic stays within its width.
LEMMA WrapType ==
    ASSUME NEW n \in Int
    PROVE  Wrap(n) \in 0 .. Modulus - 1
BY LimitAssumption DEF Wrap

\* AddOrder (limit.go:21-33) assigns pointers to pointers.
LEMMA AddOrderType ==
    ASSUME LimitTypeOK, NEW l \in Ref, NEW o \in Ref, NEW rem \in Int,
           AddOrder(l, o, rem)
    PROVE  LimitTypeOK'
<1>1. volume' \in [Ref -> 0 .. Modulus - 1]
  <2>1. volume[l] + rem \in Int
    BY LimitAssumption DEF LimitTypeOK
  <2> QED BY <2>1, WrapType, Zenon DEF AddOrder, LimitTypeOK
<1> QED BY <1>1 DEF AddOrder, LimitTypeOK, Ptr

\* RemoveOrder's pointer assignments (limit.go:36-54) keep the types.
LEMMA UnlinkType ==
    ASSUME LimitTypeOK, NEW l \in Ref, NEW o \in Ref, Unlink(l, o)
    PROVE  /\ head' \in [Ref -> Ptr]
           /\ tail' \in [Ref -> Ptr]
           /\ next' \in [Ref -> Ptr]
           /\ prev' \in [Ref -> Ptr]
           /\ limitOf' \in [Ref -> Ptr]
BY Zenon DEF Unlink, LimitTypeOK, Ptr

\* AddOrder (limit.go:21-33): queueing an order that arrived after every
\* order of the level keeps every level's links in order of arrival.
LEMMA AddOrderFifo ==
    ASSUME LimitTypeOK, FifoLinks,
           NEW l \in Ref, NEW o \in Ref, NEW rem \in Int,
           limitOf[o] = Nil,
           \A m \in Members(l) : m < o,
           AddOrder(l, o, rem)
    PROVE  FifoLinks'
<1> USE DEF LimitTypeOK, Ref, Ptr, Nil
<1>1. limitOf' = [limitOf EXCEPT ![o] = l]
  BY Zenon DEF AddOrder
<1>2. /\ Members(l)' = Members(l) \cup {o}
      /\ \A k \in Ref \ {l} : Members(k)' = Members(k)
  BY <1>1 DEF Members
<1>3. next[o] = Nil /\ prev[o] = Nil
  BY Zenon DEF FifoLinks, LinksOK
<1>4. CASE head[l] = Nil
  <2>1. /\ head' = [head EXCEPT ![l] = o]
        /\ tail' = [tail EXCEPT ![l] = o]
        /\ next' = next /\ prev' = prev
    BY <1>4, Zenon DEF AddOrder
  <2>2. Members(l) = {}
    BY <1>4, Zenon DEF FifoLinks, EndsOK
  <2>3. ASSUME NEW k \in Ref PROVE EndsOK(k)'
    BY <1>2, <2>1, <2>2 DEF FifoLinks, EndsOK
  <2>4. ASSUME NEW p \in Ref PROVE LinksOK(p)'
    <3>1. CASE p = o
      BY <3>1, <1>1, <1>3, <2>1, Zenon DEF LinksOK
    <3>2. CASE p # o
      <4>1. limitOf'[p] = limitOf[p] /\ limitOf[p] # l /\ LinksOK(p)
        BY <3>2, <1>1, <2>2, Zenon DEF Members, FifoLinks
      <4> QED BY <4>1, <3>2, <1>1, <1>2, <2>1, Zenon DEF LinksOK, Adjacent
    <3> QED BY <3>1, <3>2, Zenon
  <2> QED BY <2>3, <2>4, Zenon DEF FifoLinks
<1>5. CASE head[l] # Nil
  <2>1. /\ head' = head
        /\ tail' = [tail EXCEPT ![l] = o]
        /\ next' = [next EXCEPT ![tail[l]] = o, ![o] = Nil]
        /\ prev' = [prev EXCEPT ![o] = tail[l]]
    BY <1>5, Zenon DEF AddOrder
  <2>2. /\ tail[l] \in Members(l) /\ tail[l] \in Ref /\ tail[l] < o
        /\ limitOf[tail[l]] = l
        /\ \A m \in Members(l) : m <= tail[l]
    BY <1>5, Zenon DEF FifoLinks, EndsOK, Members
  <2>3. ASSUME NEW k \in Ref PROVE EndsOK(k)'
    <3>1. CASE k = l
      <4>1. head'[l] = head[l] /\ tail'[l] = o /\ EndsOK(l)
        BY <2>1, Zenon DEF FifoLinks
      <4>2. /\ o \in Members(l)' /\ head[l] \in Members(l)' /\ head[l] <= o
            /\ \A m \in Members(l)' : head[l] <= m /\ m <= o
        <5>1. Members(l) \subseteq Ref
          BY Zenon DEF Members
        <5> QED BY <4>1, <5>1, <1>2, <1>5, <2>2 DEF EndsOK
      <4> QED BY <3>1, <4>1, <4>2, <1>5 DEF EndsOK
    <3>2. CASE k # l
      <4>1. head'[k] = head[k] /\ tail'[k] = tail[k] /\ EndsOK(k) /\ Members(k)' = Members(k)
        BY <3>2, <2>1, <1>2, Zenon DEF FifoLinks
      <4> QED BY <4>1, Zenon DEF EndsOK
    <3> QED BY <3>1, <3>2, Zenon
  <2>4. ASSUME NEW p \in Ref PROVE LinksOK(p)'
    <3>1. CASE p = o
      BY <3>1, <1>1, <1>2, <1>3, <2>1, <2>2 DEF LinksOK, Adjacent
    <3>2. CASE p = tail[l]
      <4>1. LinksOK(p) /\ limitOf'[p] = l /\ next'[p] = o /\ prev'[p] = prev[p]
        BY <3>2, <1>1, <2>1, <2>2 DEF FifoLinks
      <4>2. Adjacent(p, o)' /\ prev'[o] = p
        BY <3>2, <1>1, <1>2, <2>1, <2>2 DEF Adjacent
      <4>3. prev[p] # Nil => Adjacent(prev[p], p)' /\ next'[prev[p]] = p
        BY <3>2, <4>1, <1>1, <1>2, <2>1, <2>2 DEF LinksOK, Adjacent
      <4>4. prev[p] = Nil => head'[l] = p
        BY <4>1, <3>2, <2>1, <2>2 DEF LinksOK
      <4> QED BY <4>1, <4>2, <4>3, <4>4 DEF LinksOK
    <3>3. CASE p # o /\ p # tail[l]
      <4>1. LinksOK(p) /\ limitOf'[p] = limitOf[p] /\ next'[p] = next[p] /\ prev'[p] = prev[p]
        BY <3>3, <1>1, <2>1, <2>2, Zenon DEF FifoLinks
      <4>2. ASSUME limitOf[p] # Nil PROVE next[p] # o /\ prev[p] # o /\ prev[p] # tail[l]
        BY <3>3, <4>1, <4>2, <1>3, <2>2 DEF LinksOK, Adjacent, Members
      <4>3. ASSUME limitOf[p] # Nil, next[p] = Nil PROVE tail'[limitOf[p]] = p
        BY <3>3, <4>1, <4>3, <2>1, Zenon DEF LinksOK
      <4>4. ASSUME limitOf[p] # Nil, prev[p] = Nil PROVE head'[limitOf[p]] = p
        BY <4>1, <4>4, <2>1, Zenon DEF LinksOK
      <4>5. ASSUME limitOf[p] # Nil, next[p] # Nil
            PROVE  (Adjacent(p, next[p]) /\ prev[next[p]] = p)'
        <5>1. Adjacent(p, next[p]) /\ prev[next[p]] = p /\ next[p] # o /\ next[p] \in Ref
          BY <4>1, <4>2, <4>5, Zenon DEF LinksOK
        <5>2. /\ limitOf'[next[p]] = limitOf[p] /\ limitOf'[p] = limitOf[p]
              /\ next'[p] = next[p] /\ prev'[next[p]] = p
          BY <4>1, <5>1, <1>1, <2>1, Zenon DEF Adjacent
        <5>3. ASSUME NEW q \in Members(limitOf[p])' PROVE q <= p \/ next[p] <= q
          <6>1. CASE q \in Members(limitOf[p])
            BY <6>1, <5>1, Zenon DEF Adjacent
          <6>2. CASE q = o /\ limitOf[p] = l
            BY <6>2, <5>1 DEF Adjacent, Members
          <6>3. q \in Members(limitOf[p]) \/ (q = o /\ limitOf[p] = l)
            BY <5>2, <1>1, <4>1, Zenon DEF Members
          <6> QED BY <6>1, <6>2, <6>3, Zenon
        <5> QED BY <5>1, <5>2, <5>3, Zenon DEF Adjacent
      <4>6. ASSUME limitOf[p] # Nil, prev[p] # Nil
            PROVE  (Adjacent(prev[p], p) /\ next[prev[p]] = p)'
        <5>1. /\ Adjacent(prev[p], p) /\ next[prev[p]] = p
              /\ prev[p] # o /\ prev[p] # tail[l] /\ prev[p] \in Ref
          BY <4>1, <4>2, <4>6, Zenon DEF LinksOK
        <5>2. /\ limitOf'[prev[p]] = limitOf[p] /\ limitOf'[p] = limitOf[p]
              /\ prev'[p] = prev[p] /\ next'[prev[p]] = p
          BY <4>1, <5>1, <1>1, <2>1, Zenon DEF Adjacent
        <5>3. ASSUME NEW q \in Members(limitOf[p])' PROVE q <= prev[p] \/ p <= q
          <6>1. CASE q \in Members(limitOf[p])
            BY <6>1, <5>1, Zenon DEF Adjacent
          <6>2. CASE q = o /\ limitOf[p] = l
            BY <6>2, <5>1 DEF Adjacent, Members
          <6>3. q \in Members(limitOf[p]) \/ (q = o /\ limitOf[p] = l)
            BY <5>2, <1>1, <4>1, Zenon DEF Members
          <6> QED BY <6>1, <6>2, <6>3, Zenon
        <5> QED BY <5>1, <5>2, <5>3, Zenon DEF Adjacent
      <4> QED BY <4>1, <4>3, <4>4, <4>5, <4>6, Zenon DEF LinksOK
    <3> QED BY <3>1, <3>2, <3>3, Zenon
  <2> QED BY <2>3, <2>4, Zenon DEF FifoLinks
<1> QED BY <1>4, <1>5, Zenon

\* RemoveOrder (limit.go:36-55): unlinking any order of a level, at its head,
\* its tail or in between, keeps every level's links in order of arrival.
LEMMA UnlinkFifo ==
    ASSUME LimitTypeOK, FifoLinks,
           NEW l \in Ref, NEW o \in Members(l), Unlink(l, o)
    PROVE  FifoLinks'
<1> USE DEF LimitTypeOK, Ref, Ptr, Nil
<1>1. /\ o \in Ref
      /\ limitOf' = [limitOf EXCEPT ![o] = Nil]
  BY Zenon DEF Unlink, Members
<1>2. /\ Members(l)' = Members(l) \ {o}
      /\ \A k \in Ref \ {l} : Members(k)' = Members(k)
  BY <1>1 DEF Members
<1>3. LinksOK(o) /\ limitOf[o] = l
  BY <1>1, Zenon DEF FifoLinks, Members
<1>4. /\ next[o] # Nil => /\ next[o] \in Members(l) /\ o < next[o] /\ prev[next[o]] = o
                          /\ \A m \in Members(l) : m <= o \/ next[o] <= m
      /\ prev[o] # Nil => /\ prev[o] \in Members(l) /\ prev[o] < o /\ next[prev[o]] = o
                          /\ \A m \in Members(l) : m <= prev[o] \/ o <= m
  BY <1>1, <1>3, Zenon DEF LinksOK, Adjacent, Members
<1>5. ASSUME NEW k \in Ref PROVE EndsOK(k)'
  <2>1. CASE k # l
    <3>1. head'[k] = head[k] /\ tail'[k] = tail[k] /\ EndsOK(k) /\ Members(k)' = Members(k)
      BY <2>1, <1>2, Zenon DEF Unlink, FifoLinks
    <3> QED BY <3>1, Zenon DEF EndsOK
  <2>2. CASE k = l
    <3>1. /\ head'[l] = IF prev[o] = Nil THEN next[o] ELSE head[l]
          /\ tail'[l] = IF next[o] = Nil THEN prev[o] ELSE tail[l]
          /\ EndsOK(l)
      BY Zenon DEF Unlink, FifoLinks
    <3>2. /\ head[l] \in Members(l) /\ \A m \in Members(l) : head[l] <= m
          /\ tail[l] \in Members(l) /\ \A m \in Members(l) : m <= tail[l]
          /\ prev[o] = Nil => head[l] = o
          /\ next[o] = Nil => tail[l] = o
      BY <3>1, <1>3 DEF EndsOK, LinksOK
    <3>3. Members(l) \subseteq Ref
      BY Zenon DEF Members
    <3>4. /\ head'[l] = Nil <=> Members(l)' = {}
          /\ head'[l] # Nil => /\ head'[l] \in Members(l)'
                               /\ \A m \in Members(l)' : head'[l] <= m
      BY <3>1, <3>2, <3>3, <1>2, <1>4
    <3>5. /\ tail'[l] = Nil <=> Members(l)' = {}
          /\ tail'[l] # Nil => /\ tail'[l] \in Members(l)'
                               /\ \A m \in Members(l)' : m <= tail'[l]
      BY <3>1, <3>2, <3>3, <1>2, <1>4
    <3> QED BY <2>2, <3>4, <3>5, Zenon DEF EndsOK
  <2> QED BY <2>1, <2>2, Zenon
<1>6. ASSUME NEW p \in Ref PROVE LinksOK(p)'
  <2>1. CASE p = o
    BY <2>1, <1>1, Zenon DEF Unlink, LinksOK
  <2>2. CASE p # o /\ limitOf[p] # l
    <3>1. LinksOK(p) /\ limitOf'[p] = limitOf[p]
      BY <2>2, <1>1, Zenon DEF FifoLinks
    <3>2. p # next[o] /\ p # prev[o]
      BY <2>2, <1>4 DEF Members
    <3>3. next'[p] = next[p] /\ prev'[p] = prev[p]
      BY <2>2, <3>2, Zenon DEF Unlink
    <3>4. CASE limitOf[p] = Nil
      BY <3>1, <3>3, <3>4, Zenon DEF LinksOK
    <3>5. CASE limitOf[p] # Nil
      <4>1. /\ head'[limitOf[p]] = head[limitOf[p]]
            /\ tail'[limitOf[p]] = tail[limitOf[p]]
            /\ Members(limitOf[p])' = Members(limitOf[p])
        BY <2>2, <3>5, <1>2, Zenon DEF Unlink
      <4>2. ASSUME next[p] # Nil PROVE Adjacent(p, next[p])' /\ prev'[next[p]] = p
        <5>1. Adjacent(p, next[p]) /\ prev[next[p]] = p /\ next[p] # o /\ next[p] # next[o]
          BY <2>2, <3>1, <3>5, <4>2, <1>3, <1>4, Zenon DEF LinksOK, Adjacent, Members
        <5>2. limitOf'[next[p]] = limitOf[next[p]] /\ prev'[next[p]] = prev[next[p]]
          BY <5>1, <4>2, <1>1, Zenon DEF Unlink
        <5>3. Members(limitOf[p])' = Members(limitOf[p]) /\ limitOf'[p] = limitOf[p]
          BY <3>1, <4>1, Zenon
        <5> QED BY <3>3, <5>1, <5>2, <5>3, <2>2, <3>5, <1>1, <1>2, Zenon DEF Adjacent, Members
      <4>3. ASSUME prev[p] # Nil PROVE Adjacent(prev[p], p)' /\ next'[prev[p]] = p
        <5>1. Adjacent(prev[p], p) /\ next[prev[p]] = p /\ prev[p] # o /\ prev[p] # prev[o]
          BY <2>2, <3>1, <3>5, <4>3, <1>3, <1>4, Zenon DEF LinksOK, Adjacent, Members
        <5>2. limitOf'[prev[p]] = limitOf[prev[p]] /\ next'[prev[p]] = next[prev[p]]
          BY <5>1, <4>3, <1>1, Zenon DEF Unlink
        <5> QED BY <3>1, <3>3, <5>1, <5>2, <2>2, <3>5, <1>1, <1>2 DEF Adjacent, Members
      <4> QED BY <3>1, <3>3, <3>5, <4>1, <4>2, <4>3, Zenon DEF LinksOK
    <3> QED BY <3>4, <3>5, Zenon
  <2>3. CASE p # o /\ limitOf[p] = l
    <3>1. LinksOK(p) /\ limitOf'[p] = l /\ p \in Members(l)
      BY <2>3, <1>1, Zenon DEF FifoLinks, Members
    <3>2. ASSUME next'[p] = Nil PROVE tail'[l] = p
      BY <2>3, <3>1, <3>2, <1>3, <1>4 DEF Unlink, LinksOK, Adjacent, Members
    <3>3. ASSUME prev'[p] = Nil PROVE head'[l] = p
      BY <2>3, <3>1, <3>3, <1>3, <1>4 DEF Unlink, LinksOK, Adjacent, Members
    <3>4. ASSUME next'[p] # Nil PROVE (Adjacent(p, next[p]) /\ prev[next[p]] = p)'
      BY <2>3, <3>1, <3>4, <1>1, <1>2, <1>3, <1>4 DEF Unlink, LinksOK, Adjacent, Members
    <3>5. ASSUME prev'[p] # Nil PROVE (Adjacent(prev[p], p) /\ next[prev[p]] = p)'
      BY <2>3, <3>1, <3>5, <1>1, <1>2, <1>3, <1>4 DEF Unlink, LinksOK, Adjacent, Members
    <3> QED BY <3>1, <3>2, <3>3, <3>4, <3>5 DEF LinksOK
  <2> QED BY <2>1, <2>2, <2>3, Zenon
<1> QED BY <1>5, <1>6, Zenon DEF FifoLinks

-----------------------------------------------------------------------------
\* InsertAt shifts the tail of the sequence by one.
LEMMA InsertAtProperties ==
    ASSUME NEW S, NEW s \in Seq(S), NEW e \in S, NEW i \in 1 .. Len(s) + 1
    PROVE  /\ InsertAt(s, i, e) \in Seq(S)
           /\ Len(InsertAt(s, i, e)) = Len(s) + 1
           /\ \A k \in 1 .. Len(s) + 1 :
                InsertAt(s, i, e)[k] = IF k < i THEN s[k]
                                       ELSE IF k = i THEN e ELSE s[k - 1]
<1> DEFINE front == SubSeq(s, 1, i - 1)
           back == SubSeq(s, i, Len(s))
           start == front \o <<e>>
           whole == start \o back
<1>1. Len(s) \in Nat /\ \A k \in 1 .. Len(s) : s[k] \in S
  BY ElementOfSeq, LenProperties, Zenon
<1>2. /\ front \in Seq(S)
      /\ Len(front) = i - 1
      /\ \A k \in 1 .. i - 1 : front[k] = s[k]
  BY <1>1
<1>3. /\ back \in Seq(S)
      /\ Len(back) = Len(s) - i + 1
      /\ \A k \in 1 .. Len(s) - i + 1 : back[k] = s[i + k - 1]
  BY <1>1
<1>4. InsertAt(s, i, e) = whole
  BY Zenon DEF InsertAt
<1> HIDE DEF front, back
<1>5. /\ start \in Seq(S)
      /\ Len(start) = i
      /\ \A k \in 1 .. i : start[k] = IF k < i THEN s[k] ELSE e
  BY <1>1, <1>2
<1> HIDE DEF start
<1>6. /\ whole \in Seq(S)
      /\ Len(whole) = Len(start) + Len(back)
      /\ \A k \in 1 .. Len(start) + Len(back) :
            whole[k] = IF k <= Len(start) THEN start[k] ELSE back[k - Len(start)]
  BY <1>3, <1>5, ConcatProperties, Zenon
<1> HIDE DEF whole
<1>7. Len(whole) = Len(s) + 1
  BY <1>1, <1>3, <1>5, <1>6
<1>8. ASSUME NEW k \in 1 .. Len(s) + 1
      PROVE  whole[k] = IF k < i THEN s[k] ELSE IF k = i THEN e ELSE s[k - 1]
  <2>1. CASE k <= i
    BY <2>1, <1>1, <1>3, <1>5, <1>6
  <2>2. CASE k > i
    <3>1. whole[k] = back[k - i] /\ k - i \in 1 .. Len(s) - i + 1
      BY <2>2, <1>1, <1>3, <1>5, <1>6
    <3> QED BY <2>2, <3>1, <1>1, <1>3
  <2> QED BY <2>1, <2>2
<1> QED BY <1>4, <1>6, <1>7, <1>8, Zenon

\* RemoveAt drops one element and keeps the order of the others.
LEMMA RemoveAtProperties ==
    ASSUME NEW S, NEW s \in Seq(S), NEW i \in 1 .. Len(s)
    PROVE  /\ RemoveAt(s, i) \in Seq(S)
           /\ Len(RemoveAt(s, i)) = Len(s) - 1
           /\ \A k \in 1 .. Len(s) - 1 :
                RemoveAt(s, i)[k] = IF k < i THEN s[k] ELSE s[k + 1]
<1> DEFINE front == SubSeq(s, 1, i - 1)
           back == SubSeq(s, i + 1, Len(s))
<1>1. Len(s) \in Nat /\ \A k \in 1 .. Len(s) : s[k] \in S
  BY ElementOfSeq, LenProperties, Zenon
<1>2. /\ front \in Seq(S)
      /\ Len(front) = i - 1
      /\ \A k \in 1 .. i - 1 : front[k] = s[k]
  BY <1>1
<1>3. /\ back \in Seq(S)
      /\ Len(back) = Len(s) - i
      /\ \A k \in 1 .. Len(s) - i : back[k] = s[i + k]
  BY <1>1
<1> HIDE DEF front, back
<1>4. /\ front \o back \in Seq(S)
      /\ Len(front \o back) = Len(front) + Len(back)
      /\ \A k \in 1 .. Len(front) + Len(back) : (front \o back)[k] =
            IF k <= Len(front) THEN front[k] ELSE back[k - Len(front)]
  BY <1>2, <1>3, ConcatProperties, ZenonT(30)
<1>5. RemoveAt(s, i) = front \o back
  BY Zenon DEF RemoveAt, front, back
<1> DEFINE whole == front \o back
<1> HIDE DEF whole
<1>6. ASSUME NEW k \in 1 .. Len(s) - 1
      PROVE  whole[k] = IF k < i THEN s[k] ELSE s[k + 1]
  <2>1. CASE k < i
    BY <2>1, <1>1, <1>2, <1>3, <1>4 DEF whole
  <2>2. CASE k >= i
    <3>1. whole[k] = back[k - (i - 1)] /\ k - (i - 1) \in 1 .. Len(s) - i
      BY <2>2, <1>1, <1>2, <1>3, <1>4 DEF whole
    <3> QED BY <2>2, <3>1, <1>1, <1>3
  <2> QED BY <2>1, <2>2
<1>7. Len(whole) = Len(s) - 1
  BY <1>1, <1>2, <1>3, <1>4 DEF whole
<1> QED BY <1>4, <1>5, <1>6, <1>7, Zenon DEF whole

-----------------------------------------------------------------------------
\* FifoLinks depends on the pointers only.
LEMMA FifoUnchanged ==
    ASSUME FifoLinks, UNCHANGED linkVars
    PROVE  FifoLinks'
BY SMTT(60) DEF FifoLinks, EndsOK, LinksOK, Adjacent, Members, linkVars

\* The prices of the levels and their positions are what LevelsSorted and
\* BookUncrossed are about.
LEMMA SlicesUnchanged ==
    ASSUME TypeOK, Arrived, LevelsSorted, BookUncrossed, UNCHANGED levels,
           \A o \in 1 .. count : o \in Ref => order'[o] = order[o]
    PROVE  LevelsSorted' /\ BookUncrossed'
<1>1. \A b \in Book : \A k \in 1 .. Len(levels[b]) :
        LevelPrice(levels[b][k])' = LevelPrice(levels[b][k])
  <2> SUFFICES ASSUME NEW b \in Book, NEW k \in 1 .. Len(levels[b])
               PROVE  LevelPrice(levels[b][k])' = LevelPrice(levels[b][k])
    BY Zenon
  <2>1. levels[b] \in Seq(Ref)
    BY Zenon DEF TypeOK
  <2>2. levels[b][k] \in Ref /\ levels[b][k] <= count
    BY <2>1, ElementOfSeq, Zenon DEF Arrived
  <2> QED BY <2>2 DEF LevelPrice, Ref
<1>2. LevelsSorted'
  BY <1>1, Zenon DEF LevelsSorted, Ahead
<1>3. BookUncrossed'
  BY <1>1, Zenon DEF BookUncrossed, Book
<1> QED BY <1>2, <1>3, Zenon

\* Dropping one level from one slice, whether matchOrder takes the first
\* (orderbook.go:152) or removeLimitLevel one in the middle
\* (orderbook.go:196), keeps the slices sorted and the book uncrossed.
LEMMA DropLevel ==
    ASSUME TypeOK, LevelsSorted, BookUncrossed, UNCHANGED order,
           NEW b \in Book, NEW idx \in 1 .. Len(levels[b]),
           NEW s \in Seq(Ref),
           Len(s) = Len(levels[b]) - 1,
           \A k \in 1 .. Len(levels[b]) - 1 :
                s[k] = IF k < idx THEN levels[b][k] ELSE levels[b][k + 1],
           levels' = [levels EXCEPT ![b] = s]
    PROVE  /\ LevelsSorted'
           /\ BookUncrossed'
           /\ levels' \in [Book -> Seq(Ref)]
           /\ \A d \in Book : \A k \in 1 .. Len(levels'[d]) :
                \E j \in 1 .. Len(levels[d]) : levels'[d][k] = levels[d][j]
<1>1. \A d \in Book : levels[d] \in Seq(Ref) /\ Len(levels[d]) \in Nat
  BY LenProperties, Zenon DEF TypeOK
<1> DEFINE Old(d, k) == IF d = b /\ k >= idx THEN k + 1 ELSE k
<1>2. ASSUME NEW d \in Book, NEW k \in 1 .. Len(levels'[d])
      PROVE  Old(d, k) \in 1 .. Len(levels[d]) /\ levels'[d][k] = levels[d][Old(d, k)]
  <2>1. CASE d = b
    <3>1. levels'[d] = s
      BY <2>1, Zenon DEF TypeOK
    <3> QED BY <1>1, <2>1, <3>1
  <2>2. CASE d # b
    BY <2>2, <1>1, Zenon DEF TypeOK
  <2> QED BY <2>1, <2>2, Zenon
<1>3. levels' \in [Book -> Seq(Ref)]
  BY Zenon DEF TypeOK
<1>4. LevelsSorted'
  <2> SUFFICES ASSUME NEW d \in Book, NEW k \in 1 .. Len(levels'[d]),
                      NEW j \in 1 .. Len(levels'[d]), k < j
               PROVE  Ahead(d, k, j)'
    BY Zenon DEF LevelsSorted
  <2>1. Len(levels'[d]) \in Nat
    BY <1>3, LenProperties, Zenon
  <2>2. Old(d, k) < Old(d, j)
    BY <1>1, <2>1
  <2>3. Ahead(d, Old(d, k), Old(d, j))
    BY <1>2, <2>2, Zenon DEF LevelsSorted
  <2> HIDE DEF Old
  <2> QED BY <1>2, <2>3, ZenonT(30) DEF Ahead, LevelPrice
<1>5. BookUncrossed'
  <2> SUFFICES ASSUME NEW k \in 1 .. Len(levels'["bids"]), NEW j \in 1 .. Len(levels'["asks"])
               PROVE  LevelPrice(levels["bids"][k])' < LevelPrice(levels["asks"][j])'
    BY Zenon DEF BookUncrossed
  <2>1. "bids" \in Book /\ "asks" \in Book
    BY Zenon DEF Book
  <2> HIDE DEF Old
  <2>2. LevelPrice(levels["bids"][Old("bids", k)]) < LevelPrice(levels["asks"][Old("asks", j)])
    BY <1>2, <2>1, Zenon DEF BookUncrossed
  <2> QED BY <1>2, <2>1, <2>2, ZenonT(30) DEF LevelPrice
<1> HIDE DEF Old
<1> QED BY <1>2, <1>3, <1>4, <1>5, Zenon

\* addLimitOrder (orderbook.go:160-184): a level inserted at the index that
\* sort.Search returns, when no level has its price and the price does not
\* cross the other slice, keeps the slices sorted and the book uncrossed.
LEMMA InsertLevel ==
    ASSUME TypeOK, LevelsSorted, BookUncrossed, UNCHANGED order,
           NEW b \in Book, NEW o \in Ref, NEW idx \in 1 .. Len(levels[b]) + 1,
           SearchIndex(b, order[o].price, idx),
           ~Found(b, order[o].price, idx),
           b = "bids" => \A j \in 1 .. Len(levels["asks"]) :
                            order[o].price < LevelPrice(levels["asks"][j]),
           b = "asks" => \A k \in 1 .. Len(levels["bids"]) :
                            LevelPrice(levels["bids"][k]) < order[o].price,
           levels' = [levels EXCEPT ![b] = InsertAt(@, idx, o)]
    PROVE  /\ LevelsSorted'
           /\ BookUncrossed'
           /\ levels' \in [Book -> Seq(Ref)]
           /\ \A d \in Book : \A k \in 1 .. Len(levels'[d]) :
                \/ levels'[d][k] = o
                \/ \E j \in 1 .. Len(levels[d]) : levels'[d][k] = levels[d][j]
<1>1. \A d \in Book : levels[d] \in Seq(Ref) /\ Len(levels[d]) \in Nat
  BY LenProperties, Zenon DEF TypeOK
<1> DEFINE s == InsertAt(levels[b], idx, o)
<1>2. /\ s \in Seq(Ref)
      /\ Len(s) = Len(levels[b]) + 1
      /\ \A k \in 1 .. Len(levels[b]) + 1 :
            s[k] = IF k < idx THEN levels[b][k] ELSE IF k = idx THEN o ELSE levels[b][k - 1]
  BY <1>1, InsertAtProperties, SMTT(60)
<1>3. levels' = [levels EXCEPT ![b] = s]
  BY Zenon DEF TypeOK
<1> HIDE DEF s
<1>4. levels' \in [Book -> Seq(Ref)] /\ levels'[b] = s /\ \A d \in Book \ {b} : levels'[d] = levels[d]
  BY <1>2, <1>3, Zenon DEF TypeOK
<1>5. /\ \A o1 \in Ref : order[o1].price \in Nat
      /\ \A d \in Book : \A k \in 1 .. Len(levels[d]) :
            levels[d][k] \in Ref /\ LevelPrice(levels[d][k]) \in Nat
  <2>1. \A o1 \in Ref : order[o1].price \in Nat
    BY Zenon DEF TypeOK, OrderRec
  <2> QED BY <1>1, <2>1, ElementOfSeq, Zenon DEF LevelPrice
\* The price of the new level is strictly between those of its neighbours.
<1>6. /\ \A k \in 1 .. idx - 1 : IF b = "bids" THEN LevelPrice(levels[b][k]) > order[o].price
                                               ELSE LevelPrice(levels[b][k]) < order[o].price
      /\ \A k \in idx .. Len(levels[b]) :
            IF b = "bids" THEN LevelPrice(levels[b][k]) < order[o].price
                          ELSE LevelPrice(levels[b][k]) > order[o].price
  <2>1. ASSUME NEW k \in 1 .. idx - 1
        PROVE  IF b = "bids" THEN LevelPrice(levels[b][k]) > order[o].price
                             ELSE LevelPrice(levels[b][k]) < order[o].price
    BY <1>1, <1>5, SMTT(60) DEF SearchIndex
  <2>2. ASSUME NEW k \in idx .. Len(levels[b])
        PROVE  IF b = "bids" THEN LevelPrice(levels[b][k]) < order[o].price
                             ELSE LevelPrice(levels[b][k]) > order[o].price
    <3>1. idx \in 1 .. Len(levels[b]) /\ k \in 1 .. Len(levels[b])
      BY <1>1
    <3>2. IF b = "bids" THEN LevelPrice(levels[b][idx]) < order[o].price
                        ELSE LevelPrice(levels[b][idx]) > order[o].price
      BY <1>1, <1>5, <3>1 DEF SearchIndex, Found
    <3>3. idx < k => Ahead(b, idx, k)
      BY <3>1, Zenon DEF LevelsSorted
    <3> QED BY <1>1, <1>5, <3>1, <3>2, <3>3, SMTT(60) DEF Ahead
  <2> QED BY <2>1, <2>2, Zenon
<1>7. LevelsSorted'
  <2> SUFFICES ASSUME NEW d \in Book, NEW k \in 1 .. Len(levels'[d]),
                      NEW j \in 1 .. Len(levels'[d]), k < j
               PROVE  Ahead(d, k, j)'
    BY Zenon DEF LevelsSorted
  <2>1. CASE d # b
    BY <2>1, <1>4, Zenon DEF LevelsSorted, Ahead, LevelPrice
  <2>2. CASE d = b
    <3>1. k \in 1 .. Len(levels[b]) + 1 /\ j \in 1 .. Len(levels[b]) + 1
      BY <2>2, <1>2, <1>4, Zenon
    <3>2. CASE k = idx
      <4>1. s[k] = o /\ s[j] = levels[b][j - 1] /\ j - 1 \in idx .. Len(levels[b])
        BY <1>1, <1>2, <3>1, <3>2, SMTT(60)
      <4> QED BY <1>4, <1>6, <2>2, <4>1, Zenon DEF Ahead, LevelPrice
    <3>3. CASE j = idx
      <4>1. s[j] = o /\ s[k] = levels[b][k] /\ k \in 1 .. idx - 1
        BY <1>1, <1>2, <3>1, <3>3, SMTT(60)
      <4> QED BY <1>4, <1>6, <2>2, <4>1, Zenon DEF Ahead, LevelPrice
    <3>4. CASE k # idx /\ j # idx
      <4> DEFINE Old(i) == IF i < idx THEN i ELSE i - 1
      <4>1. /\ Old(k) \in 1 .. Len(levels[b]) /\ Old(j) \in 1 .. Len(levels[b])
            /\ Old(k) < Old(j)
            /\ s[k] = levels[b][Old(k)] /\ s[j] = levels[b][Old(j)]
        <5>1. /\ Old(k) \in 1 .. Len(levels[b]) /\ Old(j) \in 1 .. Len(levels[b])
              /\ Old(k) < Old(j)
          BY <1>1, <3>1, <3>4, SMTT(60)
        <5>2. s[k] = levels[b][Old(k)]
          BY <1>2, <3>1, <3>4, Zenon
        <5>3. s[j] = levels[b][Old(j)]
          BY <1>2, <3>1, <3>4, Zenon
        <5> QED BY <5>1, <5>2, <5>3, Zenon
      <4> HIDE DEF Old
      <4>2. Ahead(b, Old(k), Old(j))
        BY <4>1, Zenon DEF LevelsSorted
      <4> QED BY <1>4, <2>2, <4>1, <4>2, Zenon DEF Ahead, LevelPrice
    <3> QED BY <3>2, <3>3, <3>4, Zenon
  <2> QED BY <2>1, <2>2, Zenon
<1>8. \A d \in Book : \A k \in 1 .. Len(levels'[d]) :
        \/ d = b /\ levels'[d][k] = o
        \/ \E j \in 1 .. Len(levels[d]) : levels'[d][k] = levels[d][j]
  <2> SUFFICES ASSUME NEW d \in Book, NEW k \in 1 .. Len(levels'[d]),
                      ~(d = b /\ levels'[d][k] = o)
               PROVE  \E j \in 1 .. Len(levels[d]) : levels'[d][k] = levels[d][j]
    BY Zenon
  <2>1. CASE d # b
    BY <2>1, <1>4, Zenon
  <2>2. CASE d = b
    <3>1. k \in 1 .. Len(levels[b]) + 1 /\ k # idx
      BY <2>2, <1>2, <1>4, SMTT(60)
    <3> QED BY <1>1, <1>2, <1>4, <2>2, <3>1
  <2> QED BY <2>1, <2>2, Zenon
<1>9. BookUncrossed'
  <2> SUFFICES ASSUME NEW k \in 1 .. Len(levels'["bids"]), NEW j \in 1 .. Len(levels'["asks"])
               PROVE  LevelPrice(levels["bids"][k])' < LevelPrice(levels["asks"][j])'
    BY Zenon DEF BookUncrossed
  <2>1. "bids" \in Book /\ "asks" \in Book /\ "bids" # "asks"
    BY Zenon DEF Book
  <2>2. CASE b = "bids"
    <3>1. levels'["asks"] = levels["asks"]
      BY <1>4, <2>1, <2>2, Zenon
    <3> QED BY <1>8, <2>1, <2>2, <3>1, ZenonT(30) DEF BookUncrossed, LevelPrice
  <2>3. CASE b = "asks"
    <3>1. levels'["bids"] = levels["bids"]
      BY <1>4, <2>1, <2>3, Zenon
    <3> QED BY <1>8, <2>1, <2>3, <3>1, Zenon DEF BookUncrossed, LevelPrice
  <2> QED BY <2>2, <2>3, Zenon DEF Book
<1> QED BY <1>4, <1>7, <1>8, <1>9, Zenon

-----------------------------------------------------------------------------
\* Initially the book is empty.
LEMMA InitInv == Init => BookInv
<1> SUFFICES ASSUME Init PROVE BookInv
  BY Zenon
<1> USE DEF Init, LimitInit
<1>1. TypeOK
  <2>1. LimitTypeOK
    BY LimitAssumption DEF LimitTypeOK, Ptr
  <2>2. order \in [Ref -> OrderRec]
    BY DEF OrderRec, NoOrder, Buy, LimitOrder
  <2>3. count \in 0 .. MaxOrders
    BY LimitAssumption
  <2>4. <<>> \in Seq(Ref) /\ <<>> \in Seq([maker : Ref, taker : Ref, price : Nat, qty : Nat])
    BY EmptySeq, Zenon
  <2> QED BY <2>1, <2>2, <2>3, <2>4 DEF TypeOK, Ptr, Nil
<1>2. StageOK /\ Arrived /\ FillBound
  BY SMTT(60) DEF StageOK, Arrived, FillBound, NoOrder, Book
<1>3. FifoLinks
  BY DEF FifoLinks, EndsOK, LinksOK, Members, Ref, Nil
<1>4. LevelsSorted /\ BookUncrossed /\ IndexSound
  BY DEF LevelsSorted, BookUncrossed, IndexSound, Book
<1> QED BY <1>1, <1>2, <1>3, <1>4, Zenon DEF BookInv

\* Process up to its loop (orderbook.go:39-47): a new order joins no level
\* and no queue yet.
LEMMA ProcessInv ==
    ASSUME BookInv, NEW i \in Ids, NEW r \in Requests, Process(i, r)
    PROVE  BookInv'
<1>1. r \in Request
  BY OrderBookAssumption, Zenon
<1>2. /\ count + 1 \in Ref /\ count \in Nat
      /\ count' = count + 1
      /\ taker' = count + 1
      /\ pc' \in {"idle", "match"}
      /\ UNCHANGED <<head, tail, volume, next, prev, limitOf, filled, levels, orders>>
  BY LimitAssumption DEF BookInv, TypeOK, Process, Ref, limitVars, bookVars
<1>3. /\ order' = [order EXCEPT ![count + 1] = [id |-> i, side |-> r.side, type |-> r.type,
                                                price |-> r.price, qty |-> r.qty]]
      /\ trades' = <<>>
  BY Zenon DEF Process, NewOrder
<1>4. order' \in [Ref -> OrderRec]
  BY <1>1, <1>2, <1>3, Zenon DEF BookInv, TypeOK, OrderRec, Request
<1>5. \A o \in 1 .. count : o \in Ref => order'[o] = order[o]
  BY <1>2, <1>3, SMTT(60) DEF BookInv, TypeOK
<1>6. TypeOK'
  <2>1. LimitTypeOK'
    BY <1>2, Zenon DEF BookInv, TypeOK, LimitTypeOK
  <2>2. count' \in 0 .. MaxOrders /\ taker' \in 0 .. count' /\ taker' # Nil
    BY <1>2 DEF Ref, Nil
  <2>3. trades' \in Seq([maker : Ref, taker : Ref, price : Nat, qty : Nat])
    BY <1>3, EmptySeq, Zenon
  <2> QED BY <1>2, <1>4, <2>1, <2>2, <2>3, Zenon DEF BookInv, TypeOK
<1>7. StageOK'
  BY <1>2, Zenon DEF StageOK
<1>8. Arrived'
  <2>1. \A b \in Book : \A k \in 1 .. Len(levels[b]) : levels[b][k] \in Ref
    BY ElementOfSeq, Zenon DEF BookInv, TypeOK
  <2> QED BY <1>2, <2>1, SMTT(60) DEF BookInv, Arrived, Ref
<1>9. FillBound'
  <2>1. order'[count + 1].qty \in Nat
    BY <1>2, <1>4, Zenon DEF OrderRec
  <2> SUFFICES ASSUME NEW o \in Ref
               PROVE  filled[o] <= order'[o].qty /\ (o > count + 1 => filled[o] = 0)
    BY <1>2, Zenon DEF FillBound
  <2>2. CASE o = count + 1
    BY <1>2, <2>1, <2>2, SMTT(60) DEF BookInv, FillBound, Ref
  <2>3. CASE o # count + 1
    BY <1>2, <1>3, <2>3, SMTT(60) DEF BookInv, TypeOK, FillBound, Ref
  <2> QED BY <2>2, <2>3, Zenon
<1>10. FifoLinks'
  BY <1>2, FifoUnchanged, Zenon DEF BookInv, linkVars
<1>11. LevelsSorted' /\ BookUncrossed'
  BY <1>2, <1>5, SlicesUnchanged, Zenon DEF BookInv
<1>12. IndexSound'
  <2> SUFFICES ASSUME NEW j \in Ids, orders[j] # Nil
               PROVE  limitOf[orders[j]] # Nil /\ order'[orders[j]].id = j
    BY <1>2, Zenon DEF IndexSound
  <2>1. /\ orders[j] \in Ref
        /\ limitOf[orders[j]] # Nil /\ order[orders[j]].id = j
    BY Zenon DEF BookInv, TypeOK, IndexSound, Ptr
  <2>2. orders[j] \in 1 .. count
    BY <2>1, SMTT(60) DEF BookInv, Arrived, Ref
  <2> QED BY <1>5, <2>1, <2>2, Zenon
<1> QED BY <1>6, <1>7, <1>8, <1>9, <1>10, <1>11, <1>12, Zenon DEF BookInv

\* The outer loop enters the best level (orderbook.go:114-125).
LEMMA EnterLevelInv ==
    ASSUME BookInv, EnterLevel
    PROVE  BookInv'
<1>1. /\ UNCHANGED <<head, tail, volume, next, prev, limitOf>>
      /\ UNCHANGED <<count, order, filled, levels, orders, taker, trades>>
      /\ pc = "match" /\ pc' = "fill" /\ MatchGoesOn
  BY Zenon DEF EnterLevel, limitVars, bookVars
<1>2. TypeOK'
  BY <1>1, Zenon DEF BookInv, TypeOK, LimitTypeOK
<1>3. StageOK'
  BY <1>1, Zenon DEF BookInv, StageOK, MatchGoesOn, MakerBook
<1>4. Arrived' /\ FillBound' /\ IndexSound'
  BY <1>1, Zenon DEF BookInv, Arrived, FillBound, IndexSound
<1>5. FifoLinks'
  BY <1>1, FifoUnchanged, Zenon DEF BookInv, linkVars
<1>6. LevelsSorted' /\ BookUncrossed'
  BY <1>1, SlicesUnchanged, Zenon DEF BookInv
<1> QED BY <1>2, <1>3, <1>4, <1>5, <1>6, Zenon DEF BookInv

\* What the inner loop of matchOrder works on.
LEMMA InsideLevel ==
    ASSUME BookInv, pc = "fill"
    PROVE  /\ MakerBook(taker) \in Book
           /\ levels[MakerBook(taker)] \in Seq(Ref)
           /\ levels[MakerBook(taker)] # <<>>
           /\ taker \in Ref /\ taker = count
           /\ Best \in Ref
<1>1. /\ MakerBook(taker) \in Book
      /\ levels[MakerBook(taker)] \in Seq(Ref)
      /\ levels[MakerBook(taker)] # <<>>
  BY Zenon DEF BookInv, TypeOK, StageOK, MakerBook, Book
<1>2. taker \in Ref /\ taker = count
  BY LimitAssumption DEF BookInv, TypeOK, StageOK, Ref, Nil
<1>3. Best \in Ref
  BY <1>1, HeadTailProperties, Zenon DEF Best
<1> QED BY <1>1, <1>2, <1>3, Zenon

\* One match (orderbook.go:128-148): the maker is the head of the best level
\* and not the taker; it leaves its queue and the index together.
LEMMA FillHeadInv ==
    ASSUME BookInv, FillHead
    PROVE  BookInv'
<1> DEFINE maker == head[Best]
           matchQty == SmallerOf(Remaining(taker), Remaining(maker))
<1>1. /\ pc = "fill" /\ maker # Nil /\ Remaining(taker) > 0
      /\ UNCHANGED <<count, order, levels, pc, taker>>
  BY Zenon DEF FillHead
<1>2. Best \in Ref /\ taker \in Ref /\ taker = count
  BY <1>1, InsideLevel, Zenon
<1>3. /\ maker \in Ref
      /\ maker \in Members(Best)
      /\ limitOf[maker] = Best
      /\ maker # taker /\ maker <= count
  <2>1. maker \in Members(Best)
    BY <1>1, <1>2, Zenon DEF BookInv, FifoLinks, EndsOK
  <2>2. maker \in Ref /\ limitOf[maker] = Best /\ limitOf[maker] # Nil
    BY <1>2, <2>1 DEF Members, Ref, Nil
  <2> QED BY <1>1, <2>1, <2>2, Zenon DEF BookInv, Arrived
<1>4. /\ Remaining(taker) \in Nat /\ Remaining(maker) \in Nat
      /\ order[taker].qty \in Nat /\ order[maker].qty \in Nat
      /\ filled[taker] \in Nat /\ filled[maker] \in Nat
  <2> HIDE DEF maker
  <2>1. ASSUME NEW o \in Ref
        PROVE  order[o].qty \in Nat /\ filled[o] \in Nat /\ filled[o] <= order[o].qty
    <3>1. order[o] \in OrderRec /\ filled[o] \in Nat
      BY Zenon DEF BookInv, TypeOK
    <3> QED BY <3>1, Zenon DEF BookInv, FillBound, OrderRec
  <2> QED BY <1>2, <1>3, <2>1 DEF Remaining
<1>5. matchQty \in Nat /\ matchQty <= Remaining(taker) /\ matchQty <= Remaining(maker)
  BY <1>4, SMTT(60) DEF SmallerOf
<1>6. /\ filled' = [filled EXCEPT ![taker] = @ + matchQty, ![maker] = @ + matchQty]
      /\ volume' = [volume EXCEPT ![Best] = Wrap(@ - matchQty)]
      /\ trades' = Append(trades, [maker |-> maker, taker |-> taker,
                                   price |-> LevelPrice(Best), qty |-> matchQty])
      /\ IF Remaining(maker) = matchQty
         THEN Unlink(Best, maker) /\ DeleteEntry(maker)
         ELSE UNCHANGED <<linkVars, orders>>
  BY Zenon DEF FillHead
<1> HIDE DEF maker, matchQty
<1>7. /\ filled' \in [Ref -> Nat]
      /\ filled'[taker] = filled[taker] + matchQty
      /\ filled'[maker] = filled[maker] + matchQty
      /\ \A o \in Ref \ {taker, maker} : filled'[o] = filled[o]
  <2>1. filled \in [Ref -> Nat]
    BY Zenon DEF BookInv, TypeOK
  <2>2. filled' = [[filled EXCEPT ![taker] = filled[taker] + matchQty]
                        EXCEPT ![maker] = filled[maker] + matchQty]
    BY <1>2, <1>3, <1>6, <2>1, Zenon
  <2> QED BY <1>2, <1>3, <1>4, <1>5, <2>1, <2>2
<1>8. LimitTypeOK' /\ orders' \in [Ids -> Ptr]
  <2>1. volume' \in [Ref -> 0 .. Modulus - 1]
    <3>1. volume[Best] - matchQty \in Int
      BY <1>2, <1>5, LimitAssumption DEF BookInv, TypeOK, LimitTypeOK
    <3> QED BY <1>2, <1>6, <3>1, WrapType, Zenon DEF BookInv, TypeOK, LimitTypeOK
  <2>2. CASE Remaining(maker) = matchQty
    <3>1. LimitTypeOK
      BY Zenon DEF BookInv, TypeOK
    <3>2. LimitTypeOK'
      BY <1>2, <1>3, <1>6, <2>1, <2>2, <3>1, UnlinkType, Zenon DEF LimitTypeOK
    <3> QED BY <1>6, <2>2, <3>2, ZenonT(30) DEF DeleteEntry, BookInv, TypeOK, Ptr
  <2>3. CASE Remaining(maker) # matchQty
    BY <1>6, <2>1, <2>3, Zenon DEF BookInv, TypeOK, LimitTypeOK, linkVars
  <2> QED BY <2>2, <2>3, Zenon
<1>9. TypeOK'
  <2>1. [maker |-> maker, taker |-> taker, price |-> LevelPrice(Best), qty |-> matchQty]
            \in [maker : Ref, taker : Ref, price : Nat, qty : Nat]
    BY <1>2, <1>3, <1>5, Zenon DEF BookInv, TypeOK, OrderRec, LevelPrice
  <2>2. trades' \in Seq([maker : Ref, taker : Ref, price : Nat, qty : Nat])
    BY <1>6, <2>1, AppendProperties, Zenon DEF BookInv, TypeOK
  <2> QED BY <1>1, <1>7, <1>8, <2>2, Zenon DEF BookInv, TypeOK
<1>10. StageOK'
  BY <1>1, Zenon DEF BookInv, StageOK, MakerBook
<1>11. limitOf' = limitOf \/ limitOf' = [limitOf EXCEPT ![maker] = Nil]
  BY <1>6, Zenon DEF Unlink, linkVars
<1>12. Arrived'
  BY <1>1, <1>3, <1>11, Zenon DEF BookInv, TypeOK, LimitTypeOK, Arrived
<1>13. FillBound'
  <2> SUFFICES ASSUME NEW o \in Ref
               PROVE  filled'[o] <= order[o].qty /\ (o > count => filled'[o] = 0)
    BY <1>1, Zenon DEF FillBound
  <2>1. CASE o = taker
    BY <1>2, <1>4, <1>5, <1>7, <2>1, SMTT(60) DEF Remaining, Ref
  <2>2. CASE o = maker
    BY <1>3, <1>4, <1>5, <1>7, <2>2, LimitAssumption, SMTT(60) DEF Remaining, Ref, BookInv, TypeOK
  <2>3. CASE o # taker /\ o # maker
    BY <1>7, <2>3, Zenon DEF BookInv, FillBound
  <2> QED BY <2>1, <2>2, <2>3, Zenon
<1>14. FifoLinks'
  <2>1. LimitTypeOK /\ FifoLinks
    BY Zenon DEF BookInv, TypeOK
  <2> QED BY <1>2, <1>3, <1>6, <2>1, UnlinkFifo, FifoUnchanged, Zenon
<1>15. LevelsSorted' /\ BookUncrossed'
  BY <1>1, SlicesUnchanged, Zenon DEF BookInv
<1>16. IndexSound'
  <2>1. CASE Remaining(maker) = matchQty
    <3>1. orders' = [orders EXCEPT ![order[maker].id] = Nil] /\ limitOf' = [limitOf EXCEPT ![maker] = Nil]
      BY <1>6, <2>1, Zenon DEF DeleteEntry, Unlink
    <3> SUFFICES ASSUME NEW j \in Ids, orders'[j] # Nil
                 PROVE  limitOf'[orders'[j]] # Nil /\ order[orders'[j]].id = j
      BY <1>1, Zenon DEF IndexSound
    <3>2. orders'[j] = orders[j] /\ order[maker].id # j
      BY <3>1, Zenon DEF BookInv, TypeOK
    <3>3. limitOf[orders[j]] # Nil /\ order[orders[j]].id = j /\ orders[j] \in Ref
      BY <3>2, Zenon DEF BookInv, TypeOK, IndexSound, Ptr
    <3> QED BY <3>1, <3>2, <3>3, Zenon DEF BookInv, TypeOK, LimitTypeOK
  <2>2. CASE Remaining(maker) # matchQty
    BY <1>1, <1>6, <2>2, Zenon DEF BookInv, IndexSound, linkVars
  <2> QED BY <2>1, <2>2, Zenon
<1> QED BY <1>9, <1>10, <1>12, <1>13, <1>14, <1>15, <1>16, Zenon DEF BookInv

\* The inner loop ends and may drop the first level (orderbook.go:150-153).
LEMMA LeaveLevelInv ==
    ASSUME BookInv, LeaveLevel
    PROVE  BookInv'
<1> DEFINE b == MakerBook(taker)
<1>1. /\ pc = "fill" /\ pc' = "match"
      /\ UNCHANGED <<head, tail, volume, next, prev, limitOf>>
      /\ UNCHANGED <<count, order, filled, orders, taker, trades>>
      /\ levels' = levels \/ levels' = [levels EXCEPT ![b] = Tail(@)]
  BY Zenon DEF LeaveLevel, limitVars
<1>2. b \in Book /\ levels[b] \in Seq(Ref) /\ levels[b] # <<>>
  BY <1>1, InsideLevel, Zenon
<1> HIDE DEF b
<1>3. /\ LevelsSorted'
      /\ BookUncrossed'
      /\ levels' \in [Book -> Seq(Ref)]
      /\ \A d \in Book : \A k \in 1 .. Len(levels'[d]) :
            \E j \in 1 .. Len(levels[d]) : levels'[d][k] = levels[d][j]
  <2>1. CASE levels' = levels
    <3>1. LevelsSorted' /\ BookUncrossed'
      BY <1>1, <2>1, SlicesUnchanged, Zenon DEF BookInv
    <3> QED BY <2>1, <3>1, Zenon DEF BookInv, TypeOK
  <2>2. CASE levels' = [levels EXCEPT ![b] = Tail(@)]
    <3> DEFINE s == Tail(levels[b])
    <3>1. /\ s \in Seq(Ref)
          /\ Len(s) = Len(levels[b]) - 1
          /\ \A k \in 1 .. Len(levels[b]) - 1 : s[k] = levels[b][k + 1]
      BY <1>2, HeadTailProperties, Zenon
    <3>2. 1 \in 1 .. Len(levels[b])
      BY <1>2, EmptySeq
    <3>3. levels' = [levels EXCEPT ![b] = s]
      BY <1>2, <2>2, Zenon DEF BookInv, TypeOK
    <3>4. TypeOK /\ LevelsSorted /\ BookUncrossed
      BY Zenon DEF BookInv
    <3> HIDE DEF s
    <3>5. \A k \in 1 .. Len(levels[b]) - 1 :
            s[k] = IF k < 1 THEN levels[b][k] ELSE levels[b][k + 1]
      BY <3>1, <1>2, LenProperties
    <3> QED BY <1>1, <1>2, <3>1, <3>2, <3>3, <3>4, <3>5, DropLevel, ZenonT(30)
  <2> QED BY <1>1, <2>1, <2>2, Zenon
<1>4. TypeOK'
  BY <1>1, <1>3, Zenon DEF BookInv, TypeOK, LimitTypeOK
<1>5. StageOK'
  BY <1>1, Zenon DEF BookInv, StageOK
<1>6. Arrived'
  BY <1>1, <1>3, SMTT(60) DEF BookInv, Arrived
<1>7. FillBound' /\ IndexSound'
  BY <1>1, Zenon DEF BookInv, FillBound, IndexSound
<1>8. FifoLinks'
  BY <1>1, FifoUnchanged, Zenon DEF BookInv, linkVars
<1> QED BY <1>3, <1>4, <1>5, <1>6, <1>7, <1>8, Zenon DEF BookInv

\* When the loop stops with quantity left, the limit price of the order does
\* not cross the other slice (orderbook.go:114-125). An order whose side is
\* neither Buy nor Sell skips the check, and stops only on an empty slice.
LEMMA StoppedUncrossed ==
    ASSUME BookInv, taker \in Ref, ~MatchGoesOn, Remaining(taker) > 0,
           order[taker].type = LimitOrder
    PROVE  /\ OwnBook(taker) = "bids" => \A j \in 1 .. Len(levels["asks"]) :
                            order[taker].price < LevelPrice(levels["asks"][j])
           /\ OwnBook(taker) = "asks" => \A k \in 1 .. Len(levels["bids"]) :
                            LevelPrice(levels["bids"][k]) < order[taker].price
<1> DEFINE b == MakerBook(taker)
<1>1. b \in Book /\ levels[b] \in Seq(Ref) /\ Len(levels[b]) \in Nat
  BY LenProperties, Zenon DEF BookInv, TypeOK, MakerBook, Book
<1>2. CASE levels[b] = <<>>
  <2>1. Len(levels[b]) = 0
    BY <1>2
  <2> QED BY <2>1, SMTT(60) DEF OwnBook, MakerBook
<1>3. CASE levels[b] # <<>>
  <2>1. /\ ~Crosses(taker, Best) /\ 1 \in 1 .. Len(levels[b])
        /\ Best = levels[b][1]
    BY <1>1, <1>3, EmptySeq, SMTT(60) DEF MatchGoesOn, Best
  <2>2. \A k \in 1 .. Len(levels[b]) : LevelPrice(levels[b][k]) \in Nat
    <3>1. \A k \in 1 .. Len(levels[b]) : levels[b][k] \in Ref
      BY <1>1, ElementOfSeq, Zenon
    <3>2. \A o \in Ref : order[o].price \in Nat
      BY Zenon DEF BookInv, TypeOK, OrderRec
    <3> QED BY <3>1, <3>2, Zenon DEF LevelPrice
  <2>3. order[taker].price \in Nat
    BY Zenon DEF BookInv, TypeOK, OrderRec
  <2>4. \A k \in 1 .. Len(levels[b]) : 1 < k => Ahead(b, 1, k)
    BY <1>1, <2>1, Zenon DEF BookInv, LevelsSorted
  <2>5. CASE order[taker].side = Buy
    <3>1. b = "asks" /\ OwnBook(taker) = "bids" /\ order[taker].price < LevelPrice(levels[b][1])
      BY <2>1, <2>5, SMTT(60) DEF MakerBook, OwnBook, Crosses, Sell, Buy
    <3> HIDE DEF b
    <3> QED BY <1>1, <2>1, <2>2, <2>3, <2>4, <3>1, SMTT(60) DEF Ahead
  <2>6. CASE order[taker].side # Buy
    <3>1. b = "bids" /\ OwnBook(taker) = "asks" /\ order[taker].price > LevelPrice(levels[b][1])
      BY <2>1, <2>6, Zenon DEF MakerBook, OwnBook, Crosses
    <3> HIDE DEF b
    <3> QED BY <1>1, <2>1, <2>2, <2>3, <2>4, <3>1, SMTT(60) DEF Ahead
  <2> QED BY <2>5, <2>6, Zenon
<1> QED BY <1>2, <1>3, Zenon

\* The end of Process (orderbook.go:46-58) and addLimitOrder
\* (orderbook.go:160-184).
LEMMA FinishProcessInv ==
    ASSUME BookInv, FinishProcess
    PROVE  BookInv'
<1>1. /\ pc = "match" /\ pc' = "idle" /\ ~MatchGoesOn
      /\ UNCHANGED <<count, order, filled, taker, trades>>
  BY Zenon DEF FinishProcess
<1>2. taker \in Ref /\ taker = count
  BY <1>1, LimitAssumption DEF BookInv, TypeOK, StageOK, Ref, Nil
<1>3. StageOK' /\ FillBound'
  BY <1>1, Zenon DEF BookInv, StageOK, FillBound
<1>4. CASE UNCHANGED <<limitVars, bookVars>>
  <2>1. UNCHANGED <<head, tail, volume, next, prev, limitOf, levels, orders>>
    BY <1>4, Zenon DEF limitVars, bookVars
  <2>2. TypeOK'
    BY <1>1, <2>1, Zenon DEF BookInv, TypeOK, LimitTypeOK
  <2>3. Arrived' /\ IndexSound'
    BY <1>1, <2>1, Zenon DEF BookInv, Arrived, IndexSound
  <2>4. FifoLinks'
    BY <2>1, FifoUnchanged, Zenon DEF BookInv, linkVars
  <2>5. LevelsSorted' /\ BookUncrossed'
    BY <1>1, <2>1, SlicesUnchanged, Zenon DEF BookInv
  <2> QED BY <1>3, <2>2, <2>3, <2>4, <2>5, Zenon DEF BookInv
<1>5. CASE /\ Remaining(taker) > 0 /\ order[taker].type = LimitOrder
           /\ AddLimitOrder(OwnBook(taker), taker)
  <2> DEFINE b == OwnBook(taker)
  <2>1. /\ b = "bids" => \A j \in 1 .. Len(levels["asks"]) :
                            order[taker].price < LevelPrice(levels["asks"][j])
        /\ b = "asks" => \A k \in 1 .. Len(levels["bids"]) :
                            LevelPrice(levels["bids"][k]) < order[taker].price
    BY <1>1, <1>2, <1>5, StoppedUncrossed, Zenon
  <2>2. b \in Book
    BY Zenon DEF OwnBook, Book
  <2> HIDE DEF b
  <2>3. PICK idx \in 1 .. Len(levels[b]) + 1 :
            /\ SearchIndex(b, order[taker].price, idx)
            /\ IF Found(b, order[taker].price, idx)
               THEN AddOrder(levels[b][idx], taker, Remaining(taker)) /\ UNCHANGED levels
               ELSE /\ levels' = [levels EXCEPT ![b] = InsertAt(@, idx, taker)]
                    /\ AddOrder(taker, taker, Remaining(taker))
            /\ SetEntry(taker)
    BY <1>5, Zenon DEF AddLimitOrder, b
  <2> DEFINE l == IF Found(b, order[taker].price, idx) THEN levels[b][idx] ELSE taker
  <2>4. /\ l \in Ref /\ l <= taker
        /\ AddOrder(l, taker, Remaining(taker))
    <3>1. CASE Found(b, order[taker].price, idx)
      <4>1. idx \in 1 .. Len(levels[b]) /\ levels[b] \in Seq(Ref)
        BY <2>2, <3>1, LenProperties DEF Found, BookInv, TypeOK
      <4>2. levels[b][idx] \in Ref /\ levels[b][idx] <= count
        BY <2>2, <4>1, ElementOfSeq, Zenon DEF BookInv, Arrived
      <4> QED BY <1>2, <2>3, <3>1, <4>2, Zenon
    <3>2. CASE ~Found(b, order[taker].price, idx)
      BY <1>2, <2>3, <3>2, SMTT(60) DEF Ref
    <3> QED BY <3>1, <3>2, Zenon
  <2>5. /\ LevelsSorted'
        /\ BookUncrossed'
        /\ levels' \in [Book -> Seq(Ref)]
        /\ \A d \in Book : \A k \in 1 .. Len(levels'[d]) :
                \/ levels'[d][k] = taker
                \/ \E j \in 1 .. Len(levels[d]) : levels'[d][k] = levels[d][j]
    <3>1. CASE Found(b, order[taker].price, idx)
      <4>1. UNCHANGED <<levels, order>>
        BY <1>1, <2>3, <3>1, Zenon
      <4>2. LevelsSorted' /\ BookUncrossed'
        BY <4>1, SlicesUnchanged, Zenon DEF BookInv
      <4> QED BY <4>1, <4>2, Zenon DEF BookInv, TypeOK
    <3>2. CASE ~Found(b, order[taker].price, idx)
      <4>1. TypeOK /\ LevelsSorted /\ BookUncrossed
        BY Zenon DEF BookInv
      <4>2. order' = order
        BY <1>1, Zenon
      <4>3. /\ SearchIndex(b, order[taker].price, idx)
            /\ levels' = [levels EXCEPT ![b] = InsertAt(@, idx, taker)]
        BY <2>3, <3>2, ZenonT(30)
      <4> QED BY <1>2, <2>1, <2>2, <3>2, <4>1, <4>2, <4>3, InsertLevel, ZenonT(60)
    <3> QED BY <3>1, <3>2, Zenon
  <2> HIDE DEF l
  <2>6. Remaining(taker) \in Int
    BY <1>2 DEF BookInv, TypeOK, OrderRec, Remaining
  <2>7. LimitTypeOK /\ FifoLinks
    BY Zenon DEF BookInv, TypeOK
  <2>8. LimitTypeOK'
    BY <1>2, <2>4, <2>6, <2>7, AddOrderType, Zenon
  <2>9. limitOf[taker] = Nil /\ \A m \in Members(l) : m < taker
    <3>1. limitOf[taker] = Nil
      BY <1>1, <1>2, Zenon DEF BookInv, Arrived
    <3>2. ASSUME NEW m \in Members(l) PROVE m < taker
      <4>1. m \in Ref /\ limitOf[m] = l /\ l # Nil
        BY <2>4 DEF Members, Ref, Nil
      <4> QED BY <1>1, <1>2, <4>1, SMTT(60) DEF BookInv, Arrived, Ref
    <3> QED BY <3>1, <3>2, Zenon
  <2>10. FifoLinks'
    BY <1>2, <2>4, <2>6, <2>7, <2>9, AddOrderFifo, Zenon
  <2>11. limitOf' = [limitOf EXCEPT ![taker] = l] /\ orders' = [orders EXCEPT ![order[taker].id] = taker]
    <3>1. limitOf' = [limitOf EXCEPT ![taker] = l]
      BY <2>4, ZenonT(30) DEF AddOrder
    <3>2. orders' = [orders EXCEPT ![order[taker].id] = taker]
      BY <2>3, ZenonT(30) DEF SetEntry
    <3> QED BY <3>1, <3>2, Zenon
  <2>12. TypeOK'
    <3>1. orders' \in [Ids -> Ptr]
      BY <1>2, <2>11, ZenonT(30) DEF BookInv, TypeOK, Ptr
    <3> QED BY <1>1, <2>5, <2>8, <3>1, Zenon DEF BookInv, TypeOK
  <2>13. Arrived'
    <3>1. ASSUME NEW d \in Book, NEW k \in 1 .. Len(levels'[d]) PROVE levels'[d][k] <= count
      <4>1. count <= count
        BY <1>2 DEF Ref
      <4> QED BY <1>2, <2>5, <4>1, Zenon DEF BookInv, Arrived
    <3>2. ASSUME NEW o \in Ref, limitOf'[o] # Nil PROVE limitOf'[o] <= o /\ o <= count
      <4>1. CASE o = taker
        BY <1>2, <2>4, <2>11, <4>1, SMTT(60) DEF BookInv, TypeOK, LimitTypeOK, Ref
      <4>2. CASE o # taker
        BY <2>11, <3>2, <4>2, Zenon DEF BookInv, TypeOK, LimitTypeOK, Arrived
      <4> QED BY <4>1, <4>2, Zenon
    <3> QED BY <1>1, <3>1, <3>2, Zenon DEF Arrived
  <2>14. IndexSound'
    <3> SUFFICES ASSUME NEW j \in Ids, orders'[j] # Nil
                 PROVE  limitOf'[orders'[j]] # Nil /\ order[orders'[j]].id = j
      BY <1>1, Zenon DEF IndexSound
    <3>1. CASE order[taker].id = j
      BY <1>2, <2>4, <2>11, <3>1, SMTT(60) DEF BookInv, TypeOK, LimitTypeOK, Ref, Nil
    <3>2. CASE order[taker].id # j
      <4>1. orders'[j] = orders[j]
        BY <2>11, <3>2, Zenon DEF BookInv, TypeOK
      <4>2. limitOf[orders[j]] # Nil /\ order[orders[j]].id = j /\ orders[j] \in Ref
        BY <4>1, Zenon DEF BookInv, TypeOK, IndexSound, Ptr
      <4> QED BY <2>9, <2>11, <4>1, <4>2, Zenon DEF BookInv, TypeOK, LimitTypeOK
    <3> QED BY <3>1, <3>2, Zenon
  <2> QED BY <1>3, <2>5, <2>10, <2>12, <2>13, <2>14, Zenon DEF BookInv
<1> QED BY <1>4, <1>5, Zenon DEF FinishProcess

\* Cancel (orderbook.go:62-86) with removeLimitLevel (orderbook.go:187-198).
LEMMA CancelInv ==
    ASSUME BookInv, NEW i \in Ids, Cancel(i)
    PROVE  BookInv'
<1> DEFINE o == orders[i]
           l == limitOf[o]
<1>1. /\ pc = "idle" /\ o # Nil /\ l # Nil
      /\ RemoveOrder(l, o, Remaining(o))
      /\ DeleteEntry(o)
      /\ \/ RemoveLimitLevel(OwnBook(o), LevelPrice(l))
         \/ UNCHANGED levels
      /\ UNCHANGED <<count, order, filled, pc, taker, trades>>
  BY Zenon DEF Cancel
<1>2. o \in Ref /\ l \in Ref /\ o \in Members(l)
  BY <1>1, Zenon DEF BookInv, TypeOK, LimitTypeOK, Ptr, Members
<1> HIDE DEF o, l
<1>3. /\ LevelsSorted'
      /\ BookUncrossed'
      /\ levels' \in [Book -> Seq(Ref)]
      /\ \A d \in Book : \A k \in 1 .. Len(levels'[d]) :
            \E j \in 1 .. Len(levels[d]) : levels'[d][k] = levels[d][j]
  <2>1. CASE UNCHANGED levels
    <3>1. LevelsSorted' /\ BookUncrossed'
      BY <1>1, <2>1, SlicesUnchanged, Zenon DEF BookInv
    <3> QED BY <2>1, <3>1, Zenon DEF BookInv, TypeOK
  <2>2. CASE levels' # levels
    <3> DEFINE b == OwnBook(o)
    <3>1. b \in Book
      BY Zenon DEF OwnBook, Book
    <3> HIDE DEF b
    <3>2. PICK idx \in 1 .. Len(levels[b]) + 1 :
            /\ Found(b, LevelPrice(l), idx)
            /\ levels' = [levels EXCEPT ![b] = RemoveAt(@, idx)]
      BY <1>1, <2>2, Zenon DEF RemoveLimitLevel, b
    <3>3. levels[b] \in Seq(Ref) /\ idx \in 1 .. Len(levels[b])
      BY <3>1, <3>2, LenProperties, SMTT(60) DEF Found, BookInv, TypeOK
    <3> DEFINE s == RemoveAt(levels[b], idx)
    <3>4. /\ s \in Seq(Ref)
          /\ Len(s) = Len(levels[b]) - 1
          /\ \A k \in 1 .. Len(levels[b]) - 1 :
                s[k] = IF k < idx THEN levels[b][k] ELSE levels[b][k + 1]
      BY <3>3, RemoveAtProperties, ZenonT(30)
    <3>5. levels' = [levels EXCEPT ![b] = s]
      BY <3>1, <3>2, Zenon DEF BookInv, TypeOK
    <3> HIDE DEF s
    <3>6. TypeOK /\ LevelsSorted /\ BookUncrossed
      BY Zenon DEF BookInv
    <3> QED BY <1>1, <3>1, <3>3, <3>4, <3>5, <3>6, DropLevel, ZenonT(30)
  <2> QED BY <2>1, <2>2, Zenon
<1>4. LimitTypeOK /\ FifoLinks
  BY Zenon DEF BookInv, TypeOK
<1>5. LimitTypeOK'
  <2>1. volume' \in [Ref -> 0 .. Modulus - 1]
    <3>1. volume[l] - Remaining(o) \in Int
      BY <1>2, LimitAssumption, SMTT(60) DEF BookInv, TypeOK, LimitTypeOK, OrderRec, Remaining
    <3> QED BY <1>1, <1>2, <3>1, WrapType, Zenon DEF RemoveOrder, BookInv, TypeOK, LimitTypeOK
  <2> QED BY <1>1, <1>2, <1>4, <2>1, UnlinkType, Zenon DEF RemoveOrder, LimitTypeOK
<1>6. FifoLinks'
  BY <1>1, <1>2, <1>4, UnlinkFifo, Zenon DEF RemoveOrder
<1>7. limitOf' = [limitOf EXCEPT ![o] = Nil] /\ orders' = [orders EXCEPT ![order[o].id] = Nil]
  BY <1>1, Zenon DEF RemoveOrder, Unlink, DeleteEntry
<1>8. TypeOK'
  <2>1. orders' \in [Ids -> Ptr]
    BY <1>7, ZenonT(30) DEF BookInv, TypeOK, Ptr
  <2> QED BY <1>1, <1>3, <1>5, <2>1, Zenon DEF BookInv, TypeOK
<1>9. StageOK' /\ FillBound'
  BY <1>1, Zenon DEF BookInv, StageOK, FillBound
<1>10. Arrived'
  <2>1. pc' = "idle" /\ count' = count
    BY <1>1, Zenon
  <2>2. ASSUME NEW d \in Book, NEW k \in 1 .. Len(levels'[d])
        PROVE  levels'[d][k] <= count
    <3>1. PICK j \in 1 .. Len(levels[d]) : levels'[d][k] = levels[d][j]
      BY <1>3, Zenon
    <3>2. levels[d][j] <= count
      BY Zenon DEF BookInv, Arrived
    <3> QED BY <3>1, <3>2, Zenon
  <2>3. ASSUME NEW q \in Ref, limitOf'[q] # Nil
        PROVE  limitOf'[q] <= q /\ q <= count
    <3>1. limitOf'[q] = limitOf[q]
      BY <1>2, <1>7, <2>3, Zenon DEF BookInv, TypeOK, LimitTypeOK
    <3> QED BY <2>3, <3>1, Zenon DEF BookInv, Arrived
  <2> QED BY <2>1, <2>2, <2>3, Zenon DEF Arrived
<1>11. IndexSound'
  <2> SUFFICES ASSUME NEW j \in Ids, orders'[j] # Nil
               PROVE  limitOf'[orders'[j]] # Nil /\ order[orders'[j]].id = j
    <3>1. order' = order
      BY <1>1, Zenon
    <3> QED BY <3>1, ZenonT(30) DEF IndexSound
  <2>1. orders'[j] = orders[j] /\ order[o].id # j
    BY <1>7, Zenon DEF BookInv, TypeOK
  <2>2. limitOf[orders[j]] # Nil /\ order[orders[j]].id = j /\ orders[j] \in Ref
    BY <2>1, Zenon DEF BookInv, TypeOK, IndexSound, Ptr
  <2> QED BY <1>7, <2>1, <2>2, Zenon DEF BookInv, TypeOK, LimitTypeOK
<1> QED BY <1>3, <1>6, <1>8, <1>9, <1>10, <1>11, Zenon DEF BookInv

\* A step that changes nothing.
LEMMA StutterInv ==
    ASSUME BookInv, UNCHANGED vars
    PROVE  BookInv'
<1>1. UNCHANGED <<head, tail, volume, next, prev, limitOf, count, order, filled,
                  levels, orders, pc, taker, trades>>
  BY Zenon DEF vars, limitVars
<1>2. TypeOK' /\ StageOK' /\ Arrived' /\ FillBound' /\ IndexSound'
  BY <1>1, Zenon DEF BookInv, TypeOK, LimitTypeOK, StageOK, MakerBook, Arrived, FillBound, IndexSound
<1>3. FifoLinks'
  BY <1>1, FifoUnchanged, Zenon DEF BookInv, linkVars
<1>4. LevelsSorted' /\ BookUncrossed'
  BY <1>1, SlicesUnchanged, Zenon DEF BookInv
<1> QED BY <1>2, <1>3, <1>4, Zenon DEF BookInv

\* BookInv holds in every state the book can reach, for every bound on the
\* number of orders, every set of ids and requests, fresh ids or not, and
\* every integer width: Process and Cancel of orderbook.go never break it.
THEOREM BookInvariant == Spec => []BookInv
<1>1. BookInv /\ [Next]_vars => BookInv'
  <2> SUFFICES ASSUME BookInv, [Next]_vars PROVE BookInv'
    BY Zenon
  <2>1. CASE \E i \in Ids, r \in Requests : Process(i, r)
    BY <2>1, ProcessInv, Zenon
  <2>2. CASE EnterLevel
    BY <2>2, EnterLevelInv, Zenon
  <2>3. CASE FillHead
    BY <2>3, FillHeadInv, Zenon
  <2>4. CASE LeaveLevel
    BY <2>4, LeaveLevelInv, Zenon
  <2>5. CASE FinishProcess
    BY <2>5, FinishProcessInv, Zenon
  <2>6. CASE \E i \in Ids : Cancel(i)
    BY <2>6, CancelInv, Zenon
  <2>7. CASE UNCHANGED vars
    BY <2>7, StutterInv, Zenon
  <2> QED BY <2>1, <2>2, <2>3, <2>4, <2>5, <2>6, <2>7, Zenon DEF Next, Matching
<1> QED BY <1>1, InitInv, PTL DEF Spec

\* The book's state keeps its types: in particular a level's total never
\* leaves the integer width and every slice holds level pointers only.
THEOREM TypeCorrect == Spec => []TypeOK
<1>1. BookInv => TypeOK
  BY Zenon DEF BookInv
<1> QED BY <1>1, BookInvariant, PTL

\* Whatever clients send, no listed bid ever crosses a listed ask: Process
\* (orderbook.go:39-59) rests an order only when nothing it crosses is left.
THEOREM NeverCrossed == Spec => []BookUncrossed
<1>1. BookInv => BookUncrossed
  BY Zenon DEF BookInv
<1> QED BY <1>1, BookInvariant, PTL

\* The slices stay strictly sorted (orderbook.go:23-24), which is what
\* sort.Search needs in addLimitOrder and removeLimitLevel.
THEOREM AlwaysSorted == Spec => []LevelsSorted
<1>1. BookInv => LevelsSorted
  BY Zenon DEF BookInv
<1> QED BY <1>1, BookInvariant, PTL

\* Every level's doubly linked queue spells its orders in order of arrival
\* (limit.go:4-5), through appends, fills and cancels anywhere in the queue.
THEOREM AlwaysFifo == Spec => []FifoLinks
<1>1. BookInv => FifoLinks
  BY Zenon DEF BookInv
<1> QED BY <1>1, BookInvariant, PTL

\* Every entry of the id index is a resting order of that id, even when
\* clients reuse ids: Cancel never unlinks an order that is in no queue.
THEOREM IndexAlwaysSound == Spec => []IndexSound
<1>1. BookInv => IndexSound
  BY Zenon DEF BookInv
<1> QED BY <1>1, BookInvariant, PTL

\* Every level is compared with the limit of the order being matched
\* (orderbook.go:117-124) before any order in it is filled, and while its
\* loop runs the best level stays the one that was compared.
THEOREM AlwaysCrosses == Spec => []TradeInv
<1>1. Init => TradeInv
  BY Zenon DEF Init, TradeInv, LimitRespected
<1>2. BookInv /\ TradeInv /\ [Next]_vars => TradeInv'
  <2> SUFFICES ASSUME BookInv, TradeInv, [Next]_vars PROVE TradeInv'
    BY Zenon
  <2>1. CASE \E i \in Ids, r \in Requests : Process(i, r)
    <3>1. trades' = <<>> /\ pc' # "fill"
      BY <2>1, Zenon DEF Process
    <3> QED BY <3>1, EmptySeq, SMTT(60) DEF TradeInv, LimitRespected
  <2>2. CASE EnterLevel
    <3>1. UNCHANGED <<order, levels, taker, trades>> /\ Crosses(taker, Best)
      BY <2>2, Zenon DEF EnterLevel, MatchGoesOn, bookVars
    <3>2. LimitRespected'
      BY <3>1, ZenonT(30) DEF TradeInv, LimitRespected
    <3>3. Best' = Best
      BY <3>1, Zenon DEF Best, MakerBook
    <3>4. Crosses(taker, Best)'
      BY <3>1, <3>3, ZenonT(30) DEF Crosses, LevelPrice
    <3> QED BY <3>2, <3>4, Zenon DEF TradeInv
  <2>3. CASE FillHead
    <3> DEFINE matchQty == SmallerOf(Remaining(taker), Remaining(head[Best]))
    <3>1. /\ UNCHANGED <<order, levels, taker, pc>> /\ pc = "fill"
          /\ trades' = Append(trades, [maker |-> head[Best], taker |-> taker,
                                       price |-> LevelPrice(Best), qty |-> matchQty])
      BY <2>3, Zenon DEF FillHead
    <3> HIDE DEF matchQty
    <3>2. Crosses(taker, Best)
      BY <3>1, Zenon DEF TradeInv
    <3>3. (pc = "fill" => Crosses(taker, Best))'
      <4>1. Best' = Best
        BY <3>1, Zenon DEF Best, MakerBook
      <4> QED BY <3>1, <3>2, <4>1, ZenonT(30) DEF Crosses, LevelPrice
    <3>4. LimitRespected'
      <4> SUFFICES ASSUME taker # Nil, order[taker].type = LimitOrder,
                          NEW k \in 1 .. Len(trades')
                   PROVE  /\ order[taker].side = Buy => trades'[k].price <= order[taker].price
                          /\ order[taker].side = Sell => trades'[k].price >= order[taker].price
        BY <3>1, Zenon DEF LimitRespected
      <4>1. trades \in Seq([maker : Ref, taker : Ref, price : Nat, qty : Nat])
        BY Zenon DEF BookInv, TypeOK
      <4>2. CASE k <= Len(trades)
        <5>1. trades'[k] = trades[k] /\ k \in 1 .. Len(trades)
          BY <3>1, <4>1, <4>2, SMTT(60)
        <5> QED BY <5>1, Zenon DEF TradeInv, LimitRespected
      <4>3. CASE ~(k <= Len(trades))
        <5>1. trades'[k].price = LevelPrice(Best)
          BY <3>1, <4>1, <4>3, SMTT(60)
        <5>2. LevelPrice(Best) \in Nat /\ order[taker].price \in Nat
          BY <3>1, InsideLevel, Zenon DEF BookInv, TypeOK, OrderRec, LevelPrice
        <5> QED BY <3>2, <5>1, <5>2, SMTT(60) DEF Crosses
      <4> QED BY <4>2, <4>3, Zenon
    <3> QED BY <3>3, <3>4, Zenon DEF TradeInv
  <2>4. CASE LeaveLevel \/ FinishProcess \/ \E i \in Ids : Cancel(i)
    <3>1. UNCHANGED <<order, taker, trades>> /\ pc' # "fill"
      BY <2>4, ZenonT(30) DEF LeaveLevel, FinishProcess, Cancel
    <3> QED BY <3>1, Zenon DEF TradeInv, LimitRespected
  <2>5. CASE UNCHANGED vars
    <3>1. UNCHANGED <<order, levels, taker, trades, pc>>
      BY <2>5, Zenon DEF vars
    <3>2. LimitRespected'
      BY <3>1, ZenonT(30) DEF TradeInv, LimitRespected
    <3>3. Best' = Best
      BY <3>1, Zenon DEF Best, MakerBook
    <3>4. Crosses(taker, Best)' <=> Crosses(taker, Best)
      BY <3>1, <3>3, ZenonT(30) DEF Crosses, LevelPrice
    <3> QED BY <3>1, <3>2, <3>4, Zenon DEF TradeInv
  <2> QED BY <2>1, <2>2, <2>3, <2>4, <2>5, Zenon DEF Next, Matching
<1> QED BY <1>1, <1>2, BookInvariant, PTL DEF Spec

\* No trade of a buy or a sell is at a price worse than its limit, for any
\* number of levels it walks through: matchOrder compares the price of every
\* level (orderbook.go:117-124) before it fills from it.
THEOREM LimitAlwaysRespected == Spec => []LimitRespected
<1>1. TradeInv => LimitRespected
  BY Zenon DEF TradeInv
<1> QED BY <1>1, AlwaysCrosses, PTL

\* Taking order o out of its queue and of the map leaves every other resting
\* order in the map.
LEMMA RemovalKeepsIndex ==
    ASSUME BookInv, IdsInv, UNCHANGED <<count, order>>,
           NEW o \in Ref, limitOf[o] # Nil,
           limitOf' = [limitOf EXCEPT ![o] = Nil],
           orders' = [orders EXCEPT ![order[o].id] = Nil]
    PROVE  IdsInv'
<1> SUFFICES ASSUME FreshIds, NEW q \in Ref, limitOf'[q] # Nil
             PROVE  orders'[order[q].id] = q
  BY Zenon DEF IdsInv, IndexComplete
<1>1. q # o /\ limitOf[q] # Nil
  BY Zenon DEF BookInv, TypeOK, LimitTypeOK
<1>2. q \in 1 .. count /\ o \in 1 .. count
  BY <1>1, SMTT(60) DEF BookInv, TypeOK, Arrived, Ref
<1>3. order[q].id \in Ids /\ order[q].id # order[o].id /\ orders[order[q].id] = q
  BY <1>1, <1>2, Zenon DEF IdsInv, IndexComplete
<1> QED BY <1>3, Zenon DEF BookInv, TypeOK

\* As long as clients use an id once, every resting order is found in the map
\* (orderbook.go:25) and can be cancelled.
THEOREM IndexAlwaysComplete == Spec => [](FreshIds => IndexComplete)
<1>1. Init => IdsInv
  BY SMTT(60) DEF Init, LimitInit, IdsInv, IndexComplete, Ref
<1>2. BookInv /\ IdsInv /\ [Next]_vars => IdsInv'
  <2> SUFFICES ASSUME BookInv, IdsInv, [Next]_vars PROVE IdsInv'
    BY Zenon
  <2>1. ASSUME NEW i \in Ids, NEW r \in Requests, Process(i, r) PROVE IdsInv'
    <3> SUFFICES ASSUME FreshIds PROVE IdsInv'
      BY Zenon DEF IdsInv
    <3>1. /\ count' = count + 1 /\ count < MaxOrders /\ count \in Nat
          /\ order' = [order EXCEPT ![count + 1] = NewOrder(i, r)]
          /\ \A o \in 1 .. count : order[o].id # i
          /\ UNCHANGED <<limitOf, orders>>
      BY <2>1, SMTT(60) DEF Process, limitVars, bookVars, BookInv, TypeOK
    <3>2. /\ order'[count + 1].id = i
          /\ \A o \in 1 .. count : order'[o] = order[o]
      BY <3>1, LimitAssumption, SMTT(60) DEF NewOrder, BookInv, TypeOK, Ref
    <3>3. \A o \in 1 .. count' : o \in 1 .. count \/ o = count + 1
      BY <3>1
    <3>4. \A o \in Ref : limitOf[o] # Nil => o \in 1 .. count
      BY <3>1, SMTT(60) DEF BookInv, Arrived, Ref
    <3>5. IndexComplete'
      BY <3>1, <3>2, <3>4, Zenon DEF IdsInv, IndexComplete
    <3>6. \A o \in 1 .. count' : order'[o].id \in Ids
      BY <3>1, <3>2, <3>3, Zenon DEF IdsInv
    <3>7. \A o, p \in 1 .. count' : order'[o].id = order'[p].id => o = p
      BY <3>1, <3>2, <3>3, SMTT(60) DEF IdsInv
    <3> QED BY <3>5, <3>6, <3>7, Zenon DEF IdsInv
  <2>2. ASSUME EnterLevel \/ LeaveLevel \/ UNCHANGED vars PROVE IdsInv'
    <3>1. UNCHANGED <<count, order, orders, limitOf>>
      BY <2>2, Zenon DEF EnterLevel, LeaveLevel, vars, limitVars, bookVars
    <3> QED BY <3>1, Zenon DEF IdsInv, IndexComplete
  <2>3. ASSUME FillHead PROVE IdsInv'
    <3>1. /\ UNCHANGED <<count, order>> /\ pc = "fill" /\ head[Best] # Nil
          /\ \/ UNCHANGED <<orders, limitOf>>
             \/ /\ limitOf' = [limitOf EXCEPT ![head[Best]] = Nil]
                /\ orders' = [orders EXCEPT ![order[head[Best]].id] = Nil]
      BY <2>3, Zenon DEF FillHead, Unlink, DeleteEntry, linkVars
    <3>2. head[Best] \in Ref /\ limitOf[head[Best]] # Nil
      <4>1. Best \in Ref
        BY <3>1, InsideLevel, Zenon
      <4>2. head[Best] \in Members(Best)
        BY <3>1, <4>1, Zenon DEF BookInv, FifoLinks, EndsOK
      <4> QED BY <4>1, <4>2 DEF Members, Ref, Nil
    <3>3. CASE UNCHANGED <<orders, limitOf>>
      BY <3>1, <3>3, Zenon DEF IdsInv, IndexComplete
    <3> QED BY <3>1, <3>2, <3>3, RemovalKeepsIndex, Zenon
  <2>4. ASSUME FinishProcess PROVE IdsInv'
    <3>1. /\ UNCHANGED <<count, order>> /\ pc = "match"
          /\ \/ UNCHANGED <<orders, limitOf>>
             \/ /\ \A q \in Ref : q # taker => limitOf'[q] = limitOf[q]
                /\ orders' = [orders EXCEPT ![order[taker].id] = taker]
      <4>1. CASE UNCHANGED <<limitVars, bookVars>>
        BY <2>4, <4>1, Zenon DEF FinishProcess, limitVars, bookVars
      <4>2. CASE AddLimitOrder(OwnBook(taker), taker)
        <5>1. PICK l : AddOrder(l, taker, Remaining(taker)) /\ SetEntry(taker)
          BY <4>2, ZenonT(30) DEF AddLimitOrder
        <5>2. limitOf' = [limitOf EXCEPT ![taker] = l]
              /\ orders' = [orders EXCEPT ![order[taker].id] = taker]
          BY <5>1, Zenon DEF AddOrder, SetEntry
        <5>3. UNCHANGED <<count, order>> /\ pc = "match"
          BY <2>4, Zenon DEF FinishProcess
        <5>4. \A q \in Ref : q # taker => limitOf'[q] = limitOf[q]
          BY <5>2, Zenon DEF BookInv, TypeOK, LimitTypeOK
        <5> QED BY <5>2, <5>3, <5>4, Zenon
      <4> QED BY <2>4, <4>1, <4>2, Zenon DEF FinishProcess
    <3>2. taker \in Ref /\ taker = count
      BY <3>1, SMTT(60) DEF BookInv, TypeOK, StageOK, Ref, Nil
    <3>3. CASE UNCHANGED <<orders, limitOf>>
      BY <3>1, <3>3, Zenon DEF IdsInv, IndexComplete
    <3>4. CASE /\ \A q \in Ref : q # taker => limitOf'[q] = limitOf[q]
               /\ orders' = [orders EXCEPT ![order[taker].id] = taker]
      <4> SUFFICES ASSUME FreshIds, NEW q \in Ref, limitOf'[q] # Nil
                   PROVE  orders'[order[q].id] = q
        BY <3>1, Zenon DEF IdsInv, IndexComplete
      <4>1. orders \in [Ids -> Ptr] /\ count \in Nat /\ taker \in 1 .. count
        BY <3>2 DEF BookInv, TypeOK, Ref
      <4>2. CASE q = taker
        BY <3>4, <4>1, <4>2, Zenon DEF IdsInv
      <4>3. CASE q # taker
        <5>1. limitOf[q] # Nil
          BY <3>4, <4>3, Zenon
        <5>2. q \in 1 .. count
          BY <4>1, <5>1 DEF BookInv, Arrived, Ref
        <5>3. order[q].id \in Ids /\ order[q].id # order[taker].id /\ orders[order[q].id] = q
          BY <4>1, <4>3, <5>1, <5>2, Zenon DEF IdsInv, IndexComplete
        <5> QED BY <3>4, <4>1, <5>3, Zenon
      <4> QED BY <4>2, <4>3, Zenon
    <3> QED BY <3>1, <3>3, <3>4, Zenon
  <2>5. ASSUME NEW i \in Ids, Cancel(i) PROVE IdsInv'
    <3>1. /\ UNCHANGED <<count, order>> /\ orders[i] # Nil /\ limitOf[orders[i]] # Nil
          /\ limitOf' = [limitOf EXCEPT ![orders[i]] = Nil]
          /\ orders' = [orders EXCEPT ![order[orders[i]].id] = Nil]
      BY <2>5, ZenonT(30) DEF Cancel, RemoveOrder, Unlink, DeleteEntry
    <3>2. orders[i] \in Ref
      BY <3>1, Zenon DEF BookInv, TypeOK, Ptr
    <3> QED BY <3>1, <3>2, RemovalKeepsIndex, Zenon
  <2>6. CASE \E i \in Ids, r \in Requests : Process(i, r)
    <3>1. PICK i \in Ids, r \in Requests : Process(i, r)
      BY <2>6, Zenon
    <3> QED BY <2>1, <3>1, Zenon
  <2>7. CASE \E i \in Ids : Cancel(i)
    BY <2>5, <2>7, Zenon
  <2> QED BY <2>2, <2>3, <2>4, <2>6, <2>7, Zenon DEF Next, Matching
<1>3. IdsInv => (FreshIds => IndexComplete)
  BY Zenon DEF IdsInv
<1> QED BY <1>1, <1>2, <1>3, BookInvariant, PTL DEF Spec

-----------------------------------------------------------------------------
\* Quantities are naturals.
LEMMA Quantities ==
    ASSUME BookInv
    PROVE  \A o \in Ref : Remaining(o) \in Nat
<1> SUFFICES ASSUME NEW o \in Ref
             PROVE  Remaining(o) \in Nat
  BY Zenon
<1>1. order[o].qty \in Nat /\ filled[o] \in Nat /\ filled[o] <= order[o].qty
  BY Zenon DEF BookInv, TypeOK, OrderRec, FillBound
<1> QED BY <1>1 DEF Remaining

\* The order at the head of the level being filled, and what is matched.
Maker == head[Best]
MatchQty == SmallerOf(Remaining(taker), Remaining(Maker))

\* One match (orderbook.go:128-148), in terms of unfilled quantities.
LEMMA FillFacts ==
    ASSUME BookInv, FillHead
    PROVE  /\ pc = "fill" /\ UNCHANGED <<count, order, levels, pc, taker>>
           /\ Best \in Ref /\ taker \in Ref /\ Maker \in Ref /\ Maker # taker
           /\ Maker \in Members(Best) /\ limitOf[Maker] = Best /\ limitOf[taker] = Nil
           /\ Remaining(taker) > 0
           /\ MatchQty \in Nat
           /\ MatchQty <= Remaining(taker) /\ MatchQty <= Remaining(Maker)
           /\ MatchQty \in {Remaining(taker), Remaining(Maker)}
           /\ \A o \in Ref : Remaining(o)' =
                IF o \in {taker, Maker} THEN Remaining(o) - MatchQty ELSE Remaining(o)
           /\ volume' = [volume EXCEPT ![Best] = Wrap(@ - MatchQty)]
           /\ limitOf' = IF Remaining(Maker) = MatchQty
                         THEN [limitOf EXCEPT ![Maker] = Nil] ELSE limitOf
           /\ trades' = Append(trades, [maker |-> Maker, taker |-> taker,
                                        price |-> LevelPrice(Best), qty |-> MatchQty])
<1>1. /\ pc = "fill" /\ Maker # Nil /\ Remaining(taker) > 0
      /\ UNCHANGED <<count, order, levels, pc, taker>>
      /\ filled' = [filled EXCEPT ![taker] = @ + MatchQty, ![Maker] = @ + MatchQty]
      /\ volume' = [volume EXCEPT ![Best] = Wrap(@ - MatchQty)]
      /\ trades' = Append(trades, [maker |-> Maker, taker |-> taker,
                                   price |-> LevelPrice(Best), qty |-> MatchQty])
      /\ IF Remaining(Maker) = MatchQty
         THEN Unlink(Best, Maker) /\ DeleteEntry(Maker)
         ELSE UNCHANGED <<linkVars, orders>>
  BY ZenonT(30) DEF FillHead, Maker, MatchQty
<1>2. Best \in Ref /\ taker \in Ref
  BY <1>1, InsideLevel, Zenon
<1>3. Maker \in Members(Best)
  BY <1>1, <1>2, Zenon DEF BookInv, FifoLinks, EndsOK, Maker
<1>4. Maker \in Ref /\ limitOf[Maker] = Best /\ limitOf[Maker] # Nil
  BY <1>2, <1>3 DEF Members, Ref, Nil
<1>5. Maker # taker /\ limitOf[taker] = Nil
  BY <1>1, <1>2, <1>4, Zenon DEF BookInv, Arrived
<1>6. /\ Remaining(taker) \in Nat /\ Remaining(Maker) \in Nat
      /\ order[taker].qty \in Nat /\ order[Maker].qty \in Nat
      /\ filled[taker] \in Nat /\ filled[Maker] \in Nat
  BY <1>2, <1>4, Quantities, Zenon DEF BookInv, TypeOK, OrderRec
<1>7. /\ MatchQty \in Nat
      /\ MatchQty <= Remaining(taker) /\ MatchQty <= Remaining(Maker)
      /\ MatchQty \in {Remaining(taker), Remaining(Maker)}
  BY <1>6, SMTT(60) DEF MatchQty, SmallerOf
<1>8. /\ filled'[taker] = filled[taker] + MatchQty
      /\ filled'[Maker] = filled[Maker] + MatchQty
      /\ \A o \in Ref \ {taker, Maker} : filled'[o] = filled[o]
  <2>1. filled \in [Ref -> Nat]
    BY Zenon DEF BookInv, TypeOK
  <2>2. filled' = [[filled EXCEPT ![taker] = filled[taker] + MatchQty]
                        EXCEPT ![Maker] = filled[Maker] + MatchQty]
    BY <1>1, <1>2, <1>4, <1>5, <2>1, Zenon
  <2> QED BY <1>2, <1>4, <1>5, <2>1, <2>2, Zenon
<1>9. ASSUME NEW o \in Ref
      PROVE  Remaining(o)' =
                IF o \in {taker, Maker} THEN Remaining(o) - MatchQty ELSE Remaining(o)
  <2>1. order'[o].qty = order[o].qty /\ order[o].qty \in Nat /\ filled[o] \in Nat
    BY <1>1, Zenon DEF BookInv, TypeOK, OrderRec
  <2>2. filled'[o] = IF o \in {taker, Maker} THEN filled[o] + MatchQty ELSE filled[o]
    BY <1>8, Zenon
  <2>3. Remaining(o)' = order'[o].qty - filled'[o] /\ Remaining(o) = order[o].qty - filled[o]
    BY Zenon DEF Remaining
  <2>4. CASE o \in {taker, Maker}
    <3>1. filled'[o] = filled[o] + MatchQty
      BY <2>2, <2>4, Zenon
    <3>2. Remaining(o)' = Remaining(o) - MatchQty
      BY <1>7, <2>1, <2>3, <3>1
    <3> QED BY <2>4, <3>2, Zenon
  <2>5. CASE o \notin {taker, Maker}
    BY <2>1, <2>2, <2>3, <2>5, Zenon
  <2> QED BY <2>4, <2>5, Zenon
<1>10. limitOf' = IF Remaining(Maker) = MatchQty THEN [limitOf EXCEPT ![Maker] = Nil] ELSE limitOf
  BY <1>1, ZenonT(30) DEF Unlink, linkVars
<1> QED BY <1>1, <1>2, <1>3, <1>4, <1>5, <1>7, <1>9, <1>10, ZenonT(30)

\* The end of Process: nothing rests, or the order joins the level that
\* addLimitOrder found or inserted (orderbook.go:160-184).
LEMMA FinishFacts ==
    ASSUME BookInv, FinishProcess
    PROVE  /\ pc = "match" /\ pc' = "idle" /\ ~MatchGoesOn
           /\ UNCHANGED <<count, order, filled, taker, trades>>
           /\ taker \in Ref /\ limitOf[taker] = Nil
           /\ \/ /\ ~(Remaining(taker) > 0 /\ order[taker].type = LimitOrder)
                 /\ UNCHANGED <<limitOf, volume, levels>>
              \/ /\ Remaining(taker) > 0 /\ order[taker].type = LimitOrder
                 /\ \E l \in Ref, idx \in 1 .. Len(levels[OwnBook(taker)]) + 1 :
                    /\ SearchIndex(OwnBook(taker), order[taker].price, idx)
                    /\ limitOf' = [limitOf EXCEPT ![taker] = l]
                    /\ volume' = [volume EXCEPT ![l] = Wrap(@ + Remaining(taker))]
                    /\ IF Found(OwnBook(taker), order[taker].price, idx)
                       THEN l = levels[OwnBook(taker)][idx] /\ UNCHANGED levels
                       ELSE /\ l = taker
                            /\ levels' = [levels EXCEPT ![OwnBook(taker)] = InsertAt(@, idx, taker)]
<1>1. /\ pc = "match" /\ pc' = "idle" /\ ~MatchGoesOn
      /\ UNCHANGED <<count, order, filled, taker, trades>>
      /\ IF Remaining(taker) > 0 /\ order[taker].type = LimitOrder
         THEN AddLimitOrder(OwnBook(taker), taker)
         ELSE UNCHANGED <<limitVars, bookVars>>
  BY Zenon DEF FinishProcess
<1>2. taker \in Ref
  BY <1>1, LimitAssumption DEF BookInv, TypeOK, StageOK, Ref, Nil
<1>3. limitOf[taker] = Nil
  BY <1>1, <1>2, Zenon DEF BookInv, Arrived
<1>4. CASE ~(Remaining(taker) > 0 /\ order[taker].type = LimitOrder)
  <2>1. UNCHANGED <<limitOf, volume, levels>>
    BY <1>1, <1>4, Zenon DEF limitVars, bookVars
  <2> QED BY <1>1, <1>2, <1>3, <1>4, <2>1, Zenon
<1>5. CASE Remaining(taker) > 0 /\ order[taker].type = LimitOrder
  <2> DEFINE b == OwnBook(taker)
  <2>1. b \in Book
    BY Zenon DEF OwnBook, Book
  <2> HIDE DEF b
  <2>2. PICK idx \in 1 .. Len(levels[b]) + 1 :
            /\ SearchIndex(b, order[taker].price, idx)
            /\ IF Found(b, order[taker].price, idx)
               THEN AddOrder(levels[b][idx], taker, Remaining(taker)) /\ UNCHANGED levels
               ELSE /\ levels' = [levels EXCEPT ![b] = InsertAt(@, idx, taker)]
                    /\ AddOrder(taker, taker, Remaining(taker))
    BY <1>1, <1>5, ZenonT(30) DEF AddLimitOrder, b
  <2> DEFINE l == IF Found(b, order[taker].price, idx) THEN levels[b][idx] ELSE taker
  <2>3. l \in Ref
    <3>1. CASE Found(b, order[taker].price, idx)
      <4>1. idx \in 1 .. Len(levels[b]) /\ levels[b] \in Seq(Ref)
        BY <2>1, <3>1, LenProperties DEF Found, BookInv, TypeOK
      <4> QED BY <3>1, <4>1, ElementOfSeq, Zenon
    <3> QED BY <1>2, <3>1, Zenon
  <2>4. AddOrder(l, taker, Remaining(taker))
    BY <2>2, Zenon
  <2>5. /\ limitOf' = [limitOf EXCEPT ![taker] = l]
        /\ volume' = [volume EXCEPT ![l] = Wrap(@ + Remaining(taker))]
    <3> HIDE DEF l
    <3> QED BY <2>4, Zenon DEF AddOrder
  <2>6. IF Found(b, order[taker].price, idx)
        THEN l = levels[b][idx] /\ UNCHANGED levels
        ELSE l = taker /\ levels' = [levels EXCEPT ![b] = InsertAt(@, idx, taker)]
    BY <2>2, Zenon
  <2> HIDE DEF l
  <2> QED BY <1>1, <1>2, <1>3, <1>5, <2>2, <2>3, <2>5, <2>6, ZenonT(30) DEF b
<1> QED BY <1>4, <1>5, Zenon

\* Cancel (orderbook.go:62-86) takes one resting order out of its level.
LEMMA CancelFacts ==
    ASSUME BookInv, NEW i \in Ids, Cancel(i)
    PROVE  /\ pc = "idle" /\ UNCHANGED <<count, order, filled, pc, taker, trades>>
           /\ \E o \in Ref, l \in Ref :
                /\ limitOf[o] = l /\ o \in Members(l) /\ order[o].id = i
                /\ limitOf' = [limitOf EXCEPT ![o] = Nil]
                /\ volume' = [volume EXCEPT ![l] = Wrap(@ - Remaining(o))]
                /\ IF volume'[l] = 0
                   THEN RemoveLimitLevel(OwnBook(o), LevelPrice(l))
                   ELSE UNCHANGED levels
<1> DEFINE o == orders[i]
           l == limitOf[o]
<1>1. /\ pc = "idle" /\ o # Nil /\ l # Nil
      /\ RemoveOrder(l, o, Remaining(o))
      /\ IF volume'[l] = 0
         THEN RemoveLimitLevel(OwnBook(o), LevelPrice(l))
         ELSE UNCHANGED levels
      /\ UNCHANGED <<count, order, filled, pc, taker, trades>>
  BY ZenonT(30) DEF Cancel
<1>2. o \in Ref /\ l \in Ref /\ o \in Members(l) /\ order[o].id = i
  BY <1>1, Zenon DEF BookInv, TypeOK, LimitTypeOK, IndexSound, Ptr, Members
<1>3. l = limitOf[o]
  BY Zenon
<1> HIDE DEF o, l
<1>4. /\ limitOf' = [limitOf EXCEPT ![o] = Nil]
      /\ volume' = [volume EXCEPT ![l] = Wrap(@ - Remaining(o))]
  BY <1>1, Zenon DEF RemoveOrder, Unlink
<1> QED BY <1>1, <1>2, <1>3, <1>4, ZenonT(30)

\* An order whose Limit pointer is reset leaves that level and no other.
LEMMA LeaveMembers ==
    ASSUME LimitTypeOK, NEW o \in Ref, limitOf[o] \in Ref,
           limitOf' = [limitOf EXCEPT ![o] = Nil], NEW k \in Ref
    PROVE  Members(k)' = IF k = limitOf[o] THEN Members(k) \ {o} ELSE Members(k)
BY DEF Members, LimitTypeOK, Ref, Nil

\* An order that was in no level joins one.
LEMMA JoinMembers ==
    ASSUME LimitTypeOK, NEW o \in Ref, limitOf[o] = Nil, NEW l \in Ref,
           limitOf' = [limitOf EXCEPT ![o] = l], NEW k \in Ref
    PROVE  Members(k)' = IF k = l THEN Members(k) \cup {o} ELSE Members(k)
BY DEF Members, LimitTypeOK, Ref, Nil

-----------------------------------------------------------------------------
\* An order rests only while it wants something: matchOrder takes a maker out
\* with its last unit (orderbook.go:143-147), and Process rests an order only
\* when quantity is left (orderbook.go:52).
LEMMA RestingNext ==
    ASSUME BookInv, RestingOpen, [Next]_vars
    PROVE  RestingOpen'
<1>1. limitOf \in [Ref -> Ptr]
  BY Zenon DEF BookInv, TypeOK, LimitTypeOK
<1>2. ASSUME NEW i \in Ids, NEW r \in Requests, Process(i, r)
      PROVE  RestingOpen'
  <2>1. /\ UNCHANGED <<limitOf, filled>> /\ count \in Nat
        /\ order' = [order EXCEPT ![count + 1] = NewOrder(i, r)]
    BY <1>2 DEF Process, limitVars, BookInv, TypeOK
  <2>2. ASSUME NEW o \in Ref, limitOf[o] # Nil PROVE Remaining(o)' = Remaining(o)
    <3>1. o <= count
      BY <2>2, Zenon DEF BookInv, Arrived
    <3>2. order'[o] = order[o]
      BY <2>1, <3>1 DEF BookInv, TypeOK, Ref
    <3> QED BY <2>1, <3>2, Zenon DEF Remaining
  <2> QED BY <2>1, <2>2, Zenon DEF RestingOpen
<1>3. ASSUME UNCHANGED <<filled, order>>,
             \A o \in Ref : limitOf'[o] # Nil => limitOf[o] # Nil \/ Remaining(o) > 0
      PROVE  RestingOpen'
  BY <1>3, Zenon DEF RestingOpen, Remaining
<1>4. ASSUME FillHead PROVE RestingOpen'
  <2>1. /\ taker \in Ref /\ Maker \in Ref /\ limitOf[taker] = Nil /\ Maker # taker
        /\ MatchQty \in Nat /\ MatchQty <= Remaining(Maker)
        /\ \A o \in Ref : Remaining(o)' =
                IF o \in {taker, Maker} THEN Remaining(o) - MatchQty ELSE Remaining(o)
        /\ limitOf' = IF Remaining(Maker) = MatchQty
                      THEN [limitOf EXCEPT ![Maker] = Nil] ELSE limitOf
    BY <1>4, FillFacts, Zenon
  <2> SUFFICES ASSUME NEW o \in Ref, limitOf'[o] # Nil PROVE Remaining(o)' > 0
    BY Zenon DEF RestingOpen
  <2>2. limitOf[o] # Nil /\ o # taker /\ (o = Maker => Remaining(Maker) # MatchQty)
    BY <1>1, <2>1, Zenon
  <2>3. Remaining(o) \in Nat /\ Remaining(o) > 0
    BY <2>2, Quantities, Zenon DEF RestingOpen
  <2> QED BY <2>1, <2>2, <2>3
<1>5. ASSUME FinishProcess PROVE RestingOpen'
  <2>1. /\ UNCHANGED <<order, filled>>
        /\ \/ UNCHANGED limitOf
           \/ Remaining(taker) > 0 /\ \E l \in Ref : limitOf' = [limitOf EXCEPT ![taker] = l]
    BY <1>5, FinishFacts, Zenon
  <2> QED BY <1>1, <1>3, <2>1, Zenon
<1>6. ASSUME NEW i \in Ids, Cancel(i) PROVE RestingOpen'
  <2>1. UNCHANGED <<order, filled>> /\ \E o \in Ref : limitOf' = [limitOf EXCEPT ![o] = Nil]
    BY <1>6, CancelFacts, Zenon
  <2> QED BY <1>1, <1>3, <2>1, Zenon
<1>7. CASE EnterLevel \/ LeaveLevel \/ UNCHANGED vars
  <2>1. UNCHANGED <<order, filled, limitOf>>
    BY <1>7, Zenon DEF EnterLevel, LeaveLevel, vars, limitVars
  <2> QED BY <1>3, <2>1, Zenon
<1>8. CASE \E i \in Ids, r \in Requests : Process(i, r)
  BY <1>2, <1>8, Zenon
<1>9. CASE \E i \in Ids : Cancel(i)
  BY <1>6, <1>9, Zenon
<1> QED BY <1>4, <1>5, <1>7, <1>8, <1>9, Zenon DEF Next, Matching

\* Every resting order still wants something, whatever clients send.
THEOREM AlwaysOpen == Spec => []RestingOpen
<1>1. Init => RestingOpen
  BY Zenon DEF Init, LimitInit, RestingOpen
<1>2. BookInv /\ RestingOpen /\ [Next]_vars => RestingOpen'
  BY RestingNext, Zenon
<1> QED BY <1>1, <1>2, BookInvariant, PTL DEF Spec

\* Each step of matchOrder's loops brings their end nearer, when a level
\* without orders reports no volume.
LEMMA LoopProgress ==
    ASSUME BookInv, RestingOpen, [Next]_vars,
           \A l \in Ref : head[l] = Nil => volume[l] = 0,
           pc # "idle", pc' # "idle", ~UNCHANGED vars
    PROVE  StepsLeft' < StepsLeft
<1> DEFINE b == MakerBook(taker)
           n == Len(levels[b])
<1>1. EnterLevel \/ FillHead \/ LeaveLevel
  BY ZenonT(30) DEF Next, Matching, Process, Cancel, FinishProcess
<1>2. UNCHANGED <<taker, order>> /\ UNCHANGED b
  BY <1>1, ZenonT(30) DEF EnterLevel, FillHead, LeaveLevel, MakerBook
<1>3. taker \in Ref /\ Remaining(taker) \in Nat /\ levels[b] \in Seq(Ref) /\ n \in Nat
  <2>1. taker \in Ref
    BY LimitAssumption DEF BookInv, TypeOK, Ref, Nil
  <2>2. levels[b] \in Seq(Ref)
    BY Zenon DEF BookInv, TypeOK, MakerBook, Book
  <2> QED BY <2>1, <2>2, Quantities, LenProperties, Zenon
<1>4. CASE EnterLevel
  <2>1. pc = "match" /\ pc' = "fill" /\ MatchGoesOn /\ UNCHANGED <<filled, levels>>
    BY <1>4, Zenon DEF EnterLevel, bookVars
  <2>2. StepsLeft = 2 * (Remaining(taker) + n) + 2
    BY <2>1, Zenon DEF StepsLeft
  <2>3. StepsLeft' = 2 * (Remaining(taker) + n) + 1
    BY <1>2, <2>1, Zenon DEF StepsLeft, Remaining
  <2> QED BY <1>3, <2>2, <2>3
<1>5. CASE FillHead
  <2>1. /\ pc = "fill" /\ pc' = "fill" /\ UNCHANGED levels
        /\ Maker \in Ref /\ limitOf[Maker] # Nil /\ Remaining(taker) > 0
        /\ MatchQty \in Nat /\ MatchQty \in {Remaining(taker), Remaining(Maker)}
        /\ Remaining(taker)' = Remaining(taker) - MatchQty
    <3>1. /\ pc = "fill" /\ UNCHANGED <<levels, pc, taker>> /\ taker \in Ref /\ Best \in Ref
          /\ Maker \in Ref /\ limitOf[Maker] = Best /\ Remaining(taker) > 0
          /\ MatchQty \in Nat /\ MatchQty \in {Remaining(taker), Remaining(Maker)}
          /\ \A o \in Ref : Remaining(o)' =
                IF o \in {taker, Maker} THEN Remaining(o) - MatchQty ELSE Remaining(o)
      BY <1>5, FillFacts, Zenon
    <3>2. PICK t \in Ref : t = taker
      BY <3>1, Zenon
    <3>3. Remaining(t)' = Remaining(t) - MatchQty
      BY <3>1, <3>2, Zenon
    <3>4. Remaining(taker)' = Remaining(taker) - MatchQty
      BY <3>1, <3>2, <3>3, Zenon DEF Remaining
    <3> QED BY <3>1, <3>4 DEF Ref, Nil
  <2>2. MatchQty > 0
    BY <2>1, Quantities, Zenon DEF RestingOpen
  <2>3. StepsLeft = 2 * (Remaining(taker) + n) + 1
    BY <2>1, Zenon DEF StepsLeft
  <2>4. StepsLeft' = 2 * (Remaining(taker)' + n) + 1
    BY <1>2, <2>1, Zenon DEF StepsLeft
  <2> HIDE DEF n
  <2> QED BY <1>3, <2>1, <2>2, <2>3, <2>4
<1>6. CASE LeaveLevel
  <2>1. /\ pc = "fill" /\ pc' = "match" /\ UNCHANGED filled
        /\ head[Best] = Nil \/ Remaining(taker) = 0
        /\ levels' = IF volume[Best] = 0 THEN [levels EXCEPT ![b] = Tail(@)] ELSE levels
    BY <1>6, Zenon DEF LeaveLevel
  <2>2. Best \in Ref /\ b \in Book /\ levels[b] # <<>>
    BY <2>1, InsideLevel, Zenon
  <2>3. StepsLeft = 2 * (Remaining(taker) + n) + 1
    BY <2>1, Zenon DEF StepsLeft
  <2>4. Remaining(taker)' = Remaining(taker)
    BY <1>2, <2>1, Zenon DEF Remaining
  <2>5. CASE volume[Best] = 0
    <3>1. Len(levels'[b]) = n - 1
      <4>1. levels'[b] = Tail(levels[b])
        BY <2>1, <2>2, <2>5, Zenon DEF BookInv, TypeOK
      <4> QED BY <1>3, <2>2, <4>1, HeadTailProperties, Zenon
    <3>2. StepsLeft' \in {2 * (Remaining(taker) + (n - 1)) + 2, 2 * (Remaining(taker) + (n - 1))}
      <4>1. StepsLeft' = 2 * (Remaining(taker)' + Len(levels'[b])) + IF MatchGoesOn' THEN 2 ELSE 0
        BY <1>2, <2>1, Zenon DEF StepsLeft
      <4> QED BY <1>3, <2>4, <3>1, <4>1
    <3> HIDE DEF n
    <3> QED BY <1>3, <2>3, <3>2
  <2>6. CASE volume[Best] # 0
    <3>1. Remaining(taker) = 0 /\ levels' = levels
      BY <2>1, <2>2, <2>6, Zenon
    <3>2. ~MatchGoesOn'
      BY <2>4, <3>1 DEF MatchGoesOn
    <3>3. StepsLeft' = 2 * (Remaining(taker) + n) + 0
      BY <1>2, <2>1, <2>4, <3>1, <3>2, Zenon DEF StepsLeft
    <3> HIDE DEF n
    <3> QED BY <1>3, <2>3, <3>3
  <2> QED BY <2>5, <2>6, Zenon
<1> QED BY <1>1, <1>4, <1>5, <1>6, Zenon

-----------------------------------------------------------------------------
\* No two places of the slices hold the same level.
LEMMA LevelsDistinct ==
    ASSUME BookInv, NEW b \in Book, NEW c \in Book,
           NEW k \in 1 .. Len(levels[b]), NEW j \in 1 .. Len(levels[c]),
           levels[b][k] = levels[c][j]
    PROVE  b = c /\ k = j
<1>1. /\ levels[b] \in Seq(Ref) /\ Len(levels[b]) \in Nat
      /\ levels[c] \in Seq(Ref) /\ Len(levels[c]) \in Nat
  BY LenProperties, Zenon DEF BookInv, TypeOK
<1>2. LevelPrice(levels[b][k]) \in Nat
  <2>1. levels[b][k] \in Ref
    BY <1>1, ElementOfSeq, Zenon
  <2> QED BY <2>1, Zenon DEF BookInv, TypeOK, OrderRec, LevelPrice
<1>3. b = c
  <2>1. CASE b = "bids" /\ c = "asks"
    BY <1>2, <2>1 DEF BookInv, BookUncrossed
  <2>2. CASE b = "asks" /\ c = "bids"
    BY <1>2, <2>2 DEF BookInv, BookUncrossed
  <2> QED BY <2>1, <2>2 DEF Book
<1>4. ~(k < j) /\ ~(j < k)
  BY <1>2, <1>3 DEF BookInv, LevelsSorted, Ahead
<1> QED BY <1>1, <1>3, <1>4

\* The members of a slice are its elements.
LEMMA SliceElements ==
    ASSUME NEW S, NEW s \in Seq(S), NEW x
    PROVE  x \in Elements(s) <=> \E k \in 1 .. Len(s) : s[k] = x
BY LenProperties, Zenon DEF Elements

\* Dropping the level at one index takes exactly that level out.
LEMMA TakeOut ==
    ASSUME BookInv, NEW b \in Book, NEW idx \in 1 .. Len(levels[b]),
           NEW s \in Seq(Ref),
           Len(s) = Len(levels[b]) - 1,
           \A k \in 1 .. Len(levels[b]) - 1 :
                s[k] = IF k < idx THEN levels[b][k] ELSE levels[b][k + 1]
    PROVE  Elements(s) = Elements(levels[b]) \ {levels[b][idx]}
<1> DEFINE t == levels[b]
<1>1. t \in Seq(Ref) /\ Len(t) \in Nat
  BY LenProperties, Zenon DEF BookInv, TypeOK
<1>2. \A k, j \in 1 .. Len(t) : t[k] = t[j] => k = j
  BY LevelsDistinct, Zenon
<1> HIDE DEF t
<1>3. ASSUME NEW x \in Elements(s) PROVE x \in Elements(t) \ {t[idx]}
  <2>1. PICK k \in 1 .. Len(s) : s[k] = x
    BY <1>3, SliceElements, Zenon
  <2>2. PICK j \in 1 .. Len(t) : t[j] = x /\ j # idx
    <3>1. CASE k < idx
      BY <1>1, <2>1, <3>1 DEF t
    <3>2. CASE ~(k < idx)
      <4>1. k + 1 \in 1 .. Len(t) /\ t[k + 1] = x /\ k + 1 # idx
        BY <1>1, <2>1, <3>2 DEF t
      <4> QED BY <4>1, Zenon
    <3> QED BY <3>1, <3>2, Zenon
  <2>3. x \in Elements(t)
    BY <1>1, <2>2, SliceElements, Zenon
  <2>4. x # t[idx]
    BY <1>2, <2>2, Zenon DEF t
  <2> QED BY <2>3, <2>4, Zenon
<1>4. ASSUME NEW x \in Elements(t) \ {t[idx]} PROVE x \in Elements(s)
  <2>1. PICK k \in 1 .. Len(t) : t[k] = x
    BY <1>1, <1>4, SliceElements, Zenon
  <2>2. k # idx
    BY <1>4, <2>1, Zenon
  <2>3. \E j \in 1 .. Len(s) : s[j] = x
    <3>1. CASE k < idx
      BY <1>1, <2>1, <3>1 DEF t
    <3>2. CASE ~(k < idx)
      <4>1. k - 1 \in 1 .. Len(s) /\ s[k - 1] = x
        BY <1>1, <2>1, <2>2, <3>2 DEF t
      <4> QED BY <4>1, Zenon
    <3> QED BY <3>1, <3>2, Zenon
  <2> QED BY <2>3, SliceElements, Zenon
<1> QED BY <1>3, <1>4, Zenon DEF t

\* Inserting a level adds exactly that level.
LEMMA PutIn ==
    ASSUME NEW t \in Seq(Ref), NEW o \in Ref, NEW idx \in 1 .. Len(t) + 1
    PROVE  Elements(InsertAt(t, idx, o)) = Elements(t) \cup {o}
<1> DEFINE s == InsertAt(t, idx, o)
<1>1. /\ s \in Seq(Ref)
      /\ Len(s) = Len(t) + 1
      /\ \A k \in 1 .. Len(t) + 1 :
            s[k] = IF k < idx THEN t[k] ELSE IF k = idx THEN o ELSE t[k - 1]
  BY InsertAtProperties
<1>2. Len(t) \in Nat
  BY LenProperties, Zenon
<1> HIDE DEF s
<1>3. ASSUME NEW x \in Elements(s) PROVE x \in Elements(t) \cup {o}
  <2>1. PICK k \in 1 .. Len(s) : s[k] = x
    BY <1>1, <1>3, SliceElements, Zenon
  <2>2. CASE k = idx
    BY <1>1, <1>2, <2>1, <2>2
  <2>3. CASE k < idx
    <3>1. k \in 1 .. Len(t) /\ t[k] = x
      BY <1>1, <1>2, <2>1, <2>3
    <3> QED BY <3>1, SliceElements, Zenon
  <2>4. CASE k > idx
    <3>1. k - 1 \in 1 .. Len(t) /\ t[k - 1] = x
      BY <1>1, <1>2, <2>1, <2>4
    <3> QED BY <3>1, SliceElements, Zenon
  <2> QED BY <1>1, <1>2, <2>1, <2>2, <2>3, <2>4
<1>4. ASSUME NEW x \in Elements(t) PROVE x \in Elements(s)
  <2>1. PICK k \in 1 .. Len(t) : t[k] = x
    BY <1>4, SliceElements, Zenon
  <2>2. CASE k < idx
    <3>1. k \in 1 .. Len(s) /\ s[k] = x
      BY <1>1, <1>2, <2>1, <2>2
    <3> QED BY <1>1, <3>1, SliceElements, Zenon
  <2>3. CASE ~(k < idx)
    <3>1. k + 1 \in 1 .. Len(s) /\ s[k + 1] = x
      BY <1>1, <1>2, <2>1, <2>3
    <3> QED BY <1>1, <3>1, SliceElements, Zenon
  <2> QED BY <2>2, <2>3, Zenon
<1>5. o \in Elements(s)
  <2>1. idx \in 1 .. Len(s) /\ s[idx] = o
    BY <1>1, <1>2
  <2> QED BY <1>1, <2>1, SliceElements, Zenon
<1> QED BY <1>3, <1>4, <1>5, Zenon DEF s

-----------------------------------------------------------------------------
\* A level's total is zero when it has no orders, and only then.
ZeroMeansEmpty == \A l \in Ref : volume[l] = 0 <=> Members(l) = {}

\* The parts of ListingInv.
QuantitiesFit == \A o \in Ref : MaxOrders * order[o].qty < Modulus
Listed(o) ==
    limitOf[o] # Nil =>
        limitOf[o] \in Elements(levels[OwnBook(o)]) /\ order[o].price = LevelPrice(limitOf[o])
Occupied(l) == Members(l) = {} => pc = "fill" /\ l = Best

\* ListingInv by its parts: the quantities, the orders and the levels.
LEMMA ListingParts ==
    ListingInv <=> /\ QuantitiesFit
                   /\ \A o \in Ref : Listed(o)
                   /\ \A b \in Book : \A l \in Elements(levels[b]) : Occupied(l)
BY DEF ListingInv, QuantitiesFit, Listed, Occupied, ListedLevels, Book

\* The same in the next state.
LEMMA ListingNext ==
    ASSUME QuantitiesFit', \A o \in Ref : Listed(o)',
           \A b \in Book : \A l \in Elements(levels'[b]) : Occupied(l)'
    PROVE  ListingInv'
BY Zenon DEF ListingInv, QuantitiesFit, Listed, Occupied, ListedLevels, Book

\* A listed level is a level, and one that is not newer than the orders.
LEMMA ListedRef ==
    ASSUME BookInv, NEW b \in Book, NEW l \in Elements(levels[b])
    PROVE  l \in Ref /\ l <= count
<1>1. levels[b] \in Seq(Ref)
  BY Zenon DEF BookInv, TypeOK
<1>2. PICK k \in 1 .. Len(levels[b]) : levels[b][k] = l
  BY <1>1, SliceElements, Zenon
<1>3. levels[b][k] \in Ref /\ levels[b][k] <= count
  BY <1>1, ElementOfSeq, Zenon DEF BookInv, Arrived
<1> QED BY <1>2, <1>3, Zenon

\* A step that leaves levels, queues and the orders that have arrived alone,
\* outside the inner loop.
LEMMA ListingUnchanged ==
    ASSUME BookInv, ListingInv, UNCHANGED <<levels, limitOf>>, QuantitiesFit', pc # "fill",
           \A o \in Ref : o <= count => order'[o] = order[o]
    PROVE  ListingInv'
<1>1. ASSUME NEW o \in Ref PROVE Listed(o)'
  <2> SUFFICES ASSUME limitOf[o] # Nil
               PROVE  /\ limitOf[o] \in Elements(levels[OwnBook(o)'])
                      /\ order'[o].price = order'[limitOf[o]].price
    BY Zenon DEF Listed, LevelPrice
  <2>1. limitOf[o] \in Elements(levels[OwnBook(o)]) /\ order[o].price = LevelPrice(limitOf[o])
    BY ListingParts, Zenon DEF Listed
  <2>2. o <= count /\ OwnBook(o) \in Book
    BY Zenon DEF BookInv, Arrived, OwnBook, Book
  <2>3. limitOf[o] \in Ref /\ limitOf[o] <= count
    BY <2>1, <2>2, ListedRef, Zenon
  <2>4. order'[o] = order[o] /\ order'[limitOf[o]] = order[limitOf[o]]
    BY <2>2, <2>3, Zenon
  <2> QED BY <2>1, <2>4, Zenon DEF OwnBook, LevelPrice
<1>2. ASSUME NEW b \in Book, NEW l \in Elements(levels[b]) PROVE Members(l)' # {}
  BY ListingParts, Zenon DEF Occupied, Members
<1>3. \A b \in Book : \A l \in Elements(levels'[b]) : Occupied(l)'
  BY <1>2, Zenon DEF Occupied
<1> QED BY <1>1, <1>3, ListingNext, Zenon

\* Process and the loop heads keep ListingInv.
LEMMA ListingProcess ==
    ASSUME TotalsFit, BookInv, ListingInv, NEW i \in Ids, NEW r \in Requests, Process(i, r)
    PROVE  ListingInv'
<1>1. /\ UNCHANGED <<limitOf, levels>> /\ count \in Nat /\ pc = "idle"
      /\ order' = [order EXCEPT ![count + 1] = NewOrder(i, r)]
  BY DEF Process, limitVars, bookVars, BookInv, TypeOK
<1>2. order \in [Ref -> OrderRec]
  BY Zenon DEF BookInv, TypeOK
<1>3. QuantitiesFit'
  <2> SUFFICES ASSUME NEW o \in Ref PROVE MaxOrders * order'[o].qty < Modulus
    BY Zenon DEF QuantitiesFit
  <2>1. order'[o].qty \in {order[o].qty, r.qty}
    BY <1>1, <1>2, Zenon DEF NewOrder
  <2>2. MaxOrders * order[o].qty < Modulus /\ MaxOrders * r.qty < Modulus
    BY ListingParts, Zenon DEF QuantitiesFit, TotalsFit
  <2> QED BY <2>1, <2>2, Zenon
<1>4. \A o \in Ref : o <= count => order'[o] = order[o]
  BY <1>1, <1>2 DEF Ref
<1> QED BY <1>1, <1>3, <1>4, ListingUnchanged, Zenon

\* Entering a level (orderbook.go:114-125) changes no level and no queue.
LEMMA ListingEnter ==
    ASSUME BookInv, ListingInv, EnterLevel
    PROVE  ListingInv'
<1>1. UNCHANGED <<limitOf, levels, order>> /\ pc = "match"
  BY Zenon DEF EnterLevel, limitVars, bookVars
<1>2. QuantitiesFit'
  BY <1>1, ListingParts, Zenon DEF QuantitiesFit
<1> QED BY <1>1, <1>2, ListingUnchanged, Zenon

\* A match may empty the level it is made in, and no other.
LEMMA ListingFill ==
    ASSUME BookInv, ListingInv, FillHead
    PROVE  ListingInv'
<1>1. /\ UNCHANGED <<order, levels, pc, taker>> /\ Maker \in Ref /\ pc = "fill"
      /\ limitOf[Maker] = Best /\ Best \in Ref
      /\ limitOf' = limitOf \/ limitOf' = [limitOf EXCEPT ![Maker] = Nil]
  BY FillFacts, Zenon
<1>2. QuantitiesFit'
  BY <1>1, ListingParts, Zenon DEF QuantitiesFit
<1>3. LimitTypeOK /\ limitOf \in [Ref -> Ptr]
  BY Zenon DEF BookInv, TypeOK, LimitTypeOK
<1>4. Best' = Best
  BY <1>1, Zenon DEF Best, MakerBook
<1>5. ASSUME NEW o \in Ref PROVE Listed(o)'
  <2>1. limitOf'[o] # Nil => limitOf'[o] = limitOf[o]
    BY <1>1, <1>3, Zenon
  <2>2. Listed(o)
    BY ListingParts, Zenon
  <2> QED BY <1>1, <2>1, <2>2, Zenon DEF Listed, OwnBook, LevelPrice
<1>6. ASSUME NEW b \in Book, NEW l \in Elements(levels[b]) PROVE Occupied(l)'
  <2>1. l \in Ref
    BY ListedRef, Zenon
  <2>2. l = Best \/ Members(l)' = Members(l)
    <3>1. CASE limitOf' = limitOf
      BY <3>1, Zenon DEF Members
    <3>2. CASE limitOf' = [limitOf EXCEPT ![Maker] = Nil]
      BY <1>1, <1>3, <2>1, <3>2, LeaveMembers, Zenon
    <3> QED BY <1>1, <3>1, <3>2, Zenon
  <2>3. Occupied(l)
    BY ListingParts, Zenon
  <2> QED BY <1>1, <1>4, <2>2, <2>3, Zenon DEF Occupied
<1> QED BY <1>1, <1>2, <1>5, <1>6, ListingNext, Zenon

\* matchOrder drops the first level exactly when it is empty
\* (orderbook.go:151-153).
LEMMA ListingLeave ==
    ASSUME BookInv, ListingInv, ZeroMeansEmpty, LeaveLevel
    PROVE  ListingInv'
<1> DEFINE b == MakerBook(taker)
<1>1. /\ pc = "fill" /\ UNCHANGED <<limitOf, order, taker>>
      /\ levels' = IF volume[Best] = 0 THEN [levels EXCEPT ![b] = Tail(@)] ELSE levels
  BY Zenon DEF LeaveLevel, limitVars
<1>2. /\ b \in Book /\ levels[b] \in Seq(Ref) /\ levels[b] # <<>> /\ Best \in Ref
  BY <1>1, InsideLevel, Zenon
<1> HIDE DEF b
<1>3. /\ \A o \in Ref : MaxOrders * order[o].qty < Modulus
      /\ \A o \in Ref : Listed(o)
      /\ \A d \in Book : \A l \in Elements(levels[d]) : Occupied(l)
  BY ListingParts, Zenon DEF QuantitiesFit
<1>4. QuantitiesFit'
  BY <1>1, <1>3, Zenon DEF QuantitiesFit
<1>5. volume[Best] = 0 <=> Members(Best) = {}
  BY <1>2, Zenon DEF ZeroMeansEmpty
<1>6. \A l : Members(l)' = Members(l)
  BY <1>1, Zenon DEF Members
<1>7. \A d \in Book : Elements(levels'[d]) = {l \in Elements(levels[d]) : Members(l) # {}}
  <2>1. \A d \in Book : \A l \in Elements(levels[d]) : Members(l) = {} => l = Best
    BY <1>3, Zenon DEF Occupied
  <2>2. CASE volume[Best] # 0
    BY <1>1, <1>5, <2>1, <2>2, Zenon
  <2>3. CASE volume[Best] = 0
    <3> DEFINE s == Tail(levels[b])
    <3>1. /\ s \in Seq(Ref)
          /\ Len(s) = Len(levels[b]) - 1
          /\ \A k \in 1 .. Len(levels[b]) - 1 : s[k] = levels[b][k + 1]
      BY <1>2, HeadTailProperties, Zenon
    <3>2. 1 \in 1 .. Len(levels[b]) /\ levels[b][1] = Best
      BY <1>2, EmptySeq, HeadTailProperties DEF Best, b
    <3>3. levels' = [levels EXCEPT ![b] = s] /\ levels \in [Book -> Seq(Ref)]
      BY <1>1, <1>2, <2>3, Zenon DEF BookInv, TypeOK
    <3> HIDE DEF s
    <3>4. \A k \in 1 .. Len(levels[b]) - 1 :
            s[k] = IF k < 1 THEN levels[b][k] ELSE levels[b][k + 1]
      BY <3>1, <1>2, LenProperties
    <3>5. Elements(s) = Elements(levels[b]) \ {Best}
      BY <1>2, <3>1, <3>2, <3>4, TakeOut
    <3>6. \A d \in Book \ {b} : Best \notin Elements(levels[d])
      <4> SUFFICES ASSUME NEW d \in Book, d # b, Best \in Elements(levels[d]) PROVE FALSE
        BY Zenon
      <4>1. PICK k \in 1 .. Len(levels[d]) : levels[d][k] = Best
        BY <3>3, SliceElements
      <4> QED BY <1>2, <3>2, <4>1, LevelsDistinct
    <3>7. levels'[b] = s /\ \A d \in Book \ {b} : levels'[d] = levels[d]
      BY <1>2, <3>3, Zenon
    <3>8. Members(Best) = {}
      BY <1>5, <2>3, Zenon
    <3> QED BY <2>1, <3>5, <3>6, <3>7, <3>8
  <2> QED BY <2>2, <2>3, Zenon
<1>8. ASSUME NEW o \in Ref PROVE Listed(o)'
  <2> SUFFICES ASSUME limitOf[o] # Nil
               PROVE  limitOf[o] \in Elements(levels'[OwnBook(o)]) /\ order[o].price = LevelPrice(limitOf[o])
    BY <1>1, Zenon DEF Listed, LevelPrice, OwnBook
  <2>1. limitOf[o] \in Elements(levels[OwnBook(o)]) /\ order[o].price = LevelPrice(limitOf[o])
    BY <1>3, Zenon DEF Listed
  <2>2. OwnBook(o) \in Book /\ o \in Members(limitOf[o])
    BY Zenon DEF OwnBook, Book, Members
  <2> QED BY <1>7, <2>1, <2>2, Zenon
<1>9. \A d \in Book : \A l \in Elements(levels'[d]) : Occupied(l)'
  BY <1>6, <1>7, Zenon DEF Occupied
<1> QED BY <1>4, <1>8, <1>9, ListingNext, Zenon

\* A resting remainder joins a listed level of its side and price.
LEMMA ListingFinish ==
    ASSUME BookInv, ListingInv, FinishProcess
    PROVE  ListingInv'
<1>1. /\ pc = "match" /\ UNCHANGED <<order, taker>> /\ taker \in Ref /\ limitOf[taker] = Nil
      /\ \/ UNCHANGED <<limitOf, levels>>
         \/ \E l \in Ref, idx \in 1 .. Len(levels[OwnBook(taker)]) + 1 :
                    /\ limitOf' = [limitOf EXCEPT ![taker] = l]
                    /\ IF Found(OwnBook(taker), order[taker].price, idx)
                       THEN l = levels[OwnBook(taker)][idx] /\ UNCHANGED levels
                       ELSE /\ l = taker
                            /\ levels' = [levels EXCEPT ![OwnBook(taker)] = InsertAt(@, idx, taker)]
  BY FinishFacts, ZenonT(30)
<1>2. QuantitiesFit'
  BY <1>1, ListingParts, Zenon DEF QuantitiesFit
<1>3. CASE UNCHANGED <<limitOf, levels>>
  BY <1>1, <1>2, <1>3, ListingUnchanged, Zenon
<1> DEFINE b == OwnBook(taker)
<1>4. ASSUME NEW l \in Ref, NEW idx \in 1 .. Len(levels[b]) + 1,
             limitOf' = [limitOf EXCEPT ![taker] = l],
             IF Found(b, order[taker].price, idx)
             THEN l = levels[b][idx] /\ UNCHANGED levels
             ELSE l = taker /\ levels' = [levels EXCEPT ![b] = InsertAt(@, idx, taker)]
      PROVE  ListingInv'
  <2>1. b \in Book /\ levels \in [Book -> Seq(Ref)] /\ limitOf \in [Ref -> Ptr] /\ LimitTypeOK
    BY Zenon DEF OwnBook, Book, BookInv, TypeOK, LimitTypeOK
  <2>2. OwnBook(taker)' = b
    BY <1>1, Zenon DEF OwnBook
  <2> HIDE DEF b
  <2>3. /\ LevelPrice(l) = order[taker].price
        /\ \A d \in Book : Elements(levels'[d]) = IF d = b THEN Elements(levels[d]) \cup {l} ELSE Elements(levels[d])
    <3>1. CASE Found(b, order[taker].price, idx)
      <4>1. idx \in 1 .. Len(levels[b]) /\ LevelPrice(l) = order[taker].price
        BY <1>4, <2>1, <3>1, LenProperties DEF Found
      <4>2. l \in Elements(levels[b])
        BY <1>4, <2>1, <3>1, <4>1, SliceElements, Zenon
      <4> QED BY <1>4, <3>1, <4>1, <4>2, Zenon
    <3>2. CASE ~Found(b, order[taker].price, idx)
      <4>1. levels' = [levels EXCEPT ![b] = InsertAt(levels[b], idx, taker)] /\ l = taker
        BY <1>4, <2>1, <3>2, Zenon
      <4>2. Elements(InsertAt(levels[b], idx, taker)) = Elements(levels[b]) \cup {taker}
        BY <1>1, <2>1, PutIn, Zenon
      <4> QED BY <2>1, <4>1, <4>2, Zenon DEF LevelPrice
    <3> QED BY <3>1, <3>2, Zenon
  <2>4. ASSUME NEW o \in Ref PROVE Listed(o)'
    <3>1. OwnBook(o)' = OwnBook(o) /\ OwnBook(o) \in Book /\ Listed(o)
      BY <1>1, ListingParts, Zenon DEF OwnBook, Book
    <3>2. CASE o = taker
      <4>1. limitOf'[o] = l /\ l \in Elements(levels'[b])
        BY <1>1, <1>4, <2>1, <2>3, <3>2, Zenon
      <4> QED BY <1>1, <2>3, <3>2, <4>1, Zenon DEF Listed, LevelPrice, OwnBook, b
    <3>3. CASE o # taker
      <4>1. limitOf'[o] = limitOf[o]
        BY <1>4, <2>1, <3>3, Zenon
      <4>2. Elements(levels[OwnBook(o)]) \subseteq Elements(levels'[OwnBook(o)])
        BY <2>3, <3>1, Zenon
      <4> QED BY <1>1, <3>1, <4>1, <4>2, Zenon DEF Listed, LevelPrice, OwnBook
    <3> QED BY <3>2, <3>3, Zenon
  <2>5. ASSUME NEW d \in Book, NEW k \in Elements(levels'[d]) PROVE Members(k)' # {}
    <3>1. CASE k = l
      BY <1>1, <1>4, <2>1, <3>1, JoinMembers, Zenon
    <3>2. CASE k # l
      <4>1. k \in Elements(levels[d])
        BY <2>3, <3>2, Zenon
      <4>2. k \in Ref /\ Members(k) # {}
        BY <1>1, <4>1, ListedRef, ListingParts, Zenon DEF Occupied
      <4> QED BY <1>1, <1>4, <2>1, <3>2, <4>2, JoinMembers, Zenon
    <3> QED BY <3>1, <3>2, Zenon
  <2> QED BY <1>2, <2>4, <2>5, ListingNext, Zenon DEF Occupied
<1> QED BY <1>1, <1>3, <1>4, Zenon

\* removeLimitLevel (orderbook.go:187-198) finds the level itself, since the
\* slice holds each price once.
LEMMA SearchFinds ==
    ASSUME BookInv, NEW b \in Book, NEW j \in 1 .. Len(levels[b]),
           NEW idx \in 1 .. Len(levels[b]) + 1,
           SearchIndex(b, LevelPrice(levels[b][j]), idx)
    PROVE  idx = j /\ Found(b, LevelPrice(levels[b][j]), idx)
<1> DEFINE p == LevelPrice(levels[b][j])
<1>1. levels[b] \in Seq(Ref) /\ Len(levels[b]) \in Nat
  BY LenProperties, Zenon DEF BookInv, TypeOK
<1>2. \A k \in 1 .. Len(levels[b]) : LevelPrice(levels[b][k]) \in Nat
  <2>1. \A k \in 1 .. Len(levels[b]) : levels[b][k] \in Ref
    BY <1>1, ElementOfSeq, Zenon
  <2>2. \A o \in Ref : order[o].price \in Nat
    BY Zenon DEF BookInv, TypeOK, OrderRec
  <2> QED BY <2>1, <2>2, Zenon DEF LevelPrice
<1>3. ~(j < idx)
  BY <1>1, <1>2 DEF SearchIndex
<1>4. ~(idx < j)
  <2> SUFFICES ASSUME idx < j PROVE FALSE
    BY Zenon
  <2>1. idx \in 1 .. Len(levels[b])
    BY <1>1
  <2>2. Ahead(b, idx, j)
    BY <2>1, Zenon DEF BookInv, LevelsSorted
  <2> QED BY <1>1, <1>2, <2>1, <2>2 DEF SearchIndex, Ahead
<1> QED BY <1>1, <1>3, <1>4 DEF Found

\* Cancel drops the level of the cancelled order exactly when it was the last
\* one there (orderbook.go:76-83).
LEMMA ListingCancel ==
    ASSUME BookInv, ListingInv, QuantitiesFit' => ZeroMeansEmpty', NEW i \in Ids, Cancel(i)
    PROVE  ListingInv'
<1>1. pc = "idle" /\ UNCHANGED <<order, pc, taker>>
  BY CancelFacts, Zenon
<1>2. PICK o \in Ref, l \in Ref :
                /\ limitOf[o] = l /\ o \in Members(l)
                /\ limitOf' = [limitOf EXCEPT ![o] = Nil]
                /\ IF volume'[l] = 0
                   THEN RemoveLimitLevel(OwnBook(o), LevelPrice(l))
                   ELSE UNCHANGED levels
  BY CancelFacts, ZenonT(30)
<1>3. QuantitiesFit'
  BY <1>1, ListingParts, Zenon DEF QuantitiesFit
<1>4. volume'[l] = 0 <=> Members(l)' = {}
  BY <1>3, Zenon DEF ZeroMeansEmpty
<1>5. LimitTypeOK /\ limitOf \in [Ref -> Ptr] /\ levels \in [Book -> Seq(Ref)]
  BY Zenon DEF BookInv, TypeOK, LimitTypeOK
<1>6. /\ \A q \in Ref : Listed(q)
      /\ \A d \in Book : \A k \in Elements(levels[d]) : k \in Ref /\ Members(k) # {}
  BY <1>1, ListedRef, ListingParts, Zenon DEF Occupied
<1>7. \A k \in Ref : Members(k)' = IF k = l THEN Members(k) \ {o} ELSE Members(k)
  BY <1>2, <1>5, LeaveMembers, Zenon
<1> DEFINE b == OwnBook(o)
<1>8. b \in Book /\ l \in Elements(levels[b])
  BY <1>2, <1>6 DEF Listed, OwnBook, Book, Ref, Nil
<1> HIDE DEF b
<1>9. \A d \in Book : Elements(levels'[d]) = {k \in Elements(levels[d]) : Members(k)' # {}}
  <2>1. CASE volume'[l] # 0
    <3>1. levels' = levels /\ Members(l)' # {}
      BY <1>2, <1>4, <2>1, Zenon
    <3> QED BY <1>6, <1>7, <3>1, Zenon
  <2>2. CASE volume'[l] = 0
    <3>1. PICK j \in 1 .. Len(levels[b]) : levels[b][j] = l
      BY <1>5, <1>8, SliceElements
    <3>2. PICK idx \in 1 .. Len(levels[b]) + 1 :
            /\ SearchIndex(b, LevelPrice(l), idx)
            /\ levels' = IF Found(b, LevelPrice(l), idx)
                         THEN [levels EXCEPT ![b] = RemoveAt(@, idx)]
                         ELSE levels
      BY <1>2, <2>2, ZenonT(30) DEF RemoveLimitLevel, b
    <3>3. idx = j /\ Found(b, LevelPrice(l), idx)
      BY <1>8, <3>1, <3>2, SearchFinds, Zenon
    <3> DEFINE s == RemoveAt(levels[b], j)
    <3>4. /\ s \in Seq(Ref)
          /\ Len(s) = Len(levels[b]) - 1
          /\ \A k \in 1 .. Len(levels[b]) - 1 :
                s[k] = IF k < j THEN levels[b][k] ELSE levels[b][k + 1]
      BY <1>5, <1>8, RemoveAtProperties, ZenonT(30)
    <3>5. levels'[b] = s /\ \A d \in Book \ {b} : levels'[d] = levels[d]
      BY <1>5, <1>8, <3>2, <3>3, Zenon
    <3> HIDE DEF s
    <3>6. Elements(s) = Elements(levels[b]) \ {l}
      BY <1>8, <3>1, <3>4, TakeOut, Zenon
    <3>7. \A d \in Book \ {b} : l \notin Elements(levels[d])
      <4> SUFFICES ASSUME NEW d \in Book, d # b, l \in Elements(levels[d]) PROVE FALSE
        BY Zenon
      <4>1. PICK k \in 1 .. Len(levels[d]) : levels[d][k] = l
        BY <1>5, SliceElements
      <4> QED BY <1>8, <3>1, <4>1, LevelsDistinct, Zenon
    <3>8. Members(l)' = {}
      BY <1>4, <2>2, Zenon
    <3>9. ASSUME NEW d \in Book
          PROVE  Elements(levels'[d]) = {k \in Elements(levels[d]) : Members(k)' # {}}
      <4>1. \A k \in Elements(levels[d]) : Members(k)' # {} <=> k # l
        BY <1>6, <1>7, <3>8, Zenon
      <4>2. Elements(levels'[d]) = Elements(levels[d]) \ {l}
        BY <3>5, <3>6, <3>7
      <4> QED BY <4>1, <4>2, Zenon
    <3> QED BY <3>9, Zenon
  <2> QED BY <2>1, <2>2, Zenon
<1>10. ASSUME NEW q \in Ref PROVE Listed(q)'
  <2> SUFFICES ASSUME limitOf'[q] # Nil
               PROVE  limitOf'[q] \in Elements(levels'[OwnBook(q)]) /\ order[q].price = LevelPrice(limitOf'[q])
    BY <1>1, Zenon DEF Listed, LevelPrice, OwnBook
  <2>1. limitOf'[q] = limitOf[q]
    BY <1>2, <1>5, Zenon
  <2>2. limitOf[q] \in Elements(levels[OwnBook(q)]) /\ order[q].price = LevelPrice(limitOf[q])
    BY <1>6, <2>1, Zenon DEF Listed
  <2>3. OwnBook(q) \in Book /\ q \in Members(limitOf[q])'
    BY <2>1, Zenon DEF OwnBook, Book, Members
  <2> QED BY <1>9, <2>1, <2>2, <2>3, Zenon
<1>11. \A d \in Book : \A k \in Elements(levels'[d]) : Occupied(k)'
  BY <1>9, Zenon DEF Occupied
<1> QED BY <1>3, <1>10, <1>11, ListingNext, Zenon

-----------------------------------------------------------------------------
\* What is left of an order is a natural number.
LEMMA UnfilledQuantities ==
    ASSUME BookInv
    PROVE  \A o \in Ref : Remaining(o) \in Nat /\ Unfilled[o] = Remaining(o)
BY Quantities, Zenon DEF Unfilled

-----------------------------------------------------------------------------

\* The state of the abstract book.
Resting == {o \in Ref : limitOf[o] \in ListedLevels}
Active == IF pc = "idle" THEN Nil ELSE taker

\* The resting orders of the abstract book are those in a queue.
LEMMA RestingIs ==
    BookInv /\ ListingInv => Resting = {o \in Ref : limitOf[o] # Nil}
<1> SUFFICES ASSUME BookInv, ListingInv, NEW o \in Ref
             PROVE  limitOf[o] \in ListedLevels <=> limitOf[o] # Nil
  BY Zenon DEF Resting
<1>1. ASSUME limitOf[o] \in ListedLevels PROVE limitOf[o] # Nil
  <2>1. "bids" \in Book /\ "asks" \in Book
    BY Zenon DEF Book
  <2>2. limitOf[o] \in Ref
    BY <1>1, <2>1, ListedRef, Zenon DEF ListedLevels
  <2> QED BY <2>2 DEF Ref, Nil
<1>2. ASSUME limitOf[o] # Nil PROVE limitOf[o] \in ListedLevels
  BY <1>2, ListingParts, Zenon DEF Listed, OwnBook, ListedLevels
<1> QED BY <1>1, <1>2, Zenon

\* The same in the next state.
LEMMA RestingIsNext ==
    (BookInv /\ ListingInv)' => Resting' = {o \in Ref : limitOf'[o] # Nil}
<1>1. (BookInv /\ ListingInv => Resting = {o \in Ref : limitOf[o] # Nil})'
  BY RestingIs, PTL
<1> QED BY <1>1, Zenon

\* A resting order is in a level of its side, at its price.
LEMMA RestsAt ==
    ASSUME BookInv, ListingInv, NEW n \in Ref, limitOf[n] # Nil
    PROVE  /\ OwnBook(n) \in Book
           /\ \E k \in 1 .. Len(levels[OwnBook(n)]) :
                /\ levels[OwnBook(n)][k] = limitOf[n]
                /\ LevelPrice(levels[OwnBook(n)][k]) = order[n].price
<1>1. OwnBook(n) \in Book
  BY Zenon DEF OwnBook, Book
<1>2. limitOf[n] \in Elements(levels[OwnBook(n)]) /\ order[n].price = LevelPrice(limitOf[n])
  BY ListingParts, Zenon DEF Listed
<1>3. levels[OwnBook(n)] \in Seq(Ref)
  BY <1>1, Zenon DEF BookInv, TypeOK
<1> QED BY <1>1, <1>2, <1>3, SliceElements

\* The resting orders that o may trade with.
CanTrade(o, n) ==
    /\ limitOf[n] # Nil
    /\ (order[n].side = Buy) # (order[o].side = Buy)
    /\ order[o].type = LimitOrder =>
        /\ order[o].side = Buy => order[n].price <= order[o].price
        /\ order[o].side = Sell => order[n].price >= order[o].price

\* What the abstract book lets an order trade with, in terms of the queues.
LEMMA MatchableIs ==
    ASSUME BookInv, ListingInv
    PROVE  \A o : Abstract!Matchable(o) = {n \in Ref : CanTrade(o, n)}
<1>1. {o \in Ref : limitOf[o] \in ListedLevels} = {o \in Ref : limitOf[o] # Nil}
  BY RestingIs, Zenon DEF Resting
<1> QED BY <1>1, Zenon DEF Abstract!Matchable, Abstract!IsBuy, Abstract!Buy, Abstract!Sell,
                   Abstract!LimitOrder, CanTrade, Buy, Sell, LimitOrder

\* An arriving order enters the abstract book.
LEMMA SubmitStep ==
    ASSUME BookInv, NEW i \in Ids, NEW r \in Requests, Process(i, r)
    PROVE  Abstract!Submit(i, r)
<1>1. /\ pc = "idle" /\ count < MaxOrders /\ count' = count + 1 /\ taker' = count + 1
      /\ order' = [order EXCEPT ![count + 1] = NewOrder(i, r)]
      /\ trades' = <<>>
      /\ pc' = IF r.qty = 0 THEN "idle" ELSE "match"
      /\ UNCHANGED <<limitOf, levels, filled>>
  BY Zenon DEF Process, limitVars, bookVars
<1>2. count + 1 \in Ref /\ order \in [Ref -> OrderRec] /\ count \in Nat
  BY <1>1, LimitAssumption DEF BookInv, TypeOK, Ref
<1>3. Unfilled' = [Unfilled EXCEPT ![count + 1] = r.qty]
  <2>1. ASSUME NEW o \in Ref
        PROVE  Unfilled'[o] = [Unfilled EXCEPT ![count + 1] = r.qty][o]
    <3>1. CASE o = count + 1
      <4>1. filled[o] = 0 /\ order'[o].qty = r.qty /\ r.qty \in Nat
        BY <1>1, <1>2, <3>1, OrderBookAssumption DEF NewOrder, BookInv, FillBound, Request
      <4> QED BY <1>1, <3>1, <4>1 DEF Unfilled, Remaining
    <3>2. CASE o # count + 1
      BY <1>1, <1>2, <3>2, Zenon DEF Unfilled, Remaining
    <3> QED BY <3>1, <3>2, Zenon
  <2> QED BY <2>1, Zenon DEF Unfilled
<1>4. Resting' = Resting
  BY <1>1, Zenon DEF Resting, ListedLevels
<1>5. Active = Nil /\ Active' = IF r.qty = 0 THEN Nil ELSE count'
  BY <1>1, Zenon DEF Active
<1> QED BY <1>1, <1>3, <1>4, <1>5, Zenon DEF Abstract!Submit, Abstract!Nil, Nil, Resting, Active, NewOrder

\* Entering and leaving a level is not visible in the abstract book.
LEMMA LoopStep ==
    ASSUME BookInv, BookInv', ListingInv, ListingInv', EnterLevel \/ LeaveLevel
    PROVE  UNCHANGED Abstract!vars
<1>1. UNCHANGED <<count, order, filled, limitOf, trades, taker>> /\ pc # "idle" /\ pc' # "idle"
  BY Zenon DEF EnterLevel, LeaveLevel, limitVars
<1>2. Resting' = Resting
  BY <1>1, RestingIs, RestingIsNext, Zenon
<1>3. Unfilled' = Unfilled /\ Active' = Active
  BY <1>1, Zenon DEF Unfilled, Remaining, Active
<1> QED BY <1>1, <1>2, <1>3, Zenon DEF Abstract!vars, Resting, Active

\* A cancelled order is withdrawn.
LEMMA WithdrawStep ==
    ASSUME BookInv, BookInv', ListingInv, ListingInv', NEW i \in Ids, Cancel(i)
    PROVE  Abstract!Withdraw(i)
<1>1. pc = "idle" /\ UNCHANGED <<count, order, filled, pc, taker, trades>>
  BY CancelFacts, Zenon
<1>2. PICK o \in Ref, l \in Ref :
            limitOf[o] = l /\ order[o].id = i /\ limitOf' = [limitOf EXCEPT ![o] = Nil]
  BY CancelFacts, Zenon
<1>3. o \in Resting /\ Resting' = Resting \ {o}
  <2>1. limitOf \in [Ref -> Ptr] /\ limitOf[o] # Nil
    BY <1>2 DEF BookInv, TypeOK, LimitTypeOK, Ref, Nil
  <2>2. {q \in Ref : limitOf'[q] # Nil} = {q \in Ref : limitOf[q] # Nil} \ {o}
    BY <1>2, <2>1, Zenon
  <2> QED BY <2>1, <2>2, RestingIs, RestingIsNext, Zenon
<1>4. Unfilled' = Unfilled /\ Active = Nil /\ Active' = Nil
  BY <1>1, Zenon DEF Unfilled, Remaining, Active
<1> QED BY <1>1, <1>2, <1>3, <1>4, Zenon DEF Abstract!Withdraw, Abstract!Nil, Nil, Resting, Active

\* The orders on the other side are those of the slice matchOrder walks.
LEMMA OtherSide ==
    ASSUME NEW o, NEW n
    PROVE  (order[n].side = Buy) # (order[o].side = Buy) <=> OwnBook(n) = MakerBook(o)
BY Zenon DEF OwnBook, MakerBook

\* The head of the best level has priority over every other order the taker
\* can trade with: the slice is sorted, and each queue is in order of arrival.
LEMMA HeadHasPriority ==
    ASSUME BookInv, ListingInv, TradeInv, pc = "fill", Best \in Ref,
           Maker \in Ref, limitOf[Maker] = Best
    PROVE  /\ CanTrade(taker, Maker)
           /\ order[Maker].price = LevelPrice(Best)
           /\ \A n \in Ref \ {Maker} : CanTrade(taker, n) => Abstract!Precedes(Maker, n)
<1> DEFINE b == MakerBook(taker)
<1>1. /\ b \in Book /\ levels[b] \in Seq(Ref) /\ 1 \in 1 .. Len(levels[b]) /\ levels[b][1] = Best
  <2>1. b \in Book /\ levels[b] \in Seq(Ref) /\ levels[b] # <<>>
    BY InsideLevel, Zenon
  <2> QED BY <2>1, EmptySeq, HeadTailProperties DEF Best
<1>2. /\ limitOf[Maker] # Nil /\ OwnBook(Maker) = b
      /\ order[Maker].price = LevelPrice(Best)
  <2>1. limitOf[Maker] # Nil
    BY DEF Ref, Nil
  <2>2. PICK k \in 1 .. Len(levels[OwnBook(Maker)]) :
            /\ levels[OwnBook(Maker)][k] = limitOf[Maker]
            /\ LevelPrice(levels[OwnBook(Maker)][k]) = order[Maker].price
    BY <2>1, RestsAt, Zenon
  <2>3. OwnBook(Maker) \in Book
    BY Zenon DEF OwnBook, Book
  <2>4. OwnBook(Maker) = b
    BY <1>1, <2>2, <2>3, LevelsDistinct
  <2> QED BY <2>1, <2>2, <2>4, Zenon
<1>3. \A o \in Ref : order[o].price \in Nat
  BY Zenon DEF BookInv, TypeOK, OrderRec
<1>4. CanTrade(taker, Maker)
  <2>1. Crosses(taker, Best)
    BY Zenon DEF TradeInv
  <2>2. taker \in Ref
    BY InsideLevel, Zenon
  <2>3. LevelPrice(Best) \in Nat /\ order[taker].price \in Nat
    BY <1>3, <2>2, Zenon DEF LevelPrice
  <2>4. (order[Maker].side = Buy) # (order[taker].side = Buy)
    BY <1>2, OtherSide, Zenon
  <2> QED BY <1>2, <2>1, <2>3, <2>4 DEF CanTrade, Crosses
<1>5. ASSUME NEW n \in Ref, n # Maker, CanTrade(taker, n)
      PROVE  Abstract!Precedes(Maker, n)
  <2>1. limitOf[n] # Nil /\ OwnBook(n) = b
    BY <1>5, OtherSide, Zenon DEF CanTrade
  <2>2. PICK k \in 1 .. Len(levels[b]) :
            levels[b][k] = limitOf[n] /\ LevelPrice(levels[b][k]) = order[n].price
    BY <2>1, RestsAt, Zenon
  <2>3. CASE k = 1
    <3>1. n \in Members(Best) /\ order[n].price = order[Maker].price
      BY <1>1, <1>2, <2>2, <2>3, Zenon DEF Members
    <3>2. Maker <= n
      BY <3>1, Zenon DEF BookInv, FifoLinks, EndsOK, Maker
    <3>3. Maker < n
      BY <1>5, <3>2 DEF Ref
    <3> QED BY <3>1, <3>3, Zenon DEF Abstract!Precedes
  <2>4. CASE k # 1
    <3>1. Len(levels[b]) \in Nat
      BY <1>1, LenProperties, Zenon
    <3>2. Ahead(b, 1, k)
      BY <1>1, <2>4, <3>1 DEF BookInv, LevelsSorted
    <3>3. order[Maker].side = Buy <=> b = "bids"
      BY <1>2, Zenon DEF OwnBook
    <3>4. IF b = "bids" THEN order[Maker].price > order[n].price
                        ELSE order[Maker].price < order[n].price
      BY <1>1, <1>2, <2>2, <3>2, Zenon DEF Ahead
    <3> QED BY <3>3, <3>4, Zenon DEF Abstract!Precedes, Abstract!IsBuy, Abstract!Buy, Buy
  <2> QED BY <2>3, <2>4, Zenon
<1> QED BY <1>2, <1>4, <1>5, Zenon

\* One match is one execution with the order that has priority.
LEMMA ExecuteStep ==
    ASSUME BookInv, BookInv', ListingInv, ListingInv', TradeInv, RestingOpen, FillHead
    PROVE  Abstract!Execute
<1>1. PICK t \in Ref, m \in Ref, q \in Nat : t = taker /\ m = Maker /\ q = MatchQty
  BY FillFacts, Zenon
<1>2. /\ pc = "fill" /\ UNCHANGED <<count, order, pc, taker>>
      /\ Best \in Ref /\ m # t /\ limitOf[m] = Best /\ Remaining(t) > 0
      /\ q <= Remaining(t) /\ q <= Remaining(m) /\ q \in {Remaining(t), Remaining(m)}
      /\ \A o \in Ref : Remaining(o)' = IF o \in {t, m} THEN Remaining(o) - q ELSE Remaining(o)
      /\ limitOf' = IF Remaining(m) = q THEN [limitOf EXCEPT ![m] = Nil] ELSE limitOf
      /\ trades' = Append(trades, [maker |-> m, taker |-> t,
                                   price |-> LevelPrice(Best), qty |-> q])
  BY <1>1, FillFacts, ZenonT(30)
<1>3. /\ m \in Abstract!Matchable(t)
      /\ \A n \in Abstract!Matchable(t) \ {m} : Abstract!Precedes(m, n)
      /\ order[m].price = LevelPrice(Best)
  <2>1. /\ CanTrade(t, m) /\ order[m].price = LevelPrice(Best)
        /\ \A n \in Ref \ {m} : CanTrade(t, n) => Abstract!Precedes(m, n)
    BY <1>1, <1>2, HeadHasPriority, Zenon
  <2>2. Abstract!Matchable(t) = {n \in Ref : CanTrade(t, n)}
    BY MatchableIs, Zenon
  <2> QED BY <2>1, <2>2, Zenon
<1>4. /\ Unfilled[t] = Remaining(t) /\ Unfilled[m] = Remaining(m)
      /\ Remaining(m) \in Nat /\ Remaining(t) \in Nat /\ Remaining(m) > 0
  BY <1>2, UnfilledQuantities DEF RestingOpen, Ref, Nil
<1>5. q > 0 /\ q <= Unfilled[t] /\ q <= Unfilled[m] /\ q \in {Unfilled[t], Unfilled[m]}
  BY <1>2, <1>4, Zenon
<1>6. Unfilled' = [Unfilled EXCEPT ![t] = @ - q, ![m] = @ - q]
  <2>1. ASSUME NEW o \in Ref
        PROVE  Unfilled'[o] = [Unfilled EXCEPT ![t] = @ - q, ![m] = @ - q][o]
    <3>1. Unfilled'[o] = Remaining(o)' /\ Unfilled[o] = Remaining(o)
      BY Zenon DEF Unfilled
    <3>2. Unfilled \in [Ref -> Int]
      BY UnfilledQuantities DEF Unfilled
    <3> QED BY <1>2, <3>1, <3>2, Zenon
  <2> QED BY <2>1, Zenon DEF Unfilled
<1>7. Resting' = IF Unfilled[m] = q THEN Resting \ {m} ELSE Resting
  <2>1. limitOf \in [Ref -> Ptr]
    BY Zenon DEF BookInv, TypeOK, LimitTypeOK
  <2>2. CASE Unfilled[m] = q
    <3>1. limitOf' = [limitOf EXCEPT ![m] = Nil]
      BY <1>2, <1>4, <2>2, Zenon
    <3>2. {p \in Ref : limitOf'[p] # Nil} = {p \in Ref : limitOf[p] # Nil} \ {m}
      BY <2>1, <3>1, Zenon
    <3> QED BY <2>2, <3>2, RestingIs, RestingIsNext, Zenon
  <2>3. CASE Unfilled[m] # q
    <3>1. limitOf' = limitOf
      BY <1>2, <1>4, <2>3, Zenon
    <3> QED BY <2>3, <3>1, RestingIs, RestingIsNext, Zenon
  <2> QED BY <2>2, <2>3, Zenon
<1>8. Active = t /\ Active' = t /\ t # Nil
  BY <1>1, <1>2 DEF Active, Ref, Nil
<1>9. Abstract!Matchable(Active) = Abstract!Matchable(t)
  BY <1>8, Zenon
<1> QED BY <1>2, <1>3, <1>5, <1>6, <1>7, <1>8, Zenon DEF Abstract!Execute, Abstract!Nil, Nil, Resting, Active

\* When the outer loop stops with quantity left, nothing the taker could
\* trade with rests.
LEMMA StoppedDone ==
    ASSUME BookInv, ListingInv, taker \in Ref, ~MatchGoesOn, Remaining(taker) > 0
    PROVE  \A n \in Ref : ~CanTrade(taker, n)
<1> SUFFICES ASSUME NEW n \in Ref, CanTrade(taker, n) PROVE FALSE
  BY Zenon
<1> DEFINE b == MakerBook(taker)
<1>1. limitOf[n] # Nil /\ OwnBook(n) = b
  BY OtherSide, Zenon DEF CanTrade
<1>2. PICK k \in 1 .. Len(levels[b]) :
            levels[b][k] = limitOf[n] /\ LevelPrice(levels[b][k]) = order[n].price
  BY <1>1, RestsAt, Zenon
<1>3. b \in Book /\ levels[b] \in Seq(Ref) /\ Len(levels[b]) \in Nat
  BY LenProperties, Zenon DEF BookInv, TypeOK, MakerBook, Book
<1>4. levels[b] # <<>> /\ 1 \in 1 .. Len(levels[b]) /\ levels[b][1] = Best
  <2>1. levels[b] # <<>>
    BY <1>2
  <2> QED BY <1>3, <2>1, EmptySeq, HeadTailProperties DEF Best
<1>5. ~Crosses(taker, Best)
  BY <1>4, Zenon DEF MatchGoesOn
<1>6. \A o \in Ref : order[o].price \in Nat
  BY Zenon DEF BookInv, TypeOK, OrderRec
<1>7. Best \in Ref
  BY <1>3, <1>4, ElementOfSeq, Zenon
<1>8. IF b = "bids" THEN order[n].price <= LevelPrice(Best) ELSE order[n].price >= LevelPrice(Best)
  <2>1. k = 1 \/ Ahead(b, 1, k)
    BY <1>3, <1>4 DEF BookInv, LevelsSorted
  <2>2. LevelPrice(Best) \in Nat /\ order[n].price \in Nat
    BY <1>6, <1>7, Zenon DEF LevelPrice
  <2> QED BY <1>2, <1>4, <2>1, <2>2 DEF Ahead
<1>9. /\ order[taker].type = LimitOrder
      /\ \/ order[taker].side = Buy /\ order[taker].price < LevelPrice(Best)
         \/ order[taker].side = Sell /\ order[taker].price > LevelPrice(Best)
  BY <1>5, Zenon DEF Crosses
<1>10. /\ order[taker].side = Buy => b = "asks" /\ order[n].price <= order[taker].price
       /\ order[taker].side = Sell => b = "bids" /\ order[n].price >= order[taker].price
  BY <1>9 DEF CanTrade, MakerBook, Buy, Sell
<1>11. LevelPrice(Best) \in Nat /\ order[n].price \in Nat /\ order[taker].price \in Nat
  BY <1>6, <1>7, Zenon DEF LevelPrice
<1> HIDE DEF b
<1> QED BY <1>8, <1>9, <1>10, <1>11

\* The end of Process closes the order.
LEMMA CloseStep ==
    ASSUME BookInv, BookInv', ListingInv, ListingInv', FinishProcess
    PROVE  Abstract!Close
<1>1. /\ pc = "match" /\ pc' = "idle" /\ ~MatchGoesOn
      /\ UNCHANGED <<count, order, filled, taker, trades>>
      /\ taker \in Ref /\ limitOf[taker] = Nil
      /\ \/ /\ ~(Remaining(taker) > 0 /\ order[taker].type = LimitOrder)
            /\ UNCHANGED limitOf
         \/ /\ Remaining(taker) > 0 /\ order[taker].type = LimitOrder
            /\ \E l \in Ref : limitOf' = [limitOf EXCEPT ![taker] = l]
  BY FinishFacts, Zenon
<1>2. PICK t \in Ref : t = taker
  BY <1>1, Zenon
<1>3. Unfilled[t] = Remaining(t) /\ Remaining(t) \in Nat
  BY UnfilledQuantities, Zenon
<1>4. Unfilled[t] = 0 \/ Abstract!Matchable(t) = {}
  <2>1. CASE Remaining(taker) > 0
    BY <1>1, <1>2, <2>1, StoppedDone, MatchableIs, Zenon
  <2>2. CASE ~(Remaining(taker) > 0)
    BY <1>2, <1>3, <2>2
  <2> QED BY <2>1, <2>2, Zenon
<1>5. Resting' = IF Unfilled[t] > 0 /\ order[t].type = LimitOrder THEN Resting \cup {t} ELSE Resting
  <2>1. limitOf \in [Ref -> Ptr]
    BY Zenon DEF BookInv, TypeOK, LimitTypeOK
  <2>2. CASE Remaining(t) > 0 /\ order[t].type = LimitOrder
    <3>1. PICK l \in Ref : limitOf' = [limitOf EXCEPT ![t] = l]
      BY <1>1, <1>2, <2>2, Zenon
    <3>2. {p \in Ref : limitOf'[p] # Nil} = {p \in Ref : limitOf[p] # Nil} \cup {t}
      BY <2>1, <3>1 DEF Ref, Nil
    <3> QED BY <1>3, <2>2, <3>2, RestingIs, RestingIsNext, Zenon
  <2>3. CASE ~(Remaining(t) > 0 /\ order[t].type = LimitOrder)
    <3>1. limitOf' = limitOf
      BY <1>1, <1>2, <2>3, Zenon
    <3> QED BY <1>3, <2>3, <3>1, RestingIs, RestingIsNext, Zenon
  <2> QED BY <2>2, <2>3, Zenon
<1>6. Active = t /\ Active' = Nil /\ t # Nil /\ Unfilled' = Unfilled
  BY <1>1, <1>2 DEF Active, Ref, Nil, Unfilled, Remaining
<1> QED BY <1>1, <1>4, <1>5, <1>6, Zenon DEF Abstract!Close, Abstract!Nil, Abstract!LimitOrder,
                                     Nil, LimitOrder, Resting, Active

\* A function on an initial segment of the naturals is a sequence of that length.
LEMMA SegmentLength ==
    ASSUME NEW n \in Nat, NEW f, DOMAIN f = 1 .. n, f = [k \in 1 .. n |-> f[k]]
    PROVE  Len(f) = n
<1> DEFINE T == {f[k] : k \in 1 .. n}
<1>1. f \in [1 .. n -> T]
  BY Zenon
<1>2. f \in Seq(T)
  BY <1>1
<1>3. Len(f) \in Nat /\ DOMAIN f = 1 .. Len(f)
  BY <1>2, LenProperties, Zenon
<1> QED BY <1>3

\* Between requests the levels of a slice are the prices of the orders resting
\* on that side, and the members of a level are those at its price.
LEMMA LevelsArePrices ==
    ASSUME BookInv, ListingInv, pc = "idle", NEW b \in Book
    PROVE  LET resting == {o \in Ref : limitOf[o] # Nil /\ OwnBook(o) = b}
           IN  /\ {order[o].price : o \in resting}
                    = {LevelPrice(levels[b][k]) : k \in 1 .. Len(levels[b])}
               /\ \A k \in 1 .. Len(levels[b]) :
                    {o \in resting : order[o].price = LevelPrice(levels[b][k])}
                        = Members(levels[b][k])
<1> DEFINE resting == {o \in Ref : limitOf[o] # Nil /\ OwnBook(o) = b}
<1>1. levels[b] \in Seq(Ref) /\ Len(levels[b]) \in Nat
      /\ \A k \in 1 .. Len(levels[b]) : levels[b][k] \in Ref
  BY LenProperties, ElementOfSeq, Zenon DEF BookInv, TypeOK
<1>2. ASSUME NEW o \in resting
      PROVE  \E k \in 1 .. Len(levels[b]) :
                levels[b][k] = limitOf[o] /\ LevelPrice(levels[b][k]) = order[o].price
  BY <1>2, RestsAt, Zenon
<1>3. ASSUME NEW k \in 1 .. Len(levels[b]), NEW o \in Members(levels[b][k])
      PROVE  o \in resting /\ order[o].price = LevelPrice(levels[b][k])
  <2>1. o \in Ref /\ limitOf[o] = levels[b][k] /\ limitOf[o] # Nil
    BY <1>1, <1>3 DEF Members, Ref, Nil
  <2>2. PICK j \in 1 .. Len(levels[OwnBook(o)]) :
            /\ levels[OwnBook(o)][j] = limitOf[o]
            /\ LevelPrice(levels[OwnBook(o)][j]) = order[o].price
    BY <2>1, RestsAt, Zenon
  <2>3. OwnBook(o) \in Book
    BY Zenon DEF OwnBook, Book
  <2>4. OwnBook(o) = b /\ j = k
    BY <2>1, <2>2, <2>3, LevelsDistinct
  <2> QED BY <2>1, <2>2, <2>4, Zenon
<1>4. ASSUME NEW k \in 1 .. Len(levels[b])
      PROVE  Members(levels[b][k]) # {}
  <2>1. levels[b][k] \in ListedLevels
    <3>1. levels[b][k] \in Elements(levels[b])
      BY <1>1, LenProperties, Zenon DEF Elements
    <3> QED BY <3>1, Zenon DEF ListedLevels, Book
  <2> QED BY <2>1, Zenon DEF ListingInv
<1>5. {order[o].price : o \in resting} = {LevelPrice(levels[b][k]) : k \in 1 .. Len(levels[b])}
  <2>1. ASSUME NEW k \in 1 .. Len(levels[b])
        PROVE  LevelPrice(levels[b][k]) \in {order[o].price : o \in resting}
    BY <1>3, <1>4, Zenon
  <2> QED BY <1>2, <2>1
<1>6. ASSUME NEW k \in 1 .. Len(levels[b])
      PROVE  {o \in resting : order[o].price = LevelPrice(levels[b][k])} = Members(levels[b][k])
  <2>1. ASSUME NEW o \in resting, order[o].price = LevelPrice(levels[b][k])
        PROVE  o \in Members(levels[b][k])
    <3>1. PICK j \in 1 .. Len(levels[b]) :
              levels[b][j] = limitOf[o] /\ LevelPrice(levels[b][j]) = order[o].price
      BY <1>2, Zenon
    <3>2. \A l \in Ref : LevelPrice(l) \in Nat
      BY Zenon DEF BookInv, TypeOK, OrderRec, LevelPrice
    <3>3. j = k
      <4>1. ~Ahead(b, j, k) /\ ~Ahead(b, k, j)
        BY <1>1, <2>1, <3>1, <3>2 DEF Ahead
      <4>2. \A x, y \in 1 .. Len(levels[b]) : x < y => Ahead(b, x, y)
        BY Zenon DEF BookInv, LevelsSorted
      <4> QED BY <1>1, <4>1, <4>2
    <3> QED BY <3>1, <3>3, Zenon DEF Members
  <2> QED BY <1>3, <2>1, Zenon
<1> QED BY <1>5, <1>6, Zenon
=============================================================================
