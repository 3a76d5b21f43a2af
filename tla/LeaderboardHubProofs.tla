------------------------ MODULE LeaderboardHubProofs ------------------------
(***************************************************************************)
(* The safety of the live feed, for any number of clients, any capacity of  *)
(* their channels and any number of updates.                                *)
(***************************************************************************)
EXTENDS LeaderboardHub, SequenceTheorems, TLAPS

\* Taking the head of a queue makes it one shorter and the frame one longer.
LEMMA HeadMoves ==
    ASSUME NEW S, NEW q \in Seq(S), NEW b \in Seq(S), q # <<>>
    PROVE  /\ Tail(q) \in Seq(S) /\ Len(Tail(q)) = Len(q) - 1
           /\ <<Head(q)>> \in Seq(S) /\ Append(b, Head(q)) \in Seq(S)
<1>1. Head(q) \in S
    BY HeadTailProperties, Zenon
<1>2. Tail(q) \in Seq(S) /\ Len(Tail(q)) = Len(q) - 1
    BY HeadTailProperties, Zenon
<1> QED
    BY <1>1, <1>2, AppendProperties

\* A queue of at most one message that is not empty has one.
LEMMA SingleMessage ==
    ASSUME NEW S, NEW q \in Seq(S), Len(q) <= 1, q # <<>>
    PROVE  Len(q) = 1
BY EmptySeq, LenProperties, SMTT(60)

\* The initial state satisfies the invariant.
LEMMA FeedInvInit == Init => FeedInv
<1> SUFFICES ASSUME Init PROVE FeedInv
    BY Zenon
<1>1. <<>> \in Seq(Update) /\ Len(<<>>) = 0
    BY EmptySeq, Zenon
<1>2. TypeOK
    <2>1. /\ pending \in Seq(Update) /\ Len(pending) <= 1
          /\ stream \in Seq(Update) /\ Len(stream) = 0
        BY <1>1 DEF Init
    <2>2. /\ send \in [Clients -> Seq(Update)] /\ batch \in [Clients -> Seq(Update)]
          /\ got \in [Clients -> Seq(Update)]
          /\ \A c \in Clients : Len(send[c]) <= SendCap
        BY <1>1, FeedAssumption DEF Init
    <2>3. closed \in [Clients -> BOOLEAN] /\ panicked \in BOOLEAN
        BY Zenon DEF Init
    <2>4. /\ clients \subseteq Clients
          /\ reader \in [Clients -> {"new", "registering", "reading", "done"}]
          /\ writer \in [Clients -> {"select", "took", "batch", "done"}]
          /\ conn \in [Clients -> {"open", "silent", "closed"}]
          /\ leaving \in [Clients -> Nat] /\ closing \in [Clients -> Nat]
          /\ left \in [Clients -> Nat]
          /\ joined \in [Clients -> Nat] /\ \A c \in Clients : joined[c] = 0
        BY Zenon DEF Init
    <2> QED
        BY <2>1, <2>2, <2>3, <2>4 DEF TypeOK
<1>3. ClosedOnce /\ RegisteredAreOpen /\ FrameNeverWaits
    BY <1>1, Zenon DEF Init, ClosedOnce, RegisteredAreOpen, FrameNeverWaits
<1> QED
    BY <1>2, <1>3, Zenon DEF FeedInv

\* Every step of the hub and of the goroutines around it preserves it.
LEMMA FeedInvNext == FeedInv /\ [Next]_vars => FeedInv'
<1> SUFFICES ASSUME FeedInv, [Next]_vars PROVE FeedInv'
    BY Zenon
<1> USE FeedAssumption DEF FeedInv, TypeOK, ClosedOnce, RegisteredAreOpen, FrameNeverWaits
<1>1. CASE Forward
    <2>1. Len(stream) \in Nat /\ Len(stream) + 1 \in Update
        BY <1>1, LenProperties DEF Forward, Update
    <2>2. <<Len(stream) + 1>> \in Seq(Update) /\ Len(<<Len(stream) + 1>>) = 1
        BY <2>1
    <2> QED
        BY <1>1, <2>2 DEF Forward, hub, exits, frame
<1>2. CASE Broadcast
    <2>1. /\ stream \o pending \in Seq(Update)
          /\ Len(stream \o pending) = Len(stream) + Len(pending)
          /\ Len(stream) \in Nat /\ Len(pending) = 1
        <3>1. Len(stream) \in Nat
            BY LenProperties, Zenon
        <3>2. pending \in Seq(Update) /\ Len(pending) <= 1 /\ pending # <<>>
            BY <1>2, Zenon DEF Broadcast
        <3>3. Len(pending) = 1
            BY <3>2, SingleMessage, Zenon
        <3>4. stream \o pending \in Seq(Update)
            BY ConcatProperties, Zenon
        <3>5. Len(stream \o pending) = Len(stream) + Len(pending)
            BY ConcatProperties, Zenon
        <3> QED
            BY <3>1, <3>3, <3>4, <3>5, Zenon
    <2>2. \A c \in Clients : /\ send[c] \o pending \in Seq(Update)
                             /\ Len(send[c] \o pending) = Len(send[c]) + 1
                             /\ Len(send[c]) \in Nat
        BY <2>1, ConcatProperties, LenProperties
    <2>3. \A c \in Clients : /\ send'[c] \in Seq(Update)
                             /\ Len(send'[c]) <= SendCap
                             /\ Len(send[c]) <= Len(send'[c])
        BY <1>2, <2>2 DEF Broadcast, Full
    <2>4. send' \in [Clients -> Seq(Update)]
        BY <1>2, <2>3, Zenon DEF Broadcast
    <2>5. leaving' \in [Clients -> Nat]
        BY <1>2 DEF Broadcast, Disconnect
    <2>6. <<>> \in Seq(Update) /\ Len(<<>>) = 0
        BY EmptySeq, Zenon
    <2>7. TypeOK'
        BY <1>2, <2>1, <2>3, <2>4, <2>5, <2>6 DEF Broadcast, frame
    <2>8. ClosedOnce' /\ FrameNeverWaits'
        BY <1>2, <2>2, <2>3 DEF Broadcast, frame
    <2>9. RegisteredAreOpen'
        BY <1>2 DEF Broadcast, Disconnect
    <2> QED
        BY <2>7, <2>8, <2>9, Zenon
<1>3. ASSUME NEW c \in Clients, ServeWs(c) PROVE FeedInv'
    BY <1>3, Zenon DEF ServeWs, hub, exits, frame
<1>4. ASSUME NEW c \in Clients, Register(c) PROVE FeedInv'
    BY <1>4, LenProperties DEF Register, exits, frame
<1>5. ASSUME NEW c \in Clients, Unregister(c) PROVE FeedInv'
    <2>1. TypeOK'
        BY <1>5, SMTT(60) DEF Unregister, Known, frame
    <2>2. ClosedOnce' /\ RegisteredAreOpen' /\ FrameNeverWaits'
        BY <1>5, SMTT(60) DEF Unregister, Known, frame
    <2> QED
        BY <2>1, <2>2, ZenonT(30)
<1>6. ASSUME NEW c \in Clients, CloseConn(c) PROVE FeedInv'
    BY <1>6, SMTT(60) DEF CloseConn, hub, frame
<1>7. ASSUME NEW c \in Clients, ReadFails(c) PROVE FeedInv'
    BY <1>7, SMTT(60) DEF ReadFails, DeferUnregister, hub, frame
<1>8. ASSUME NEW c \in Clients, Take(c) PROVE FeedInv'
    <2>1. /\ Tail(send[c]) \in Seq(Update) /\ Len(Tail(send[c])) = Len(send[c]) - 1
          /\ <<Head(send[c])>> \in Seq(Update)
        BY <1>8, HeadMoves, Zenon DEF Take
    <2> QED
        BY <1>8, <2>1, LenProperties, SMTT(60) DEF Take, Selecting, hub, exits
<1>9. ASSUME NEW c \in Clients, CountQueued(c) PROVE FeedInv'
    BY <1>9, LenProperties, SMTT(60) DEF CountQueued, Queued, hub, exits
<1>10. ASSUME NEW c \in Clients, Collect(c) PROVE FeedInv'
    <2>1. /\ Tail(send[c]) \in Seq(Update) /\ Len(Tail(send[c])) = Len(send[c]) - 1
          /\ Append(batch[c], Head(send[c])) \in Seq(Update)
        BY <1>10, HeadMoves, Zenon DEF Collect
    <2>2. \A d \in Clients : Len(send[d]) \in Nat
        BY LenProperties, Zenon
    <2>3. send' \in [Clients -> Seq(Update)] /\ batch' \in [Clients -> Seq(Update)]
        BY <1>10, <2>1, Zenon DEF Collect
    <2>4. left' \in [Clients -> Nat]
        BY <1>10, SMTT(60) DEF Collect
    <2>5. \A d \in Clients : Len(send'[d]) <= SendCap
        BY <1>10, <2>1, <2>2 DEF Collect
    <2>6. FrameNeverWaits'
        BY <1>10, <2>1, <2>2 DEF Collect
    <2>7. TypeOK'
        BY <1>10, <2>3, <2>4, <2>5, ZenonT(30) DEF Collect, hub, exits
    <2> QED
        BY <1>10, <2>6, <2>7, ZenonT(30) DEF Collect, hub, exits
<1>11. ASSUME NEW c \in Clients, Flush(c) PROVE FeedInv'
    <2>1. <<>> \in Seq(Update) /\ got[c] \o batch[c] \in Seq(Update)
        BY EmptySeq, ConcatProperties, Zenon
    <2> QED
        BY <1>11, <2>1, Zenon DEF Flush, hub, exits
<1>12. ASSUME NEW c \in Clients, WriterReturns(c) PROVE FeedInv'
    <2>1. <<>> \in Seq(Update)
        BY EmptySeq, Zenon
    <2> QED
        BY <1>12, <2>1, Zenon DEF WriterReturns, hub, exits
<1>13. ASSUME NEW c \in Clients, PeerLeaves(c) PROVE FeedInv'
    BY <1>13, Zenon DEF PeerLeaves, hub, exits, frame
<1>14. CASE UNCHANGED vars
    BY <1>14, Zenon DEF vars, hub, exits, frame
<1> QED
    BY <1>1, <1>2, <1>3, <1>4, <1>5, <1>6, <1>7, <1>8, <1>9, <1>10, <1>11, <1>12, Zenon,
       <1>13, <1>14, ZenonT(30) DEF Next, WritePump

\* FeedInv is an invariant of the live feed.
THEOREM FeedInvariant == Spec => []FeedInv
BY FeedInvInit, FeedInvNext, PTL DEF Spec

\* However many goroutines unregister a client, its channel is closed once and
\* never sent to afterwards.
THEOREM AlwaysClosedOnce == Spec => []ClosedOnce
<1>1. FeedInv => ClosedOnce
    BY Zenon DEF FeedInv
<1> QED
    BY <1>1, FeedInvariant, PTL

\* A frame under construction never waits for a message.
THEOREM FrameNeverEverWaits == Spec => []FrameNeverWaits
<1>1. FeedInv => FrameNeverWaits
    BY Zenon DEF FeedInv
<1> QED
    BY <1>1, FeedInvariant, PTL

-----------------------------------------------------------------------------
\* What follows a place of a stream grows with the stream.
LEMMA RestGrows ==
    ASSUME NEW M, NEW s \in Seq(M), NEW m \in M, NEW j \in 0 .. Len(s)
    PROVE  /\ SubSeq(s, j + 1, Len(s)) \in Seq(M)
           /\ SubSeq(Append(s, m), j + 1, Len(Append(s, m)))
                = Append(SubSeq(s, j + 1, Len(s)), m)
<1> DEFINE r == SubSeq(s, j + 1, Len(s))
           a == Append(s, m)
           q == SubSeq(a, j + 1, Len(a))
<1>1. Len(s) \in Nat /\ \A k \in 1 .. Len(s) : s[k] \in M
  BY LenProperties, ElementOfSeq, Zenon
<1>2. /\ a \in Seq(M) /\ Len(a) = Len(s) + 1 /\ a[Len(s) + 1] = m
      /\ \A k \in 1 .. Len(s) : a[k] = s[k]
  BY AppendProperties
<1>3. \A k \in 1 .. Len(a) : a[k] \in M
  BY <1>2, ElementOfSeq, Zenon
<1>4. /\ r \in Seq(M) /\ Len(r) = Len(s) - j
      /\ \A k \in 1 .. Len(s) - j : r[k] = s[j + k]
  <2>1. j + 1 \in Int /\ Len(s) \in Int /\ \A k \in j + 1 .. Len(s) : s[k] \in M
    BY <1>1
  <2>2. /\ r \in Seq(M) /\ Len(r) = IF j + 1 <= Len(s) THEN Len(s) - (j + 1) + 1 ELSE 0
        /\ \A k \in 1 .. Len(s) - (j + 1) + 1 : r[k] = s[(j + 1) + k - 1]
    BY <2>1, SubSeqProperties
  <2> HIDE DEF r
  <2> QED BY <1>1, <2>2
<1>5. /\ q \in Seq(M) /\ Len(q) = Len(s) + 1 - j
      /\ \A k \in 1 .. Len(s) + 1 - j : q[k] = a[j + k]
  <2>1. j + 1 \in Int /\ Len(a) \in Int /\ \A k \in j + 1 .. Len(a) : a[k] \in M
    BY <1>1, <1>2, <1>3
  <2> HIDE DEF a
  <2>2. /\ q \in Seq(M) /\ Len(q) = IF j + 1 <= Len(a) THEN Len(a) - (j + 1) + 1 ELSE 0
        /\ \A k \in 1 .. Len(a) - (j + 1) + 1 : q[k] = a[(j + 1) + k - 1]
    BY <2>1, SubSeqProperties
  <2> HIDE DEF q
  <2> QED BY <1>1, <1>2, <2>2
<1> HIDE DEF r, a, q
<1> DEFINE n == Len(r)
<1>6. n \in Nat /\ Len(q) = n + 1 /\ Len(s) = n + j
  <2>1. j \in Nat /\ j <= Len(s) /\ n = Len(s) - j /\ Len(q) = Len(s) + 1 - j
    BY <1>1, <1>4, <1>5
  <2> QED BY <1>1, <2>1
<1>7. /\ Append(r, m) \in Seq(M) /\ Len(Append(r, m)) = Len(r) + 1
      /\ \A k \in 1 .. Len(r) : Append(r, m)[k] = r[k]
      /\ Append(r, m)[Len(r) + 1] = m
  BY <1>4, AppendProperties
<1>8. ASSUME NEW k \in 1 .. Len(q) PROVE q[k] = Append(r, m)[k]
  <2>1. CASE k <= Len(r)
    <3>1. /\ k \in 1 .. Len(r) /\ k \in 1 .. Len(s) - j /\ k \in 1 .. Len(s) + 1 - j
          /\ j + k \in 1 .. Len(s)
      BY <1>6, <2>1
    <3>2. q[k] = a[j + k] /\ a[j + k] = s[j + k] /\ r[k] = s[j + k]
      BY <1>2, <1>4, <1>5, <3>1, Zenon
    <3> QED BY <1>7, <3>1, <3>2, Zenon
  <2>2. CASE ~(k <= Len(r))
    <3>1. k = Len(r) + 1 /\ j + k = Len(s) + 1
      BY <1>6, <2>2
    <3>2. k \in 1 .. Len(s) + 1 - j
      BY <1>5, Zenon
    <3> QED BY <1>2, <1>5, <1>7, <3>1, <3>2, Zenon
  <2> QED BY <2>1, <2>2, Zenon
<1>9. q = Append(r, m)
  <2>1. q \in Seq(M) /\ Append(r, m) \in Seq(M) /\ Len(q) = Len(Append(r, m))
    BY <1>5, <1>7, <1>6, Zenon
  <2> QED BY <1>8, <2>1, SeqEqual, Zenon
<1> QED BY <1>4, <1>9, Zenon DEF r, a, q

\* The head of a queue moves to what is before the queue.
LEMMA QueueMoves ==
    ASSUME NEW M, NEW b \in Seq(M), NEW q \in Seq(M), q # <<>>
    PROVE  b \o q = Append(b, Head(q)) \o Tail(q)
<1> DEFINE x == b \o q
           a == Append(b, Head(q))
           y == a \o Tail(q)
<1>1. /\ Head(q) \in M /\ Tail(q) \in Seq(M) /\ Len(Tail(q)) = Len(q) - 1 /\ Head(q) = q[1]
      /\ \A k \in 1 .. Len(Tail(q)) : Tail(q)[k] = q[k + 1]
  BY HeadTailProperties
<1>2. /\ a \in Seq(M) /\ Len(a) = Len(b) + 1 /\ a[Len(b) + 1] = Head(q)
      /\ \A k \in 1 .. Len(b) : a[k] = b[k]
  BY <1>1, AppendProperties
<1>3. /\ x \in Seq(M) /\ Len(x) = Len(b) + Len(q)
      /\ \A k \in 1 .. Len(b) + Len(q) : x[k] = IF k <= Len(b) THEN b[k] ELSE q[k - Len(b)]
  BY ConcatProperties, Zenon
<1> HIDE DEF x, a
<1>4. /\ y \in Seq(M) /\ Len(y) = Len(a) + Len(Tail(q))
      /\ \A k \in 1 .. Len(a) + Len(Tail(q)) :
            y[k] = IF k <= Len(a) THEN a[k] ELSE Tail(q)[k - Len(a)]
  BY <1>1, <1>2, ConcatProperties, Zenon
<1> HIDE DEF y
<1>5. Len(b) \in Nat /\ Len(q) \in Nat
  BY LenProperties, Zenon
<1>6. ASSUME NEW k \in 1 .. Len(x) PROVE x[k] = y[k]
  <2>1. CASE k <= Len(b)
    BY <1>1, <1>2, <1>3, <1>4, <1>5, <2>1
  <2>2. CASE k = Len(b) + 1
    BY <1>1, <1>2, <1>3, <1>4, <1>5, <2>2
  <2>3. CASE k > Len(b) + 1
    <3>1. /\ k - Len(a) \in 1 .. Len(Tail(q)) /\ ~(k <= Len(a)) /\ ~(k <= Len(b))
          /\ k \in 1 .. Len(a) + Len(Tail(q)) /\ k \in 1 .. Len(b) + Len(q)
          /\ (k - Len(a)) + 1 = k - Len(b)
      BY <1>1, <1>2, <1>3, <1>5, <2>3
    <3>2. y[k] = Tail(q)[k - Len(a)] /\ x[k] = q[k - Len(b)]
      BY <1>3, <1>4, <3>1, Zenon
    <3> QED BY <1>1, <3>1, <3>2, Zenon
  <2> QED BY <1>3, <1>5, <2>1, <2>2, <2>3
<1>7. x = y
  BY <1>1, <1>2, <1>3, <1>4, <1>5, <1>6, SeqEqual
<1> QED BY <1>7, Zenon DEF x, y, a

\* Appending to the last part of a concatenation appends to the whole.
LEMMA AppendOut ==
    ASSUME NEW M, NEW b \in Seq(M), NEW q \in Seq(M), NEW m \in M
    PROVE  b \o Append(q, m) = Append(b \o q, m)
<1>1. Append(q, m) = q \o <<m>> /\ <<m>> \in Seq(M) /\ b \o q \in Seq(M)
  BY AppendIsConcat, ConcatProperties
<1>2. Append(b \o q, m) = (b \o q) \o <<m>>
  BY <1>1, AppendIsConcat, Zenon
<1> QED BY <1>1, <1>2, ConcatAssociative

\* The parts of a client's feed are sequences of updates.
LEMMA FeedTypes ==
    ASSUME TypeOK, NEW c \in Clients
    PROVE  /\ got[c] \in Seq(Update) /\ batch[c] \in Seq(Update) /\ send[c] \in Seq(Update)
           /\ got[c] \o batch[c] \in Seq(Update)
           /\ stream \in Seq(Update) /\ joined[c] \in 0 .. Len(stream)
<1>1. got[c] \in Seq(Update) /\ batch[c] \in Seq(Update) /\ send[c] \in Seq(Update)
    BY Zenon DEF TypeOK
<1>2. stream \in Seq(Update) /\ joined[c] \in Nat /\ joined[c] <= Len(stream)
    BY Zenon DEF TypeOK
<1>3. Len(stream) \in Nat
    BY <1>2, LenProperties, Zenon
<1> QED
    BY <1>1, <1>2, <1>3, ConcatProperties

\* A client of which, and of whose stream, nothing changes but that it leaves.
LEMMA WholeUnchanged ==
    ASSUME NEW c \in Clients, WholeOrLeaving(c),
           UNCHANGED <<stream, got[c], batch[c], send[c], joined[c]>>,
           reader'[c] \in {"new", "registering"} => reader[c] \in {"new", "registering"},
           writer'[c] = "select" => writer[c] = "select",
           c \in clients' /\ conn'[c] = "open" /\ leaving'[c] = 0
                => c \in clients /\ conn[c] = "open" /\ leaving[c] = 0
    PROVE  WholeOrLeaving(c)'
<1>1. UpToNow(c)' = UpToNow(c) /\ Sent(c)' = Sent(c)
    BY Zenon DEF UpToNow, Sent
<1> QED
    BY <1>1, Zenon DEF WholeOrLeaving

\* Run's broadcast case (broadcast.go:146-159): a client with room gets the
\* update, for one without a goroutine is started that unregisters it.
LEMMA BroadcastWhole ==
    ASSUME FeedInv, WholeInv, Broadcast
    PROVE  WholeInv'
<1> SUFFICES ASSUME NEW c \in Clients PROVE WholeOrLeaving(c)'
    BY Zenon DEF WholeInv
<1>1. PICK m \in Update : pending = <<m>>
    <2>1. pending \in Seq(Update) /\ Len(pending) <= 1 /\ pending # <<>>
        BY Zenon DEF FeedInv, TypeOK, Broadcast
    <2>2. Len(pending) = 1
        BY <2>1, SingleMessage, Zenon
    <2>3. pending[1] \in Update /\ pending = <<pending[1]>>
        BY <2>1, <2>2, ElementOfSeq, SeqEqual
    <2> QED
        BY <2>3, Zenon
<1>2. /\ stream' = stream \o <<m>>
      /\ send' = [d \in Clients |-> IF d \in clients \ {x \in clients : Full(x)}
                                     THEN send[d] \o <<m>> ELSE send[d]]
      /\ leaving' = [d \in Clients |-> leaving[d] + IF d \in {x \in clients : Full(x)} THEN 1 ELSE 0]
      /\ UNCHANGED <<clients, joined, reader, writer, batch, conn, got>>
    BY <1>1, Zenon DEF Broadcast, Disconnect, frame
<1>3. TypeOK /\ WholeOrLeaving(c)
    BY Zenon DEF FeedInv, WholeInv
<1>4. /\ got[c] \in Seq(Update) /\ batch[c] \in Seq(Update) /\ send[c] \in Seq(Update)
      /\ got[c] \o batch[c] \in Seq(Update)
      /\ stream \in Seq(Update) /\ joined[c] \in 0 .. Len(stream)
    BY <1>3, FeedTypes, Zenon
<1>5. CASE c \in clients /\ ~Full(c)
    <2>1. stream' = Append(stream, m) /\ send'[c] = Append(send[c], m)
        BY <1>2, <1>4, <1>5, AppendIsConcat, Zenon
    <2>2. leaving'[c] = leaving[c]
        BY <1>2, <1>3, <1>5 DEF TypeOK
    <2>3. UpToNow(c)' = Append(UpToNow(c), m)
        <3>1. SubSeq(Append(stream, m), joined[c] + 1, Len(Append(stream, m)))
                = Append(SubSeq(stream, joined[c] + 1, Len(stream)), m)
            BY <1>4, RestGrows, Zenon
        <3>2. joined'[c] = joined[c]
            BY <1>2, Zenon
        <3> QED
            BY <2>1, <3>1, <3>2, Zenon DEF UpToNow
    <2>4. Sent(c)' = Append(Sent(c), m)
        <3>1. PICK b \in Seq(Update) : b = got[c] \o batch[c]
            BY <1>4, Zenon
        <3>2. b \o Append(send[c], m) = Append(b \o send[c], m)
            BY <1>4, AppendOut
        <3>3. got'[c] = got[c] /\ batch'[c] = batch[c]
            BY <1>2, Zenon
        <3> QED
            BY <2>1, <3>1, <3>2, <3>3, Zenon DEF Sent
    <2>5. reader[c] \notin {"new", "registering"}
        BY <1>5, Zenon DEF FeedInv, RegisteredAreOpen
    <2> QED
        BY <1>2, <1>3, <2>2, <2>3, <2>4, <2>5, Zenon DEF WholeOrLeaving
<1>6. CASE c \in clients /\ Full(c)
    <2>1. leaving'[c] = leaving[c] + 1 /\ leaving[c] \in Nat /\ send'[c] = send[c]
        BY <1>2, <1>3, <1>6, Zenon DEF TypeOK
    <2>2. leaving'[c] # 0
        BY <2>1
    <2> QED
        BY <1>2, <1>3, <2>1, <2>2, Zenon DEF WholeOrLeaving
<1>7. CASE c \notin clients
    <2>1. send'[c] = send[c]
        BY <1>2, <1>7, Zenon
    <2> QED
        BY <1>2, <1>3, <1>7, <2>1, Zenon DEF WholeOrLeaving
<1> QED
    BY <1>5, <1>6, <1>7, Zenon

\* Registering starts the client's stream where the hub's is.
LEMMA RegisterWhole ==
    ASSUME FeedInv, WholeInv, NEW c \in Clients, Register(c)
    PROVE  WholeInv'
<1> SUFFICES ASSUME NEW d \in Clients PROVE WholeOrLeaving(d)'
    BY Zenon DEF WholeInv
<1>1. /\ reader[c] = "registering" /\ clients' = clients \cup {c}
      /\ joined' = [joined EXCEPT ![c] = Len(stream)]
      /\ reader' = [reader EXCEPT ![c] = "reading"]
      /\ UNCHANGED <<send, writer, batch, conn, got, stream, leaving>>
    BY Zenon DEF Register, frame, exits
<1>2. /\ DOMAIN joined = Clients /\ DOMAIN reader = Clients
      /\ stream \in Seq(Update) /\ WholeOrLeaving(d)
    BY Zenon DEF FeedInv, TypeOK, WholeInv
<1>3. CASE d = c
    <2>1. Len(stream) \in Nat
        BY <1>2, LenProperties, Zenon
    <2>2. UpToNow(c)' = <<>>
        <3>1. joined'[c] = Len(stream)
            BY <1>1, <1>2, Zenon
        <3> QED
            BY <1>1, <2>1, <3>1, SubSeqEmpty DEF UpToNow
    <2>3. got'[c] = <<>> /\ batch'[c] = <<>> /\ send'[c] = <<>> /\ reader'[c] = "reading"
        BY <1>1, <1>2, <1>3, Zenon DEF WholeOrLeaving
    <2>4. <<>> \o <<>> = <<>>
        BY EmptySeq, ConcatEmptySeq, Zenon
    <2>5. Sent(c)' = <<>>
        BY <2>3, <2>4, Zenon DEF Sent
    <2> QED
        BY <1>3, <2>2, <2>3, <2>5, Zenon DEF WholeOrLeaving
<1>4. CASE d # c
    BY <1>1, <1>2, <1>4, WholeUnchanged, Zenon
<1> QED
    BY <1>3, <1>4, Zenon

\* What Forward, ServeWs, Unregister, the closing of a connection, the two
\* pumps' ends and the peer do delivers nothing and only ends connections.
LEMMA LeaveWhole ==
    ASSUME FeedInv, WholeInv, NEW c \in Clients,
           Unregister(c) \/ ServeWs(c) \/ ReadFails(c) \/ CloseConn(c) \/ CountQueued(c) \/ PeerLeaves(c)
    PROVE  WholeInv'
<1> SUFFICES ASSUME NEW d \in Clients PROVE WholeOrLeaving(d)'
    BY Zenon DEF WholeInv
<1>1. UNCHANGED <<stream, got, batch, send, joined>>
    BY ZenonT(60) DEF Unregister, ServeWs, ReadFails, CloseConn, CountQueued, PeerLeaves, hub, frame, exits
<1>2. /\ \/ reader' = reader
         \/ reader[c] = "new" /\ reader' = [reader EXCEPT ![c] = "registering"]
         \/ reader' = [reader EXCEPT ![c] = "done"]
      /\ writer' = writer \/ writer' = [writer EXCEPT ![c] = "batch"]
      /\ conn' = conn \/ \E x \in {"silent", "closed"} : conn' = [conn EXCEPT ![c] = x]
    BY ZenonT(60) DEF Unregister, ServeWs, ReadFails, CloseConn, CountQueued, PeerLeaves, hub, frame, exits
<1>3. \/ clients' = clients /\ leaving' = leaving
      \/ clients' = clients /\ leaving' = [leaving EXCEPT ![c] = @ + 1]
      \/ clients' = clients \ {c} /\ leaving' = [leaving EXCEPT ![c] = @ - 1]
    BY ZenonT(60) DEF Unregister, ServeWs, ReadFails, DeferUnregister, CloseConn, CountQueued,
                      PeerLeaves, hub, frame, exits
<1>4. /\ DOMAIN reader = Clients /\ DOMAIN writer = Clients /\ DOMAIN conn = Clients
      /\ leaving \in [Clients -> Nat] /\ WholeOrLeaving(d)
    BY Zenon DEF FeedInv, TypeOK, WholeInv
<1>5. reader'[d] \in {"new", "registering"} => reader[d] \in {"new", "registering"}
    BY <1>2, <1>4, Zenon
<1>6. writer'[d] = "select" => writer[d] = "select"
    BY <1>2, <1>4, Zenon
<1>7. conn'[d] = "open" => conn[d] = "open"
    BY <1>2, <1>4, Zenon
<1>8. d \in clients' /\ leaving'[d] = 0 => d \in clients /\ leaving[d] = 0
    BY <1>3, <1>4
<1> QED
    BY <1>1, <1>4, <1>5, <1>6, <1>7, <1>8, WholeUnchanged, Zenon

\* WritePump moves the head of the queue into its frame, new or open.
LEMMA CollectWhole ==
    ASSUME FeedInv, WholeInv, NEW c \in Clients, Take(c) \/ Collect(c)
    PROVE  WholeInv'
<1> SUFFICES ASSUME NEW d \in Clients PROVE WholeOrLeaving(d)'
    BY Zenon DEF WholeInv
<1>1. /\ send[c] # <<>> /\ send' = [send EXCEPT ![c] = Tail(@)]
      /\ UNCHANGED <<clients, stream, joined, reader, leaving, conn, got>>
      /\ \/ /\ writer[c] = "select" /\ batch' = [batch EXCEPT ![c] = <<Head(send[c])>>]
            /\ writer' = [writer EXCEPT ![c] = "took"]
         \/ /\ writer[c] = "batch" /\ batch' = [batch EXCEPT ![c] = Append(@, Head(send[c]))]
            /\ writer' = writer
    BY ZenonT(60) DEF Take, Collect, Selecting, hub, exits
<1>2. /\ DOMAIN send = Clients /\ DOMAIN batch = Clients /\ DOMAIN writer = Clients
      /\ TypeOK /\ WholeOrLeaving(d) /\ WholeOrLeaving(c)
    BY Zenon DEF FeedInv, TypeOK, WholeInv
<1>3. CASE d = c
    <2>1. /\ got[c] \in Seq(Update) /\ batch[c] \in Seq(Update) /\ send[c] \in Seq(Update)
        BY <1>2, FeedTypes, Zenon
    <2>2. Head(send[c]) \in Update /\ Tail(send[c]) \in Seq(Update)
        BY <1>1, <2>1, HeadTailProperties, Zenon
    <2>3. batch'[c] = Append(batch[c], Head(send[c])) /\ send'[c] = Tail(send[c])
        <3>1. writer[c] = "select" => Append(batch[c], Head(send[c])) = <<Head(send[c])>>
            BY <1>2 DEF WholeOrLeaving
        <3> QED
            BY <1>1, <1>2, <3>1, Zenon
    <2>4. Sent(c)' = Sent(c)
        <3>1. PICK b \in Seq(Update) : b = got[c] \o batch[c]
            BY <2>1, ConcatProperties, Zenon
        <3>2. b \o send[c] = Append(b, Head(send[c])) \o Tail(send[c])
            BY <1>1, <2>1, QueueMoves, Zenon
        <3>3. got[c] \o Append(batch[c], Head(send[c])) = Append(b, Head(send[c]))
            <4>1. PICK g \in Seq(Update), f \in Seq(Update), h \in Update :
                        g = got[c] /\ f = batch[c] /\ h = Head(send[c])
                BY <2>1, <2>2, Zenon
            <4>2. g \o Append(f, h) = Append(g \o f, h)
                BY AppendOut
            <4> QED
                BY <3>1, <4>1, <4>2, Zenon
        <3> QED
            BY <1>1, <2>3, <3>1, <3>2, <3>3, Zenon DEF Sent
    <2>5. UpToNow(c)' = UpToNow(c) /\ writer'[c] # "select"
        BY <1>1, <1>2, Zenon DEF UpToNow
    <2>6. reader[c] \notin {"new", "registering"}
        BY <1>1, <1>2, Zenon DEF WholeOrLeaving
    <2> QED
        BY <1>1, <1>2, <1>3, <2>4, <2>5, <2>6, Zenon DEF WholeOrLeaving
<1>4. CASE d # c
    <2>1. send'[d] = send[d] /\ batch'[d] = batch[d] /\ writer'[d] = writer[d]
        BY <1>1, <1>2, <1>4, Zenon
    <2> QED
        BY <1>1, <1>2, <2>1, WholeUnchanged, Zenon
<1> QED
    BY <1>3, <1>4, Zenon

\* WritePump sends the frame, or returns and closes the connection.
LEMMA FlushWhole ==
    ASSUME FeedInv, WholeInv, NEW c \in Clients, Flush(c) \/ WriterReturns(c)
    PROVE  WholeInv'
<1> SUFFICES ASSUME NEW d \in Clients PROVE WholeOrLeaving(d)'
    BY Zenon DEF WholeInv
<1>1. /\ batch' = [batch EXCEPT ![c] = <<>>]
      /\ UNCHANGED <<clients, stream, joined, send, reader, leaving>>
      /\ \/ /\ got' = [got EXCEPT ![c] = IF conn[c] = "open" THEN got[c] \o batch[c] ELSE got[c]]
            /\ writer' = [writer EXCEPT ![c] = "select"] /\ conn' = conn
         \/ /\ got' = got /\ conn' = [conn EXCEPT ![c] = "closed"]
            /\ writer' = [writer EXCEPT ![c] = "done"]
    BY ZenonT(60) DEF Flush, WriterReturns, hub, exits
<1>2. /\ DOMAIN batch = Clients /\ DOMAIN got = Clients /\ DOMAIN writer = Clients
      /\ DOMAIN conn = Clients /\ TypeOK /\ WholeOrLeaving(d) /\ WholeOrLeaving(c)
    BY Zenon DEF FeedInv, TypeOK, WholeInv
<1>3. CASE d = c
    <2>1. got[c] \in Seq(Update) /\ batch[c] \in Seq(Update) /\ got[c] \o batch[c] \in Seq(Update)
        BY <1>2, FeedTypes, Zenon
    <2>2. batch'[c] = <<>> /\ UpToNow(c)' = UpToNow(c) /\ send'[c] = send[c]
        BY <1>1, <1>2, Zenon DEF UpToNow
    <2>3. reader[c] \in {"new", "registering"} => got'[c] = <<>>
        BY <1>1, <1>2, EmptySeq, ConcatEmptySeq, Zenon DEF WholeOrLeaving
    <2>4. conn'[c] = "open" => conn[c] = "open" /\ got'[c] = got[c] \o batch[c]
        BY <1>1, <1>2, Zenon
    <2>5. (got[c] \o batch[c]) \o <<>> = got[c] \o batch[c]
        BY <2>1, ConcatEmptySeq, Zenon
    <2>6. conn'[c] = "open" => Sent(c)' = Sent(c)
        BY <2>2, <2>4, <2>5, Zenon DEF Sent
    <2> QED
        BY <1>1, <1>2, <1>3, <2>2, <2>3, <2>4, <2>6, Zenon DEF WholeOrLeaving
<1>4. CASE d # c
    <2>1. got'[d] = got[d] /\ batch'[d] = batch[d] /\ writer'[d] = writer[d] /\ conn'[d] = conn[d]
        BY <1>1, <1>2, <1>4, Zenon
    <2> QED
        BY <1>1, <1>2, <2>1, WholeUnchanged, Zenon
<1> QED
    BY <1>3, <1>4, Zenon

\* The live feed of a connected client has no gap before a goroutine is there
\* to disconnect it, for any number of clients, any capacity of their channels
\* and any number of updates.
THEOREM GapAlwaysMeansLeaving == Spec => []GapMeansLeaving
<1>1. Init => WholeInv
    <2> SUFFICES ASSUME Init, NEW c \in Clients PROVE WholeOrLeaving(c)
        BY Zenon DEF WholeInv
    <2>1. clients = {} /\ got[c] = <<>> /\ batch[c] = <<>> /\ send[c] = <<>>
        BY Zenon DEF Init
    <2> QED
        BY <2>1, Zenon DEF WholeOrLeaving
<1>2. FeedInv /\ WholeInv /\ [Next]_vars => WholeInv'
    <2> SUFFICES ASSUME FeedInv, WholeInv, [Next]_vars PROVE WholeInv'
        BY Zenon
    <2>1. CASE Forward \/ UNCHANGED vars
        <3>1. UNCHANGED <<clients, stream, joined, send, batch, reader, writer, leaving, conn, got>>
            BY <2>1, ZenonT(30) DEF Forward, vars, hub, exits, frame
        <3> QED
            BY <3>1, WholeUnchanged, Zenon DEF WholeInv
    <2>2. CASE Broadcast
        BY <2>2, BroadcastWhole, Zenon
    <2>3. ASSUME NEW c \in Clients,
                 \/ ServeWs(c) \/ Register(c) \/ Unregister(c) \/ CloseConn(c)
                 \/ ReadFails(c) \/ WritePump(c) \/ PeerLeaves(c)
          PROVE  WholeInv'
        BY <2>3, RegisterWhole, LeaveWhole, CollectWhole, FlushWhole, Zenon DEF WritePump
    <2> QED
        BY <2>1, <2>2, <2>3, Zenon DEF Next
<1>3. FeedInv /\ WholeInv => GapMeansLeaving
    BY Zenon DEF FeedInv, TypeOK, WholeInv, WholeOrLeaving, GapMeansLeaving
<1> QED
    BY <1>1, <1>2, <1>3, FeedInvariant, PTL DEF Spec
=============================================================================
