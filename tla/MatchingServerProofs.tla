------------------------ MODULE MatchingServerProofs ------------------------
(***************************************************************************)
(* Proofs about the market-data hub (Hub) and the matching server that       *)
(* publishes through it (MatchingServer), for any clients, requests and      *)
(* channel capacities: ServerInv is an invariant, no feed has a gap, and     *)
(* every trade is published in order.                                        *)
(***************************************************************************)
EXTENDS MatchingServer, SequenceTheorems, FiniteSetTheorems, TLAPS

\* A prefix agrees with the whole at every place it has.
LEMMA PrefixIs ==
    ASSUME NEW M, NEW s \in Seq(M), NEW t \in Seq(M)
    PROVE  IsPrefix(s, t) <=> Len(s) <= Len(t) /\ \A k \in 1 .. Len(s) : s[k] = t[k]
<1>1. Len(s) \in Nat /\ Len(t) \in Nat
  BY LenProperties, Zenon
<1>2. \A k \in 1 .. Len(s) : s[k] \in M
  BY ElementOfSeq, Zenon
<1>3. /\ SubSeq(s, 1, Len(s)) \in Seq(M) /\ Len(SubSeq(s, 1, Len(s))) = Len(s)
      /\ \A k \in 1 .. Len(s) : SubSeq(s, 1, Len(s))[k] = s[k]
  BY <1>1, <1>2, SubSeqProperties
<1>4. ASSUME Len(s) <= Len(t)
      PROVE  /\ SubSeq(t, 1, Len(s)) \in Seq(M) /\ Len(SubSeq(t, 1, Len(s))) = Len(s)
             /\ \A k \in 1 .. Len(s) : SubSeq(t, 1, Len(s))[k] = t[k]
  <2>1. \A k \in 1 .. Len(s) : t[k] \in M
    BY <1>1, <1>4, ElementOfSeq
  <2> QED BY <1>1, <2>1, SubSeqProperties
<1>5. ASSUME IsPrefix(s, t) PROVE Len(s) <= Len(t) /\ \A k \in 1 .. Len(s) : s[k] = t[k]
  <2>1. Len(s) <= Len(t) /\ SubSeq(s, 1, Len(s)) = SubSeq(t, 1, Len(s))
    BY <1>5, Zenon DEF IsPrefix
  <2> QED BY <1>3, <1>4, <2>1, Zenon
<1>6. ASSUME Len(s) <= Len(t), \A k \in 1 .. Len(s) : s[k] = t[k]
      PROVE  IsPrefix(s, t)
  <2>1. SubSeq(s, 1, Len(s)) = SubSeq(t, 1, Len(s))
    BY <1>3, <1>4, <1>6, SeqEqual, Zenon
  <2> QED BY <1>6, <2>1, Zenon DEF IsPrefix
<1> QED BY <1>5, <1>6, Zenon

\* A prefix stays one when the whole grows.
LEMMA PrefixGrows ==
    ASSUME NEW M, NEW s \in Seq(M), NEW t \in Seq(M), NEW m \in M, IsPrefix(s, t)
    PROVE  IsPrefix(s, Append(t, m))
<1>1. Len(s) <= Len(t) /\ \A k \in 1 .. Len(s) : s[k] = t[k]
  BY PrefixIs
<1>2. /\ Append(t, m) \in Seq(M) /\ Len(Append(t, m)) = Len(t) + 1
      /\ \A k \in 1 .. Len(t) : Append(t, m)[k] = t[k]
  BY AppendProperties
<1>3. Len(s) \in Nat /\ Len(t) \in Nat
  BY LenProperties, Zenon
<1>4. Len(s) <= Len(Append(t, m)) /\ \A k \in 1 .. Len(s) : s[k] = Append(t, m)[k]
  BY <1>1, <1>2, <1>3
<1> QED BY <1>2, <1>4, PrefixIs, Zenon

\* The front of a prefix is a prefix.
LEMMA PrefixFront ==
    ASSUME NEW M, NEW s \in Seq(M), NEW u \in Seq(M), NEW t \in Seq(M), IsPrefix(s \o u, t)
    PROVE  IsPrefix(s, t)
<1>1. /\ s \o u \in Seq(M) /\ Len(s \o u) = Len(s) + Len(u)
      /\ \A k \in 1 .. Len(s) + Len(u) : (s \o u)[k] = IF k <= Len(s) THEN s[k] ELSE u[k - Len(s)]
  BY ConcatProperties, Zenon
<1>2. Len(s \o u) <= Len(t) /\ \A k \in 1 .. Len(s \o u) : (s \o u)[k] = t[k]
  BY <1>1, PrefixIs, Zenon
<1>3. Len(s) \in Nat /\ Len(t) \in Nat /\ Len(u) \in Nat
  BY LenProperties, Zenon
<1>4. Len(s) <= Len(t) /\ \A k \in 1 .. Len(s) : s[k] = t[k]
  BY <1>1, <1>2, <1>3
<1> QED BY <1>4, PrefixIs, Zenon

\* A sequence is a prefix of itself, and the empty one of every sequence.
LEMMA PrefixEnds ==
    ASSUME NEW M, NEW t \in Seq(M)
    PROVE  IsPrefix(t, t) /\ IsPrefix(<<>>, t)
<1>1. Len(t) \in Nat /\ <<>> \in Seq(M) /\ Len(<<>>) = 0
  BY LenProperties, EmptySeq, Zenon
<1>2. IsPrefix(t, t)
  BY <1>1, PrefixIs
<1>3. IsPrefix(<<>>, t)
  <2>1. SubSeq(<<>>, 1, 0) = <<>> /\ SubSeq(t, 1, 0) = <<>>
    BY SubSeqEmpty
  <2> QED BY <1>1, <2>1 DEF IsPrefix
<1> QED BY <1>2, <1>3, Zenon

\* What follows a place of a stream grows with the stream.
LEMMA RestGrows ==
    ASSUME NEW M, NEW s \in Seq(M), NEW m \in M, NEW j \in 0 .. Len(s)
    PROVE  /\ SubSeq(s, j + 1, Len(s)) \in Seq(M)
           /\ SubSeq(Append(s, m), j + 1, Len(Append(s, m)))
                = Append(SubSeq(s, j + 1, Len(s)), m)
<1> DEFINE r == SubSeq(s, j + 1, Len(s))
           a == Append(s, m)
           q == SubSeq(a, j + 1, Len(a))
<1>1. Len(s) \in Nat /\ \A k \in 1 .. Len(s) : s[k] \in M
  BY LenProperties, ElementOfSeq, Zenon
<1>2. /\ a \in Seq(M) /\ Len(a) = Len(s) + 1 /\ a[Len(s) + 1] = m
      /\ \A k \in 1 .. Len(s) : a[k] = s[k]
  BY AppendProperties
<1>3. \A k \in 1 .. Len(a) : a[k] \in M
  BY <1>2, ElementOfSeq, Zenon
<1>4. /\ r \in Seq(M) /\ Len(r) = Len(s) - j
      /\ \A k \in 1 .. Len(s) - j : r[k] = s[j + k]
  <2>1. j + 1 \in Int /\ Len(s) \in Int /\ \A k \in j + 1 .. Len(s) : s[k] \in M
    BY <1>1
  <2>2. /\ r \in Seq(M) /\ Len(r) = IF j + 1 <= Len(s) THEN Len(s) - (j + 1) + 1 ELSE 0
        /\ \A k \in 1 .. Len(s) - (j + 1) + 1 : r[k] = s[(j + 1) + k - 1]
    BY <2>1, SubSeqProperties
  <2> HIDE DEF r
  <2> QED BY <1>1, <2>2
<1>5. /\ q \in Seq(M) /\ Len(q) = Len(s) + 1 - j
      /\ \A k \in 1 .. Len(s) + 1 - j : q[k] = a[j + k]
  <2>1. j + 1 \in Int /\ Len(a) \in Int /\ \A k \in j + 1 .. Len(a) : a[k] \in M
    BY <1>1, <1>2, <1>3
  <2> HIDE DEF a
  <2>2. /\ q \in Seq(M) /\ Len(q) = IF j + 1 <= Len(a) THEN Len(a) - (j + 1) + 1 ELSE 0
        /\ \A k \in 1 .. Len(a) - (j + 1) + 1 : q[k] = a[(j + 1) + k - 1]
    BY <2>1, SubSeqProperties
  <2> HIDE DEF q
  <2> QED BY <1>1, <1>2, <2>2
<1> HIDE DEF r, a, q
<1> DEFINE n == Len(r)
<1>6. n \in Nat /\ Len(q) = n + 1 /\ Len(s) = n + j
  <2>1. j \in Nat /\ j <= Len(s) /\ n = Len(s) - j /\ Len(q) = Len(s) + 1 - j
    BY <1>1, <1>4, <1>5
  <2> QED BY <1>1, <2>1
<1>7. /\ Append(r, m) \in Seq(M) /\ Len(Append(r, m)) = Len(r) + 1
      /\ \A k \in 1 .. Len(r) : Append(r, m)[k] = r[k]
      /\ Append(r, m)[Len(r) + 1] = m
  BY <1>4, AppendProperties
<1>8. ASSUME NEW k \in 1 .. Len(q) PROVE q[k] = Append(r, m)[k]
  <2>1. CASE k <= Len(r)
    <3>1. /\ k \in 1 .. Len(r) /\ k \in 1 .. Len(s) - j /\ k \in 1 .. Len(s) + 1 - j
          /\ j + k \in 1 .. Len(s)
      BY <1>6, <2>1
    <3>2. q[k] = a[j + k] /\ a[j + k] = s[j + k] /\ r[k] = s[j + k]
      BY <1>2, <1>4, <1>5, <3>1, Zenon
    <3> QED BY <1>7, <3>1, <3>2, Zenon
  <2>2. CASE ~(k <= Len(r))
    <3>1. k = Len(r) + 1 /\ j + k = Len(s) + 1
      BY <1>6, <2>2
    <3>2. k \in 1 .. Len(s) + 1 - j
      BY <1>5, Zenon
    <3> QED BY <1>2, <1>5, <1>7, <3>1, <3>2, Zenon
  <2> QED BY <2>1, <2>2, Zenon
<1>9. q = Append(r, m)
  <2>1. q \in Seq(M) /\ Append(r, m) \in Seq(M) /\ Len(q) = Len(Append(r, m))
    BY <1>5, <1>7, <1>6, Zenon
  <2> QED BY <1>8, <2>1, SeqEqual, Zenon
<1> QED BY <1>4, <1>9, Zenon DEF r, a, q

\* The head of a queue moves to what is before the queue.
LEMMA HeadMoves ==
    ASSUME NEW M, NEW b \in Seq(M), NEW q \in Seq(M), q # <<>>
    PROVE  b \o q = Append(b, Head(q)) \o Tail(q)
<1> DEFINE x == b \o q
           a == Append(b, Head(q))
           y == a \o Tail(q)
<1>1. /\ Head(q) \in M /\ Tail(q) \in Seq(M) /\ Len(Tail(q)) = Len(q) - 1 /\ Head(q) = q[1]
      /\ \A k \in 1 .. Len(Tail(q)) : Tail(q)[k] = q[k + 1]
  BY HeadTailProperties
<1>2. /\ a \in Seq(M) /\ Len(a) = Len(b) + 1 /\ a[Len(b) + 1] = Head(q)
      /\ \A k \in 1 .. Len(b) : a[k] = b[k]
  BY <1>1, AppendProperties
<1>3. /\ x \in Seq(M) /\ Len(x) = Len(b) + Len(q)
      /\ \A k \in 1 .. Len(b) + Len(q) : x[k] = IF k <= Len(b) THEN b[k] ELSE q[k - Len(b)]
  BY ConcatProperties, Zenon
<1> HIDE DEF x, a
<1>4. /\ y \in Seq(M) /\ Len(y) = Len(a) + Len(Tail(q))
      /\ \A k \in 1 .. Len(a) + Len(Tail(q)) :
            y[k] = IF k <= Len(a) THEN a[k] ELSE Tail(q)[k - Len(a)]
  BY <1>1, <1>2, ConcatProperties, Zenon
<1> HIDE DEF y
<1>5. Len(b) \in Nat /\ Len(q) \in Nat
  BY LenProperties, Zenon
<1>6. ASSUME NEW k \in 1 .. Len(x) PROVE x[k] = y[k]
  <2>0. /\ Len(a) = Len(b) + 1 /\ Len(Tail(q)) = Len(q) - 1 /\ Len(q) >= 1
        /\ Len(x) = Len(b) + Len(q)
    BY <1>1, <1>2, <1>3, <1>5
  <2>1. CASE k <= Len(b)
    <3>1. /\ k \in 1 .. Len(b) /\ k <= Len(a)
          /\ k \in 1 .. Len(a) + Len(Tail(q)) /\ k \in 1 .. Len(b) + Len(q)
      BY <1>5, <2>0, <2>1
    <3> QED BY <1>2, <1>3, <1>4, <2>1, <3>1, Zenon
  <2>2. CASE k = Len(b) + 1
    BY <1>1, <1>2, <1>3, <1>4, <1>5, <2>2
  <2>3. CASE k > Len(b) + 1
    <3>1. /\ k - Len(a) \in 1 .. Len(Tail(q)) /\ ~(k <= Len(a)) /\ ~(k <= Len(b))
          /\ k \in 1 .. Len(a) + Len(Tail(q)) /\ k \in 1 .. Len(b) + Len(q)
          /\ (k - Len(a)) + 1 = k - Len(b)
      BY <1>1, <1>2, <1>3, <1>5, <2>3
    <3>2. y[k] = Tail(q)[k - Len(a)] /\ x[k] = q[k - Len(b)]
      BY <1>3, <1>4, <3>1, Zenon
    <3> QED BY <1>1, <3>1, <3>2, Zenon
  <2> QED BY <1>3, <1>5, <2>1, <2>2, <2>3
<1>7. x = y
  BY <1>1, <1>2, <1>3, <1>4, <1>5, <1>6, SeqEqual
<1> QED BY <1>7, Zenon DEF x, y, a

\* Appending to the last part of a concatenation appends to the whole.
LEMMA AppendOut ==
    ASSUME NEW M, NEW b \in Seq(M), NEW q \in Seq(M), NEW m \in M
    PROVE  b \o Append(q, m) = Append(b \o q, m)
<1>1. Append(q, m) = q \o <<m>> /\ <<m>> \in Seq(M) /\ b \o q \in Seq(M)
  BY AppendIsConcat, ConcatProperties
<1>2. Append(b \o q, m) = (b \o q) \o <<m>>
  BY <1>1, AppendIsConcat, Zenon
<1> QED BY <1>1, <1>2, ConcatAssociative

-----------------------------------------------------------------------------
\* The hub, for any set M of messages.

\* A new hub, as NewHub returns it, satisfies the invariant.
LEMMA HubInitInv ==
    ASSUME NEW M, HubInit
    PROVE  HubInv(M)
<1>1. <<>> \in Seq(M) /\ Len(<<>>) = 0
  BY EmptySeq, Zenon
<1>2. HubShape(M)
  <2>1. /\ broadcast \in Seq(M) /\ Len(broadcast) <= BroadcastCap
        /\ stream \in Seq(M) /\ Len(stream) = 0
    BY <1>1, HubAssumption DEF HubInit
  <2>2. /\ send \in [Clients -> Seq(M)]
        /\ holding \in [Clients -> Seq(M)]
        /\ got \in [Clients -> Seq(M)]
    BY <1>1, Zenon DEF HubInit
  <2>3. \A c \in Clients : Len(send[c]) <= SendCap /\ Len(holding[c]) <= 1
    BY <1>1, HubAssumption DEF HubInit
  <2>4. /\ clients \subseteq Clients
        /\ reader \in [Clients -> {"new", "registering", "reading", "leaving", "done"}]
        /\ writer \in [Clients -> {"idle", "writing", "done"}]
        /\ conn \in [Clients -> {"open", "broken", "closed"}]
        /\ joined \in [Clients -> 0 .. 0]
    BY DEF HubInit
  <2>5. closed \in [Clients -> BOOLEAN] /\ panicked \in BOOLEAN
    BY Zenon DEF HubInit
  <2>6. QED
    BY <2>1, <2>2, <2>3, <2>4, <2>5, Zenon DEF HubShape
<1>3. ChannelsOpen /\ NoPanic
  BY Zenon DEF HubInit, ChannelsOpen, NoPanic
<1>4. QED
  BY <1>2, <1>3, Zenon DEF HubInv

\* Queueing a message keeps the invariant.
LEMMA PublishInv ==
    ASSUME NEW M, HubInv(M), NEW m \in M, Publish(m),
           UNCHANGED <<clients, send, closed, clientVars, stream, joined, panicked>>
    PROVE  HubInv(M)'
<1>1. broadcast' \in Seq(M) /\ Len(broadcast') = Len(broadcast) + 1
  BY AppendProperties, Zenon DEF HubInv, HubShape, Publish
<1>2. Len(broadcast') <= BroadcastCap
  BY <1>1, HubAssumption, LenProperties DEF HubInv, HubShape, Publish
<1>3. QED
  BY <1>1, <1>2, Zenon DEF HubInv, HubShape, ChannelsOpen, NoPanic, clientVars

\* ServeWs, readPump and the peer only move the reader and the connection.
LEMMA ReaderInv ==
    ASSUME NEW M, HubInv(M), NEW c \in Clients,
           ServeWs(c) \/ ReadFails(c) \/ PeerLeaves(c)
    PROVE  HubInv(M)'
<1>1. CASE ServeWs(c)
  BY <1>1, Zenon DEF HubInv, HubShape, ChannelsOpen, NoPanic, ServeWs
<1>2. CASE ReadFails(c)
  BY <1>2, Zenon DEF HubInv, HubShape, ChannelsOpen, NoPanic, ReadFails
<1>3. CASE PeerLeaves(c)
  BY <1>3, Zenon DEF HubInv, HubShape, ChannelsOpen, NoPanic, PeerLeaves
<1>4. QED
  BY <1>1, <1>2, <1>3, Zenon

\* writePump only takes from its own channel.
LEMMA WriterInv ==
    ASSUME NEW M, HubInv(M), NEW c \in Clients,
           Take(c) \/ Write(c) \/ Drained(c)
    PROVE  HubInv(M)'
<1>1. CASE Take(c)
  <2>1. /\ Head(send[c]) \in M
        /\ Tail(send[c]) \in Seq(M)
        /\ Len(Tail(send[c])) = Len(send[c]) - 1
    BY <1>1, HeadTailProperties, Zenon DEF HubInv, HubShape, Take
  <2>2. Len(Tail(send[c])) <= SendCap
    BY <2>1, HubAssumption, LenProperties DEF HubInv, HubShape
  <2>3. <<Head(send[c])>> \in Seq(M) /\ Len(<<Head(send[c])>>) = 1
    BY <2>1
  <2>4. QED
    BY <1>1, <2>1, <2>2, <2>3 DEF HubInv, HubShape, ChannelsOpen, NoPanic, Take
<1>2. CASE Write(c)
  <2>1. got[c] \o holding[c] \in Seq(M)
    BY ConcatProperties, Zenon DEF HubInv, HubShape
  <2>2. got' \in [Clients -> Seq(M)]
    BY <1>2, <2>1, ZenonT(60) DEF HubInv, HubShape, Write
  <2>3. holding' \in [Clients -> Seq(M)] /\ \A d \in Clients : Len(holding'[d]) <= 1
    BY <1>2, EmptySeq DEF HubInv, HubShape, Write
  <2>4. QED
    BY <1>2, <2>2, <2>3, ZenonT(30) DEF HubInv, HubShape, ChannelsOpen, NoPanic, Write
<1>3. CASE Drained(c)
  BY <1>3, Zenon DEF HubInv, HubShape, ChannelsOpen, NoPanic, Drained
<1>4. QED
  BY <1>1, <1>2, <1>3, Zenon

\* The cases of Run's select: none closes a closed channel or sends on one.
LEMMA HubRunInv ==
    ASSUME NEW M, HubInv(M), HubRun
    PROVE  HubInv(M)'
<1>1. CASE Broadcast
  <2> DEFINE m == Head(broadcast)
             room == {c \in clients : Len(send[c]) < SendCap}
  <2>1. m \in M /\ Tail(broadcast) \in Seq(M) /\ Len(Tail(broadcast)) = Len(broadcast) - 1
    BY <1>1, HeadTailProperties, Zenon DEF HubInv, HubShape, Broadcast
  <2>2. Len(Tail(broadcast)) <= BroadcastCap
    BY <2>1, HubAssumption, LenProperties DEF HubInv, HubShape
  <2>3. \A c \in Clients : Append(send[c], m) \in Seq(M)
                        /\ Len(Append(send[c], m)) = Len(send[c]) + 1
    BY <2>1, AppendProperties DEF HubInv, HubShape
  <2>4. Append(stream, m) \in Seq(M) /\ Len(Append(stream, m)) = Len(stream) + 1
    BY <2>1, AppendProperties DEF HubInv, HubShape
  <2>5. /\ broadcast' = Tail(broadcast) /\ stream' = Append(stream, m)
        /\ clients' = room
        /\ send' = [c \in Clients |-> IF c \in room THEN Append(send[c], m) ELSE send[c]]
        /\ closed' = [c \in Clients |-> closed[c] \/ c \in clients \ room]
        /\ panicked' = (panicked \/ \E c \in clients : closed[c])
        /\ UNCHANGED <<reader, writer, holding, conn, got, joined>>
    BY <1>1, Zenon DEF Broadcast, clientVars
  <2>6. send' \in [Clients -> Seq(M)] /\ \A c \in Clients : Len(send'[c]) <= SendCap
    <3>1. send' \in [Clients -> Seq(M)]
      BY <2>3, <2>5, Zenon DEF HubInv, HubShape
    <3>2. ASSUME NEW c \in Clients PROVE Len(send'[c]) <= SendCap
      BY <2>3, <2>5, HubAssumption, LenProperties DEF HubInv, HubShape
    <3>3. QED
      BY <3>1, <3>2, Zenon
  <2>7. joined' \in [Clients -> 0 .. Len(stream')]
    BY <2>4, <2>5, LenProperties DEF HubInv, HubShape
  <2>8. ChannelsOpen' /\ NoPanic' /\ panicked' \in BOOLEAN
    <3>1. \A c \in clients : ~closed[c]
      BY Zenon DEF HubInv, ChannelsOpen
    <3>2. panicked' = FALSE
      BY <2>5, <3>1, Zenon DEF HubInv, NoPanic
    <3>3. \A c \in clients' : c \in Clients /\ ~closed'[c]
      BY <2>5, <3>1, Zenon DEF HubInv, HubShape
    <3>4. ASSUME NEW c \in Clients, reader'[c] \in {"new", "registering"}
          PROVE  c \notin clients' /\ ~closed'[c]
      BY <2>5, <3>4, ZenonT(30) DEF HubInv, ChannelsOpen
    <3>5. QED
      BY <3>2, <3>3, <3>4, ZenonT(30) DEF ChannelsOpen, NoPanic
  <2>9. clients' \subseteq Clients /\ closed' \in [Clients -> BOOLEAN]
    BY <2>5, Zenon DEF HubInv, HubShape
  <2>10. QED
    <3> HIDE DEF m, room
    <3> QED
      BY <2>1, <2>2, <2>4, <2>5, <2>6, <2>7, <2>8, <2>9, Zenon DEF HubInv, HubShape
<1>2. ASSUME NEW c \in Clients, Register(c) PROVE HubInv(M)'
  BY <1>2, LenProperties DEF HubInv, HubShape, ChannelsOpen, NoPanic, Register
<1>3. ASSUME NEW c \in Clients, Unregister(c) PROVE HubInv(M)'
  BY <1>3, ZenonT(30) DEF HubInv, HubShape, ChannelsOpen, NoPanic, Unregister
<1>4. QED
  BY <1>1, <1>2, <1>3, Zenon DEF HubRun

\* Every step of the hub, its pumps and its peers keeps the invariant.
LEMMA HubNextInv ==
    ASSUME NEW M, HubInv(M), HubNext
    PROVE  HubInv(M)'
  BY HubRunInv, ReaderInv, WriterInv, Zenon DEF HubNext, Pumps

\* A client of which, and of whose stream, nothing changes.
LEMMA DeliveredUnchanged ==
    ASSUME NEW c \in Clients, Delivered(c), UNCHANGED <<stream, got[c], holding[c], send[c]>>,
           joined'[c] = joined[c],
           reader'[c] \in {"new", "registering"} => reader[c] \in {"new", "registering"},
           writer'[c] # "writing" => writer[c] # "writing",
           conn'[c] = "open" => conn[c] = "open",
           c \in clients' => c \in clients
    PROVE  Delivered(c)'
<1>1. UpToNow(c)' = UpToNow(c) /\ Sent(c)' = Sent(c)
  BY Zenon DEF UpToNow, Sent
<1> QED BY <1>1, Zenon DEF Delivered

\* The parts of a client's feed are sequences of messages.
LEMMA FeedTypes ==
    ASSUME NEW M, HubShape(M), NEW c \in Clients
    PROVE  /\ got[c] \in Seq(M) /\ holding[c] \in Seq(M) /\ send[c] \in Seq(M)
           /\ got[c] \o holding[c] \in Seq(M) /\ Sent(c) \in Seq(M)
           /\ UpToNow(c) \in Seq(M)
<1>1. got[c] \in Seq(M) /\ holding[c] \in Seq(M) /\ send[c] \in Seq(M)
  BY Zenon DEF HubShape
<1>2. got[c] \o holding[c] \in Seq(M)
  BY <1>1, ConcatProperties, Zenon
<1>3. Sent(c) \in Seq(M)
  BY <1>1, <1>2, ConcatProperties, Zenon DEF Sent
<1>4. stream \in Seq(M) /\ joined[c] \in 0 .. Len(stream)
  BY Zenon DEF HubShape
<1>5. UpToNow(c) \in Seq(M)
  <2>1. Len(stream) \in Nat /\ \A k \in 1 .. Len(stream) : stream[k] \in M
    BY <1>4, LenProperties, ElementOfSeq, Zenon
  <2>2. /\ joined[c] + 1 \in Int /\ Len(stream) \in Int
        /\ \A k \in joined[c] + 1 .. Len(stream) : stream[k] \in M
    BY <1>4, <2>1
  <2> QED BY <2>2, SubSeqProperties, Zenon DEF UpToNow
<1> QED BY <1>1, <1>2, <1>3, <1>5, Zenon

\* Hub.Run's broadcast case (hub.go:60-70): a client with room gets the
\* message, one without is cut off where it is.
LEMMA BroadcastDelivers ==
    ASSUME NEW M, HubInv(M), DeliveryInv, Broadcast
    PROVE  DeliveryInv'
<1> SUFFICES ASSUME NEW c \in Clients PROVE Delivered(c)'
  BY Zenon DEF DeliveryInv
<1>1. PICK m \in M : m = Head(broadcast)
  BY HeadTailProperties, Zenon DEF HubInv, HubShape, Broadcast
<1>2. /\ stream' = Append(stream, m)
      /\ clients' = {d \in clients : Len(send[d]) < SendCap}
      /\ send' = [d \in Clients |-> IF d \in clients' THEN Append(send[d], m) ELSE send[d]]
      /\ UNCHANGED <<reader, writer, holding, conn, got, joined>>
  BY <1>1, Zenon DEF Broadcast, clientVars
<1>3. HubShape(M) /\ Delivered(c)
  BY Zenon DEF HubInv, DeliveryInv
<1>4. /\ got[c] \in Seq(M) /\ holding[c] \in Seq(M) /\ send[c] \in Seq(M)
      /\ got[c] \o holding[c] \in Seq(M) /\ Sent(c) \in Seq(M)
      /\ UpToNow(c) \in Seq(M)
  BY <1>3, FeedTypes, Zenon
<1>5. UpToNow(c)' = Append(UpToNow(c), m)
  <2>1. stream \in Seq(M) /\ joined[c] \in 0 .. Len(stream)
    BY <1>3, Zenon DEF HubShape
  <2> QED BY <1>2, <2>1, RestGrows, Zenon DEF UpToNow
<1>6. IsPrefix(got[c], UpToNow(c))'
  BY <1>2, <1>3, <1>4, <1>5, PrefixGrows, Zenon DEF Delivered
<1>7. CASE c \in clients'
  <2>1. send'[c] = Append(send[c], m) /\ c \in clients
    BY <1>2, <1>7, Zenon
  <2>2. Sent(c)' = Append(Sent(c), m)
    <3>1. PICK b \in Seq(M) : b = got[c] \o holding[c]
      BY <1>4, Zenon
    <3>2. b \o Append(send[c], m) = Append(b \o send[c], m)
      BY <1>4, AppendOut
    <3>3. got'[c] = got[c] /\ holding'[c] = holding[c]
      BY <1>2, Zenon
    <3> QED BY <2>1, <3>1, <3>2, <3>3, Zenon DEF Sent
  <2>3. reader[c] \notin {"new", "registering"}
    BY <2>1, Zenon DEF HubInv, ChannelsOpen
  <2>4. conn'[c] = "open" => Sent(c)' = UpToNow(c)'
    BY <1>2, <1>3, <1>5, <2>1, <2>2, Zenon DEF Delivered
  <2>5. UpToNow(c)' \in Seq(M)
    BY <1>4, <1>5, AppendProperties
  <2>6. conn'[c] = "open" => IsPrefix(Sent(c)', UpToNow(c)')
    BY <2>4, <2>5, PrefixEnds, Zenon
  <2> QED BY <1>2, <1>3, <1>6, <2>3, <2>4, <2>6, Zenon DEF Delivered
<1>8. CASE c \notin clients'
  <2>1. send'[c] = send[c]
    BY <1>2, <1>8, Zenon
  <2>2. Sent(c)' = Sent(c)
    BY <1>2, <2>1, Zenon DEF Sent
  <2>3. conn'[c] = "open" => IsPrefix(Sent(c)', UpToNow(c)')
    BY <1>2, <1>3, <1>4, <1>5, <2>2, PrefixGrows, Zenon DEF Delivered
  <2> QED BY <1>2, <1>3, <1>6, <1>8, <2>1, <2>3, Zenon DEF Delivered
<1> QED BY <1>7, <1>8, Zenon

\* Registering (hub.go:49-52) starts the client's stream where the hub's is.
LEMMA RegisterDelivers ==
    ASSUME NEW M, HubInv(M), DeliveryInv, NEW c \in Clients, Register(c)
    PROVE  DeliveryInv'
<1> SUFFICES ASSUME NEW d \in Clients PROVE Delivered(d)'
  BY Zenon DEF DeliveryInv
<1>1. /\ reader[c] = "registering" /\ clients' = clients \cup {c}
      /\ joined' = [joined EXCEPT ![c] = Len(stream)]
      /\ reader' = [reader EXCEPT ![c] = "reading"]
      /\ UNCHANGED <<send, writer, holding, conn, got, stream>>
  BY Zenon DEF Register
<1>2. joined \in [Clients -> 0 .. Len(stream)] /\ stream \in Seq(M) /\ Delivered(d)
      /\ DOMAIN reader = Clients
  BY Zenon DEF HubInv, HubShape, DeliveryInv
<1>3. CASE d = c
  <2>1. Len(stream) \in Nat
    BY <1>2, LenProperties, Zenon
  <2>2. UpToNow(c)' = <<>>
    <3>1. joined'[c] = Len(stream)
      BY <1>1, <1>2, Zenon
    <3> QED BY <1>1, <2>1, <3>1, SubSeqEmpty DEF UpToNow
  <2>3. got'[c] = <<>> /\ holding'[c] = <<>> /\ send'[c] = <<>> /\ reader'[c] = "reading"
    BY <1>1, <1>2, <1>3, Zenon DEF Delivered
  <2>4. <<>> \o <<>> = <<>> /\ IsPrefix(<<>>, <<>>)
    BY EmptySeq, ConcatEmptySeq, PrefixEnds, Zenon
  <2>5. Sent(c)' = <<>>
    BY <2>3, <2>4, Zenon DEF Sent
  <2> QED BY <1>3, <2>2, <2>3, <2>4, <2>5, Zenon DEF Delivered
<1>4. CASE d # c
  BY <1>1, <1>2, <1>4, DeliveredUnchanged, Zenon
<1> QED BY <1>3, <1>4, Zenon

\* Unregistering, and the steps of readPump and of the peer, deliver nothing
\* and only end connections.
LEMMA ReaderDelivers ==
    ASSUME NEW M, HubInv(M), DeliveryInv, NEW c \in Clients,
           Unregister(c) \/ ServeWs(c) \/ ReadFails(c) \/ Drained(c) \/ PeerLeaves(c)
    PROVE  DeliveryInv'
<1> SUFFICES ASSUME NEW d \in Clients PROVE Delivered(d)'
  BY Zenon DEF DeliveryInv
<1>1. /\ UNCHANGED <<stream, got, holding, send, joined>>
      /\ clients' \subseteq clients
      /\ \/ reader' = reader
         \/ reader[c] = "new" /\ reader' = [reader EXCEPT ![c] = "registering"]
         \/ \E x \in {"leaving", "done"} : reader' = [reader EXCEPT ![c] = x]
      /\ \/ writer' = writer
         \/ writer[c] = "idle" /\ writer' = [writer EXCEPT ![c] = "done"]
      /\ conn' = conn \/ \E x \in {"broken", "closed"} : conn' = [conn EXCEPT ![c] = x]
  BY ZenonT(60) DEF Unregister, ServeWs, ReadFails, Drained, PeerLeaves
<1>2. /\ DOMAIN reader = Clients /\ DOMAIN writer = Clients /\ DOMAIN conn = Clients
      /\ Delivered(d)
  BY Zenon DEF HubInv, HubShape, DeliveryInv
<1>3. reader'[d] \in {"new", "registering"} => reader[d] \in {"new", "registering"}
  BY <1>1, <1>2, Zenon
<1>4. writer'[d] # "writing" => writer[d] # "writing"
  BY <1>1, <1>2, Zenon
<1>5. conn'[d] = "open" => conn[d] = "open"
  BY <1>1, <1>2, Zenon
<1> QED BY <1>1, <1>2, <1>3, <1>4, <1>5, DeliveredUnchanged, Zenon

\* writePump takes the next message from its channel.
LEMMA TakeDelivers ==
    ASSUME NEW M, HubInv(M), DeliveryInv, NEW c \in Clients, Take(c)
    PROVE  DeliveryInv'
<1> SUFFICES ASSUME NEW d \in Clients PROVE Delivered(d)'
  BY Zenon DEF DeliveryInv
<1>1. /\ reader[c] \notin {"new", "registering"} /\ writer[c] = "idle" /\ send[c] # <<>>
      /\ holding' = [holding EXCEPT ![c] = <<Head(send[c])>>]
      /\ send' = [send EXCEPT ![c] = Tail(send[c])]
      /\ writer' = [writer EXCEPT ![c] = "writing"]
      /\ UNCHANGED <<clients, reader, conn, got, stream, joined>>
  BY Zenon DEF Take
<1>2. /\ DOMAIN writer = Clients /\ DOMAIN send = Clients /\ DOMAIN holding = Clients
      /\ HubShape(M) /\ Delivered(d) /\ Delivered(c)
  BY Zenon DEF HubInv, HubShape, DeliveryInv
<1>3. CASE d = c
  <2>1. got[c] \in Seq(M) /\ send[c] \in Seq(M) /\ holding[c] = <<>>
    BY <1>1, <1>2, FeedTypes, Zenon DEF Delivered
  <2>2. holding'[c] = <<Head(send[c])>> /\ send'[c] = Tail(send[c]) /\ writer'[c] = "writing"
    BY <1>1, <1>2, Zenon
  <2>3. Head(send[c]) \in M
    BY <1>1, <2>1, HeadTailProperties, Zenon
  <2>4. got[c] \o <<>> = got[c] /\ got[c] \o <<Head(send[c])>> = Append(got[c], Head(send[c]))
    BY <2>1, <2>3, ConcatEmptySeq, AppendIsConcat, Zenon
  <2>5. got[c] \o send[c] = Append(got[c], Head(send[c])) \o Tail(send[c])
    BY <1>1, <2>1, HeadMoves, Zenon
  <2>6. Sent(c)' = Sent(c) /\ UpToNow(c)' = UpToNow(c)
    <3>1. Sent(c) = got[c] \o send[c]
      BY <2>1, <2>4, Zenon DEF Sent
    <3>2. Sent(c)' = Append(got[c], Head(send[c])) \o Tail(send[c])
      BY <1>1, <2>2, <2>4, Zenon DEF Sent
    <3> QED BY <1>1, <2>5, <3>1, <3>2, Zenon DEF UpToNow
  <2> QED BY <1>1, <1>2, <1>3, <2>2, <2>6, Zenon DEF Delivered
<1>4. CASE d # c
  BY <1>1, <1>2, <1>4, DeliveredUnchanged, Zenon
<1> QED BY <1>3, <1>4, Zenon

\* writePump writes the message, or gives up and closes the connection.
LEMMA WriteDelivers ==
    ASSUME NEW M, HubInv(M), DeliveryInv, NEW c \in Clients, Write(c)
    PROVE  DeliveryInv'
<1> SUFFICES ASSUME NEW d \in Clients PROVE Delivered(d)'
  BY Zenon DEF DeliveryInv
<1>1. /\ writer[c] = "writing"
      /\ holding' = [holding EXCEPT ![c] = <<>>]
      /\ UNCHANGED <<clients, send, reader, stream, joined>>
  BY Zenon DEF Write
<1>2. \/ /\ conn' = conn
         /\ got' = [got EXCEPT ![c] = IF conn[c] = "open" THEN got[c] \o holding[c] ELSE got[c]]
         /\ writer' = [writer EXCEPT ![c] = "idle"]
      \/ /\ conn' = [conn EXCEPT ![c] = "closed"] /\ got' = got
         /\ writer' = [writer EXCEPT ![c] = "done"]
  BY Zenon DEF Write
<1>3. /\ DOMAIN writer = Clients /\ DOMAIN conn = Clients /\ DOMAIN holding = Clients
      /\ DOMAIN got = Clients
      /\ HubShape(M) /\ Delivered(d) /\ Delivered(c)
  BY Zenon DEF HubInv, HubShape, DeliveryInv
<1>4. CASE d = c
  <2>1. /\ got[c] \in Seq(M) /\ send[c] \in Seq(M) /\ holding[c] \in Seq(M)
        /\ got[c] \o holding[c] \in Seq(M) /\ UpToNow(c) \in Seq(M)
    BY <1>3, FeedTypes, Zenon
  <2>2. /\ holding'[c] = <<>> /\ send'[c] = send[c] /\ writer'[c] # "writing"
        /\ UpToNow(c)' = UpToNow(c) /\ reader'[c] = reader[c]
    BY <1>1, <1>2, <1>3, Zenon DEF UpToNow
  <2>3. CASE conn[c] = "open" /\ conn' = conn
    <3>1. got'[c] = got[c] \o holding[c]
      BY <1>2, <1>3, <2>3, Zenon
    <3>2. Sent(c)' = Sent(c)
      <4>1. (got[c] \o holding[c]) \o <<>> = got[c] \o holding[c]
        BY <2>1, ConcatEmptySeq, Zenon
      <4> QED BY <2>2, <3>1, <4>1, Zenon DEF Sent
    <3>3. IsPrefix(got[c] \o holding[c], UpToNow(c))
      BY <1>3, <2>1, <2>3, PrefixFront, Zenon DEF Delivered, Sent
    <3>4. reader[c] \in {"new", "registering"} => got'[c] = <<>>
      BY <1>3, <3>1, EmptySeq, ConcatEmptySeq, Zenon DEF Delivered
    <3> QED BY <1>1, <1>3, <1>4, <2>2, <2>3, <3>1, <3>2, <3>3, <3>4, Zenon DEF Delivered
  <2>4. CASE ~(conn[c] = "open" /\ conn' = conn)
    <3>1. got'[c] = got[c] /\ conn'[c] # "open"
      BY <1>2, <1>3, <2>4, Zenon
    <3> QED BY <1>1, <1>3, <1>4, <2>2, <3>1, Zenon DEF Delivered
  <2> QED BY <2>3, <2>4, Zenon
<1>5. CASE d # c
  <2>1. /\ got'[d] = got[d] /\ holding'[d] = holding[d] /\ writer'[d] = writer[d]
        /\ conn'[d] = conn[d]
    BY <1>1, <1>2, <1>3, <1>5, Zenon
  <2> QED BY <1>1, <1>3, <2>1, DeliveredUnchanged, Zenon
<1> QED BY <1>4, <1>5, Zenon

\* Every step of the hub, its pumps and its peers keeps what is delivered
\* free of gaps.
LEMMA HubNextDelivers ==
    ASSUME NEW M, HubInv(M), DeliveryInv, HubNext
    PROVE  DeliveryInv'
BY BroadcastDelivers, RegisterDelivers, ReaderDelivers, TakeDelivers, WriteDelivers, Zenon
   DEF HubNext, HubRun, Pumps

-----------------------------------------------------------------------------
\* The server.

\* Steps that leave the server's variables alone.
LEMMA LoopUnchanged ==
    ASSUME LoopInv, UNCHANGED serverVars
    PROVE  LoopInv'
  BY DEF LoopInv, ServerShape, ReplyOnce, StaleIsMarked, CleanStopDrains, serverVars, loopVars

\* Steps that leave the hub's variables alone.
LEMMA HubUnchanged ==
    ASSUME NEW M, HubInv(M), UNCHANGED hubVars
    PROVE  HubInv(M)'
  BY Zenon DEF HubInv, HubShape, ChannelsOpen, NoPanic, hubVars, clientVars

\* NewServer and Start.
LEMMA InitInv == Init => ServerInv
<1> SUFFICES ASSUME Init PROVE ServerInv
  BY Zenon
<1>1. HubInv(Message)
  BY HubInitInv, Zenon DEF Init
<1>2. inputChan \in Seq(Reqs \ Malformed) /\ Len(inputChan) = 0 /\ tape \in Seq(Nat)
  BY EmptySeq, Zenon DEF Init
<1>3. ServerShape
  <2>1. bookChanged \in BOOLEAN /\ tick \in BOOLEAN
    BY Zenon DEF Init
  <2>2. handler \in [Reqs -> {"new", "sending", "waiting", "answered", "rejected"}]
    BY Zenon DEF Init
  <2>3. result \in [Reqs -> {"empty", "ok", "notFound"}]
    BY Zenon DEF Init
  <2>4. version \in Nat /\ depthCache \in 0 .. version
    BY DEF Init
  <2>5. QED
    BY <1>2, <2>1, <2>2, <2>3, <2>4, ServerAssumption DEF Init, ServerShape
<1>4. ReplyOnce
  BY <1>2 DEF Init, ReplyOnce
<1>5. QED
  BY <1>1, <1>3, <1>4, Zenon DEF Init, ServerInv, LoopInv, StaleIsMarked, CleanStopDrains, Reqs

\* A request arrives at its handler.
LEMMA ArriveInv ==
    ASSUME ServerInv, NEW r \in Reqs, Arrive(r)
    PROVE  ServerInv'
<1>1. HubInv(Message)'
  BY HubUnchanged, Zenon DEF Arrive, ServerInv
<1>2. LoopInv'
  BY DEF Arrive, ServerInv, LoopInv, ServerShape, ReplyOnce, StaleIsMarked,
         CleanStopDrains, loopVars
<1>3. QED
  BY <1>1, <1>2, Zenon DEF ServerInv

\* A handler queues its request: it was not queued before.
LEMMA EnqueueInv ==
    ASSUME ServerInv, NEW r \in Reqs, Enqueue(r)
    PROVE  ServerInv'
<1>1. HubInv(Message)'
  BY HubUnchanged, Zenon DEF Enqueue, ServerInv
<1>2. r \in Reqs \ Malformed
  BY Zenon DEF Enqueue, ServerInv, LoopInv
<1>3. /\ inputChan' \in Seq(Reqs \ Malformed)
      /\ Len(inputChan') = Len(inputChan) + 1
      /\ \A k \in 1 .. Len(inputChan) : inputChan'[k] = inputChan[k]
      /\ inputChan'[Len(inputChan) + 1] = r
  BY <1>2, AppendProperties DEF Enqueue, ServerInv, LoopInv, ServerShape
<1>4. Len(inputChan) \in Nat
  BY LenProperties, Zenon DEF ServerInv, LoopInv, ServerShape
<1>5. ServerShape'
  BY <1>3, <1>4, ServerAssumption DEF Enqueue, ServerInv, LoopInv, ServerShape
<1>6. ReplyOnce'
  <2>1. \A k \in 1 .. Len(inputChan) : inputChan[k] # r
    BY Zenon DEF Enqueue, ServerInv, LoopInv, ReplyOnce
  <2>2. ASSUME NEW j \in 1 .. Len(inputChan'), NEW k \in 1 .. Len(inputChan'),
               inputChan'[j] = inputChan'[k]
        PROVE  j = k
    BY <1>3, <1>4, <2>1, <2>2 DEF ServerInv, LoopInv, ReplyOnce
  <2>3. ASSUME NEW q \in Reqs
        PROVE  IF handler'[q] = "waiting"
               THEN (\E k \in 1 .. Len(inputChan') : inputChan'[k] = q) <=> result'[q] = "empty"
               ELSE /\ ~ \E k \in 1 .. Len(inputChan') : inputChan'[k] = q
                    /\ result'[q] = "empty"
    <3>1. (\E k \in 1 .. Len(inputChan') : inputChan'[k] = q)
            <=> q = r \/ \E k \in 1 .. Len(inputChan) : inputChan[k] = q
      BY <1>3, <1>4
    <3>2. CASE q = r
      BY <3>1, <3>2, <2>1, Zenon DEF Enqueue, ServerInv, LoopInv, ServerShape, ReplyOnce
    <3>3. CASE q # r
      BY <3>1, <3>3, Zenon DEF Enqueue, ServerInv, LoopInv, ServerShape, ReplyOnce
    <3>4. QED
      BY <3>2, <3>3, Zenon
  <2>4. QED
    BY <2>2, <2>3, Zenon DEF ReplyOnce
<1>7. QED
  BY <1>1, <1>2, <1>5, <1>6 DEF Enqueue, ServerInv, LoopInv, ServerShape, StaleIsMarked,
                         CleanStopDrains, Running

\* A handler receives its reply.
LEMMA AnswerInv ==
    ASSUME ServerInv, NEW r \in Reqs, Answer(r)
    PROVE  ServerInv'
<1>1. HubInv(Message)'
  BY HubUnchanged, Zenon DEF Answer, ServerInv
<1>2. LoopInv'
  BY DEF Answer, ServerInv, LoopInv, ServerShape, ReplyOnce, StaleIsMarked, CleanStopDrains
<1>3. QED
  BY <1>1, <1>2, Zenon DEF ServerInv

\* The loop receives a request: its result channel is empty, so the reply
\* does not block, and the request is not queued again.
LEMMA HandleRequestInv ==
    ASSUME ServerInv, HandleRequest
    PROVE  ServerInv'
<1> DEFINE r == Head(inputChan)
<1>1. HubInv(Message)'
  BY HubUnchanged, Zenon DEF HandleRequest, ServerInv
<1>2. /\ r \in Reqs \ Malformed
      /\ r = inputChan[1]
      /\ Len(inputChan) \in Nat \ {0}
      /\ inputChan' \in Seq(Reqs \ Malformed)
      /\ Len(inputChan') = Len(inputChan) - 1
      /\ \A k \in 1 .. Len(inputChan') : inputChan'[k] = inputChan[k + 1]
  BY HeadTailProperties, LenProperties, EmptySeq
     DEF HandleRequest, ServerInv, LoopInv, ServerShape
<1>3. /\ UNCHANGED <<handler, depthCache, tick, process>>
      /\ loop = "select"
      /\ version \in Nat
      /\ \E outcome \in BOOLEAN : PlaceOrder(r, outcome) \/ CancelOrder(r, outcome)
  BY Zenon DEF HandleRequest, ServerInv, LoopInv, ServerShape
<1> HIDE DEF r
<1>4. PICK outcome \in BOOLEAN : PlaceOrder(r, outcome) \/ CancelOrder(r, outcome)
  BY <1>3, Zenon
<1>5. /\ result' \in [Reqs -> {"empty", "ok", "notFound"}]
      /\ result'[r] # "empty"
      /\ \A q \in Reqs \ {r} : result'[q] = result[q]
  BY <1>2, <1>4, ZenonT(30) DEF PlaceOrder, CancelOrder, ServerInv, LoopInv, ServerShape
<1>6. \/ version' = version + 1 /\ bookChanged' = TRUE
      \/ UNCHANGED <<version, bookChanged>>
  BY <1>4, Zenon DEF PlaceOrder, CancelOrder
<1>7. loop' \in {"select", "trade"} /\ (loop' = "trade" => bookChanged' = TRUE)
  BY <1>3, <1>4, Zenon DEF PlaceOrder, CancelOrder
<1>8. tape' \in Seq(Nat)
  <2>1. tape' = tape \/ tape' = Append(tape, version + 1)
    BY <1>4, Zenon DEF PlaceOrder, CancelOrder
  <2>2. tape \in Seq(Nat) /\ version + 1 \in Nat
    BY <1>3 DEF ServerInv, LoopInv, ServerShape
  <2>3. QED
    BY <2>1, <2>2, AppendProperties
<1>9. ServerShape'
  <2>1. bookChanged' \in BOOLEAN
    BY <1>6, Zenon DEF ServerInv, LoopInv, ServerShape
  <2>2. version' \in Nat /\ depthCache' \in 0 .. version'
    BY <1>3, <1>6 DEF ServerInv, LoopInv, ServerShape
  <2>3. Len(inputChan') <= InputCap
    BY <1>2, ServerAssumption DEF ServerInv, LoopInv, ServerShape
  <2>4. QED
    BY <1>2, <1>3, <1>5, <1>7, <1>8, <2>1, <2>2, <2>3, Zenon DEF ServerInv, LoopInv, ServerShape
<1>10. ReplyOnce'
  <2>1. \A k \in 1 .. Len(inputChan') : inputChan'[k] # r
    BY <1>2 DEF ServerInv, LoopInv, ReplyOnce
  <2>2. ASSUME NEW j \in 1 .. Len(inputChan'), NEW k \in 1 .. Len(inputChan'),
               inputChan'[j] = inputChan'[k]
        PROVE  j = k
    BY <1>2, <2>2 DEF ServerInv, LoopInv, ReplyOnce
  <2>3. ASSUME NEW q \in Reqs
        PROVE  IF handler'[q] = "waiting"
               THEN (\E k \in 1 .. Len(inputChan') : inputChan'[k] = q) <=> result'[q] = "empty"
               ELSE /\ ~ \E k \in 1 .. Len(inputChan') : inputChan'[k] = q
                    /\ result'[q] = "empty"
    <3>1. CASE q = r
      <4>1. handler[r] = "waiting"
        BY <1>2 DEF ServerInv, LoopInv, ReplyOnce
      <4>2. QED
        BY <1>3, <1>5, <2>1, <3>1, <4>1, Zenon
    <3>2. CASE q # r
      <4>1. (\E k \in 1 .. Len(inputChan') : inputChan'[k] = q)
              <=> \E k \in 1 .. Len(inputChan) : inputChan[k] = q
        <5>1. ASSUME NEW k \in 1 .. Len(inputChan), inputChan[k] = q
              PROVE  k - 1 \in 1 .. Len(inputChan') /\ inputChan'[k - 1] = q
          BY <1>2, <3>2, <5>1
        <5>2. ASSUME NEW k \in 1 .. Len(inputChan'), inputChan'[k] = q
              PROVE  k + 1 \in 1 .. Len(inputChan) /\ inputChan[k + 1] = q
          BY <1>2, <5>2
        <5>3. QED
          BY <5>1, <5>2, Zenon
      <4>2. QED
        BY <1>3, <1>5, <3>2, <4>1, Zenon DEF ServerInv, LoopInv, ReplyOnce
    <3>3. QED
      BY <3>1, <3>2, Zenon
  <2>4. QED
    BY <2>2, <2>3, Zenon DEF ReplyOnce
<1>11. StaleIsMarked'
  BY <1>3, <1>6, Zenon DEF ServerInv, LoopInv, StaleIsMarked
<1>12. CleanStopDrains'
  BY <1>3, Zenon DEF HandleRequest, Running, CleanStopDrains
<1>13. QED
  BY <1>1, <1>3, <1>7, <1>9, <1>10, <1>11, <1>12, Zenon DEF ServerInv, LoopInv

\* The ticker and its case of the select.
LEMMA TickInv ==
    ASSUME ServerInv, TickerFires \/ HandleTick
    PROVE  ServerInv'
<1>1. HubInv(Message)'
  BY HubUnchanged, Zenon DEF TickerFires, HandleTick, ServerInv
<1>2. CASE TickerFires
  BY SMTT(60), <1>1, <1>2 DEF TickerFires, ServerInv, LoopInv, ServerShape, ReplyOnce,
                    StaleIsMarked, CleanStopDrains
<1>3. CASE HandleTick
  <2>1. /\ UNCHANGED <<handler, inputChan, result, version, bookChanged, tape, process>>
        /\ loop = "select"
        /\ tick' \in BOOLEAN
    BY <1>3, Zenon DEF HandleTick
  <2>2. ReplyOnce' /\ CleanStopDrains'
    BY <2>1, SMTT(60) DEF ServerInv, LoopInv, ReplyOnce, CleanStopDrains
  <2>3. CASE bookChanged
    <3>1. depthCache' = version /\ loop' = "depth"
      BY <1>3, <2>3, Zenon DEF HandleTick
    <3>2. QED
      BY <1>1, <2>1, <2>2, <3>1, SMTT(60) DEF ServerInv, LoopInv, ServerShape, StaleIsMarked
  <2>4. CASE ~bookChanged
    <3>1. UNCHANGED <<depthCache, loop>>
      BY <1>3, <2>4, Zenon DEF HandleTick
    <3>2. QED
      BY <1>1, <2>1, <2>2, <3>1, Zenon DEF ServerInv, LoopInv, ServerShape, StaleIsMarked
  <2>5. QED
    BY <2>3, <2>4, Zenon
<1>4. QED
  BY <1>2, <1>3, Zenon

\* The loop hands an event to the hub.
LEMMA BroadcastEventInv ==
    ASSUME ServerInv, BroadcastEvent
    PROVE  ServerInv'
<1>1. [kind |-> loop, version |-> version] \in Message
  BY Zenon DEF BroadcastEvent, ServerInv, LoopInv, ServerShape, Message
<1>2. HubInv(Message)'
  BY <1>1, PublishInv, Zenon DEF BroadcastEvent, ServerInv
<1>3. LoopInv'
  BY SMTT(60) DEF BroadcastEvent, ServerInv, LoopInv, ServerShape, ReplyOnce, StaleIsMarked,
         CleanStopDrains
<1>4. QED
  BY <1>2, <1>3, Zenon DEF ServerInv

\* Main: a graceful stop finds no active handler, so the queue is empty.
LEMMA MainInv ==
    ASSUME ServerInv, Main
    PROVE  ServerInv'
<1>1. HubInv(Message)'
  BY HubUnchanged, Zenon DEF Main, Signal, ShutdownReturns, Fatal, ServerInv
<1>2. CASE Signal \/ Fatal
  BY SMTT(60), <1>1, <1>2 DEF Signal, Fatal, ServerInv, LoopInv, ServerShape, ReplyOnce,
                    StaleIsMarked, CleanStopDrains, loopVars
<1>3. CASE ShutdownReturns
  <2>1. \A k \in 1 .. Len(inputChan) : inputChan[k] \in Reqs
    BY ElementOfSeq, Zenon DEF ServerInv, LoopInv, ServerShape
  <2>2. \A k \in 1 .. Len(inputChan) : handler[inputChan[k]] = "waiting"
    BY <2>1, Zenon DEF ServerInv, LoopInv, ReplyOnce
  <2>3. 1 \notin 1 .. Len(inputChan)
    BY <1>3, <2>1, <2>2, Zenon DEF ShutdownReturns, Active
  <2>4. inputChan = <<>>
    BY <2>3, LenProperties, EmptySeq DEF ServerInv, LoopInv, ServerShape
  <2>5. QED
    BY SMTT(60), <1>1, <1>3, <2>4 DEF ShutdownReturns, ServerInv, LoopInv, ServerShape, ReplyOnce,
                       StaleIsMarked, CleanStopDrains, loopVars
<1>4. QED
  BY <1>2, <1>3, Zenon DEF Main

\* ServerInv holds in every reachable state of the server.
THEOREM ServerInvariant == Spec => []ServerInv
<1>1. ASSUME ServerInv, [Next]_vars PROVE ServerInv'
  <2>1. CASE UNCHANGED vars
    BY <1>1, <2>1, HubUnchanged, LoopUnchanged, Zenon DEF ServerInv, vars
  <2>2. CASE Running /\ HubNext /\ UNCHANGED serverVars
    BY <1>1, <2>2, HubNextInv, LoopUnchanged, Zenon DEF ServerInv
  <2>3. CASE \E r \in Reqs : Arrive(r) \/ Enqueue(r) \/ Answer(r)
    BY <1>1, <2>3, ArriveInv, EnqueueInv, AnswerInv, Zenon
  <2>4. CASE Loop \/ TickerFires
    BY <1>1, <2>4, HandleRequestInv, TickInv, BroadcastEventInv, Zenon DEF Loop
  <2>5. CASE Main
    BY <1>1, <2>5, MainInv, Zenon
  <2>6. QED
    BY <1>1, <2>1, <2>2, <2>3, <2>4, <2>5, Zenon DEF Next
<1>2. QED
  BY InitInv, <1>1, PTL DEF Spec

\* The server's state is always well formed, and inputChan, broadcast and
\* every send channel stay within their capacity.
THEOREM ServerTypeCorrect == Spec => []ServerTypeOK
<1>1. ServerInv => ServerTypeOK
  BY Zenon DEF ServerInv, HubInv, LoopInv, ServerTypeOK
<1>2. QED
  BY ServerInvariant, <1>1, PTL

\* Hub.Run never sends on or closes a closed channel, whatever clients do.
THEOREM HubNeverPanics == Spec => []NoPanic
<1>1. ServerInv => NoPanic
  BY Zenon DEF ServerInv, HubInv
<1>2. QED
  BY ServerInvariant, <1>1, PTL

\* Every request that is taken is answered exactly once, without blocking the
\* loop.
THEOREM AnsweredOnce == Spec => []ReplyOnce
<1>1. ServerInv => ReplyOnce
  BY Zenon DEF ServerInv, LoopInv
<1>2. QED
  BY ServerInvariant, <1>1, PTL

\* A depth cache that is out of date is always marked for the next tick.
THEOREM StaleAlwaysMarked == Spec => []StaleIsMarked
<1>1. ServerInv => StaleIsMarked
  BY Zenon DEF ServerInv, LoopInv
<1>2. QED
  BY ServerInvariant, <1>1, PTL

\* A graceful shutdown leaves no queued request behind.
THEOREM CleanStopAlwaysDrains == Spec => []CleanStopDrains
<1>1. ServerInv => CleanStopDrains
  BY Zenon DEF ServerInv, LoopInv
<1>2. QED
  BY ServerInvariant, <1>1, PTL

-----------------------------------------------------------------------------
\* A feed never has a gap, whatever the clients, the requests and the capacity
\* of the channels: what a peer received is a run of the hub's stream from its
\* registration on, and of a connected client of the hub nothing is missing.
THEOREM FeedsHaveNoGaps == Spec => []NoGaps
<1>1. Init => DeliveryInv
  <2> SUFFICES ASSUME Init, NEW c \in Clients PROVE Delivered(c)
    BY Zenon DEF DeliveryInv
  <2>1. /\ stream = <<>> /\ joined[c] = 0 /\ got[c] = <<>> /\ holding[c] = <<>> /\ send[c] = <<>>
    BY Zenon DEF Init, HubInit
  <2>2. <<>> \o <<>> = <<>> /\ IsPrefix(<<>>, <<>>) /\ Len(<<>>) = 0
    BY EmptySeq, ConcatEmptySeq, PrefixEnds, Zenon
  <2>3. UpToNow(c) = <<>> /\ Sent(c) = <<>>
    BY <2>1, <2>2, SubSeqEmpty DEF UpToNow, Sent
  <2> QED BY <2>1, <2>2, <2>3, Zenon DEF Delivered
<1>2. ServerInv /\ DeliveryInv /\ [Next]_vars => DeliveryInv'
  <2> SUFFICES ASSUME ServerInv, DeliveryInv, [Next]_vars PROVE DeliveryInv'
    BY Zenon
  <2>1. CASE HubNext
    BY <2>1, HubNextDelivers, Zenon DEF ServerInv
  <2>2. CASE ~HubNext
    <3>1. UNCHANGED <<clients, send, reader, writer, holding, conn, got, stream, joined>>
      BY <2>2, ZenonT(60) DEF Next, Arrive, Enqueue, Answer, Loop, HandleRequest, HandleTick,
                              BroadcastEvent, TickerFires, Main, Signal, ShutdownReturns, Fatal,
                              vars, hubVars, clientVars
    <3> QED BY <3>1, DeliveredUnchanged, Zenon DEF DeliveryInv
  <2> QED BY <2>1, <2>2, Zenon
<1>3. DeliveryInv => NoGaps
  BY Zenon DEF DeliveryInv, Delivered, NoGaps
<1> QED BY <1>1, <1>2, <1>3, ServerInvariant, PTL DEF Spec

-----------------------------------------------------------------------------
\* One more event: a trade that is the next one made, or no trade.
LEMMA EventAppended ==
    ASSUME NEW e \in Seq(Message), NEW made \in Seq(Nat), NEW m \in Message, InOrder(e, made)
    PROVE  /\ m.kind = "trade" => InOrder(Append(e, m), Append(made, m.version))
           /\ m.kind # "trade" => InOrder(Append(e, m), made)
<1> DEFINE a == Append(e, m)
           n == Len(e)
           T == {k \in 1 .. Len(e) : e[k].kind = "trade"}
           U == {k \in 1 .. Len(a) : a[k].kind = "trade"}
           w == Append(made, m.version)
<1>1. n \in Nat /\ a \in Seq(Message) /\ Len(a) = n + 1 /\ a[n + 1] = m
      /\ \A k \in 1 .. n : a[k] = e[k]
  BY LenProperties, AppendProperties
<1>2. /\ Cardinality(T) = Len(made)
      /\ \A k \in T : e[k].version = made[Cardinality({j \in T : j <= k})]
  BY Zenon DEF InOrder
<1>3. IsFiniteSet(T) /\ T \subseteq 1 .. n /\ Cardinality(T) \in Nat
  <2>1. IsFiniteSet(1 .. n)
    BY <1>1, FS_Interval
  <2>2. T \in SUBSET (1 .. n)
    BY Zenon
  <2> HIDE DEF T, n
  <2> QED BY <2>1, <2>2, FS_Subset, FS_CardinalityType, Zenon
<1>4. m.version \in Nat
  BY Zenon DEF Message
<1>5. /\ w \in Seq(Nat) /\ Len(w) = Len(made) + 1 /\ w[Len(made) + 1] = m.version
      /\ \A k \in 1 .. Len(made) : w[k] = made[k]
  BY <1>4, AppendProperties
<1>6. \A k \in T : k \in 1 .. n /\ a[k] = e[k] /\ k # n + 1
  BY <1>1
<1>7. U = IF m.kind = "trade" THEN T \cup {n + 1} ELSE T
  <2> HIDE DEF a
  <2> QED BY <1>1
<1> HIDE DEF a, n, T, U, w
<1>8. ASSUME NEW k \in T
      PROVE  /\ {j \in U : j <= k} = {j \in T : j <= k}
             /\ Cardinality({j \in T : j <= k}) \in 1 .. Len(made)
  <2>1. {j \in U : j <= k} = {j \in T : j <= k}
    BY <1>1, <1>3, <1>7
  <2> DEFINE V == {j \in T : j <= k}
  <2>2. k \in V /\ V \in SUBSET T
    BY <1>3
  <2>3. IsFiniteSet(V) /\ Cardinality(V) \in Nat /\ Cardinality(V) <= Cardinality(T)
    <3> HIDE DEF V
    <3> QED BY <1>3, <2>2, FS_Subset, FS_CardinalityType, Zenon
  <2>4. Cardinality(V) # 0
    <3> HIDE DEF V
    <3> QED BY <2>2, <2>3, FS_EmptySet, Zenon
  <2> QED BY <1>2, <1>3, <2>1, <2>3, <2>4
<1>9. CASE m.kind # "trade"
  <2>1. U = T
    BY <1>7, <1>9, Zenon
  <2>2. Cardinality(U) = Len(made)
        /\ \A k \in U : a[k].version = made[Cardinality({j \in U : j <= k})]
    BY <1>2, <1>6, <2>1, Zenon
  <2> QED BY <1>9, <2>2, Zenon DEF InOrder, U, a
<1>10. CASE m.kind = "trade"
  <2>1. U = T \cup {n + 1} /\ n + 1 \notin T
    BY <1>1, <1>3, <1>7, <1>10
  <2>2. Cardinality(U) = Len(w)
    BY <1>2, <1>3, <1>5, <2>1, FS_AddElement, Zenon
  <2>3. ASSUME NEW k \in U PROVE a[k].version = w[Cardinality({j \in U : j <= k})]
    <3>1. CASE k \in T
      BY <1>2, <1>5, <1>6, <1>8, <3>1, Zenon
    <3>2. CASE k = n + 1
      <4>1. {j \in U : j <= k} = U
        <5>1. ASSUME NEW j \in U PROVE j <= k
          BY <1>1, <1>3, <2>1, <3>2, <5>1
        <5> QED BY <5>1, Zenon
      <4> QED BY <1>1, <1>5, <2>2, <3>2, <4>1, Zenon
    <3> QED BY <2>1, <3>1, <3>2, Zenon
  <2> QED BY <1>10, <2>2, <2>3, Zenon DEF InOrder, U, a, w
<1> QED BY <1>9, <1>10, Zenon

\* Handing an event over and taking it move the border between what the hub
\* has taken and what is queued, and leave the events as they are.
LEMMA EventsMove ==
    ASSUME HubInv(Message), HubNext
    PROVE  stream' \o broadcast' = stream \o broadcast
<1>1. CASE Broadcast
  <2>1. /\ broadcast # <<>> /\ broadcast \in Seq(Message) /\ stream \in Seq(Message)
        /\ stream' = Append(stream, Head(broadcast)) /\ broadcast' = Tail(broadcast)
    BY <1>1, Zenon DEF Broadcast, HubInv, HubShape
  <2> QED BY <2>1, HeadMoves, Zenon
<1>2. CASE ~Broadcast
  <2>1. UNCHANGED <<stream, broadcast>>
    BY <1>2, ZenonT(30) DEF HubNext, HubRun, Register, Unregister, ServeWs, Pumps, ReadFails, Take,
                            Write, Drained, PeerLeaves
  <2> QED BY <2>1, Zenon
<1> QED BY <1>1, <1>2, Zenon

\* PlaceOrder makes a trade, which is then on its way: what is published by
\* then is all that was made before.
LEMMA TapeMade ==
    ASSUME ServerInv, TapeInv, HandleRequest
    PROVE  TapeInv'
<1>1. /\ loop = "select" /\ UNCHANGED <<stream, broadcast>>
      /\ \/ UNCHANGED <<loop, tape>>
         \/ loop' = "select" /\ UNCHANGED tape
         \/ loop' = "trade" /\ tape' = Append(tape, version + 1) /\ version' = version + 1
  BY ZenonT(60) DEF HandleRequest, PlaceOrder, CancelOrder, hubVars
<1>2. tape \in Seq(Nat) /\ version \in Nat
  BY Zenon DEF ServerInv, LoopInv, ServerShape
<1>3. CASE tape' = tape /\ loop' = "select"
  BY <1>1, <1>3, Zenon DEF TapeInv, TapePublished
<1>4. CASE loop' = "trade" /\ tape' = Append(tape, version + 1) /\ version' = version + 1
  <2>1. /\ tape' \in Seq(Nat) /\ Len(tape') = Len(tape) + 1 /\ tape' # <<>>
        /\ tape'[Len(tape) + 1] = version + 1
        /\ \A k \in 1 .. Len(tape) : tape'[k] = tape[k]
    BY <1>2, <1>4, AppendProperties
  <2>2. Front(tape') = tape
    <3>1. Len(tape) \in Nat /\ \A k \in 1 .. Len(tape) : tape'[k] \in Nat
      BY <1>2, <2>1, LenProperties, ElementOfSeq, Zenon
    <3>2. /\ SubSeq(tape', 1, Len(tape)) \in Seq(Nat)
          /\ Len(SubSeq(tape', 1, Len(tape))) = Len(tape)
          /\ \A k \in 1 .. Len(tape) : SubSeq(tape', 1, Len(tape))[k] = tape'[k]
      BY <3>1, SubSeqProperties
    <3>3. SubSeq(tape', 1, Len(tape)) = tape
      BY <1>2, <2>1, <3>2, SeqEqual, Zenon
    <3>4. Len(tape') - 1 = Len(tape)
      BY <2>1, <3>1
    <3> QED BY <3>3, <3>4, Zenon DEF Front
  <2>3. InOrder(stream \o broadcast, tape)
    BY <1>1, Zenon DEF TapeInv, TapePublished
  <2> QED BY <1>1, <1>4, <2>1, <2>2, <2>3, Zenon DEF TapeInv, TapePublished
<1> QED BY <1>1, <1>3, <1>4, Zenon

\* broadcastEvent (server.go:135) hands over the trade that is on its
\* way, or the depth, which is no trade.
LEMMA TapeHandedOver ==
    ASSUME ServerInv, TapeInv, BroadcastEvent
    PROVE  TapeInv'
<1> DEFINE m == [kind |-> loop, version |-> version]
<1>1. /\ loop # "select" /\ loop' = "select" /\ UNCHANGED <<stream, tape>>
      /\ broadcast' = Append(broadcast, m)
  BY Zenon DEF BroadcastEvent, Publish
<1>2. /\ stream \in Seq(Message) /\ broadcast \in Seq(Message) /\ m \in Message
      /\ tape \in Seq(Nat) /\ loop \in {"trade", "depth"}
  BY <1>1, Zenon DEF ServerInv, HubInv, HubShape, LoopInv, ServerShape, Message
<1>3. m.kind = loop /\ m.version = version
  BY Zenon
<1> HIDE DEF m
<1>4. PICK e \in Seq(Message) : e = stream \o broadcast
  BY <1>2, ConcatProperties, Zenon
<1>5. stream' \o broadcast' = Append(e, m)
  BY <1>1, <1>2, <1>4, AppendOut
<1>6. CASE loop = "depth"
  <2>1. InOrder(e, tape)
    BY <1>4, <1>6, Zenon DEF TapeInv, TapePublished
  <2>2. InOrder(Append(e, m), tape)
    BY <1>2, <1>3, <1>6, <2>1, EventAppended, Zenon
  <2> QED BY <1>1, <1>5, <2>2, Zenon DEF TapeInv, TapePublished
<1>7. CASE loop = "trade"
  <2>1. InOrder(e, Front(tape)) /\ tape # <<>> /\ tape[Len(tape)] = version
    BY <1>4, <1>7, Zenon DEF TapeInv, TapePublished
  <2>2. Front(tape) \in Seq(Nat) /\ tape = Append(Front(tape), version)
    <3>1. PICK s \in Seq(Nat), v \in Nat : tape = Append(s, v)
      BY <1>2, <2>1, SequenceEmptyOrAppend, Zenon
    <3>2. /\ Len(tape) = Len(s) + 1 /\ tape[Len(s) + 1] = v
          /\ \A k \in 1 .. Len(s) : tape[k] = s[k]
      BY <3>1, AppendProperties
    <3>3. Len(s) \in Nat /\ \A k \in 1 .. Len(s) : tape[k] \in Nat
      BY <3>1, <3>2, LenProperties, ElementOfSeq, Zenon
    <3>4. /\ SubSeq(tape, 1, Len(s)) \in Seq(Nat)
          /\ Len(SubSeq(tape, 1, Len(s))) = Len(s)
          /\ \A k \in 1 .. Len(s) : SubSeq(tape, 1, Len(s))[k] = tape[k]
      BY <3>3, SubSeqProperties
    <3>5. SubSeq(tape, 1, Len(s)) = s
      BY <3>1, <3>2, <3>4, SeqEqual, Zenon
    <3>6. Len(tape) - 1 = Len(s)
      BY <3>2, <3>3
    <3>7. Front(tape) = s
      BY <3>5, <3>6, Zenon DEF Front
    <3> QED BY <2>1, <3>1, <3>2, <3>7, Zenon
  <2>3. InOrder(Append(e, m), Append(Front(tape), m.version))
    BY <1>2, <1>3, <1>7, <2>1, <2>2, EventAppended, Zenon
  <2> QED BY <1>1, <1>3, <1>5, <2>2, <2>3, Zenon DEF TapeInv, TapePublished
<1> QED BY <1>2, <1>6, <1>7, Zenon

\* Every trade is handed to the hub, once and in the order in which the engine
\* made them, for any requests, clients and channel capacities.
THEOREM TapeAlwaysPublished == Spec => []TapePublished
<1>1. Init => TapeInv
  <2> SUFFICES ASSUME Init PROVE TapeInv
    BY Zenon
  <2>1. stream = <<>> /\ broadcast = <<>> /\ tape = <<>> /\ loop = "select"
    BY Zenon DEF Init, HubInit
  <2>2. <<>> \o <<>> = <<>> /\ Len(<<>>) = 0
    BY EmptySeq, ConcatEmptySeq, Zenon
  <2>3. {k \in 1 .. 0 : <<>>[k].kind = "trade"} = {} /\ Cardinality({}) = 0
    BY FS_EmptySet
  <2>4. InOrder(<<>>, <<>>)
    BY <2>2, <2>3, Zenon DEF InOrder
  <2> QED BY <2>1, <2>2, <2>4, Zenon DEF TapeInv, TapePublished
<1>2. ServerInv /\ TapeInv /\ [Next]_vars => TapeInv'
  <2> SUFFICES ASSUME ServerInv, TapeInv, [Next]_vars PROVE TapeInv'
    BY Zenon
  <2>1. CASE HandleRequest
    BY <2>1, TapeMade, Zenon
  <2>2. CASE BroadcastEvent
    BY <2>2, TapeHandedOver, Zenon
  <2>3. CASE Running /\ HubNext /\ UNCHANGED serverVars
    <3>1. stream' \o broadcast' = stream \o broadcast
      BY <2>3, EventsMove, Zenon DEF ServerInv
    <3>2. UNCHANGED <<loop, tape, version>>
      BY <2>3, Zenon DEF serverVars, loopVars
    <3> QED BY <3>1, <3>2, Zenon DEF TapeInv, TapePublished
  <2>4. CASE HandleTick
    <3>1. /\ UNCHANGED <<stream, broadcast, tape, version>>
          /\ loop = "select" /\ loop' \in {"select", "depth"}
      BY <2>4, Zenon DEF HandleTick, hubVars
    <3> QED BY <3>1, Zenon DEF TapeInv, TapePublished
  <2>5. CASE (\E r \in Reqs : Arrive(r) \/ Enqueue(r) \/ Answer(r)) \/ TickerFires \/ Main \/ UNCHANGED vars
    <3>1. UNCHANGED <<stream, broadcast, loop, tape, version>>
      BY <2>5, ZenonT(60) DEF Arrive, Enqueue, Answer, TickerFires, Main, Signal, ShutdownReturns,
                              Fatal, vars, serverVars, loopVars, hubVars
    <3> QED BY <3>1, Zenon DEF TapeInv, TapePublished
  <2> QED BY <2>1, <2>2, <2>3, <2>4, <2>5, Zenon DEF Next, Loop
<1>3. TapeInv => TapePublished
  BY Zenon DEF TapeInv
<1> QED BY <1>1, <1>2, <1>3, ServerInvariant, PTL DEF Spec
=============================================================================
