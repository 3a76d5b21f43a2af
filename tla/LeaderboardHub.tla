--------------------------- MODULE LeaderboardHub ---------------------------
(***************************************************************************)
(* The live feed of the leaderboard, pkg/leaderboard/broadcast.go. Hub.Run  *)
(* fans Redis updates out to bounded send channels. It does not drop a slow *)
(* client itself: it starts a goroutine that unregisters the client, which  *)
(* stays in the set until then. WritePump sends all that is queued as one   *)
(* message, and its writes and ReadPump's reads have deadlines.             *)
(***************************************************************************)
EXTENDS Integers, Sequences, FiniteSets

CONSTANTS
    Clients,    \* WebSocket connections that may be made
    Leavers,    \* those whose peer may go away
    SendCap,    \* capacity of Client.send (256 in the code)
    MaxUpdates  \* bound: updates published in one behaviour

ASSUME FeedAssumption == SendCap \in Nat \ {0} /\ MaxUpdates \in Nat

VARIABLES
    pending,  \* what the Pub/Sub goroutine is sending on broadcast: <<>> or <<m>>
    clients,  \* Hub.clients
    send,     \* Client.send
    closed,   \* Client.send has been closed
    reader,   \* ServeWs and ReadPump: "new", "registering", "reading", "done"
    leaving,  \* goroutines blocked on Unregister <- c: ReadPump's, slow-client ones
    closing,  \* those that have been received and are about to close the connection
    writer,   \* WritePump: "select", "took", "batch", "done"
    batch,    \* the messages of the frame WritePump is writing
    left,     \* how many queued messages the frame still takes
    conn,     \* "open", "silent" (the peer has gone), "closed"
    got,      \* history: what the peer has received
    stream,   \* history: what the hub has broadcast
    joined,   \* history: Len(stream) when the client was registered
    panicked  \* a send on, or a close of, a closed channel

hub == <<clients, closed, stream, joined, panicked>>
exits == <<leaving, closing>>
frame == <<writer, batch, left>>
vars == <<pending, hub, send, reader, exits, frame, conn, got>>

Init ==
    /\ pending = <<>> /\ clients = {} /\ stream = <<>> /\ panicked = FALSE
    /\ send = [c \in Clients |-> <<>>]
    /\ closed = [c \in Clients |-> FALSE]
    /\ reader = [c \in Clients |-> "new"]
    /\ leaving = [c \in Clients |-> 0]
    /\ closing = [c \in Clients |-> 0]
    /\ writer = [c \in Clients |-> "select"]
    /\ batch = [c \in Clients |-> <<>>]
    /\ left = [c \in Clients |-> 0]
    /\ conn = [c \in Clients |-> "open"]
    /\ got = [c \in Clients |-> <<>>]
    /\ joined = [c \in Clients |-> 0]

\* The Pub/Sub goroutine receives the next update, which the model numbers,
\* and blocks on h.broadcast.
Forward ==
    /\ pending = <<>>
    /\ Len(stream) < MaxUpdates
    /\ pending' = <<Len(stream) + 1>>
    /\ UNCHANGED <<hub, send, reader, exits, frame, conn, got>>

-----------------------------------------------------------------------------
\* ServeWs upgrades the connection and blocks on Register.
ServeWs(c) ==
    /\ reader[c] = "new"
    /\ reader' = [reader EXCEPT ![c] = "registering"]
    /\ UNCHANGED <<pending, hub, send, exits, frame, conn, got>>

\* Run receives from Register; ServeWs goes on to start the pumps.
Register(c) ==
    /\ reader[c] = "registering"
    /\ clients' = clients \cup {c}
    /\ joined' = [joined EXCEPT ![c] = Len(stream)]
    /\ reader' = [reader EXCEPT ![c] = "reading"]
    /\ UNCHANGED <<pending, closed, stream, panicked, send, exits, frame, conn, got>>

\* Mutant: the client is not looked up.
Known_Always(c) == TRUE

\* if _, ok := h.clients[client]; ok
Known(c) == c \in clients

\* Run receives from Unregister, from any of the goroutines that leave.
Unregister(c) ==
    /\ leaving[c] > 0
    /\ leaving' = [leaving EXCEPT ![c] = @ - 1]
    /\ closing' = [closing EXCEPT ![c] = @ + 1]
    /\ clients' = clients \ {c}
    /\ closed' = [closed EXCEPT ![c] = @ \/ Known(c)]
    /\ panicked' = (panicked \/ (Known(c) /\ closed[c]))
    /\ UNCHANGED <<pending, stream, joined, send, reader, frame, conn, got>>

\* c.conn.Close() after Unregister <- c
CloseConn(c) ==
    /\ closing[c] > 0
    /\ closing' = [closing EXCEPT ![c] = @ - 1]
    /\ conn' = [conn EXCEPT ![c] = "closed"]
    /\ UNCHANGED <<pending, hub, send, reader, leaving, frame, got>>

\* Mutant: a client whose channel is full just misses the message.
Disconnect_Never(slow) == UNCHANGED leaving

\* go func(c *Client) { h.Unregister <- c; ... } for every slow client
Disconnect(slow) ==
    leaving' = [c \in Clients |-> leaving[c] + IF c \in slow THEN 1 ELSE 0]

\* The default case of the select: the send would block.
Full(c) == Len(send[c]) >= SendCap

\* Run receives from broadcast.
Broadcast ==
    /\ pending # <<>>
    /\ LET slow == {c \in clients : Full(c)}
       IN  /\ send' = [c \in Clients |-> IF c \in clients \ slow THEN send[c] \o pending
                                                                 ELSE send[c]]
           /\ Disconnect(slow)
    /\ stream' = stream \o pending
    /\ pending' = <<>>
    /\ panicked' = (panicked \/ \E c \in clients : closed[c])
    /\ UNCHANGED <<clients, closed, joined, reader, closing, frame, conn, got>>

-----------------------------------------------------------------------------
\* Mutant: ReadPump only closes the connection.
DeferUnregister_Never(c) == UNCHANGED leaving

\* defer func() { c.hub.Unregister <- c; ... }
DeferUnregister(c) == leaving' = [leaving EXCEPT ![c] = @ + 1]

\* ReadPump: ReadMessage fails when the peer has gone (at the latest when the
\* deadline, no longer renewed by pongs, passes) or the connection is closed.
ReadFails(c) ==
    /\ reader[c] = "reading"
    /\ conn[c] # "open"
    /\ reader' = [reader EXCEPT ![c] = "done"]
    /\ DeferUnregister(c)
    /\ UNCHANGED <<pending, hub, send, closing, frame, conn, got>>

Selecting(c) == reader[c] \notin {"new", "registering"} /\ writer[c] = "select"

\* WritePump receives a message and opens a frame.
Take(c) ==
    /\ Selecting(c)
    /\ send[c] # <<>>
    /\ batch' = [batch EXCEPT ![c] = <<Head(send[c])>>]
    /\ send' = [send EXCEPT ![c] = Tail(@)]
    /\ writer' = [writer EXCEPT ![c] = "took"]
    /\ UNCHANGED <<pending, hub, reader, exits, left, conn, got>>

\* Mutant: the count includes the message already taken.
Queued_OneMore(c) == Len(send[c]) + 1

\* n := len(c.send)
Queued(c) == Len(send[c])

CountQueued(c) ==
    /\ writer[c] = "took"
    /\ left' = [left EXCEPT ![c] = Queued(c)]
    /\ writer' = [writer EXCEPT ![c] = "batch"]
    /\ UNCHANGED <<pending, hub, send, reader, exits, batch, conn, got>>

\* w.Write(<-c.send): blocks on an empty channel; a closed one would give nil.
Collect(c) ==
    /\ writer[c] = "batch" /\ left[c] > 0
    /\ send[c] # <<>>
    /\ batch' = [batch EXCEPT ![c] = Append(@, Head(send[c]))]
    /\ send' = [send EXCEPT ![c] = Tail(@)]
    /\ left' = [left EXCEPT ![c] = @ - 1]
    /\ UNCHANGED <<pending, hub, reader, exits, writer, conn, got>>

\* w.Close() succeeds; what is written to a peer that has gone is lost.
Flush(c) ==
    /\ writer[c] = "batch" /\ left[c] = 0
    /\ conn[c] # "closed"
    /\ got' = [got EXCEPT ![c] = IF conn[c] = "open" THEN @ \o batch[c] ELSE @]
    /\ batch' = [batch EXCEPT ![c] = <<>>]
    /\ writer' = [writer EXCEPT ![c] = "select"]
    /\ UNCHANGED <<pending, hub, send, reader, exits, left, conn>>

\* WritePump returns and closes the connection: a ping or w.Close fails (their
\* deadline passes although the peer is there), NextWriter fails because the
\* peer has gone, or the channel is closed and drained.
WriterReturns(c) ==
    /\ \/ Selecting(c)
       \/ writer[c] = "took" /\ conn[c] # "open"
       \/ writer[c] = "batch" /\ left[c] = 0
    /\ batch' = [batch EXCEPT ![c] = <<>>]
    /\ writer' = [writer EXCEPT ![c] = "done"]
    /\ conn' = [conn EXCEPT ![c] = "closed"]
    /\ UNCHANGED <<pending, hub, send, reader, exits, left, got>>

Drained(c) == Selecting(c) /\ send[c] = <<>> /\ closed[c] /\ WriterReturns(c)

\* The peer goes away, or stops reading and answering pings.
PeerLeaves(c) ==
    /\ c \in Leavers
    /\ reader[c] # "new"
    /\ conn[c] = "open"
    /\ conn' = [conn EXCEPT ![c] = "silent"]
    /\ UNCHANGED <<pending, hub, send, reader, exits, frame, got>>

WritePump(c) == Take(c) \/ CountQueued(c) \/ Collect(c) \/ Flush(c) \/ WriterReturns(c)

Next ==
    \/ Forward \/ Broadcast
    \/ \E c \in Clients :
        \/ ServeWs(c) \/ Register(c) \/ Unregister(c) \/ CloseConn(c)
        \/ ReadFails(c) \/ WritePump(c) \/ PeerLeaves(c)

Spec == Init /\ [][Next]_vars

\* Run's select loop is served, goroutines are scheduled, and the deadlines
\* end every read from a silent peer and every write. That a writer's pings
\* fail is not assumed.
FairSpec ==
    /\ Spec
    /\ WF_vars(Broadcast)
    /\ \A c \in Clients :
        /\ WF_vars(Register(c)) /\ WF_vars(Unregister(c)) /\ WF_vars(CloseConn(c))
        /\ WF_vars(ReadFails(c)) /\ WF_vars(Drained(c))
        /\ WF_vars(Take(c)) /\ WF_vars(CountQueued(c)) /\ WF_vars(Collect(c))
        /\ WF_vars(writer[c] = "batch" /\ (Flush(c) \/ WriterReturns(c)))

-----------------------------------------------------------------------------
Update == 1 .. MaxUpdates

\* The state has the shape the Go types give it, and no channel exceeds its
\* capacity.
TypeOK ==
    /\ pending \in Seq(Update) /\ Len(pending) <= 1
    /\ stream \in Seq(Update)
    /\ clients \subseteq Clients
    /\ send \in [Clients -> Seq(Update)] /\ batch \in [Clients -> Seq(Update)]
    /\ got \in [Clients -> Seq(Update)]
    /\ \A c \in Clients : Len(send[c]) <= SendCap
    /\ closed \in [Clients -> BOOLEAN] /\ panicked \in BOOLEAN
    /\ reader \in [Clients -> {"new", "registering", "reading", "done"}]
    /\ writer \in [Clients -> {"select", "took", "batch", "done"}]
    /\ conn \in [Clients -> {"open", "silent", "closed"}]
    /\ leaving \in [Clients -> Nat] /\ closing \in [Clients -> Nat]
    /\ left \in [Clients -> Nat]
    /\ joined \in [Clients -> Nat] /\ \A c \in Clients : joined[c] <= Len(stream)

\* Any number of goroutines may unregister one client (broadcast.go:33, 154),
\* and yet its channel is closed once and never sent to afterwards.
ClosedOnce == ~panicked

\* Why: a client in the set has its channel open, and so has one that is not
\* registered yet, of which nobody knows.
RegisteredAreOpen ==
    /\ \A c \in clients : ~closed[c]
    /\ \A c \in Clients :
        reader[c] \in {"new", "registering"} =>
            c \notin clients /\ ~closed[c] /\ leaving[c] = 0

\* The frame WritePump is building never waits for a message (broadcast.go:75):
\* what len(c.send) counted is still queued, even when the hub closes the
\* channel in the middle, because nobody else receives from it.
FrameNeverWaits ==
    \A c \in Clients : writer[c] = "batch" => left[c] <= Len(send[c])

FeedInv == TypeOK /\ ClosedOnce /\ RegisteredAreOpen /\ FrameNeverWaits

\* What the hub has broadcast since c registered, and what of it has reached
\* c: received, in a frame, queued.
UpToNow(c) == SubSeq(stream, joined[c] + 1, Len(stream))
Sent(c) == got[c] \o batch[c] \o send[c]

\* The feed of a connected client has a gap only when the client is already
\* being disconnected (broadcast.go:153): as long as no goroutine is there to
\* unregister it, what it got, has in a frame and has queued is the whole stream.
GapMeansLeaving ==
    \A c \in clients :
        conn[c] = "open" /\ leaving[c] = 0 => Sent(c) = UpToNow(c)

\* Behind it: nothing is on its way to a client before it registers, and
\* WritePump has no frame open while it selects.
WholeOrLeaving(c) ==
    /\ reader[c] \in {"new", "registering"} =>
            got[c] = <<>> /\ batch[c] = <<>> /\ send[c] = <<>>
    /\ writer[c] = "select" => batch[c] = <<>>
    /\ c \in clients /\ conn[c] = "open" /\ leaving[c] = 0 => Sent(c) = UpToNow(c)

WholeInv == \A c \in Clients : WholeOrLeaving(c)

\* A client that falls behind, or whose peer has gone, is disconnected for
\* good: the hub forgets it, and ReadPump, WritePump and every goroutine that
\* was started to unregister it end.
LeaversEnd ==
    \A c \in Clients :
        leaving[c] > 0 \/ (reader[c] = "reading" /\ conn[c] # "open")
            ~> [](c \notin clients /\ reader[c] = "done" /\ writer[c] = "done"
                  /\ leaving[c] = 0 /\ closing[c] = 0)
=============================================================================
