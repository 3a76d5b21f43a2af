-------------------------------- MODULE Hub --------------------------------
(***************************************************************************)
(* The market-data hub of pkg/api/hub.go: one goroutine (Hub.Run) owns the  *)
(* set of clients and fans broadcast messages out to their bounded send     *)
(* channels; every client has a reader and a writer goroutine. A step of    *)
(* Hub.Run is one case of its select, taken under the mutex.                *)
(***************************************************************************)
EXTENDS Integers, Sequences, FiniteSets

CONSTANTS
    Clients,       \* WebSocket connections that may be made
    SendCap,       \* capacity of Client.send (256 in the code)
    BroadcastCap   \* capacity of Hub.broadcast (4096 in the code)

ASSUME HubAssumption == SendCap \in Nat \ {0} /\ BroadcastCap \in Nat \ {0}

VARIABLES
    broadcast,  \* Hub.broadcast: the messages queued for the hub
    clients,    \* Hub.clients
    send,       \* Client.send: the messages queued for the writer
    closed,     \* Client.send has been closed
    reader,     \* ServeWs and then readPump: "new", "registering", "reading",
                \* "leaving" (blocked on unregister), "done"
    writer,     \* writePump: "idle" (receiving), "writing", "done"
    holding,    \* the message writePump is writing: <<>> or <<m>>
    conn,       \* the connection: "open", "broken" (by the peer), "closed"
    got,        \* history: what the peer has received
    stream,     \* history: what the hub has taken from broadcast
    joined,     \* history: Len(stream) when the client was registered
    panicked    \* a send on, or a close of, a closed channel

clientVars == <<reader, writer, holding, conn, got>>
hubVars == <<broadcast, clients, send, closed, clientVars, stream, joined, panicked>>

HubInit ==
    /\ broadcast = <<>>
    /\ clients = {}
    /\ send = [c \in Clients |-> <<>>]
    /\ closed = [c \in Clients |-> FALSE]
    /\ reader = [c \in Clients |-> "new"]
    /\ writer = [c \in Clients |-> "idle"]
    /\ holding = [c \in Clients |-> <<>>]
    /\ conn = [c \in Clients |-> "open"]
    /\ got = [c \in Clients |-> <<>>]
    /\ stream = <<>>
    /\ joined = [c \in Clients |-> 0]
    /\ panicked = FALSE

\* hub.broadcast <- bytes, which blocks while the channel is full.
Publish(m) ==
    /\ Len(broadcast) < BroadcastCap
    /\ broadcast' = Append(broadcast, m)

\* ServeWs upgrades the connection and blocks on register.
ServeWs(c) ==
    /\ reader[c] = "new"
    /\ reader' = [reader EXCEPT ![c] = "registering"]
    /\ UNCHANGED <<broadcast, clients, send, closed, writer, holding, conn, got,
                   stream, joined, panicked>>

\* Run receives from register; ServeWs goes on to start the two pumps.
Register(c) ==
    /\ reader[c] = "registering"
    /\ clients' = clients \cup {c}
    /\ joined' = [joined EXCEPT ![c] = Len(stream)]
    /\ reader' = [reader EXCEPT ![c] = "reading"]
    /\ UNCHANGED <<broadcast, send, closed, writer, holding, conn, got, stream, panicked>>

\* Mutant: Run closes the channel without looking the client up.
Unregister_Unchecked(c) ==
    /\ reader[c] = "leaving"
    /\ clients' = clients \ {c}
    /\ closed' = [closed EXCEPT ![c] = TRUE]
    /\ panicked' = (panicked \/ closed[c])
    /\ reader' = [reader EXCEPT ![c] = "done"]
    /\ conn' = [conn EXCEPT ![c] = "closed"]
    /\ UNCHANGED <<broadcast, send, writer, holding, got, stream, joined>>

\* Run receives from unregister; readPump then closes the connection.
Unregister(c) ==
    /\ reader[c] = "leaving"
    /\ IF c \in clients
       THEN /\ clients' = clients \ {c}
            /\ closed' = [closed EXCEPT ![c] = TRUE]
            /\ panicked' = (panicked \/ closed[c])
       ELSE UNCHANGED <<clients, closed, panicked>>
    /\ reader' = [reader EXCEPT ![c] = "done"]
    /\ conn' = [conn EXCEPT ![c] = "closed"]
    /\ UNCHANGED <<broadcast, send, writer, holding, got, stream, joined>>

\* Mutant: a client whose channel is full misses the message.
Broadcast_Skips ==
    /\ broadcast # <<>>
    /\ LET m == Head(broadcast)
           room == {c \in clients : Len(send[c]) < SendCap}
       IN  /\ send' = [c \in Clients |-> IF c \in room THEN Append(send[c], m) ELSE send[c]]
           /\ stream' = Append(stream, m)
    /\ broadcast' = Tail(broadcast)
    /\ UNCHANGED <<clients, closed, panicked, clientVars, joined>>

\* Mutant: the send to a client blocks while its channel is full.
Broadcast_Blocks ==
    /\ broadcast # <<>>
    /\ \A c \in clients : Len(send[c]) < SendCap
    /\ send' = [c \in Clients |-> IF c \in clients THEN Append(send[c], Head(broadcast))
                                                   ELSE send[c]]
    /\ stream' = Append(stream, Head(broadcast))
    /\ broadcast' = Tail(broadcast)
    /\ UNCHANGED <<clients, closed, panicked, clientVars, joined>>

\* Run receives from broadcast: every client gets the message, or is dropped
\* when its channel is full.
Broadcast ==
    /\ broadcast # <<>>
    /\ LET m == Head(broadcast)
           room == {c \in clients : Len(send[c]) < SendCap}
           slow == clients \ room
       IN  /\ send' = [c \in Clients |-> IF c \in room THEN Append(send[c], m) ELSE send[c]]
           /\ closed' = [c \in Clients |-> closed[c] \/ c \in slow]
           /\ clients' = room
           /\ stream' = Append(stream, m)
           /\ panicked' = (panicked \/ \E c \in clients : closed[c])
    /\ broadcast' = Tail(broadcast)
    /\ UNCHANGED <<clientVars, joined>>

\* readPump: ReadMessage fails once the connection is broken or closed.
ReadFails(c) ==
    /\ reader[c] = "reading"
    /\ conn[c] # "open"
    /\ reader' = [reader EXCEPT ![c] = "leaving"]
    /\ UNCHANGED <<broadcast, clients, send, closed, writer, holding, conn, got,
                   stream, joined, panicked>>

\* writePump receives the next message.
Take(c) ==
    /\ reader[c] \notin {"new", "registering"}
    /\ writer[c] = "idle"
    /\ send[c] # <<>>
    /\ holding' = [holding EXCEPT ![c] = <<Head(send[c])>>]
    /\ send' = [send EXCEPT ![c] = Tail(@)]
    /\ writer' = [writer EXCEPT ![c] = "writing"]
    /\ UNCHANGED <<broadcast, clients, closed, reader, conn, got, stream, joined, panicked>>

\* writePump writes it; an error ends the loop and closes the connection. A
\* write to a peer that has gone may still succeed, into the socket's buffer.
Write(c) ==
    /\ writer[c] = "writing"
    /\ \/ /\ conn[c] # "closed"
          /\ got' = [got EXCEPT ![c] = IF conn[c] = "open" THEN @ \o holding[c] ELSE @]
          /\ writer' = [writer EXCEPT ![c] = "idle"]
          /\ UNCHANGED conn
       \/ /\ conn[c] # "open"
          /\ writer' = [writer EXCEPT ![c] = "done"]
          /\ conn' = [conn EXCEPT ![c] = "closed"]
          /\ UNCHANGED got
    /\ holding' = [holding EXCEPT ![c] = <<>>]
    /\ UNCHANGED <<broadcast, clients, send, closed, reader, stream, joined, panicked>>

\* writePump finds its channel closed and drained, and closes the connection.
Drained(c) ==
    /\ reader[c] \notin {"new", "registering"}
    /\ writer[c] = "idle"
    /\ send[c] = <<>>
    /\ closed[c]
    /\ writer' = [writer EXCEPT ![c] = "done"]
    /\ conn' = [conn EXCEPT ![c] = "closed"]
    /\ UNCHANGED <<broadcast, clients, send, closed, reader, holding, got, stream,
                   joined, panicked>>

\* The peer goes away, at any time after the upgrade.
PeerLeaves(c) ==
    /\ reader[c] # "new"
    /\ conn[c] = "open"
    /\ conn' = [conn EXCEPT ![c] = "broken"]
    /\ UNCHANGED <<broadcast, clients, send, closed, reader, writer, holding, got,
                   stream, joined, panicked>>

\* What the hub, the pumps and the peers do.
HubRun == Broadcast \/ \E c \in Clients : Register(c) \/ Unregister(c)
Pumps(c) == ReadFails(c) \/ Take(c) \/ Write(c) \/ Drained(c)
HubNext ==
    \/ HubRun
    \/ \E c \in Clients : ServeWs(c) \/ Pumps(c) \/ PeerLeaves(c)

-----------------------------------------------------------------------------
\* The state has the shape the Go types give it when every message published
\* is in M, and no channel exceeds its capacity.
HubShape(M) ==
    /\ broadcast \in Seq(M) /\ Len(broadcast) <= BroadcastCap
    /\ stream \in Seq(M)
    /\ clients \subseteq Clients
    /\ send \in [Clients -> Seq(M)]
    /\ holding \in [Clients -> Seq(M)]
    /\ got \in [Clients -> Seq(M)]
    /\ \A c \in Clients : Len(send[c]) <= SendCap /\ Len(holding[c]) <= 1
    /\ closed \in [Clients -> BOOLEAN]
    /\ reader \in [Clients -> {"new", "registering", "reading", "leaving", "done"}]
    /\ writer \in [Clients -> {"idle", "writing", "done"}]
    /\ conn \in [Clients -> {"open", "broken", "closed"}]
    /\ joined \in [Clients -> 0 .. Len(stream)]
    /\ panicked \in BOOLEAN

\* Hub.Run never sends on or closes a channel that is closed (hub.go:57, 64,
\* 66), although a slow client is dropped by one case of the select and
\* unregisters itself through another.
NoPanic == ~panicked

\* Why: a channel is closed only when its client leaves the hub's set, and
\* a client that is yet to register is not in the set and has its channel open.
ChannelsOpen ==
    /\ \A c \in clients : ~closed[c]
    /\ \A c \in Clients :
        reader[c] \in {"new", "registering"} => c \notin clients /\ ~closed[c]

HubInv(M) == HubShape(M) /\ ChannelsOpen /\ NoPanic

IsPrefix(s, t) == Len(s) <= Len(t) /\ SubSeq(s, 1, Len(s)) = SubSeq(t, 1, Len(s))

\* What the hub has taken from broadcast since c registered, and what of it has
\* reached c: received, being written, queued.
UpToNow(c) == SubSeq(stream, joined[c] + 1, Len(stream))
Sent(c) == got[c] \o holding[c] \o send[c]

\* What a peer receives is a gap-free run of the hub's stream from the moment
\* it registered, and as long as the client is in the hub and connected
\* nothing of the stream is missing: a slow client is cut off, never skipped.
NoGaps ==
    \A c \in Clients :
        /\ IsPrefix(got[c], UpToNow(c))
        /\ c \in clients /\ conn[c] = "open" => Sent(c) = UpToNow(c)

\* Why: a client that is dropped stays behind on a prefix of the stream, and
\* writePump drains only that; before it registers nothing is on its way.
Delivered(c) ==
    /\ reader[c] \in {"new", "registering"} =>
            got[c] = <<>> /\ holding[c] = <<>> /\ send[c] = <<>>
    /\ writer[c] # "writing" => holding[c] = <<>>
    /\ IsPrefix(got[c], UpToNow(c))
    /\ conn[c] = "open" => IsPrefix(Sent(c), UpToNow(c))
    /\ c \in clients /\ conn[c] = "open" => Sent(c) = UpToNow(c)

DeliveryInv == \A c \in Clients : Delivered(c)
=============================================================================
