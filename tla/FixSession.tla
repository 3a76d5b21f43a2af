----------------------------- MODULE FixSession -----------------------------
(***************************************************************************)
(* The FIX session server of pkg/fix/session.go: Start binds and accepts,   *)
(* Stop and the context end it, and one goroutine per connection answers    *)
(* what it reads. A connection is a stream: a Read returns any non-empty    *)
(* part of what has arrived, wherever messages begin and end.               *)
(***************************************************************************)
EXTENDS FixParser

CONSTANTS
    Conns,        \* connections that may be made
    Texts,        \* what a client may send besides the well-formed messages
    MaxMessages,  \* bound: messages sent on a connection
    BufCap        \* the size of the read buffer, in tokens (4096 bytes in the code)

ASSUME SessionAssumption == MaxMessages \in Nat /\ BufCap \in Nat \ {0}

VARIABLES
    start,      \* Start: "new", "bound", "accepting", "returned", "failed"
    listener,   \* SessionServer.listener: "nil", "open", "closed"
    active,     \* SessionServer.active
    watcher,    \* the goroutine that waits for the context: "none", "waiting", "done"
    cancelled,  \* the context has been cancelled
    stops,      \* calls of Stop by the owner: "none", "early" (not yet active), "inTime"
    handler,    \* handleConnection: "none", "select", "reading", "done"
    stream,     \* all tokens the client has sent
    sent,       \* its messages, in order, and how many tokens came before each
    taken,      \* how many tokens have been read
    seqNum,     \* the handler's sequence number
    replies,    \* what has been written to the connection
    packet      \* the last read: its data, the message it begins with if that is
                \* complete, and the reply

serverVars == <<start, listener, active, watcher, cancelled, stops>>
connVars == <<handler, stream, sent, taken, seqNum, replies, packet>>
sessionVars == <<serverVars, connVars>>

NoPacket == [data |-> <<>>, first |-> <<>>, reply |-> <<>>]

SessionInit ==
    /\ start = "new" /\ listener = "nil" /\ active = FALSE /\ watcher = "none"
    /\ cancelled = FALSE /\ stops = "none"
    /\ handler = [c \in Conns |-> "none"]
    /\ stream = [c \in Conns |-> <<>>]
    /\ sent = [c \in Conns |-> <<>>]
    /\ taken = [c \in Conns |-> 0]
    /\ seqNum = [c \in Conns |-> 1]
    /\ replies = [c \in Conns |-> <<>>]
    /\ packet = [c \in Conns |-> NoPacket]

-----------------------------------------------------------------------------
\* Start: net.Listen.
Listen ==
    /\ start = "new"
    /\ \/ start' = "bound" /\ listener' = "open"
       \/ start' = "failed" /\ UNCHANGED listener
    /\ UNCHANGED <<active, watcher, cancelled, stops, connVars>>

\* s.active = true, without the lock; then the goroutine is started.
Activate ==
    /\ start = "bound"
    /\ start' = "accepting"
    /\ active' = TRUE
    /\ watcher' = "waiting"
    /\ UNCHANGED <<listener, cancelled, stops, connVars>>

\* A client connects and Accept returns its connection.
Accept(c) ==
    /\ start = "accepting" /\ listener = "open"
    /\ handler[c] = "none"
    /\ handler' = [handler EXCEPT ![c] = "select"]
    /\ UNCHANGED <<serverVars, stream, sent, taken, seqNum, replies, packet>>

\* Accept fails for good once the listener is closed; while active is true the
\* loop goes round.
AcceptFails ==
    /\ start = "accepting" /\ listener = "closed"
    /\ ~active
    /\ start' = "returned"
    /\ UNCHANGED <<listener, active, watcher, cancelled, stops, connVars>>

\* Mutant: Stop only closes the listener.
Deactivate_Never == UNCHANGED active

\* s.active = false
Deactivate == active' = FALSE

\* Stop, by the goroutine that watches the context.
StopOnCancel ==
    /\ watcher = "waiting" /\ cancelled
    /\ watcher' = "done"
    /\ Deactivate
    /\ listener' = "closed"
    /\ UNCHANGED <<start, cancelled, stops, connVars>>

\* Stop, by the owner. Start writes listener and active without the lock: just
\* after Listen, Stop may see the listener or still nil.
Stop ==
    /\ stops = "none"
    /\ stops' = IF active THEN "inTime" ELSE "early"
    /\ Deactivate
    /\ \/ listener # "nil" /\ listener' = "closed"
       \/ start \in {"new", "bound", "failed"} /\ UNCHANGED listener
    /\ UNCHANGED <<start, watcher, cancelled, connVars>>

Cancel ==
    /\ ~cancelled
    /\ cancelled' = TRUE
    /\ UNCHANGED <<start, listener, active, watcher, stops, connVars>>

-----------------------------------------------------------------------------
\* The client.
Logon == <<"35", "=", "A", SOH>>
Heartbeat == <<"35", "=", "0", SOH>>
Order == <<"35", "=", "D", SOH, "11", "=", "ord", SOH>>
Requests == {Logon, Heartbeat, Order}

Send(c, m) ==
    /\ handler[c] \in {"select", "reading"}
    /\ Len(sent[c]) < MaxMessages
    /\ stream' = [stream EXCEPT ![c] = @ \o m]
    /\ sent' = [sent EXCEPT ![c] = Append(@, [text |-> m, after |-> Len(stream[c])])]
    /\ UNCHANGED <<serverVars, handler, taken, seqNum, replies, packet>>

-----------------------------------------------------------------------------
\* handleConnection looks at the context, and then reads.
Select(c) ==
    /\ handler[c] = "select"
    /\ handler' = [handler EXCEPT ![c] = IF cancelled THEN "done" ELSE "reading"]
    /\ UNCHANGED <<serverVars, stream, sent, taken, seqNum, replies, packet>>

\* formatFIXMessage; its length, time and checksum are not looked at.
Format(msgType, seq, target, body) ==
    <<"8", "=", "FIX", SOH, "9", "=", "len", SOH, "35", "=", msgType, SOH,
      "49", "=", "ENGINE", SOH, "56", "=">> \o target \o
    <<SOH, "34", "=", SeqNums[seq], SOH, "52", "=", "now", SOH>> \o body \o
    <<"10", "=", "sum", SOH>>

\* The reply to the data of one read, or <<>>: the switch on MsgType.
ReplyTo(data, seq) ==
    LET msgType == GetString(data, "35")
        sender == GetString(data, "49")[2]
        order == GetString(data, "11")[2]
        report == <<"37", "=", "exec">> \o order \o <<SOH, "11", "=">> \o order \o <<SOH>>
    IN  CASE ~Parse(data).ok -> <<>>
          [] msgType = <<TRUE, <<"A">>>> -> Format("A", seq, sender, <<"98", "=", "0", SOH>>)
          [] msgType = <<TRUE, <<"0">>>> -> Format("0", seq, sender, <<>>)
          [] msgType = <<TRUE, <<"D">>>> -> Format("8", seq, sender, report)
          [] OTHER -> <<>>

\* seqNum++
NextSeqNum(seq, reply) == seq + 1

\* The message that starts where the next read starts, or <<>>.
NextMessage(c) ==
    LET at == {m \in 1 .. Len(sent[c]) : sent[c][m].after = taken[c]}
    IN  IF at = {} THEN <<>> ELSE sent[c][Last(at)].text

\* What conn.Read(reader) may return.
ReadSizes(c) ==
    {n \in 1 .. Len(stream[c]) - taken[c] : n <= BufCap}

\* Read returns n tokens, which are parsed and answered as one message.
Read(c, n) ==
    /\ handler[c] = "reading"
    /\ LET data == SubSeq(stream[c], taken[c] + 1, taken[c] + n)
           reply == ReplyTo(data, seqNum[c])
           next == NextMessage(c)
           complete == n >= Len(next) /\ SubSeq(data, 1, Len(next)) = next
           first == IF complete THEN next ELSE <<>>
       IN  /\ packet' = [packet EXCEPT ![c] = [data |-> data, first |-> first, reply |-> reply]]
           /\ \/ /\ reply = <<>>
                 /\ UNCHANGED <<replies, seqNum>>
              \/ /\ reply # <<>>
                 /\ replies' = [replies EXCEPT ![c] = Append(@, reply)]
                 /\ seqNum' = [seqNum EXCEPT ![c] = NextSeqNum(@, reply)]
    /\ taken' = [taken EXCEPT ![c] = @ + n]
    /\ handler' = [handler EXCEPT ![c] = "select"]
    /\ UNCHANGED <<serverVars, stream, sent>>

\* Nothing is left to read: the client has closed the connection, or nothing
\* arrives before the deadline.
ReadEnds(c) == taken[c] = Len(stream[c])

\* Read returns an error.
ReadFails(c) ==
    /\ handler[c] = "reading"
    /\ ReadEnds(c)
    /\ handler' = [handler EXCEPT ![c] = "done"]
    /\ UNCHANGED <<serverVars, stream, sent, taken, seqNum, replies, packet>>

Handle(c) == Select(c) \/ ReadFails(c) \/ \E n \in ReadSizes(c) : Read(c, n)

SessionNext ==
    \/ Listen \/ Activate \/ AcceptFails \/ StopOnCancel \/ Stop \/ Cancel
    \/ \E c \in Conns :
        \/ Accept(c) \/ Handle(c)
        \/ \E m \in Requests \cup Texts : Send(c, m)

SessionSpec == SessionInit /\ [][SessionNext]_sessionVars

\* Start and the goroutine that watches the context are scheduled. Clients,
\* their handlers, Stop and the context are free.
FairSession ==
    /\ SessionSpec
    /\ WF_sessionVars(Listen) /\ WF_sessionVars(Activate)
    /\ WF_sessionVars(AcceptFails) /\ WF_sessionVars(StopOnCancel)

-----------------------------------------------------------------------------
\* Parse (parser.go:32) finds the fields of the grammar in whatever a read
\* returns: parts of messages, several messages, and any other text.
ParsesTheGrammar ==
    \A c \in Conns : Holds(packet[c].data, 1, Parse(packet[c].data))

\* While a client sends FIX messages only, a read that begins with a complete
\* one is answered for it, with its ClOrdID for an order (session.go:86-134),
\* whatever messages or parts of messages follow it in the same read, and the
\* MsgSeqNum of each reply counts the replies.
AnswersTheFirst ==
    \A c \in Conns : (\A m \in 1 .. Len(sent[c]) : sent[c][m].text \in Requests) =>
        LET kind == GetString(packet[c].reply, "35")[2]
            number == GetString(packet[c].reply, "34")
        IN  /\ packet[c].reply # <<>> => number = <<TRUE, <<SeqNums[Len(replies[c])]>>>>
            /\ packet[c].first = Logon => kind = <<"A">>
            /\ packet[c].first = Heartbeat => kind = <<"0">>
            /\ packet[c].first = Order =>
                kind = <<"8">> /\ GetString(packet[c].reply, "11") = <<TRUE, <<"ord">>>>

\* Start returns once the context is cancelled, even if a Stop that came too
\* early was undone by session.go:34, and after a Stop that found it active.
StartReturns == (cancelled \/ stops = "inTime") /\ start # "new" ~> start \in {"returned", "failed"}
=============================================================================
