--------------------------- MODULE MatchingServer ---------------------------
(***************************************************************************)
(* The matching engine's server, pkg/api/server.go, with its hub: HTTP      *)
(* handlers queue requests on a bounded channel and wait for a reply; one   *)
(* loop applies them to the book, replies, broadcasts trades at once and,   *)
(* on a ticker, the depth; cmd/matching-engine shuts the server down.       *)
(*                                                                         *)
(* The book is its version: a number that grows with every operation that   *)
(* may have changed it. Whether an order traded and whether a cancel found  *)
(* its order are free choices here (OrderBook decides them).                *)
(***************************************************************************)
EXTENDS Hub

CONSTANTS
    Places,    \* POST requests that pass validation
    Cancels,   \* DELETE requests
    Malformed, \* requests a handler answers with 400
    InputCap   \* capacity of inputChan (100000 in the code)

ASSUME ServerAssumption ==
    /\ InputCap \in Nat \ {0}
    /\ (Places \cup Cancels) \cap Malformed = {}

Reqs == Places \cup Cancels \cup Malformed

VARIABLES
    handler,      \* each request's handler: "new", "sending" (blocked on
                  \* inputChan), "waiting" (on its result), "answered", "rejected"
    inputChan,    \* Server.inputChan
    result,       \* each OrderRequest.Result: "empty", "ok" or "notFound"
    loop,         \* runMatchingLoop: "select", or in broadcastEvent: "trade", "depth"
    version,      \* the book
    bookChanged,  \* the loop's local variable
    depthCache,   \* the version Server.depthCache was built from
    tick,         \* ticker.C holds a tick
    process,      \* main: "up", "draining" (in Shutdown), "stopped", "killed"
    tape          \* history: the versions at which trades were made

loopVars == <<inputChan, result, loop, version, bookChanged, depthCache, tick, tape>>
serverVars == <<handler, loopVars, process>>
vars == <<hubVars, serverVars>>

Init ==
    /\ HubInit
    /\ handler = [r \in Reqs |-> "new"]
    /\ inputChan = <<>>
    /\ result = [r \in Reqs |-> "empty"]
    /\ loop = "select"
    /\ version = 0
    /\ bookChanged = FALSE
    /\ depthCache = 0
    /\ tick = FALSE
    /\ process = "up"
    /\ tape = <<>>

\* The goroutines run until the process exits.
Running == process \in {"up", "draining"}

-----------------------------------------------------------------------------
\* A handler has decoded and checked its request. One that came on a new
\* connection may still arrive while main drains.
Arrive(r) ==
    /\ Running
    /\ handler[r] = "new"
    /\ handler' = [handler EXCEPT ![r] = IF r \in Malformed THEN "rejected" ELSE "sending"]
    /\ UNCHANGED <<hubVars, loopVars, process>>

\* s.inputChan <- OrderRequest, which blocks while the channel is full.
Enqueue(r) ==
    /\ Running
    /\ handler[r] = "sending"
    /\ Len(inputChan) < InputCap
    /\ inputChan' = Append(inputChan, r)
    /\ handler' = [handler EXCEPT ![r] = "waiting"]
    /\ UNCHANGED <<hubVars, result, loop, version, bookChanged, depthCache, tick, tape, process>>

\* resp := <-resChan, and the response is written.
Answer(r) ==
    /\ Running
    /\ handler[r] = "waiting"
    /\ result[r] # "empty"
    /\ result' = [result EXCEPT ![r] = "empty"]
    /\ handler' = [handler EXCEPT ![r] = "answered"]
    /\ UNCHANGED <<hubVars, inputChan, loop, version, bookChanged, depthCache, tick, tape, process>>

-----------------------------------------------------------------------------
\* Mutant: only an order that traded marks the book as changed.
PlaceOrder_MarksTrades(r, traded) ==
    /\ result' = [result EXCEPT ![r] = "ok"]
    /\ version' = version + 1
    /\ bookChanged' = (bookChanged \/ traded)
    /\ loop' = IF traded THEN "trade" ELSE "select"
    /\ tape' = IF traded THEN Append(tape, version + 1) ELSE tape

\* case PlaceRequest: Process, reply, and broadcast the trades if any.
PlaceOrder(r, traded) ==
    /\ result' = [result EXCEPT ![r] = "ok"]
    /\ version' = version + 1
    /\ bookChanged' = TRUE
    /\ loop' = IF traded THEN "trade" ELSE "select"
    /\ tape' = IF traded THEN Append(tape, version + 1) ELSE tape

\* Mutant: a cancel that finds nothing is not answered.
CancelOrder_Silent(r, found) ==
    /\ result' = [result EXCEPT ![r] = IF found THEN "ok" ELSE @]
    /\ IF found
       THEN version' = version + 1 /\ bookChanged' = TRUE
       ELSE UNCHANGED <<version, bookChanged>>
    /\ UNCHANGED <<loop, tape>>

\* case CancelRequest: Cancel and reply.
CancelOrder(r, found) ==
    /\ result' = [result EXCEPT ![r] = IF found THEN "ok" ELSE "notFound"]
    /\ IF found
       THEN version' = version + 1 /\ bookChanged' = TRUE
       ELSE UNCHANGED <<version, bookChanged>>
    /\ UNCHANGED <<loop, tape>>

\* case req := <-s.inputChan
HandleRequest ==
    /\ Running
    /\ loop = "select"
    /\ inputChan # <<>>
    /\ LET r == Head(inputChan)
       IN  \E outcome \in BOOLEAN :
               IF r \in Places THEN PlaceOrder(r, outcome) ELSE CancelOrder(r, outcome)
    /\ inputChan' = Tail(inputChan)
    /\ UNCHANGED <<hubVars, handler, depthCache, tick, process>>

\* The 50 ms ticker; a tick nobody has received yet is not repeated.
TickerFires ==
    /\ Running
    /\ ~tick
    /\ tick' = TRUE
    /\ UNCHANGED <<hubVars, handler, inputChan, result, loop, version, bookChanged,
                   depthCache, tape, process>>

\* case <-ticker.C: when the book changed, rebuild the cache and go on to
\* broadcast the depth.
HandleTick ==
    /\ Running
    /\ loop = "select"
    /\ tick
    /\ tick' = FALSE
    /\ IF bookChanged
       THEN depthCache' = version /\ loop' = "depth"
       ELSE UNCHANGED <<depthCache, loop>>
    /\ UNCHANGED <<hubVars, handler, inputChan, result, version, bookChanged, tape, process>>

\* Mutant: a full broadcast channel drops the event instead of blocking.
BroadcastEvent_Drops ==
    /\ Running
    /\ loop # "select"
    /\ IF Len(broadcast) < BroadcastCap
       THEN Publish([kind |-> loop, version |-> version])
       ELSE UNCHANGED broadcast
    /\ bookChanged' = (bookChanged /\ loop # "depth")
    /\ loop' = "select"
    /\ UNCHANGED <<clients, send, closed, clientVars, stream, joined, panicked,
                   handler, inputChan, result, version, depthCache, tick, tape, process>>

\* broadcastEvent; after the depth, bookChanged is reset.
BroadcastEvent ==
    /\ Running
    /\ loop # "select"
    /\ Publish([kind |-> loop, version |-> version])
    /\ bookChanged' = (bookChanged /\ loop # "depth")
    /\ loop' = "select"
    /\ UNCHANGED <<clients, send, closed, clientVars, stream, joined, panicked,
                   handler, inputChan, result, version, depthCache, tick, tape, process>>

Loop == HandleRequest \/ HandleTick \/ BroadcastEvent

-----------------------------------------------------------------------------
Active(r) == handler[r] \in {"sending", "waiting"}

\* SIGTERM: main calls srv.Shutdown.
Signal ==
    /\ process = "up"
    /\ process' = "draining"
    /\ UNCHANGED <<hubVars, handler, loopVars>>

\* Mutant: main exits without waiting for the handlers.
ShutdownReturns_AtOnce ==
    /\ process = "draining"
    /\ process' = "stopped"
    /\ UNCHANGED <<hubVars, handler, loopVars>>

\* Shutdown returns once no handler is active, and main exits.
ShutdownReturns ==
    /\ process = "draining"
    /\ \A r \in Reqs : ~Active(r)
    /\ process' = "stopped"
    /\ UNCHANGED <<hubVars, handler, loopVars>>

\* log.Fatalf: the listener fails, or Shutdown's five seconds are over first.
Fatal ==
    /\ Running
    /\ process' = "killed"
    /\ UNCHANGED <<hubVars, handler, loopVars>>

Main == Signal \/ ShutdownReturns \/ Fatal

Next ==
    \/ \E r \in Reqs : Arrive(r) \/ Enqueue(r) \/ Answer(r)
    \/ Loop
    \/ TickerFires
    \/ Main
    \/ Running /\ HubNext /\ UNCHANGED serverVars

Spec == Init /\ [][Next]_vars

\* The goroutines keep running. Strong fairness is Go's: select chooses
\* uniformly among the ready cases, and senders blocked on a full channel are
\* served in order of arrival. Nothing is assumed of ticks, signals, clients
\* or peers.
Fairness ==
    /\ SF_vars(HandleRequest) /\ WF_vars(BroadcastEvent)
    /\ WF_vars(Running /\ Broadcast /\ UNCHANGED serverVars)
    /\ \A r \in Reqs : SF_vars(Enqueue(r)) /\ WF_vars(Answer(r))

-----------------------------------------------------------------------------
Message == [kind : {"trade", "depth"}, version : Nat]

ServerShape ==
    /\ handler \in [Reqs -> {"new", "sending", "waiting", "answered", "rejected"}]
    /\ inputChan \in Seq(Reqs \ Malformed) /\ Len(inputChan) <= InputCap
    /\ result \in [Reqs -> {"empty", "ok", "notFound"}]
    /\ loop \in {"select", "trade", "depth"}
    /\ version \in Nat /\ depthCache \in 0 .. version
    /\ bookChanged \in BOOLEAN /\ tick \in BOOLEAN
    /\ process \in {"up", "draining", "stopped", "killed"}
    /\ tape \in Seq(Nat)

\* The server's state has the shape the Go types give it, and no channel
\* exceeds its capacity.
ServerTypeOK == HubShape(Message) /\ ServerShape

\* A request is queued at most once; one whose handler waits is either queued
\* or answered and not yet received, and no other request is either. So each
\* is answered exactly once, and the reply never blocks the loop: the channel
\* it goes to has room for one response and is empty.
ReplyOnce ==
    /\ \A j, k \in 1 .. Len(inputChan) : inputChan[j] = inputChan[k] => j = k
    /\ \A r \in Reqs :
        LET queued == \E k \in 1 .. Len(inputChan) : inputChan[k] = r
        IN  IF handler[r] = "waiting"
            THEN queued <=> result[r] = "empty"
            ELSE ~queued /\ result[r] = "empty"

\* Whenever the loop is back at its select with bookChanged false, GET
\* /api/v1/orderbook serves the present book: a cache that is out of date is
\* always marked for the next tick.
StaleIsMarked ==
    loop = "select" /\ ~bookChanged => depthCache = version

\* The n-th trade among the events is the n-th of the trades made.
InOrder(events, made) ==
    LET trades == {k \in 1 .. Len(events) : events[k].kind = "trade"}
    IN  /\ Cardinality(trades) = Len(made)
        /\ \A k \in trades :
            events[k].version = made[Cardinality({j \in trades : j <= k})]

\* All but the last one made.
Front(made) == SubSeq(made, 1, Len(made) - 1)

\* Trades reach the hub completely and in the order the engine made them; one
\* may still be on its way.
TapePublished ==
    InOrder(stream \o broadcast, IF loop = "trade" THEN Front(tape) ELSE tape)

\* Behind it: the one on its way is the last one made.
TapeInv ==
    /\ TapePublished
    /\ loop = "trade" => tape # <<>> /\ tape[Len(tape)] = version

\* When main exits after a graceful shutdown, the loop has worked off every
\* request that was ever queued.
CleanStopDrains == process = "stopped" => inputChan = <<>>

\* The inductive invariant behind these, for any number of clients, requests
\* and channel capacities.
LoopInv ==
    /\ ServerShape
    /\ \A r \in Malformed : handler[r] \in {"new", "rejected"}
    /\ ReplyOnce
    /\ StaleIsMarked
    /\ loop = "trade" => bookChanged
    /\ loop = "depth" => depthCache = version
    /\ CleanStopDrains

ServerInv == HubInv(Message) /\ LoopInv

\* Every accepted request is answered, unless the process is killed: neither
\* slow or stalled market-data clients nor a full channel stop the loop.
RequestsAnswered ==
    \A r \in Reqs :
        handler[r] = "sending" ~> handler[r] = "answered" \/ process = "killed"
=============================================================================
