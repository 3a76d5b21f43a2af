--------------------------- MODULE LoadGenerator ---------------------------
(***************************************************************************)
(* A run of the load generator: Orchestrator.Run in pkg/loadgen/            *)
(* orchestrator.go and the bots of profiles.go. The bots share a wait group *)
(* and a bounded channel of results that one collector drains; the context  *)
(* expires at any moment, with requests in flight.                          *)
(***************************************************************************)
EXTENDS Integers, Sequences, FiniteSets

CONSTANTS
    Bots,         \* the bots that Run spawns
    TotalTPS,     \* Orchestrator.TotalTPS
    Backlog,      \* seconds of results the channel holds (10 in the code)
    MaxRequests   \* bound: requests of one run

ASSUME LoadAssumption ==
    /\ IsFiniteSet(Bots)
    /\ TotalTPS \in Nat \ {0} /\ Backlog \in Nat \ {0} /\ MaxRequests \in Nat

\* tpsPerBot: integer division, and at least one.
TpsPerBot(total, bots) == IF total \div bots < 1 THEN 1 ELSE total \div bots

VARIABLES
    main,           \* Run: "spawning", "waiting", "closed", "reported"
    wg,             \* the bots the wait group waits for
    expired,        \* the context's deadline has passed
    bot,            \* "none", "select", "sending", "placed", "reporting", "done"
    isSuccess,      \* the result a bot is about to report
    metrics,        \* metricsChan: IsSuccess of each result
    closed,         \* metricsChan is closed
    collector,      \* "none", "range", "done"
    totalRequests, successCount,
    started,        \* requests the bots have begun
    placed,         \* orders the engine has taken
    answered, ok    \* requests that have returned, and those with status 200

counts == <<totalRequests, successCount>>
history == <<started, placed, answered, ok>>
vars == <<main, wg, expired, bot, isSuccess, metrics, closed, collector, counts, history>>

Init ==
    /\ main = "spawning" /\ wg = {} /\ expired = FALSE
    /\ bot = [b \in Bots |-> "none"]
    /\ isSuccess = [b \in Bots |-> FALSE]
    /\ metrics = <<>> /\ closed = FALSE /\ collector = "none"
    /\ totalRequests = 0 /\ successCount = 0
    /\ started = 0 /\ placed = 0 /\ answered = 0 /\ ok = 0

\* Mutant: the goroutine is not counted before it starts.
Added_Late(b) == wg

\* wg.Add(1)
Added(b) == wg \cup {b}

Spawn(b) ==
    /\ main = "spawning" /\ bot[b] = "none"
    /\ wg' = Added(b)
    /\ bot' = [bot EXCEPT ![b] = "select"]
    /\ UNCHANGED <<main, expired, isSuccess, metrics, closed, collector, counts, history>>

\* The spawning loop ends and the collector's goroutine is started.
StartCollector ==
    /\ main = "spawning" /\ \A b \in Bots : bot[b] # "none"
    /\ main' = "waiting"
    /\ collector' = "range"
    /\ UNCHANGED <<wg, expired, bot, isSuccess, metrics, closed, counts, history>>

\* wg.Wait(); close(metricsChan)
WaitReturns ==
    /\ main = "waiting" /\ wg = {}
    /\ main' = "closed"
    /\ closed' = TRUE
    /\ UNCHANGED <<wg, expired, bot, isSuccess, metrics, collector, counts, history>>

\* <-metricsDone, and the report is printed.
Report ==
    /\ main = "closed" /\ collector = "done"
    /\ main' = "reported"
    /\ UNCHANGED <<wg, expired, bot, isSuccess, metrics, closed, collector, counts, history>>

Expire ==
    /\ ~expired
    /\ expired' = TRUE
    /\ UNCHANGED <<main, wg, bot, isSuccess, metrics, closed, collector, counts, history>>

-----------------------------------------------------------------------------
\* The ticker fires and the bot posts an order. After the deadline, too, when
\* both channels are ready; a request that cannot be built is skipped.
Post(b) ==
    /\ bot[b] = "select" /\ started < MaxRequests
    /\ started' = started + 1
    /\ bot' = [bot EXCEPT ![b] = "sending"]
    /\ UNCHANGED <<main, wg, expired, isSuccess, metrics, closed, collector, counts, placed, answered, ok>>

\* The engine takes the order.
Place(b) ==
    /\ bot[b] = "sending"
    /\ placed' = placed + 1
    /\ bot' = [bot EXCEPT ![b] = "placed"]
    /\ UNCHANGED <<main, wg, expired, isSuccess, metrics, closed, collector, counts, started, answered, ok>>

\* Mutant: every answer is a success.
IsOK_AnyAnswer(status) == status # "error"

\* err == nil && resp.StatusCode == http.StatusOK
IsOK(status) == status = "200"

\* httpClient.Do returns: 200 only for an order that was placed; a timeout or
\* a lost connection either way.
Answer(b, status) ==
    /\ \/ bot[b] = "placed" /\ status \in {"200", "error"}
       \/ bot[b] = "sending" /\ status \in {"other", "error"}
    /\ isSuccess' = [isSuccess EXCEPT ![b] = IsOK(status)]
    /\ bot' = [bot EXCEPT ![b] = "reporting"]
    /\ answered' = answered + 1
    /\ ok' = IF status = "200" THEN ok + 1 ELSE ok
    /\ UNCHANGED <<main, wg, expired, metrics, closed, collector, counts, started, placed>>

HasRoom == Len(metrics) < TotalTPS * Backlog

\* Mutant: a result is dropped when the channel is full.
Enqueue_OrDrop(m) == metrics' = IF HasRoom THEN Append(metrics, m) ELSE metrics

\* metricsChan <- m, which waits for room.
Enqueue(m) == HasRoom /\ metrics' = Append(metrics, m)

Send(b) ==
    /\ bot[b] = "reporting"
    /\ Enqueue(isSuccess[b])
    /\ bot' = [bot EXCEPT ![b] = "select"]
    /\ UNCHANGED <<main, wg, expired, isSuccess, closed, collector, counts, history>>

\* Mutant: Done is forgotten.
DoneCalled_Never(b) == UNCHANGED wg

\* defer wg.Done()
DoneCalled(b) == wg' = wg \ {b}

\* <-ctx.Done()
BotReturns(b) ==
    /\ bot[b] = "select" /\ expired
    /\ bot' = [bot EXCEPT ![b] = "done"]
    /\ DoneCalled(b)
    /\ UNCHANGED <<main, expired, isSuccess, metrics, closed, collector, counts, history>>

\* One iteration of the collector.
Collect ==
    /\ collector = "range" /\ metrics # <<>>
    /\ totalRequests' = totalRequests + 1
    /\ successCount' = IF Head(metrics) THEN successCount + 1 ELSE successCount
    /\ metrics' = Tail(metrics)
    /\ UNCHANGED <<main, wg, expired, bot, isSuccess, closed, collector, history>>

\* range ends at a closed, empty channel; close(metricsDone).
CollectorEnds ==
    /\ collector = "range" /\ metrics = <<>> /\ closed
    /\ collector' = "done"
    /\ UNCHANGED <<main, wg, expired, bot, isSuccess, metrics, closed, counts, history>>

RunBot(b) == Send(b) \/ BotReturns(b) \/ \E status \in {"200", "other", "error"} : Answer(b, status)

Next ==
    \/ StartCollector \/ WaitReturns \/ Report \/ Expire \/ Collect \/ CollectorEnds
    \/ \E b \in Bots : Spawn(b) \/ Post(b) \/ Place(b) \/ RunBot(b)

Spec == Init /\ [][Next]_vars

\* Goroutines are scheduled, the deadline passes and every request returns (the
\* client's Timeout is 5 s). A select whose two channels are ready chooses at
\* random, so a bot does not choose the ticker for ever.
FairSpec ==
    /\ Spec
    /\ WF_vars(StartCollector) /\ WF_vars(WaitReturns) /\ WF_vars(Report)
    /\ WF_vars(Expire) /\ WF_vars(Collect) /\ WF_vars(CollectorEnds)
    /\ \A b \in Bots : WF_vars(Spawn(b)) /\ WF_vars(Place(b) \/ RunBot(b))

-----------------------------------------------------------------------------
BotStates == {"none", "select", "sending", "placed", "reporting", "done"}

\* The state has the shape of Run's variables; the channel keeps its capacity.
TypeOK ==
    /\ main \in {"spawning", "waiting", "closed", "reported"}
    /\ collector \in {"none", "range", "done"}
    /\ wg \subseteq Bots
    /\ expired \in BOOLEAN /\ closed \in BOOLEAN
    /\ bot \in [Bots -> BotStates] /\ isSuccess \in [Bots -> BOOLEAN]
    /\ metrics \in Seq(BOOLEAN) /\ Len(metrics) <= TotalTPS * Backlog
    /\ totalRequests \in Nat /\ successCount \in Nat
    /\ started \in Nat /\ placed \in Nat /\ answered \in Nat /\ ok \in Nat

\* The channel is closed (orchestrator.go:69) only when no bot can send on it
\* any more: a send on a closed channel would panic.
NoSendOnClosed == closed => \A b \in Bots : bot[b] = "done"

\* The report (orchestrator.go:72-74) counts every request that returned,
\* those in flight at the deadline included, exactly once.
ReportComplete == main = "reported" => totalRequests = answered

\* The successes of the report are the 200s; each of them is an order the
\* engine took, although more may have been taken than were confirmed.
SuccessesPlaced == main = "reported" => successCount = ok /\ ok <= placed /\ placed <= totalRequests

\* Run ends, whatever is in flight or queued at the deadline.
RunEnds == <>(main = "reported")
=============================================================================
