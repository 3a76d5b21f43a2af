# A TLA+ verification of the trading benchmarking platform

This directory specifies the platform in TLA+, model-checks it with TLC and
proves its main safety properties with TLAPS. Paths are relative to the
repository (`pkg/...` is `src/pkg/...`). `PROJECT.json` maps every definition to
its source lines and lists runs, mutants, findings, hazards and theorems.

## The system

| Part | Source | Role | Modules | Status |
|---|---|---|---|---|
| Order book | `pkg/orderbook` | price levels and price-time matching | `Limit`, `OrderBook`, `PriceTimeBook` (abstract), `PriceTimeRefinement` | modelled |
| Market-data hub | `pkg/api/hub.go` | fan-out to WebSocket clients | `Hub` | modelled |
| API server | `pkg/api/server.go`, `cmd/matching-engine` | handlers, matching loop, depth cache, shutdown | `MatchingServer` (extends `Hub`) | modelled |
| Benchmark controller | `pkg/controller`, `deploy/crds` | BenchmarkRun reconciler | `BenchmarkController` | modelled |
| Live leaderboard feed | `pkg/leaderboard/broadcast.go` | fan-out of Redis updates | `LeaderboardHub` | modelled |
| Telemetry queue | `pkg/queue` | Kafka producer and consumer | `TelemetryQueue` | modelled |
| Standings, leaderboard service | `pkg/leaderboard/ranking.go`, `cmd/leaderboard-service` | scores and details in Redis | `Ranking`, `LeaderboardService` (composes it with `TelemetryQueue`) | modelled |
| FIX gateway | `pkg/fix` | parser and TCP sessions | `FixParser`, `FixSession` | partly |
| Submissions | `pkg/submission`, `cmd/submission-service` | uploads, clones, status polls | `Submission` | modelled |
| Load generator | `pkg/loadgen`, `cmd/load-generator` | bots and metrics collector | `LoadGenerator` | modelled |
| Sandbox, telemetry exporter and aggregator, eBPF, front end, configuration | see the end | | | not modelled |

Handlers put orders on a bounded channel. One goroutine applies them to the
book, replies, and publishes trades at once, and the depth on a 50 ms ticker, to
the hub, which serves each client through a bounded channel and two goroutines.
The controller turns BenchmarkRun objects into namespaces with a contestant's
pod and removes them when the time is up. Telemetry of the runs goes through
Kafka to the leaderboard service, which keeps the standings in Redis and fans
the updates out. Contestants post submissions, which are cloned in the
background; the load generator drives an engine with bots.

## Modules and the code

**Limit.** An `*Order` is the number of its arrival; a `*Limit` is the number of
the order it was created for. `head`, `tail`, `next`, `prev`, `limitOf`, `volume`
are the fields of the two structs. `AddOrder` and `RemoveOrder` are the methods;
`Unlink` is the pointer half of `RemoveOrder`. `TotalVolume` is computed modulo
`Modulus`, which stands for 2^64.

**OrderBook.** `levels` holds the two slices, `orders` the id map. `Process` is
split at its loop heads (`EnterLevel`, `FillHead`, `LeaveLevel`,
`FinishProcess`), so that the end of the loops and the state in the middle
of a match can be stated; no other operation starts meanwhile, since one
goroutine owns the book. `sort.Search` is the relation `SearchIndex`, which
has exactly one solution on a sorted slice. `FreshIds` says whether clients reuse
ids; the server does not prevent it. Timestamps are left out: the code never
compares them.

**PriceTimeBook.** The promise without the data structures: a set of resting
orders, executed in strict order of price and then arrival. `PriceTimeRefinement`
maps the book's state to it (the resting orders are those in a listed level) and
states what is about sums over the orders of a level: `VolumeExact`, `DepthExact`.

**Hub.** One action per case of `Run`'s select and per step of the two pumps.
`Register` and `Unregister` are the rendezvous on the unbuffered channels and
include what the other side does next without blocking. `got`, `stream` and
`joined` are history variables; `panicked` records a send on, or a second close
of, a closed channel. A failed upgrade changes nothing and is left out.

**MatchingServer.** The book is a version number; whether an order traded and
whether a cancel found its order are free choices. `broadcastEvent` is a step of
its own because it may block on a full channel, and `bookChanged` is reset only
after it. `process` is `main`: `Signal`, `ShutdownReturns` (no handler is
active), `Fatal` (the listener failed or five seconds passed). Reading the
depth cache changes nothing; `StaleIsMarked` is about its value.

**BenchmarkController.** Every API call of `Reconcile` is a step. Users, the
clock, the namespace controller and the controller runtime (watch cache, work
queue, restarts) are its environment, marked external in the map. `versions` is
the history of a run in the API server, `cached` how much of it the cache has
seen. `NewReconciler` takes the client of any manager, which reads unstructured
objects live by default and from the cache if it is so configured: `cachedReads`,
chosen once, says which version a read returns (`ReadVersion`). Any call may
fail, or take effect and lose its answer: a status update that was written and
returned an error is `AnswerLost`, for the other calls, which find their object
or its absence when they are repeated, it is the call followed by a failure. Time is
kept relative to each run, in ticks (`age`, and in `phase` the part of a second
that RFC3339 formatting cuts off `startedAt`), so that the state space stays finite
without a horizon. A status written by somebody other than the controller (an
unknown state, an invalid `startedAt`) and differing durations are not modelled.

**LeaderboardHub.** Unlike `Hub`, this one does not drop a slow client itself:
every broadcast that finds its channel full starts a goroutine that unregisters
it. `leaving` counts those goroutines and `ReadPump`'s, `closing` the ones that
have been received and are about to close the connection. `WritePump` is split
where it takes the first message, counts what is queued, receives that many
and writes the frame. Read and write deadlines are failures that may come at any
time. The context of `Run` is cancelled only when `main` exits, so its
`ctx.Done` case is left out.

**Ranking.** Each of the four Redis calls of `UpdateScore` is a step; ZADD and
HSET may fail it, the errors of EXPIRE and PUBLISH are ignored, and a call that
fails may have been executed. A submission's score and its details are named by
the result they come from; `Formatted` is the two decimals of the stored text.
`GetLeaderboard` is an operator of one state: its calls are taken together, so
`ListedInOrder` says nothing of a list that is read while an update goes on.
`ZRevRange` is the set of the ranges Redis may return, since members with equal
scores may come in either order.
`spoiled` remembers that updates of a submission overlapped or a call failed.

**TelemetryQueue.** The producer's asynchronous writer has one open batch per
partition, and any message may go to any partition (`LeastBytes`). A batch may be
lost, or written twice. The reader commits a message before it returns it.
The broker is external.

**LeaderboardService.** The consumer and the debug endpoint call `UpdateScore`;
a restart loses what is under way and starts the reader at the committed offset.
A telemetry event is a result or malformed.

**FixParser.** A message is a sequence of tokens (`=`, SOH, numerals, other
text). `Parse` and `GetString` are the methods, as functions; `ParseFrom` is one turn
of the loop in `Parse`. They are compared with a grammar that does not scan: `Begins`
says where fields begin (at the start and after each SOH), `IsField` what a field is
(a number, its first `=`, and a value up to the next SOH or the end), and `Holds`
that a result has exactly the fields that matter, in order, or is an error.

**FixSession.** `Start` is split between binding, setting `active` without the
lock, and accepting; `Stop` may be called by the owner or by the goroutine that
watches the context. A connection is a stream: a read returns any part of what
has arrived, up to the size of the buffer, and is parsed and answered as one
message. Reads are cut between tokens; a number whose digits are to be cut apart is
a text of several tokens, which `AlwaysParsed` covers. `sent` remembers where each message starts in the stream, for
`AnswersTheFirst` and the bound on messages.

**Submission.** The store maps ids to pointers, so a handler encodes the memory
that the clone goroutine writes. `Status` is a Go string of two words, written
and read one word per step in either order. So is `Logs` (`Torn` between its two
writes); it is read in one step, since the encoder looks at the length first and
what it then finds is one of two things, no logs or a nil text with a length,
which panics and breaks the answer off. A restart empties the store.

**LoadGenerator.** `Orchestrator.Run`, the bots and the collector around a
wait group and a bounded channel. A request is begun, perhaps placed by the
engine, and answered or failed, also after the engine took the order.

## Runs

| Run | Question | Distinct states |
|---|---|---|
| `book` | With fresh ids and no overflow: implements `PriceTimeBook`, complete id map, exact depth, loops that end | 929 k |
| `book_any_input` | With reused ids, odd sides and types, a zero quantity and totals that wrap: FIFO links, uncrossed book, exact totals modulo the width, sound id map, limits respected | 2.4 M |
| `hub` | No panic; no gap in a client's stream | 220 k |
| `server` | Exactly one reply, no unmarked stale cache, complete ordered tape, graceful stop drains | 2.6 M |
| `server_live` | Requests are answered although a client never reads and every channel on the way to it fills up | 167 k |
| `controller` | One start and one end per run, its own pod while it is the only run of its submission, a clean end, cut short by less than a second, no pod without quota and network policy; every run that is not deleted completes | 748 k |
| `feed` | A channel is closed once however many goroutines unregister its client; a frame never waits; a gap means the client is being disconnected; everything started for it ends | 335 k |
| `standings` | Stores that agree after an undisturbed update, a list in the order it shows, no message handled twice, losses only by failures, a consumer that catches up | 272 k |
| `fix` | The parser agrees with the grammar; a read that begins with a message is answered for it and replies are numbered; `Start` returns | 322 k |
| `submission` | A poll after the last save shows one whole outcome with its logs; the shown status never goes back | 600 k |
| `loadgen` | No send on the closed channel; a complete report whose successes are placed orders; the run ends | 26 k |
| `controller_deployed_crd` | violation: see below | |

Each property of a passing run is broken by a mutant of the code's model
(`Name_Variant` operators next to the definition they vary, listed in `PROJECT.json`).

`controller_deployed_crd` shows a disagreement with what the repository says of
itself: the CRD in `deploy/crds` has no status subresource, so every
`Status().Update` fails and no run progresses. The run `controller` assumes that it
has one.

### Bounds

- Book: four orders, three prices, quantities 1 and 2. Four orders make a level
  with a first, a middle and a last order and a taker that sweeps several levels.
  `Modulus` is 16 where totals cannot wrap and 4 where they must. Orders are
  symmetric in their ids.
- Hub: two clients, channels of two slots, four messages: a client can fill its
  channel, be dropped, and leave on its own, while the other goes on.
- Server: two orders, one cancel, one malformed request (none in the liveness
  run), one client, one slot in the hub's channels and two (liveness: one) in the
  input channel, so that every channel fills. The two orders are symmetric, in
  the run that checks invariants only.
- Controller: two runs of one submission, the first of which the user may delete
  and the second of which may be created without a spec; live or cached reads; runs
  of two seconds, monitored every second, a second being two ticks; one fault (failed
  call, lost answer or restart) at any point.
- Feed: two clients, one of which may go away, channels of one slot, three
  updates: a second broadcast finds the channel full, and a third one finds the
  client still in the set and starts another goroutine.
- Standings: two submissions, three messages (one malformed) on two partitions, one
  debug request for a submission that also has telemetry, one fault. The scores
  1.304 and 1.303 differ only before they are formatted.
- FIX: one connection (handlers share nothing but the context), two messages among
  logon, heartbeat, order and all texts of two tokens, a buffer of nine
  tokens, one more than the longest message.
- Submission: two clients, one id (submissions share nothing but the map).
- Load generator: three bots, a channel of one slot, four requests.

### Fairness

- `Process` does not block. That its loops end is stated without fairness:
  `ProcessReturns` says that each step makes a natural number, `StepsLeft`, smaller.
- Server: the goroutines keep running (weak fairness). `HandleRequest` is
  strongly fair because Go's select chooses uniformly among ready cases, and
  `Enqueue` because blocked senders are served in order. Nothing is assumed of
  ticks, clients, signals or peers: in `server_live` the client, once connected,
  is constrained never to read or leave (the worst case for the loop).
- Controller: the runtime goes on delivering watch events and timers (`Notify`) and
  serves its queue in order (strong fairness of `Get`, per run); the cluster
  finishes deletions. Faults are bounded and never required.
- Feed: the select loop and the goroutines run; the deadlines end every read
  from a silent peer and every write. That pings fail is not assumed.
- Standings: Redis calls return, since the client has timeouts, and the consumer
  and the writer go on. Nothing is assumed of publishers, requests and faults.
- FIX: only `Start` and the goroutine that watches the context.
- Load generator: goroutines run, the deadline passes and every request returns
  within the client's timeout; a select with both channels ready does not choose
  the ticker for ever.

## Proofs

The theorems hold for every value of the constants under the assumptions named in
the modules, which say that bounds and capacities are numbers, positive where the
code needs it, and that names are distinct.

- `OrderBookProofs`: `AddOrder` and `Unlink` preserve `FifoLinks`. Links are
  related to arrival order (`Adjacent`: nothing of the same level in between)
  instead of to paths, so no induction over lists is needed. `BookInv` is
  inductive. Sortedness needs that levels are arrived orders (`Arrived`), since a
  level's price is read from the order it was made for; an uncrossed book needs
  sortedness, since only the best level is compared; `IndexSound` needs that the
  taker is not yet in the book. From it: `TypeOK`, `BookUncrossed`,
  `LevelsSorted`, `FifoLinks`, `IndexSound`, for any ids, sides, types and any
  modulus. On top of it `TradeInv` (the level being filled is one the taker
  crosses) gives `LimitRespected`, and `IdsInv` (ids of arrived orders are
  distinct) gives `IndexComplete` for ids that are used once. The module goes on
  with `RestingOpen` (an order rests only while it wants something, `AlwaysOpen`),
  with what each step does to the members of a level and to the listed levels, and
  with the step of `PriceTimeBook` that each step of `Process` and `Cancel` is, as
  long as a level that looks empty is empty. The head of the best level is the
  best order by price and arrival because the slices are sorted and the links are
  in arrival order.
- `PriceTimeProofs`: what rests on sums over the orders of a level. `Total` is a
  fold, defined by a recursive function over sets; that it adds what a set gains and
  subtracts what it loses is proved by induction on the size of the set
  (`NatSetInduction`, from the well-foundedness of the subset order). Hence
  `VolumeExact`, for any input and any modulus. `RestingOpen` makes every fill
  progress, hence `ProcessReturns`, also with totals that wrap: a level that looks
  empty is left, not filled again. Where `TotalsFit` (all orders together ask for less than the
  modulus), a level that looks empty is empty, so `ListingInv` holds: every resting
  order is in a listed level. From it follow `DepthExact` and the refinement
  `ImplementsPriceTime`. Without `TotalsFit` both are false (see the next section),
  so it is a hypothesis of the two theorems.
- `MatchingServerProofs`: every hub step preserves `HubInv`. `NoPanic` alone is
  not inductive; `ChannelsOpen` says that clients in the set have open channels
  and that one which has yet to register is not in it. `DeliveryInv` (what has
  reached a client is a prefix of the stream since it registered, all of it while
  it is in the set) gives `NoGaps`. `ServerInv` (the hub's invariant and the
  loop's) is inductive; hence `ServerTypeOK`, `NoPanic`, `ReplyOnce`,
  `StaleIsMarked` and `CleanStopDrains`. `StaleIsMarked` needs what holds inside
  `broadcastEvent`: with a trade on its way the book is marked, with the depth on
  its way the cache is current. `TapeInv` adds that the trade on its way is the last
  one made, which gives `TapePublished`; the n-th trade is found by counting, so that
  a message appended to the stream leaves the positions of the others alone.
- `LeaderboardHubProofs`: `FeedInv` is inductive; hence `ClosedOnce` and
  `FrameNeverWaits`. `RegisteredAreOpen` is needed as `ChannelsOpen` is above, with
  the addition that nobody unregisters a client that is not yet registered.
  `WholeInv` gives `GapMeansLeaving`.
- `LeaderboardServiceProofs`: `RankingInv` and `QueueInv` are inductive for the
  composed service with any number of callers, messages, partitions and faults;
  hence `TypeOK`, `StoresAgree`, `ShownWasRanked` (details that are shown belong to a
  result that has been ranked) and `HandledOnce`. `UpdatesStaged` says what an
  undisturbed update has written before each of its calls;
  `HandledAreCommitted` that what was handled lies below the committed offset.
  `SkippedInv` counts the messages the reader has passed without handing
  them over, at most one per fault, which gives `LossesAreFaults`. `ListedInOrder`
  follows from `StoresAgree` and the bounds of the rounding.
- `LoadGeneratorProofs`: `LoadInv` is inductive for any finite set of bots;
  hence `NoSendOnClosed` and `ReportComplete`. `PhaseInv` ties the wait group to the
  bots' states, `CountInv` says that a request that returned was counted, is queued
  or waits for room; `SuccessInv` says the same of the successes and of the
  orders taken, which gives `SuccessesPlaced`. `RateBounds` is about the integer
  division of the rate.
- `BenchmarkControllerProofs`: `ControllerInv` is inductive for any runs,
  submissions, durations and number of faults; hence `TypeOK`, `LegalHistory`,
  `PodIsolated` and `NotCutShort`. It adds what the worker's step implies of the
  version it read (`HistoryInv`, which outdated reads would otherwise break), of the
  objects in a live namespace (`ClusterInv`) and of the time (`ClockInv`).
  `OwnerInv` is about a run that is alone on its submission: before it has
  started, what the worker's next call implies of its namespace and its pod
  (`PendingInv`); between the deletion of the namespace and the status update,
  that nobody brings it back (`CleanupInv`); and that once it has succeeded no
  worker acts on its first version (`ReadsInv`), whether it reads live or from the
  cache, because reads never go back. Hence `RunningOwnsPod` and
  `SucceededIsClean`.
- `GatewayProofs`: for the submission API, `SubmissionInv` is inductive for any clients and
  submissions. The goroutine's step tells what it has written (`WrittenInv`), no two
  start on one submission (`StartInv`), a request that found it settled reads
  what stays (`ReadInv`), and what was answered, read since and stored are in the
  order of a submission's life (`OrderInv`). Hence `SettledIsWhole` and the action
  property `PollsNeverGoBack`. For the FIX gateway, `ParseIsGrammar`: `Parse` agrees
  with the grammar on data of any length. The loop only moves on (`TurnMovesOn`), so
  the function that gives its outcome from each index exists (`LoopDefined`), and a
  turn at the start of a field returns that field in front of what the later
  turns return (`TurnFindsField`, `FieldInFront`, `LoopHolds`). Both arguments look at
  the shortest rest of the data for which the claim fails, which exists because
  the naturals are well-founded, since induction itself cannot be instantiated.
  `AlwaysParsed` is then `ParsesTheGrammar` for any texts, connections and sizes of reads.

Only model-checked: the liveness properties (`RequestsAnswered`, `RunsComplete`,
`LeaversEnd`, `ConsumerCatchesUp`, `StartReturns`, `RunEnds`), which like ENABLED
are outside the prover's reach; and `AnswersTheFirst` of the FIX gateway, which is
about what `Parse` makes of concrete replies of some forty tokens and of reads that
begin with a given message: an evaluation, which TLC does and the prover does not.
The numbers of replies are also texts of one digit in the model.

## What lies outside the assumptions

What the properties above do not promise, because the code does not:

- Book: an id used twice overwrites the map entry of an order that still rests,
  which then cannot be cancelled (`IndexComplete` assumes fresh ids). A side that is
  neither 0 nor 1 is matched as a sell without the price check, though the
  book stays uncrossed. A level whose unfilled quantities add up to 2^64 looks
  empty and is dropped with its orders.
- Controller: two runs of a submission share the namespace, so the second runs on
  the first one's pod and loses it early (`Sole`); `PodIsolated` speaks of live
  namespaces and holds for them too. A run that is deleted while it
  is running leaves its namespace behind.
- Queue: `LeastBytes` ignores the key, so the order per submission that the comment at
  `pkg/queue/producer.go:42` expects is not given. A batch given up by the
  asynchronous writer is lost unnoticed, and the consumer commits a message before
  it handles it, so that one a crash or a failed commit catches in between is not
  read again. `LossesAreFaults` bounds the second kind of loss by the number of
  faults; it is not the "zero telemetry loss", the "guaranteed message delivery using
  consumer groups and commit tracking" and the "no data is lost" that
  `hackathon_artifacts/implementation_plan.md` sets as aims (lines 620, 625, 692).
- FIX: of several messages in one read only the first is answered (`AnswersTheFirst`
  says no more than that), malformed
  text drops the whole read, and a `Stop` between `Listen` and `session.go:34` is
  undone.
- Submission: an upload whose file cannot be created stays PENDING; a poll during
  the clone may show the two words of different statuses, or SUCCESS
  without logs, or be broken off while the logs are written; a restart forgets all submissions.
- Load generator: no bots at all is a division by zero; with a target below one
  request per bot the rate exceeds it.

## Not modelled

- **Sandbox** (`pkg/sandbox`): sequences of Docker calls that no service makes yet;
  the submission service creates the executor and discards it, so there is
  nothing around the calls that could interleave with them or observe them.
- **Telemetry exporter and aggregator** (`pkg/telemetry`,
  `cmd/telemetry-aggregator`): metric definitions, and a service that connects to
  its stores and then waits. There is no state.
- **eBPF probe** (`ebpf`): kernel instrumentation and its mock; pure I/O.
- **Dashboard, Helm, Compose, scripts, proto**: front end and configuration, except
  for the CRD, which is a constant of the controller's model.
- Within modelled parts: metrics, logging, static files and health checks, the
  contents of orders that bots draw at random, `GetInt` and the checksum of the FIX
  messages, the signs `strconv.Atoi` accepts, and file contents.
