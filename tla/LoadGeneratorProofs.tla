------------------------ MODULE LoadGeneratorProofs ------------------------
(***************************************************************************)
(* The load generator's shutdown and its report, for any number of bots,    *)
(* any capacity of the channel and any number of requests.                  *)
(***************************************************************************)
EXTENDS LoadGenerator, FiniteSetTheorems, SequenceTheorems, TLAPS

Reporting == {b \in Bots : bot[b] = "reporting"}

\* The wait group and the phases of Run.
PhaseInv ==
    /\ wg = {b \in Bots : bot[b] \notin {"none", "done"}}
    /\ closed <=> main \in {"closed", "reported"}
    /\ main # "spawning" => \A b \in Bots : bot[b] # "none"
    /\ closed => wg = {}
    /\ collector = "done" => closed /\ metrics = <<>>
    /\ main = "reported" => collector = "done"

\* A request that returned was counted, is queued, or waits for room.
CountInv == answered = totalRequests + Len(metrics) + Cardinality(Reporting)

LoadInv == TypeOK /\ PhaseInv /\ CountInv

\* The queued successes, by the number the collector will give the result; the
\* successes that wait for room; the orders taken whose answer is still out.
Queued == {n \in (totalRequests + 1)..(totalRequests + Len(metrics)) :
               metrics[n - totalRequests] = TRUE}
Waiting == {b \in Bots : bot[b] = "reporting" /\ isSuccess[b] = TRUE}
Untold == {b \in Bots : bot[b] = "placed"}

\* A 200 was counted, is queued or waits for room. An order that was taken was
\* confirmed by at most one 200, and was answered unless its answer is out.
SuccessInv ==
    /\ ok = successCount + Cardinality(Queued) + Cardinality(Waiting)
    /\ ok + Cardinality(Untold) <= placed
    /\ placed <= answered + Cardinality(Untold)

-----------------------------------------------------------------------------
\* Bots enter and leave the set of those that report one at a time.
LEMMA ReportingFinite == IsFiniteSet(Reporting) /\ Cardinality(Reporting) \in Nat
<1>1. Reporting \subseteq Bots /\ IsFiniteSet(Bots)
    BY LoadAssumption DEF Reporting
<1> QED BY <1>1, FS_Subset, FS_CardinalityType

\* The set is the same when no bot enters or leaves it.
LEMMA ReportingSame ==
    ASSUME \A b \in Bots : bot'[b] = "reporting" <=> bot[b] = "reporting"
    PROVE  Reporting' = Reporting
BY DEF Reporting

\* It grows by one when a request returns.
LEMMA ReportingGrows ==
    ASSUME NEW b \in Bots, TypeOK, bot[b] # "reporting",
           bot' = [bot EXCEPT ![b] = "reporting"]
    PROVE  Cardinality(Reporting') = Cardinality(Reporting) + 1
<1>1. Reporting' = Reporting \cup {b} /\ b \notin Reporting
    BY DEF Reporting, TypeOK
<1> QED BY <1>1, ReportingFinite, FS_AddElement, ZenonT(30)

\* It shrinks by one when a result is sent.
LEMMA ReportingShrinks ==
    ASSUME NEW b \in Bots, TypeOK, bot[b] = "reporting",
           bot' = [bot EXCEPT ![b] = "select"]
    PROVE  Cardinality(Reporting') = Cardinality(Reporting) - 1
<1>1. Reporting' = Reporting \ {b} /\ b \in Reporting
    BY DEF Reporting, TypeOK
<1> QED BY <1>1, ReportingFinite, FS_RemoveElement

-----------------------------------------------------------------------------
\* The invariant holds initially.
LEMMA LoadInit == Init => LoadInv
<1> SUFFICES ASSUME Init PROVE LoadInv
    OBVIOUS
<1>0. TotalTPS * Backlog \in Nat
    BY LoadAssumption
<1>1. TypeOK
  <2>1. metrics \in Seq(BOOLEAN) /\ Len(metrics) = 0
    BY DEF Init
  <2>2. Len(metrics) <= TotalTPS * Backlog
    BY <1>0, <2>1
  <2>3. isSuccess \in [Bots -> BOOLEAN] /\ expired \in BOOLEAN /\ closed \in BOOLEAN
    BY ZenonT(30) DEF Init
  <2> QED BY <2>1, <2>2, <2>3 DEF Init, TypeOK, BotStates
<1>1a. PhaseInv
    BY DEF Init, PhaseInv
<1>2. Reporting = {}
    BY DEF Init, Reporting
<1>3. Cardinality(Reporting) = 0
    BY <1>2, FS_EmptySet
<1> QED BY <1>1, <1>1a, <1>3 DEF LoadInv, CountInv, Init

\* Every step preserves the types.
LEMMA LoadTypes == TypeOK /\ [Next]_vars => TypeOK'
<1> SUFFICES ASSUME TypeOK, [Next]_vars PROVE TypeOK'
    OBVIOUS
<1> USE DEF TypeOK, BotStates
<1>1. CASE StartCollector \/ WaitReturns \/ Report \/ Expire \/ CollectorEnds
    BY <1>1, ZenonT(30) DEF StartCollector, WaitReturns, Report, Expire, CollectorEnds, counts, history
<1>2. CASE Collect
  <2>1. TotalTPS * Backlog \in Nat
    BY LoadAssumption
  <2>2. metrics # <<>> /\ metrics' = Tail(metrics)
    BY <1>2, Zenon DEF Collect
  <2>3. metrics' \in Seq(BOOLEAN) /\ Len(metrics') = Len(metrics) - 1 /\ Len(metrics) \in Nat
    BY <2>2, HeadTailProperties, LenProperties
  <2>4. Len(metrics') <= TotalTPS * Backlog
    BY <2>1, <2>3
  <2>5. totalRequests' = totalRequests + 1 /\ successCount' \in {successCount, successCount + 1}
    BY <1>2, Zenon DEF Collect
  <2>6. totalRequests' \in Nat /\ successCount' \in Nat
    BY <2>5
  <2>7. UNCHANGED <<main, wg, expired, bot, isSuccess, closed, collector,
                    started, placed, answered, ok>>
    BY <1>2, Zenon DEF Collect, history
  <2> QED BY <2>3, <2>4, <2>6, <2>7
<1>3. ASSUME NEW b \in Bots, Spawn(b) PROVE TypeOK'
    BY <1>3 DEF Spawn, Added, counts, history
<1>4. ASSUME NEW b \in Bots, Post(b) \/ Place(b) PROVE TypeOK'
    BY <1>4, SMTT(60) DEF Post, Place, counts
<1>5. ASSUME NEW b \in Bots, NEW status, Answer(b, status) PROVE TypeOK'
    BY <1>5 DEF Answer, IsOK, counts
<1>6. ASSUME NEW b \in Bots, Send(b) PROVE TypeOK'
    BY <1>6, LoadAssumption DEF Send, Enqueue, HasRoom, counts, history
<1>7. ASSUME NEW b \in Bots, BotReturns(b) PROVE TypeOK'
    BY <1>7 DEF BotReturns, DoneCalled, counts, history
<1>8. CASE UNCHANGED vars
    BY <1>8 DEF vars, counts, history
<1> QED BY <1>1, <1>2, <1>3, <1>4, <1>5, <1>6, <1>7, <1>8 DEF Next, RunBot

\* Every step preserves the phases.
LEMMA LoadPhases == TypeOK /\ PhaseInv /\ [Next]_vars => PhaseInv'
<1> SUFFICES ASSUME TypeOK, PhaseInv, [Next]_vars PROVE PhaseInv'
    OBVIOUS
<1> USE DEF TypeOK, BotStates, PhaseInv
<1>1. CASE StartCollector \/ WaitReturns \/ Report \/ Expire \/ CollectorEnds
    BY <1>1 DEF StartCollector, WaitReturns, Report, Expire, CollectorEnds
<1>2. CASE Collect
    BY <1>2, Zenon DEF Collect
<1>3. ASSUME NEW b \in Bots, Spawn(b) PROVE PhaseInv'
    BY <1>3 DEF Spawn, Added
<1>4. ASSUME NEW b \in Bots, Post(b) \/ Place(b) PROVE PhaseInv'
    BY <1>4 DEF Post, Place
<1>5. ASSUME NEW b \in Bots, NEW status, Answer(b, status) PROVE PhaseInv'
    BY <1>5 DEF Answer
<1>6. ASSUME NEW b \in Bots, Send(b) PROVE PhaseInv'
  <2>1. b \in wg /\ ~closed
    BY <1>6 DEF Send
  <2> QED BY <1>6, <2>1 DEF Send
<1>7. ASSUME NEW b \in Bots, BotReturns(b) PROVE PhaseInv'
    BY <1>7 DEF BotReturns, DoneCalled
<1>8. CASE UNCHANGED vars
    BY <1>8 DEF vars
<1> QED BY <1>1, <1>2, <1>3, <1>4, <1>5, <1>6, <1>7, <1>8 DEF Next, RunBot

\* Every step keeps the count.
LEMMA LoadCount == TypeOK /\ CountInv /\ [Next]_vars => CountInv'
<1> SUFFICES ASSUME TypeOK, CountInv, [Next]_vars PROVE CountInv'
    OBVIOUS
<1> DEFINE n == Cardinality(Reporting)
<1>0. n \in Nat /\ answered \in Nat /\ totalRequests \in Nat /\ metrics \in Seq(BOOLEAN)
    BY ReportingFinite DEF TypeOK
<1>1. CASE StartCollector \/ WaitReturns \/ Report \/ Expire \/ CollectorEnds
  <2>1. UNCHANGED <<bot, metrics, totalRequests, answered>>
    BY <1>1 DEF StartCollector, WaitReturns, Report, Expire, CollectorEnds, counts, history
  <2> QED BY <2>1 DEF CountInv, Reporting
<1>2. CASE Collect
  <2>1. Reporting' = Reporting
    BY <1>2, Zenon DEF Collect, Reporting
  <2>2. Len(metrics') = Len(metrics) - 1 /\ totalRequests' = totalRequests + 1 /\ answered' = answered
    BY <1>0, <1>2, HeadTailProperties, Zenon DEF Collect, history
  <2> QED BY <1>0, <2>1, <2>2 DEF CountInv
<1>3. ASSUME NEW b \in Bots, Spawn(b) \/ Post(b) \/ Place(b) \/ BotReturns(b) PROVE CountInv'
  <2>1. UNCHANGED <<metrics, totalRequests, answered>>
    BY <1>3 DEF Spawn, Post, Place, BotReturns, counts, history
  <2>2. \A c \in Bots : bot'[c] = "reporting" <=> bot[c] = "reporting"
    BY <1>3 DEF Spawn, Post, Place, BotReturns, TypeOK
  <2>3. Reporting' = Reporting
    BY <2>2, ReportingSame
  <2> QED BY <2>1, <2>3 DEF CountInv
<1>4. ASSUME NEW b \in Bots, NEW status, Answer(b, status) PROVE CountInv'
  <2>1. bot[b] # "reporting" /\ bot' = [bot EXCEPT ![b] = "reporting"]
    BY <1>4 DEF Answer
  <2>2. UNCHANGED <<metrics, totalRequests>> /\ answered' = answered + 1
    BY <1>4 DEF Answer, counts
  <2>3. Cardinality(Reporting') = n + 1
    BY <2>1, ReportingGrows, ZenonT(30)
  <2> QED BY <1>0, <2>2, <2>3 DEF CountInv
<1>5. ASSUME NEW b \in Bots, Send(b) PROVE CountInv'
  <2>1. bot[b] = "reporting" /\ bot' = [bot EXCEPT ![b] = "select"]
    BY <1>5 DEF Send
  <2>2. UNCHANGED <<answered, totalRequests>> /\ Len(metrics') = Len(metrics) + 1
    BY <1>0, <1>5 DEF Send, Enqueue, counts, history
  <2>3. Cardinality(Reporting') = n - 1
    BY <2>1, ReportingShrinks, ZenonT(30)
  <2> QED BY <1>0, <2>2, <2>3 DEF CountInv
<1>6. CASE UNCHANGED vars
    BY <1>6 DEF vars, counts, history, CountInv, Reporting
<1> QED BY <1>1, <1>2, <1>3, <1>4, <1>5, <1>6 DEF Next, RunBot

-----------------------------------------------------------------------------
\* The three sets are finite.
LEMMA SuccessSetsFinite ==
    ASSUME TypeOK
    PROVE  /\ IsFiniteSet(Queued) /\ Cardinality(Queued) \in Nat
           /\ IsFiniteSet(Waiting) /\ Cardinality(Waiting) \in Nat
           /\ IsFiniteSet(Untold) /\ Cardinality(Untold) \in Nat
<1>1. totalRequests + 1 \in Int /\ totalRequests + Len(metrics) \in Int
    BY LenProperties DEF TypeOK
<1>2. IsFiniteSet((totalRequests + 1)..(totalRequests + Len(metrics)))
    BY <1>1, FS_Interval
<1>3. Queued \subseteq (totalRequests + 1)..(totalRequests + Len(metrics))
    BY DEF Queued
<1>4. Waiting \subseteq Bots /\ Untold \subseteq Bots /\ IsFiniteSet(Bots)
    BY LoadAssumption DEF Waiting, Untold
<1>5. IsFiniteSet(Queued) /\ IsFiniteSet(Waiting) /\ IsFiniteSet(Untold)
    BY <1>2, <1>3, <1>4, FS_Subset, Zenon
<1> QED BY <1>5, FS_CardinalityType

\* The collector takes the first result out of the channel.
LEMMA QueueCollected ==
    ASSUME TypeOK, Collect
    PROVE  successCount' + Cardinality(Queued') = successCount + Cardinality(Queued)
<1>1. /\ metrics \in Seq(BOOLEAN) /\ metrics # <<>> /\ metrics' = Tail(metrics)
      /\ totalRequests \in Nat /\ totalRequests' = totalRequests + 1
    BY Zenon DEF TypeOK, Collect
<1>2. PICK m \in Seq(BOOLEAN), k \in Nat : m = metrics /\ k = totalRequests
    BY <1>1
<1>3. /\ Len(m) \in Nat \ {0} /\ Len(Tail(m)) = Len(m) - 1
      /\ \A i \in 1..(Len(m) - 1) : Tail(m)[i] = m[i + 1]
      /\ Head(m) = m[1] /\ m[1] \in BOOLEAN
    BY <1>1, <1>2
<1>4. Queued = {n \in (k + 1)..(k + Len(m)) : m[n - k] = TRUE}
    BY <1>2 DEF Queued
<1>5. Queued' = {n \in (k + 2)..(k + Len(m)) : m[n - k] = TRUE}
  <2>1. Queued' = {n \in ((k + 1) + 1)..((k + 1) + Len(Tail(m))) : Tail(m)[n - (k + 1)] = TRUE}
    BY <1>1, <1>2 DEF Queued
  <2>2. ((k + 1) + 1)..((k + 1) + Len(Tail(m))) = (k + 2)..(k + Len(m))
    BY <1>3
  <2>3. \A n \in (k + 2)..(k + Len(m)) : Tail(m)[n - (k + 1)] = m[n - k]
    <3> SUFFICES ASSUME NEW n \in (k + 2)..(k + Len(m)) PROVE Tail(m)[n - (k + 1)] = m[n - k]
      OBVIOUS
    <3>1. n - (k + 1) \in 1..(Len(m) - 1) /\ (n - (k + 1)) + 1 = n - k
      BY <1>3
    <3> QED BY <1>3, <3>1
  <2> QED BY <2>1, <2>2, <2>3, Zenon
<1>6. IsFiniteSet(Queued) /\ Cardinality(Queued) \in Nat /\ successCount \in Nat
    BY SuccessSetsFinite DEF TypeOK
<1>7. CASE m[1] = TRUE
  <2>1. k + 1 \in Queued /\ Queued' = Queued \ {k + 1}
    BY <1>3, <1>4, <1>5, <1>7
  <2>2. Cardinality(Queued') = Cardinality(Queued) - 1
    BY <1>6, <2>1, FS_RemoveElement, Zenon
  <2>3. successCount' = successCount + 1
    BY <1>2, <1>3, <1>7, Zenon DEF Collect
  <2> QED BY <1>6, <2>2, <2>3
<1>8. CASE m[1] = FALSE
  <2>1. Queued' = Queued
    BY <1>3, <1>4, <1>5, <1>8
  <2>2. successCount' = successCount
    BY <1>2, <1>3, <1>8, Zenon DEF Collect
  <2> QED BY <2>1, <2>2
<1> QED BY <1>3, <1>7, <1>8, Zenon

\* A bot that sends its result moves it from the bots to the channel.
LEMMA QueueSent ==
    ASSUME TypeOK, NEW b \in Bots, Send(b)
    PROVE  Cardinality(Queued') + Cardinality(Waiting') = Cardinality(Queued) + Cardinality(Waiting)
<1>1. /\ metrics \in Seq(BOOLEAN) /\ totalRequests \in Nat /\ isSuccess[b] \in BOOLEAN
      /\ metrics' = Append(metrics, isSuccess[b])
      /\ totalRequests' = totalRequests /\ isSuccess' = isSuccess
      /\ bot \in [Bots -> BotStates] /\ bot[b] = "reporting" /\ bot' = [bot EXCEPT ![b] = "select"]
    BY DEF TypeOK, Send, Enqueue, counts
<1>2. PICK m \in Seq(BOOLEAN), k \in Nat, v \in BOOLEAN : m = metrics /\ k = totalRequests /\ v = isSuccess[b]
    BY <1>1
<1>3. /\ Len(m) \in Nat /\ Len(Append(m, v)) = Len(m) + 1
      /\ \A i \in 1..Len(m) : Append(m, v)[i] = m[i]
      /\ Append(m, v)[Len(m) + 1] = v
    BY AppendProperties, LenProperties
<1>4. Queued = {n \in (k + 1)..(k + Len(m)) : m[n - k] = TRUE}
    BY <1>2 DEF Queued
<1>5. Queued' = {n \in (k + 1)..(k + (Len(m) + 1)) : Append(m, v)[n - k] = TRUE}
    BY <1>1, <1>2, <1>3 DEF Queued
<1>6. \A n \in (k + 1)..(k + Len(m)) : Append(m, v)[n - k] = m[n - k]
  <2> SUFFICES ASSUME NEW n \in (k + 1)..(k + Len(m)) PROVE Append(m, v)[n - k] = m[n - k]
    OBVIOUS
  <2>1. n - k \in 1..Len(m)
    BY <1>3
  <2> QED BY <1>3, <2>1
<1>7. /\ (k + 1)..(k + (Len(m) + 1)) = (k + 1)..(k + Len(m)) \cup {k + (Len(m) + 1)}
      /\ (k + (Len(m) + 1)) - k = Len(m) + 1
      /\ k + (Len(m) + 1) \notin (k + 1)..(k + Len(m))
    BY <1>3
<1>8. /\ IsFiniteSet(Queued) /\ Cardinality(Queued) \in Nat
      /\ IsFiniteSet(Waiting) /\ Cardinality(Waiting) \in Nat
    BY SuccessSetsFinite
<1>9. CASE v = TRUE
  <2>1. Queued' = Queued \cup {k + (Len(m) + 1)} /\ k + (Len(m) + 1) \notin Queued
    BY <1>3, <1>4, <1>5, <1>6, <1>7, <1>9
  <2>2. Waiting' = Waiting \ {b} /\ b \in Waiting
    BY <1>1, <1>2, <1>9 DEF Waiting, BotStates
  <2>3. Cardinality(Queued') = Cardinality(Queued) + 1
    BY <1>8, <2>1, FS_AddElement, Zenon
  <2>4. Cardinality(Waiting') = Cardinality(Waiting) - 1
    BY <1>8, <2>2, FS_RemoveElement, Zenon
  <2> QED BY <1>8, <2>3, <2>4
<1>10. CASE v = FALSE
  <2>1. Queued' = Queued
    BY <1>3, <1>4, <1>5, <1>6, <1>7, <1>10
  <2>2. Waiting' = Waiting
    BY <1>1, <1>2, <1>10 DEF Waiting, BotStates
  <2> QED BY <2>1, <2>2
<1> QED BY <1>9, <1>10, Zenon

\* A 200 makes its bot wait with a success; any other answer does not.
LEMMA AnswerWaits ==
    ASSUME TypeOK, NEW b \in Bots, NEW status, Answer(b, status)
    PROVE  /\ Queued' = Queued
           /\ ok' - ok = Cardinality(Waiting') - Cardinality(Waiting)
<1>1. /\ isSuccess \in [Bots -> BOOLEAN] /\ bot \in [Bots -> BotStates]
      /\ bot[b] # "reporting"
      /\ isSuccess' = [isSuccess EXCEPT ![b] = (status = "200")]
      /\ bot' = [bot EXCEPT ![b] = "reporting"]
      /\ ok \in Nat /\ ok' = IF status = "200" THEN ok + 1 ELSE ok
    BY DEF TypeOK, Answer, IsOK
<1>2. Queued' = Queued
    BY DEF Queued, Answer, counts
<1>3. IsFiniteSet(Waiting) /\ Cardinality(Waiting) \in Nat
    BY SuccessSetsFinite
<1>4. CASE status = "200"
  <2>1. Waiting' = Waiting \cup {b} /\ b \notin Waiting
    BY <1>1, <1>4, Zenon DEF Waiting
  <2>2. Cardinality(Waiting') = Cardinality(Waiting) + 1
    BY <1>3, <2>1, FS_AddElement
  <2> QED BY <1>1, <1>2, <1>3, <1>4, <2>2
<1>5. CASE status # "200"
  <2>1. Waiting' = Waiting
    BY <1>1, <1>5, Zenon DEF Waiting
  <2> QED BY <1>1, <1>2, <1>3, <1>5, <2>1
<1> QED BY <1>4, <1>5

\* Every step accounts for the successes and for the orders taken.
LEMMA LoadSuccesses == TypeOK /\ SuccessInv /\ [Next]_vars => SuccessInv'
<1> SUFFICES ASSUME TypeOK, SuccessInv, [Next]_vars PROVE SuccessInv'
    OBVIOUS
<1> DEFINE q == Cardinality(Queued)
           w == Cardinality(Waiting)
           u == Cardinality(Untold)
           Kept == /\ ok' = successCount' + q' + w'
                   /\ ok' + u' <= placed'
                   /\ placed' <= answered' + u'
<1>0. /\ q \in Nat /\ w \in Nat /\ u \in Nat /\ IsFiniteSet(Untold)
      /\ ok \in Nat /\ successCount \in Nat /\ placed \in Nat /\ answered \in Nat
      /\ bot \in [Bots -> BotStates]
      /\ ok = successCount + q + w /\ ok + u <= placed /\ placed <= answered + u
    BY SuccessSetsFinite DEF TypeOK, SuccessInv
<1> SUFFICES Kept
    BY DEF SuccessInv
<1>1. CASE StartCollector \/ WaitReturns \/ Report \/ Expire \/ CollectorEnds \/ UNCHANGED vars
  <2>1. UNCHANGED <<bot, isSuccess, metrics, totalRequests, successCount, placed, answered, ok>>
    BY <1>1 DEF StartCollector, WaitReturns, Report, Expire, CollectorEnds, vars, counts, history
  <2>2. Queued' = Queued /\ Waiting' = Waiting /\ Untold' = Untold
    BY <2>1 DEF Queued, Waiting, Untold
  <2> QED BY <1>0, <2>1, <2>2
<1>2. CASE Collect
  <2>1. UNCHANGED <<bot, isSuccess, placed, answered, ok>>
    BY <1>2, Zenon DEF Collect, history
  <2>2. Waiting' = Waiting /\ Untold' = Untold
    BY <2>1 DEF Waiting, Untold
  <2>3. successCount' + q' = successCount + q
    BY <1>2, QueueCollected
  <2>4. successCount' \in Nat /\ q' \in Nat
    <3>1. TypeOK'
      BY LoadTypes
    <3>2. (TypeOK => Cardinality(Queued) \in Nat)'
      BY SuccessSetsFinite, PTL
    <3> QED BY <3>1, <3>2 DEF TypeOK
  <2> QED BY <1>0, <2>1, <2>2, <2>3, <2>4
<1>3. ASSUME NEW b \in Bots, Spawn(b) \/ Post(b) \/ BotReturns(b) PROVE Kept
  <2>1. UNCHANGED <<isSuccess, metrics, totalRequests, successCount, placed, answered, ok>>
    BY <1>3 DEF Spawn, Post, BotReturns, counts, history
  <2>2. \A c \in Bots : /\ bot'[c] = "reporting" <=> bot[c] = "reporting"
                        /\ bot'[c] = "placed" <=> bot[c] = "placed"
    BY <1>0, <1>3 DEF Spawn, Post, BotReturns
  <2>3. Queued' = Queued /\ Waiting' = Waiting /\ Untold' = Untold
    BY <2>1, <2>2 DEF Queued, Waiting, Untold
  <2> QED BY <1>0, <2>1, <2>3
<1>4. ASSUME NEW b \in Bots, Place(b) PROVE Kept
  <2>1. /\ UNCHANGED <<isSuccess, metrics, totalRequests, successCount, answered, ok>>
        /\ placed' = placed + 1 /\ bot[b] = "sending" /\ bot' = [bot EXCEPT ![b] = "placed"]
    BY <1>4 DEF Place, counts
  <2>2. Queued' = Queued
    BY <2>1 DEF Queued
  <2>3. Waiting' = Waiting
    BY <1>0, <2>1 DEF Waiting
  <2>4. Untold' = Untold \cup {b} /\ b \notin Untold
    BY <1>0, <2>1 DEF Untold
  <2>5. u' = u + 1
    BY <1>0, <2>4, FS_AddElement, Zenon
  <2> QED BY <1>0, <2>1, <2>2, <2>3, <2>5
<1>5. ASSUME NEW b \in Bots, NEW status, Answer(b, status) PROVE Kept
  <2>1. /\ UNCHANGED <<successCount, placed>>
        /\ answered' = answered + 1 /\ bot' = [bot EXCEPT ![b] = "reporting"]
        /\ ok' = IF status = "200" THEN ok + 1 ELSE ok
    BY <1>5 DEF Answer, counts
  <2>2. Queued' = Queued /\ ok' - ok = w' - w
    BY <1>5, AnswerWaits
  <2>3. w' \in Nat
    <3>1. TypeOK'
      BY LoadTypes
    <3>2. (TypeOK => Cardinality(Waiting) \in Nat)'
      BY SuccessSetsFinite, PTL
    <3> QED BY <3>1, <3>2
  <2>4. ok' \in Nat /\ ok' = successCount' + q' + w'
    BY <1>0, <2>1, <2>2, <2>3
  <2>5. CASE bot[b] = "placed"
    <3>1. Untold' = Untold \ {b} /\ b \in Untold
      BY <1>0, <2>1, <2>5 DEF Untold
    <3>2. u' = u - 1
      BY <1>0, <3>1, FS_RemoveElement
    <3> QED BY <1>0, <2>1, <2>4, <3>2
  <2>6. CASE bot[b] # "placed"
    <3>1. status # "200"
      BY <1>5, <2>6 DEF Answer
    <3>2. Untold' = Untold
      BY <1>0, <2>1, <2>6 DEF Untold
    <3> QED BY <1>0, <2>1, <2>4, <3>1, <3>2
  <2> QED BY <2>5, <2>6
<1>6. ASSUME NEW b \in Bots, Send(b) PROVE Kept
  <2>1. /\ UNCHANGED <<successCount, placed, answered, ok>>
        /\ bot[b] = "reporting" /\ bot' = [bot EXCEPT ![b] = "select"]
    BY <1>6 DEF Send, counts, history
  <2>2. Untold' = Untold
    BY <1>0, <2>1 DEF Untold
  <2>3. q' + w' = q + w
    BY <1>6, QueueSent
  <2>4. q' \in Nat /\ w' \in Nat
    <3>1. TypeOK'
      BY LoadTypes
    <3>2. (TypeOK => Cardinality(Queued) \in Nat /\ Cardinality(Waiting) \in Nat)'
      BY SuccessSetsFinite, PTL
    <3> QED BY <3>1, <3>2
  <2> QED BY <1>0, <2>1, <2>2, <2>3, <2>4
<1> QED BY <1>1, <1>2, <1>3, <1>4, <1>5, <1>6 DEF Next, RunBot

-----------------------------------------------------------------------------
\* The inductive invariant of the load generator: the wait group holds the
\* bots that run, Run's phases, and where every result is.
THEOREM LoadInvariant == Spec => []LoadInv
<1>1. LoadInv /\ [Next]_vars => LoadInv'
    BY LoadTypes, LoadPhases, LoadCount DEF LoadInv
<1> QED BY <1>1, LoadInit, PTL DEF Spec

\* metricsChan is never closed while a bot could still send on it.
THEOREM NeverSendsOnClosed == Spec => []NoSendOnClosed
<1>1. LoadInv => NoSendOnClosed
  <2> SUFFICES ASSUME LoadInv, closed, NEW b \in Bots PROVE bot[b] = "done"
    BY DEF NoSendOnClosed
  <2>1. wg = {} /\ wg = {c \in Bots : bot[c] \notin {"none", "done"}}
    BY DEF LoadInv, PhaseInv
  <2>2. bot[b] # "none"
    BY DEF LoadInv, PhaseInv
  <2> QED BY <2>1, <2>2
<1> QED BY <1>1, LoadInvariant, PTL

\* The report counts every request that returned exactly once.
THEOREM AlwaysReportsAll == Spec => []ReportComplete
<1>1. LoadInv => ReportComplete
  <2> SUFFICES ASSUME LoadInv, main = "reported" PROVE totalRequests = answered
    BY DEF ReportComplete
  <2>1. closed /\ metrics = <<>> /\ wg = {}
    BY DEF LoadInv, PhaseInv
  <2>2. Reporting = {}
    BY <2>1 DEF LoadInv, PhaseInv, Reporting
  <2>3. Cardinality(Reporting) = 0 /\ Len(metrics) = 0
    BY <2>1, <2>2, FS_EmptySet
  <2> QED BY <2>3 DEF LoadInv, CountInv, TypeOK
<1> QED BY <1>1, LoadInvariant, PTL

\* The successes of the report are exactly the 200s, each of them an order the
\* engine took, and no more orders were taken than the report has requests.
THEOREM SuccessesAlwaysPlaced == Spec => []SuccessesPlaced
<1>1. Init => SuccessInv
  <2> SUFFICES ASSUME Init PROVE SuccessInv
    OBVIOUS
  <2>1. Queued = {} /\ Waiting = {} /\ Untold = {}
    BY DEF Init, Queued, Waiting, Untold
  <2>2. Cardinality({}) = 0
    BY FS_EmptySet
  <2> QED BY <2>1, <2>2 DEF Init, SuccessInv
<1>2. LoadInv /\ SuccessInv /\ [Next]_vars => SuccessInv'
    BY LoadSuccesses DEF LoadInv
<1>3. Spec => []SuccessInv
    BY <1>1, <1>2, LoadInvariant, PTL DEF Spec
<1>4. LoadInv /\ ReportComplete /\ NoSendOnClosed /\ SuccessInv => SuccessesPlaced
  <2> SUFFICES ASSUME LoadInv, ReportComplete, NoSendOnClosed, SuccessInv, main = "reported"
               PROVE  successCount = ok /\ ok <= placed /\ placed <= totalRequests
    BY DEF SuccessesPlaced
  <2>1. metrics = <<>> /\ \A b \in Bots : bot[b] = "done"
    BY DEF LoadInv, PhaseInv, NoSendOnClosed
  <2>2. /\ totalRequests = answered /\ totalRequests \in Nat /\ successCount \in Nat
        /\ ok \in Nat /\ placed \in Nat
    BY DEF ReportComplete, LoadInv, TypeOK
  <2>3. Queued = {}
    BY <2>1, <2>2 DEF Queued
  <2>4. Waiting = {} /\ Untold = {}
    BY <2>1 DEF Waiting, Untold
  <2>5. Cardinality(Queued) = 0 /\ Cardinality(Waiting) = 0 /\ Cardinality(Untold) = 0
    BY <2>3, <2>4, FS_EmptySet
  <2> QED BY <2>2, <2>5 DEF SuccessInv
<1> QED BY <1>3, <1>4, LoadInvariant, AlwaysReportsAll, NeverSendsOnClosed, PTL

\* Integer division (orchestrator.go:29-32) costs less than one request per
\* second and bot, and only a target below one per bot is exceeded.
THEOREM RateBounds ==
    ASSUME NEW total \in Nat, NEW bots \in Nat \ {0}
    PROVE  /\ TpsPerBot(total, bots) >= 1
           /\ total - bots < bots * TpsPerBot(total, bots)
           /\ total >= bots => bots * TpsPerBot(total, bots) <= total
<1>1. total \div bots \in Nat /\ bots * (total \div bots) <= total
        /\ total < bots * (total \div bots) + bots
    OBVIOUS
<1>2. CASE total \div bots < 1
  <2>1. total \div bots = 0 /\ bots * 0 = 0 /\ bots * 1 = bots
    BY <1>1, <1>2
  <2>2. total < bots
    BY <1>1, <2>1
  <2> QED BY <1>2, <2>1, <2>2 DEF TpsPerBot
<1>3. CASE ~(total \div bots < 1)
  <2>1. TpsPerBot(total, bots) = total \div bots
    BY <1>3 DEF TpsPerBot
  <2> QED BY <1>1, <1>3, <2>1
<1> QED BY <1>2, <1>3
=============================================================================
