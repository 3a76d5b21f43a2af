------------------------- MODULE LeaderboardService -------------------------
(***************************************************************************)
(* cmd/leaderboard-service: the consumer of the telemetry topic and the     *)
(* debug endpoint both call UpdateScore; the service may be restarted.      *)
(***************************************************************************)
EXTENDS Ranking, TelemetryQueue

CONSTANTS
    Consumer,   \* the goroutine that listens to the topic
    Telemetry,  \* the result in each message of the topic, Nothing if malformed
    Posts,      \* the requests to the debug endpoint, as callers
    PostOf,     \* the result each of them carries
    MaxFaults   \* bound: failures and restarts in a behaviour

ASSUME ServiceAssumption ==
    /\ Callers = Posts \cup {Consumer} /\ Consumer \notin Posts
    /\ Telemetry \in [1 .. NumEvents -> Results \cup {Nothing}]
    /\ PostOf \in [Posts -> Results]
    /\ MaxFaults \in Nat

VARIABLES
    posted,  \* the requests that have arrived
    faults   \* failures so far

vars == <<rankingVars, queueVars, posted, faults>>

Init == RankingInit /\ QueueInit /\ posted = {} /\ faults = 0

Fault == faults < MaxFaults /\ faults' = faults + 1

\* DeserializeTelemetryEvent: the result in a message, Nothing for an error.
Deserialize(n) == Telemetry[n]

\* StartListening: a message that cannot be parsed is skipped, any other one
\* is given to UpdateScore.
Consume(p) ==
    /\ call[Consumer] = Idle
    /\ ReadMessage(p)
    /\ LET x == Deserialize(log[p][position[p] + 1])
       IN  \/ x = Nothing /\ UNCHANGED rankingVars
           \/ x # Nothing /\ StartUpdate(Consumer, x)
    /\ UNCHANGED <<posted, faults>>

ConsumeFails(p) ==
    /\ call[Consumer] = Idle
    /\ ReadFails(p)
    /\ Fault
    /\ UNCHANGED <<rankingVars, posted>>

\* POST /api/v1/debug/run
DebugRun(k) ==
    /\ k \notin posted
    /\ posted' = posted \cup {k}
    /\ StartUpdate(k, PostOf[k])
    /\ UNCHANGED <<queueVars, faults>>

\* The service is killed, or stops while calls are under way, and started again.
Restart ==
    /\ Fault
    /\ ReaderRestarts
    /\ call' = [k \in Callers |-> Idle]
    /\ spoiled' = [s \in Subs |-> spoiled[s] \/ Updating(s) # {}]
    /\ UNCHANGED <<stores, posted>>

\* The steps of the queue's producer and of Redis.
Produce(p) == PublishTelemetry(p) /\ UNCHANGED <<rankingVars, posted, faults>>

Flush(p) == WriteBatch(p) /\ UNCHANGED <<rankingVars, posted, faults>>

FlushFails(p) == WriteFails(p) /\ Fault /\ UNCHANGED <<rankingVars, posted>>

Update(k) == RedisCall(k) /\ UNCHANGED <<queueVars, posted, faults>>

UpdateFails(k) == RedisError(k) /\ Fault /\ UNCHANGED <<queueVars, posted>>

Expiry(s) == MetadataExpires(s) /\ UNCHANGED <<queueVars, posted, faults>>

Next ==
    \/ \E p \in Partitions :
        Consume(p) \/ ConsumeFails(p) \/ Produce(p) \/ Flush(p) \/ FlushFails(p)
    \/ \E k \in Posts : DebugRun(k)
    \/ \E k \in Callers : Update(k) \/ UpdateFails(k)
    \/ \E s \in Subs : Expiry(s)
    \/ Restart

Spec == Init /\ [][Next]_vars

\* Redis calls return (the client has timeouts) and the listening loop and the
\* writer go on. Nothing is assumed of publishers, requests and failures.
FairSpec ==
    /\ Spec
    /\ \A k \in Callers : WF_vars(Update(k))
    /\ \A p \in Partitions : WF_vars(Consume(p)) /\ WF_vars(Flush(p))

-----------------------------------------------------------------------------
\* The whole service's state is well formed.
TypeOK ==
    /\ RankingShape /\ QueueShape
    /\ posted \subseteq Posts
    /\ faults \in 0 .. MaxFaults

\* Every message that is committed and never handled (consumer.go:39) is
\* accounted for by a failure: a malformed message or a failed update costs
\* no other message.
LossesAreFaults == Cardinality(Dropped) <= faults

\* The consumer reads every partition to its end again and again, past
\* malformed messages, failed updates, failed commits and restarts.
ConsumerCatchesUp ==
    \A p \in Partitions : []<>(position[p] = Len(log[p]) /\ call[Consumer] = Idle)
=============================================================================
