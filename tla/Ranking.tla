------------------------------ MODULE Ranking ------------------------------
(***************************************************************************)
(* The standings kept in Redis by pkg/leaderboard/ranking.go: a sorted set  *)
(* of scores, a hash with the details of every submission, which expires,   *)
(* and an update event. UpdateScore writes them with four calls, between    *)
(* which other callers run; the first two may fail it, the errors of the    *)
(* others are ignored.                                                      *)
(***************************************************************************)
EXTENDS Integers, Sequences, FiniteSets

CONSTANTS
    Callers,  \* the goroutines that may call UpdateScore
    Results,  \* the runs' results: records [sub, tps, p99, rate]
    Nothing,  \* no result
    Limit     \* the length of the leaderboard (50 in the code)

ASSUME RankingAssumption ==
    /\ \A x \in Results : x.tps \in Nat /\ x.p99 \in Nat /\ x.rate \in Nat
    /\ Nothing \notin Results
    /\ Limit \in Nat \ {0}

Subs == {x.sub : x \in Results}

VARIABLES
    ranked,    \* leaderboard:global: the result whose score each submission has
    metadata,  \* submission:metadata:<id>: the result it describes, or Nothing
    expires,   \* that key has a time to live
    notice,    \* the last update event published about the submission
    call,      \* each caller's UpdateScore: its next call and its result
    spoiled,   \* history: since the last update of the submission that started
               \* alone, another one overlapped with it or a call failed
    entered    \* history: the results that have been in the sorted set

stores == <<ranked, metadata, expires, notice, entered>>
rankingVars == <<stores, call, spoiled>>

Idle == [pc |-> "idle", run |-> Nothing]

RankingInit ==
    /\ ranked = [s \in Subs |-> Nothing]
    /\ metadata = [s \in Subs |-> Nothing]
    /\ expires = [s \in Subs |-> FALSE]
    /\ notice = [s \in Subs |-> Nothing]
    /\ call = [k \in Callers |-> Idle]
    /\ spoiled = [s \in Subs |-> FALSE]
    /\ entered = {}

\* The composite score, in thousandths.
Score(x) ==
    IF x.rate > 0 /\ x.p99 > 0 THEN (x.tps * x.rate * 10000) \div x.p99 ELSE 0

-----------------------------------------------------------------------------
Updating(s) == {k \in Callers : call[k] # Idle /\ call[k].run.sub = s}

\* UpdateScore is called.
StartUpdate(k, x) ==
    /\ call[k] = Idle
    /\ call' = [call EXCEPT ![k] = [pc |-> "zadd", run |-> x]]
    /\ spoiled' = [spoiled EXCEPT ![x.sub] = Updating(x.sub) # {}]
    /\ UNCHANGED stores

ZAdd(x) ==
    /\ ranked' = [ranked EXCEPT ![x.sub] = x]
    /\ entered' = entered \cup {x}
    /\ UNCHANGED <<metadata, expires, notice>>

\* Mutant: only a new key is written.
HSet_IfAbsent(x) ==
    /\ metadata' = [metadata EXCEPT ![x.sub] = IF @ = Nothing THEN x ELSE @]
    /\ UNCHANGED <<ranked, expires, notice, entered>>

\* A key that exists keeps its time to live, a new one has none.
HSet(x) ==
    /\ metadata' = [metadata EXCEPT ![x.sub] = x]
    /\ UNCHANGED <<ranked, expires, notice, entered>>

\* Expire does nothing to a key that has just expired.
Expire(x) ==
    /\ expires' = [expires EXCEPT ![x.sub] = metadata[x.sub] # Nothing]
    /\ UNCHANGED <<ranked, metadata, notice, entered>>

Publish(x) ==
    /\ notice' = [notice EXCEPT ![x.sub] = x]
    /\ UNCHANGED <<ranked, metadata, expires, entered>>

Effect(c) ==
    \/ c.pc = "zadd" /\ ZAdd(c.run)
    \/ c.pc = "hset" /\ HSet(c.run)
    \/ c.pc = "expire" /\ Expire(c.run)
    \/ c.pc = "publish" /\ Publish(c.run)

\* The next call of UpdateScore, which returns after the last one.
Then(c) ==
    CASE c.pc = "zadd" -> [c EXCEPT !.pc = "hset"]
      [] c.pc = "hset" -> [c EXCEPT !.pc = "expire"]
      [] c.pc = "expire" -> [c EXCEPT !.pc = "publish"]
      [] c.pc = "publish" -> Idle

RedisCall(k) ==
    /\ call[k] # Idle
    /\ Effect(call[k])
    /\ call' = [call EXCEPT ![k] = Then(@)]
    /\ UNCHANGED spoiled

\* ZAdd's and HSet's errors end UpdateScore, the others' are ignored.
AfterError(c) == IF c.pc \in {"zadd", "hset"} THEN Idle ELSE Then(c)

\* The call returns an error; Redis may have executed it all the same.
RedisError(k) ==
    /\ call[k] # Idle
    /\ Effect(call[k]) \/ UNCHANGED stores
    /\ call' = [call EXCEPT ![k] = AfterError(@)]
    /\ spoiled' = [spoiled EXCEPT ![call[k].run.sub] = TRUE]

\* A week has passed since the last Expire.
MetadataExpires(s) ==
    /\ expires[s]
    /\ metadata' = [metadata EXCEPT ![s] = Nothing]
    /\ expires' = [expires EXCEPT ![s] = FALSE]
    /\ UNCHANGED <<ranked, notice, entered, call, spoiled>>

-----------------------------------------------------------------------------
\* Mutant: the score is formatted without decimals.
Formatted_Whole(score) == ((score + 500) \div 1000) * 1000

\* strconv.FormatFloat(score, 'f', 2, 64), in thousandths.
Formatted(score) == ((score + 5) \div 10) * 10

\* One entry of the leaderboard; for those in lost HGetAll fails.
Entry(s, lost) ==
    IF s \in lost \/ metadata[s] = Nothing
    THEN [sub |-> s, run |-> Nothing, score |-> Score(ranked[s])]
    ELSE [sub |-> s, run |-> metadata[s], score |-> Formatted(Score(metadata[s]))]

\* ZRevRangeWithScores: the best members of the sorted set, at most Limit, by
\* falling score; members with equal scores are in either order.
ZRevRange ==
    LET members == {s \in Subs : ranked[s] # Nothing}
        len == IF Cardinality(members) < Limit THEN Cardinality(members) ELSE Limit
        AtLeast(s, t) == Score(ranked[s]) >= Score(ranked[t])
    IN  {z \in [1 .. len -> members] :
            /\ \A i, j \in 1 .. len : i < j => z[i] # z[j] /\ AtLeast(z[i], z[j])
            /\ \A s \in members \ {z[i] : i \in 1 .. len}, i \in 1 .. len : AtLeast(z[i], s)}

\* The leaderboard for one such range, each member with its details.
GetLeaderboard(zRange, lost) == [i \in DOMAIN zRange |-> Entry(zRange[i], lost)]

-----------------------------------------------------------------------------
UpdateCall == [pc : {"zadd", "hset", "expire", "publish"}, run : Results]

\* The state has the shape of Redis's values and of the calls.
RankingShape ==
    /\ ranked \in [Subs -> Results \cup {Nothing}]
    /\ metadata \in [Subs -> Results \cup {Nothing}]
    /\ notice \in [Subs -> Results \cup {Nothing}]
    /\ expires \in [Subs -> BOOLEAN] /\ spoiled \in [Subs -> BOOLEAN]
    /\ entered \subseteq Results
    /\ call \in [Callers -> {Idle} \cup UpdateCall]
    /\ \A s \in Subs :
        /\ ranked[s] # Nothing => ranked[s].sub = s
        /\ metadata[s] # Nothing => metadata[s].sub = s

\* Between updates a submission's score, details and last announcement are of
\* one result, and the details will expire, provided its last update started
\* alone and no call failed: whatever an overlap or a failure left behind
\* (ranking.go:59), the next such update repairs.
StoresAgree ==
    \A s \in Subs :
        Updating(s) = {} /\ ~spoiled[s] =>
            /\ notice[s] = ranked[s]
            /\ metadata[s] # Nothing => metadata[s] = ranked[s] /\ expires[s]

\* The details shown for a submission (ranking.go:114) are always of a result
\* that has been ranked, even when calls fail and updates overlap.
ShownWasRanked == \A s \in Subs : metadata[s] # Nothing => metadata[s] \in entered

\* Why they hold. A result is entered by the call before the one that writes
\* its details; and an update that is not spoiled is alone, and has written
\* what its next call implies.
UpdatesStaged ==
    /\ \A k \in Callers : call[k].pc \in {"hset", "expire", "publish"} =>
        call[k].run \in entered
    /\ \A k, l \in Callers :
        /\ call[k] # Idle /\ call[l] # Idle
        /\ call[k].run.sub = call[l].run.sub
        /\ ~spoiled[call[k].run.sub]
        => k = l
    /\ \A k \in Callers :
        LET x == call[k].run
        IN  call[k] # Idle /\ ~spoiled[x.sub] =>
                /\ call[k].pc # "zadd" => ranked[x.sub] = x
                /\ call[k].pc \in {"expire", "publish"} => metadata[x.sub] \in {x, Nothing}
                /\ call[k].pc = "publish" /\ metadata[x.sub] # Nothing => expires[x.sub]

RankingInv == RankingShape /\ StoresAgree /\ ShownWasRanked /\ UpdatesStaged

\* When no update is under way and none was spoiled, the leaderboard is in
\* falling order of the scores it shows (ranking.go:114-122), although it is
\* sorted by one store and shows another: up to the rounding of the details,
\* whichever of them are missing.
ListedInOrder ==
    (\A s \in Subs : Updating(s) = {} /\ ~spoiled[s]) =>
        \A zRange \in ZRevRange, lost \in SUBSET Subs :
            LET list == GetLeaderboard(zRange, lost)
            IN  \A i, j \in DOMAIN list : i < j => list[j].score <= list[i].score + 5
=============================================================================
