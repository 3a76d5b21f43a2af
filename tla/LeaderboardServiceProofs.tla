---------------------- MODULE LeaderboardServiceProofs ----------------------
(***************************************************************************)
(* The standings and the consumer's offsets, for any set of callers, of     *)
(* results and of partitions and any number of messages and failures.       *)
(***************************************************************************)
EXTENDS LeaderboardService, SequenceTheorems, FiniteSetTheorems, TLAPS

\* A call in progress has one of the four program counters and a result.
LEMMA CallCases ==
    ASSUME RankingShape, NEW k \in Callers
    PROVE  /\ call[k].pc \in {"idle", "zadd", "hset", "expire", "publish"}
           /\ call[k] = Idle <=> call[k].pc = "idle"
           /\ call[k] # Idle => call[k].run \in Results /\ call[k].run.sub \in Subs
           /\ Then(call[k]) \in {Idle} \cup UpdateCall \/ call[k] = Idle
BY DEF RankingShape, UpdateCall, Idle, Subs, Then

\* What a call in progress on an unspoiled submission has stored so far.
LEMMA UpdateStage ==
    ASSUME UpdatesStaged, NEW l \in Callers, call[l] # Idle, ~spoiled[call[l].run.sub]
    PROVE  LET x == call[l].run
           IN  /\ call[l].pc # "zadd" => ranked[x.sub] = x
               /\ call[l].pc \in {"expire", "publish"} => metadata[x.sub] \in {x, Nothing}
               /\ call[l].pc = "publish" /\ metadata[x.sub] # Nothing => expires[x.sub]
BY Zenon DEF UpdatesStaged

\* The empty standings satisfy the invariant.
LEMMA RankingInitInv == RankingInit => RankingInv
BY RankingAssumption DEF RankingInit, RankingInv, RankingShape, StoresAgree, ShownWasRanked,
    UpdatesStaged, Idle, Updating

\* Starting an update keeps it: a solitary start clears the slate, because
\* nobody else is updating the submission.
LEMMA StartUpdateInv ==
    ASSUME RankingInv, NEW k \in Callers, NEW x \in Results, StartUpdate(k, x)
    PROVE  RankingInv'
<1> USE DEF RankingInv, StartUpdate, stores
<1>1. x.sub \in Subs
    BY Zenon DEF Subs
<1>2. [pc |-> "zadd", run |-> x] \in UpdateCall /\ [pc |-> "zadd", run |-> x] # Idle
    BY Zenon DEF UpdateCall, Idle
<1>3. RankingShape'
    BY <1>1, <1>2, Zenon DEF RankingShape
<1>4. ShownWasRanked'
    BY Zenon DEF ShownWasRanked
<1>5. \A l \in Callers : call'[l] = IF l = k THEN [pc |-> "zadd", run |-> x] ELSE call[l]
    BY Zenon DEF RankingShape
<1>6. StoresAgree'
    <2> SUFFICES ASSUME NEW s \in Subs, Updating(s)' = {}, ~spoiled'[s]
                 PROVE  /\ notice[s] = ranked[s]
                        /\ metadata[s] # Nothing => metadata[s] = ranked[s] /\ expires[s]
        BY Zenon DEF StoresAgree
    <2>1. s # x.sub
        BY <1>2, <1>5 DEF Updating
    <2>2. Updating(s) = {}
        BY <1>2, <1>5, <2>1 DEF Updating
    <2>3. spoiled'[s] = spoiled[s]
        BY <1>1, <2>1, Zenon DEF RankingShape
    <2> QED
        BY <2>2, <2>3, Zenon DEF StoresAgree
<1>7. UpdatesStaged'
    <2>1. \A l \in Callers : call'[l].pc \in {"hset", "expire", "publish"} => l # k
        BY <1>5
    <2>2. ASSUME NEW l \in Callers, l # k, ~spoiled'[call[l].run.sub], call[l] # Idle
          PROVE  ~spoiled[call[l].run.sub] /\ call[l].run.sub # x.sub
        <3>1. call[l].run.sub \in Subs
            BY <2>2, CallCases, Zenon
        <3>2. CASE call[l].run.sub = x.sub
            BY <1>1, <2>2, <3>2, ZenonT(30) DEF Updating, RankingShape
        <3> QED
            BY <1>1, <2>2, <3>1, <3>2, Zenon DEF RankingShape
    <2> QED
        <3>1. ASSUME NEW l \in Callers, call'[l].pc \in {"hset", "expire", "publish"}
              PROVE  call'[l].run \in entered'
            <4>1. call'[l] = call[l]
                BY <1>5, <2>1, <3>1, Zenon
            <4> QED
                BY <3>1, <4>1 DEF UpdatesStaged
        <3>2. ASSUME NEW j \in Callers, NEW l \in Callers, call'[j] # Idle, call'[l] # Idle,
                     call'[j].run.sub = call'[l].run.sub, ~spoiled'[call'[j].run.sub]
              PROVE  j = l
            <4>1. ~spoiled'[call'[l].run.sub]
                BY <3>2, Zenon
            <4>2. CASE j # k /\ l # k
                <5>1. call'[j] = call[j] /\ call'[l] = call[l]
                    BY <1>5, <4>2, Zenon
                <5>2. ~spoiled[call[j].run.sub]
                    BY <2>2, <3>2, <4>2, <5>1, Zenon
                <5> QED
                    BY <3>2, <5>1, <5>2, Zenon DEF UpdatesStaged
            <4>3. CASE j # k /\ l = k
                <5>1. call'[j] = call[j] /\ call'[l].run.sub = x.sub
                    BY <1>5, <4>3
                <5> QED
                    BY <2>2, <3>2, <4>3, <5>1, Zenon
            <4>4. CASE j = k /\ l # k
                <5>1. call'[l] = call[l] /\ call'[j].run.sub = x.sub
                    BY <1>5, <4>4
                <5> QED
                    BY <2>2, <3>2, <4>1, <4>4, <5>1, Zenon
            <4> QED
                BY <4>2, <4>3, <4>4, Zenon
        <3>3. ASSUME NEW l \in Callers, call'[l] # Idle, ~spoiled'[call'[l].run.sub]
              PROVE  LET y == call'[l].run
                     IN  /\ call'[l].pc # "zadd" => ranked'[y.sub] = y
                         /\ call'[l].pc \in {"expire", "publish"} => metadata'[y.sub] \in {y, Nothing}
                         /\ call'[l].pc = "publish" /\ metadata'[y.sub] # Nothing => expires'[y.sub]
            <4>1. CASE l = k
                BY <1>5, <4>1
            <4>2. CASE l # k
                <5>1. call'[l] = call[l]
                    BY <1>5, <4>2, Zenon
                <5>2. ~spoiled[call[l].run.sub] /\ call[l] # Idle
                    BY <2>2, <3>3, <4>2, <5>1, Zenon
                <5>3. UNCHANGED <<ranked, metadata, expires>>
                    BY Zenon
                <5> QED
                    BY <5>1, <5>2, <5>3, UpdateStage, Zenon
            <4> QED
                BY <4>1, <4>2, Zenon
        <3> QED
            BY <3>1, <3>2, <3>3, Zenon DEF UpdatesStaged
<1> QED
    BY <1>3, <1>4, <1>6, <1>7, Zenon

\* What an executed call does to the stores, whether or not its answer arrives.
LEMMA EffectShape ==
    ASSUME RankingInv, NEW k \in Callers, call[k] # Idle,
           Effect(call[k]) \/ UNCHANGED stores
    PROVE  /\ ranked' \in [Subs -> Results \cup {Nothing}]
           /\ metadata' \in [Subs -> Results \cup {Nothing}]
           /\ notice' \in [Subs -> Results \cup {Nothing}]
           /\ expires' \in [Subs -> BOOLEAN]
           /\ entered' \subseteq Results /\ entered \subseteq entered'
           /\ \A s \in Subs : /\ ranked'[s] # Nothing => ranked'[s].sub = s
                              /\ metadata'[s] # Nothing => metadata'[s].sub = s
           /\ \A s \in Subs : s # call[k].run.sub =>
                /\ ranked'[s] = ranked[s] /\ metadata'[s] = metadata[s]
                /\ notice'[s] = notice[s] /\ expires'[s] = expires[s]
           /\ \A s \in Subs : metadata'[s] # Nothing => metadata'[s] \in entered'
<1> USE DEF RankingInv, RankingShape, ShownWasRanked, stores
<1>1. call[k].run \in Results /\ call[k].run.sub \in Subs
    BY CallCases, Zenon
<1>2. CASE UNCHANGED stores
    BY <1>2, Zenon
<1>3. CASE call[k].pc = "zadd" /\ ZAdd(call[k].run)
    BY <1>1, <1>3, Zenon DEF ZAdd
<1>4. CASE call[k].pc = "hset" /\ HSet(call[k].run)
    <2>1. call[k].run \in entered
        BY <1>4, Zenon DEF UpdatesStaged
    <2> QED
        BY <1>1, <1>4, <2>1, Zenon DEF HSet
<1>5. CASE call[k].pc = "expire" /\ Expire(call[k].run)
    BY <1>1, <1>5, Zenon DEF Expire
<1>6. CASE call[k].pc = "publish" /\ Publish(call[k].run)
    BY <1>1, <1>6, Zenon DEF Publish
<1> QED
    BY <1>2, <1>3, <1>4, <1>5, <1>6, Zenon DEF Effect

\* A call that succeeds keeps the invariant.
LEMMA RedisCallInv ==
    ASSUME RankingInv, NEW k \in Callers, RedisCall(k)
    PROVE  RankingInv'
<1> DEFINE c == call[k]
           sub == call[k].run.sub
<1> USE DEF RankingInv, RedisCall
<1>1. /\ c.pc \in {"zadd", "hset", "expire", "publish"} /\ c \in UpdateCall
      /\ c.run \in Results /\ sub \in Subs
    BY CallCases, Zenon DEF RankingShape
<1>2. /\ call' = [call EXCEPT ![k] = Then(call[k])]
      /\ \A l \in Callers : call'[l] = IF l = k THEN Then(call[k]) ELSE call[l]
    BY Zenon DEF RankingShape
<1>3. /\ Then(call[k]) \in {Idle} \cup UpdateCall
      /\ Then(call[k]) # Idle => Then(call[k]).run = c.run
      /\ c.pc = "zadd" => Then(call[k]).pc = "hset"
      /\ c.pc = "hset" => Then(call[k]).pc = "expire"
      /\ c.pc = "expire" => Then(call[k]).pc = "publish"
      /\ c.pc = "publish" => Then(call[k]) = Idle
      /\ Then(call[k]) = Idle => c.pc = "publish"
    BY <1>1, Zenon DEF Then, Idle, UpdateCall
<1>4. RankingShape'
    BY <1>2, <1>3, EffectShape, Zenon DEF RankingShape
<1>5. ShownWasRanked'
    BY EffectShape, Zenon DEF ShownWasRanked
<1>6. \A l \in Callers : call'[l] # Idle => call[l] # Idle /\ call'[l].run = call[l].run
    BY <1>2, <1>3, Zenon
<1>7. ASSUME NEW l \in Callers, l # k, call[l] # Idle, ~spoiled[call[l].run.sub]
      PROVE  call[l].run.sub \in Subs /\ call[l].run.sub # sub
    BY <1>7, CallCases, Zenon DEF UpdatesStaged
<1>8. ASSUME ~spoiled[sub], Then(call[k]) # Idle
      PROVE  /\ ranked'[sub] = c.run
             /\ Then(call[k]).pc \in {"expire", "publish"} => metadata'[sub] \in {c.run, Nothing}
             /\ Then(call[k]).pc = "publish" /\ metadata'[sub] # Nothing => expires'[sub]
    <2>1. CASE c.pc = "zadd"
        BY <1>1, <1>3, <2>1, Zenon DEF Effect, ZAdd, RankingShape
    <2>2. CASE c.pc = "hset"
        BY <1>1, <1>3, <1>8, <2>2, Zenon DEF Effect, HSet, RankingShape, UpdatesStaged
    <2>3. CASE c.pc = "expire"
        BY <1>1, <1>3, <1>8, <2>3, ZenonT(30) DEF Effect, Expire, RankingShape, UpdatesStaged
    <2> QED
        BY <1>1, <1>3, <1>8, <2>1, <2>2, <2>3, Zenon
<1>9. c.run \in entered'
    <2>1. CASE c.pc = "zadd"
        BY <2>1, Zenon DEF Effect, ZAdd
    <2>2. CASE c.pc # "zadd"
        BY <1>1, <2>2, EffectShape, Zenon DEF UpdatesStaged
    <2> QED
        BY <2>1, <2>2, Zenon
<1>10. UpdatesStaged'
    <2>1. \A l \in Callers : call'[l].pc \in {"hset", "expire", "publish"} =>
            call'[l].run \in entered'
        <3> SUFFICES ASSUME NEW l \in Callers, call'[l].pc \in {"hset", "expire", "publish"}
                     PROVE  call'[l].run \in entered'
            BY Zenon
        <3>1. CASE l = k
            <4>1. call'[l] = Then(call[k]) /\ call'[l] # Idle
                BY <1>2, <3>1 DEF Idle
            <4> QED
                BY <1>3, <1>9, <4>1, Zenon
        <3>2. CASE l # k
            <4>1. call'[l] = call[l]
                BY <1>2, <3>2, Zenon
            <4>2. call[l].run \in entered
                BY <4>1, Zenon DEF UpdatesStaged
            <4>3. entered \subseteq entered'
                BY EffectShape, Zenon
            <4> QED
                BY <4>1, <4>2, <4>3, Zenon
        <3> QED
            BY <3>1, <3>2, Zenon
    <2>2. \A j, l \in Callers :
            /\ call'[j] # Idle /\ call'[l] # Idle
            /\ call'[j].run.sub = call'[l].run.sub
            /\ ~spoiled'[call'[j].run.sub]
            => j = l
        <3> SUFFICES ASSUME NEW j \in Callers, NEW l \in Callers, call'[j] # Idle, call'[l] # Idle,
                            call'[j].run.sub = call'[l].run.sub, ~spoiled'[call'[j].run.sub]
                     PROVE  j = l
            BY Zenon
        <3>1. /\ call[j] # Idle /\ call[l] # Idle
              /\ call[j].run.sub = call[l].run.sub /\ ~spoiled[call[j].run.sub]
            BY <1>6, Zenon
        <3> QED
            BY <3>1, Zenon DEF UpdatesStaged
    <2>3. ASSUME NEW l \in Callers, call'[l] # Idle, ~spoiled'[call'[l].run.sub]
          PROVE  LET x == call'[l].run
                 IN  /\ call'[l].pc # "zadd" => ranked'[x.sub] = x
                     /\ call'[l].pc \in {"expire", "publish"} => metadata'[x.sub] \in {x, Nothing}
                     /\ call'[l].pc = "publish" /\ metadata'[x.sub] # Nothing => expires'[x.sub]
        <3>1. CASE l = k
            BY <1>2, <1>3, <1>8, <2>3, <3>1, Zenon
        <3>2. CASE l # k
            <4>1. call'[l] = call[l] /\ call[l] # Idle
                BY <1>2, <2>3, <3>2, Zenon
            <4>2. call[l].run.sub # sub /\ ~spoiled[call[l].run.sub]
                BY <1>7, <2>3, <3>2, <4>1, Zenon
            <4>3. LET x == call[l].run
                  IN  /\ call[l].pc # "zadd" => ranked[x.sub] = x
                      /\ call[l].pc \in {"expire", "publish"} => metadata[x.sub] \in {x, Nothing}
                      /\ call[l].pc = "publish" /\ metadata[x.sub] # Nothing => expires[x.sub]
                BY <4>1, <4>2, Zenon DEF UpdatesStaged
            <4>4. call[l].run.sub \in Subs
                BY <4>1, CallCases, Zenon
            <4>5. /\ ranked'[call[l].run.sub] = ranked[call[l].run.sub]
                  /\ metadata'[call[l].run.sub] = metadata[call[l].run.sub]
                  /\ expires'[call[l].run.sub] = expires[call[l].run.sub]
                BY <4>2, <4>4, EffectShape, Zenon
            <4> QED
                BY <4>1, <4>3, <4>5, Zenon
        <3> QED
            BY <3>1, <3>2, Zenon
    <2> QED
        BY <2>1, <2>2, <2>3, Zenon DEF UpdatesStaged
<1>11. StoresAgree'
    <2> SUFFICES ASSUME NEW s \in Subs, Updating(s)' = {}, ~spoiled[s]
                 PROVE  /\ notice'[s] = ranked'[s]
                        /\ metadata'[s] # Nothing => metadata'[s] = ranked'[s] /\ expires'[s]
        BY Zenon DEF StoresAgree
    <2>1. CASE s # sub
        <3>1. Updating(s) = {}
            BY <1>2, <2>1, Zenon DEF Updating
        <3> QED
            <4>1. /\ notice[s] = ranked[s]
                  /\ metadata[s] # Nothing => metadata[s] = ranked[s] /\ expires[s]
                BY <3>1, Zenon DEF StoresAgree
            <4>2. /\ ranked'[s] = ranked[s] /\ metadata'[s] = metadata[s]
                  /\ notice'[s] = notice[s] /\ expires'[s] = expires[s]
                BY <2>1, EffectShape, Zenon
            <4> QED
                BY <4>1, <4>2, Zenon
    <2>2. CASE s = sub
        <3>1. Then(call[k]) = Idle /\ c.pc = "publish"
            BY <1>2, <1>3, <2>2, Zenon DEF Updating
        <3> QED
            <4>1. /\ ranked[sub] = c.run /\ metadata[sub] \in {c.run, Nothing}
                  /\ metadata[sub] # Nothing => expires[sub]
                BY <2>2, <3>1, UpdateStage, Zenon
            <4>2. notice'[sub] = c.run /\ UNCHANGED <<ranked, metadata, expires>>
                BY <1>1, <3>1, Zenon DEF Effect, Publish, RankingShape
            <4> QED
                BY <2>2, <4>1, <4>2, Zenon
    <2> QED
        BY <2>1, <2>2, Zenon
<1> QED
    BY <1>4, <1>5, <1>10, <1>11, Zenon

\* A call that fails keeps it, executed or not: its submission is spoiled.
LEMMA RedisErrorInv ==
    ASSUME RankingInv, NEW k \in Callers, RedisError(k)
    PROVE  RankingInv'
<1> DEFINE sub == call[k].run.sub
<1> USE DEF RankingInv, RedisError
<1>1. /\ call[k].pc \in {"zadd", "hset", "expire", "publish"}
      /\ call[k].run \in Results /\ sub \in Subs
    BY CallCases, Zenon
<1>2. \A l \in Callers : call'[l] = IF l = k THEN AfterError(call[k]) ELSE call[l]
    BY Zenon DEF RankingShape
<1>3. /\ AfterError(call[k]) \in {Idle} \cup UpdateCall
      /\ AfterError(call[k]) # Idle => /\ AfterError(call[k]).run = call[k].run
                                       /\ call[k].pc \in {"expire", "publish"}
    <2>1. CASE call[k].pc \in {"zadd", "hset"}
        BY <2>1, Zenon DEF AfterError
    <2>2. CASE call[k].pc \in {"expire", "publish"}
        BY <1>1, <2>2, Zenon DEF AfterError, Then, UpdateCall, Idle, RankingShape
    <2> QED
        BY <1>1, <2>1, <2>2, Zenon
<1>4. \A s \in Subs : spoiled'[s] = IF s = sub THEN TRUE ELSE spoiled[s]
    BY Zenon DEF RankingShape
<1>5. RankingShape'
    <2>1. spoiled' \in [Subs -> BOOLEAN]
        BY <1>1, Zenon DEF RankingShape
    <2>2. call' \in [Callers -> {Idle} \cup UpdateCall]
        BY <1>3, Zenon DEF RankingShape
    <2> QED
        BY <2>1, <2>2, EffectShape, Zenon DEF RankingShape
<1>6. ShownWasRanked'
    BY EffectShape, Zenon DEF ShownWasRanked
<1>7. \A l \in Callers : call'[l] # Idle =>
        call[l] # Idle /\ call'[l].run = call[l].run /\ call[l].run.sub \in Subs
    BY <1>1, <1>2, <1>3, CallCases, Zenon
<1>8. UpdatesStaged'
    <2>1. \A l \in Callers : call'[l].pc \in {"hset", "expire", "publish"} =>
            call'[l].run \in entered'
        <3> SUFFICES ASSUME NEW l \in Callers, call'[l].pc \in {"hset", "expire", "publish"}
                     PROVE  call'[l].run \in entered'
            BY Zenon
        <3>1. \A j \in Callers : call[j].pc \in {"hset", "expire", "publish"} =>
                call[j].run \in entered
            BY Zenon DEF UpdatesStaged
        <3>2. entered \subseteq entered'
            BY <1>1, EffectShape, Zenon
        <3>3. CASE l # k
            BY <1>2, <3>1, <3>2, <3>3, Zenon
        <3>4. CASE l = k
            <4>1. call'[l] = AfterError(call[k]) /\ call'[l] # Idle
                BY <1>2, <3>4 DEF Idle
            <4>2. call'[l].run = call[k].run /\ call[k].pc \in {"expire", "publish"}
                BY <1>3, <4>1, Zenon
            <4> QED
                BY <3>1, <3>2, <4>2, Zenon
        <3> QED
            BY <3>3, <3>4, Zenon
    <2>2. \A j, l \in Callers :
            /\ call'[j] # Idle /\ call'[l] # Idle
            /\ call'[j].run.sub = call'[l].run.sub
            /\ ~spoiled'[call'[j].run.sub]
            => j = l
        <3> SUFFICES ASSUME NEW j \in Callers, NEW l \in Callers, call'[j] # Idle, call'[l] # Idle,
                            call'[j].run.sub = call'[l].run.sub, ~spoiled'[call'[j].run.sub]
                     PROVE  j = l
            BY Zenon
        <3>1. /\ call[j] # Idle /\ call[l] # Idle /\ call[j].run.sub \in Subs
              /\ call[j].run.sub = call[l].run.sub /\ ~spoiled'[call[j].run.sub]
            BY <1>7, Zenon
        <3>2. ~spoiled[call[j].run.sub]
            BY <1>4, <3>1, Zenon
        <3> QED
            BY <3>1, <3>2, Zenon DEF UpdatesStaged
    <2>3. ASSUME NEW l \in Callers, call'[l] # Idle, ~spoiled'[call'[l].run.sub]
          PROVE  l # k /\ ~spoiled[call[l].run.sub] /\ call[l].run.sub # sub
        <3>1. call'[l].run.sub = call[l].run.sub /\ call[l].run.sub \in Subs
            BY <1>7, <2>3, Zenon
        <3>2. ~spoiled'[call[l].run.sub]
            BY <2>3, <3>1, Zenon
        <3>3. call[l].run.sub # sub
            BY <1>4, <3>1, <3>2, Zenon
        <3>4. ~spoiled[call[l].run.sub]
            BY <1>4, <3>1, <3>2, <3>3, Zenon
        <3> QED
            BY <3>3, <3>4, Zenon
    <2>4. ASSUME NEW l \in Callers, call'[l] # Idle, ~spoiled'[call'[l].run.sub]
          PROVE  LET x == call'[l].run
                 IN  /\ call'[l].pc # "zadd" => ranked'[x.sub] = x
                     /\ call'[l].pc \in {"expire", "publish"} => metadata'[x.sub] \in {x, Nothing}
                     /\ call'[l].pc = "publish" /\ metadata'[x.sub] # Nothing => expires'[x.sub]
        <3>1. /\ call'[l] = call[l] /\ call[l].run.sub \in Subs
              /\ call[l].run.sub # sub /\ ~spoiled[call[l].run.sub] /\ call[l] # Idle
            BY <1>2, <1>7, <2>3, <2>4, Zenon
        <3>2. LET x == call[l].run
              IN  /\ call[l].pc # "zadd" => ranked[x.sub] = x
                  /\ call[l].pc \in {"expire", "publish"} => metadata[x.sub] \in {x, Nothing}
                  /\ call[l].pc = "publish" /\ metadata[x.sub] # Nothing => expires[x.sub]
            BY <3>1, Zenon DEF UpdatesStaged
        <3>3. /\ ranked'[call[l].run.sub] = ranked[call[l].run.sub]
              /\ metadata'[call[l].run.sub] = metadata[call[l].run.sub]
              /\ expires'[call[l].run.sub] = expires[call[l].run.sub]
            BY <3>1, EffectShape, Zenon
        <3> QED
            BY <3>1, <3>2, <3>3, Zenon
    <2> QED
        BY <2>1, <2>2, <2>4, ZenonT(30) DEF UpdatesStaged
<1>9. StoresAgree'
    <2> SUFFICES ASSUME NEW s \in Subs, Updating(s)' = {}, ~spoiled'[s]
                 PROVE  /\ notice'[s] = ranked'[s]
                        /\ metadata'[s] # Nothing => metadata'[s] = ranked'[s] /\ expires'[s]
        BY Zenon DEF StoresAgree
    <2>1. s # sub /\ ~spoiled[s]
        BY <1>4, Zenon
    <2>2. Updating(s) = {}
        BY <1>2, <2>1, Zenon DEF Updating
    <2> QED
        <3>1. /\ notice[s] = ranked[s]
              /\ metadata[s] # Nothing => metadata[s] = ranked[s] /\ expires[s]
            BY <2>1, <2>2, Zenon DEF StoresAgree
        <3>2. /\ ranked'[s] = ranked[s] /\ metadata'[s] = metadata[s]
              /\ notice'[s] = notice[s] /\ expires'[s] = expires[s]
            BY <2>1, EffectShape, Zenon
        <3> QED
            BY <3>1, <3>2, Zenon
<1> QED
    BY <1>5, <1>6, <1>8, <1>9, Zenon

\* The expiry of a submission's details keeps it.
LEMMA MetadataExpiresInv ==
    ASSUME RankingInv, NEW s \in Subs, MetadataExpires(s)
    PROVE  RankingInv'
<1> USE DEF RankingInv, MetadataExpires
<1>1. RankingShape'
    BY Zenon DEF RankingShape
<1>2. ShownWasRanked' /\ UpdatesStaged'
    <2>1. \A t \in Subs : /\ metadata'[t] = IF t = s THEN Nothing ELSE metadata[t]
                          /\ expires'[t] = IF t = s THEN FALSE ELSE expires[t]
        BY Zenon DEF RankingShape
    <2>2. \A k \in Callers : call[k] # Idle => call[k].run.sub \in Subs
        BY CallCases, Zenon
    <2>3. ShownWasRanked'
        BY <2>1 DEF ShownWasRanked
    <2>4. ASSUME NEW k \in Callers, call[k] # Idle, ~spoiled[call[k].run.sub]
          PROVE  LET x == call[k].run
                 IN  /\ call[k].pc # "zadd" => ranked[x.sub] = x
                     /\ call[k].pc \in {"expire", "publish"} => metadata'[x.sub] \in {x, Nothing}
                     /\ call[k].pc = "publish" /\ metadata'[x.sub] # Nothing => expires'[x.sub]
        BY <2>1, <2>2, <2>4, ZenonT(30) DEF UpdatesStaged
    <2>5. UpdatesStaged'
        BY <2>4, Zenon DEF UpdatesStaged
    <2> QED
        BY <2>3, <2>5, Zenon
<1>3. StoresAgree'
    <2> SUFFICES ASSUME NEW t \in Subs, Updating(t)' = {}, ~spoiled'[t]
                 PROVE  /\ notice'[t] = ranked'[t]
                        /\ metadata'[t] # Nothing => metadata'[t] = ranked'[t] /\ expires'[t]
        BY Zenon DEF StoresAgree
    <2>1. Updating(t) = {} /\ ~spoiled[t]
        BY Zenon DEF Updating
    <2>2. /\ notice[t] = ranked[t]
          /\ metadata[t] # Nothing => metadata[t] = ranked[t] /\ expires[t]
        BY <2>1, Zenon DEF StoresAgree
    <2>3. metadata'[t] = Nothing \/ (metadata'[t] = metadata[t] /\ expires'[t] = expires[t])
        BY Zenon DEF RankingShape
    <2>4. notice' = notice /\ ranked' = ranked
        BY Zenon
    <2> QED
        BY <2>2, <2>3, <2>4, ZenonT(30)
<1> QED
    BY <1>1, <1>2, <1>3, Zenon

\* A restart keeps it: the submissions that were being updated are spoiled.
LEMMA RestartRankingInv ==
    ASSUME RankingInv, Restart
    PROVE  RankingInv'
<1> USE DEF RankingInv, Restart, stores
<1>1. RankingShape'
    <2>1. spoiled' \in [Subs -> BOOLEAN]
        BY Zenon
    <2>2. call' \in [Callers -> {Idle} \cup UpdateCall]
        BY Zenon
    <2> QED
        BY <2>1, <2>2, Zenon DEF RankingShape
<1>2. ShownWasRanked' /\ UpdatesStaged'
    BY Zenon DEF ShownWasRanked, UpdatesStaged, Idle
<1>3. StoresAgree'
    BY ZenonT(30) DEF StoresAgree
<1> QED
    BY <1>1, <1>2, <1>3, Zenon

-----------------------------------------------------------------------------
\* A new topic satisfies the queue's invariant.
LEMMA QueueInitInv == QueueInit => QueueInv
<1> SUFFICES ASSUME QueueInit PROVE QueueInv
    BY Zenon
<1>1. <<>> \in Seq(1 .. NumEvents) /\ <<>> \in Seq(Partitions \X Nat) /\ Len(<<>>) = 0
      /\ DOMAIN <<>> = {}
    BY EmptySeq
<1>2. QueueShape
    BY <1>1, QueueAssumption DEF QueueInit, QueueShape
<1>3. HandledOnce /\ HandledAreCommitted
    BY <1>1, Zenon DEF QueueInit, HandledOnce, HandledAreCommitted
<1> QED
    BY <1>2, <1>3, Zenon DEF QueueInv

\* What was handled is a partition and an offset.
LEMMA HandledPairs ==
    ASSUME QueueInv, NEW i \in DOMAIN handled
    PROVE  /\ handled[i][1] \in Partitions /\ handled[i][2] \in Nat
           /\ handled[i][2] <= committed[handled[i][1]]
           /\ committed[handled[i][1]] \in Nat
<1>1. handled \in Seq(Partitions \X Nat) /\ i \in 1 .. Len(handled)
    BY LenProperties, Zenon DEF QueueInv, QueueShape
<1>2. handled[i] \in Partitions \X Nat
    BY <1>1, ElementOfSeq, Zenon
<1> QED
    BY <1>2, Zenon DEF QueueInv, QueueShape, HandledAreCommitted

\* It is kept when only the batches change and the partitions grow.
LEMMA PartitionsGrow ==
    ASSUME QueueInv, UNCHANGED <<committed, position, handled>>,
           published' \in 0 .. NumEvents,
           batch' \in [Partitions -> Seq(1 .. NumEvents)],
           log' \in [Partitions -> Seq(1 .. NumEvents)],
           \A q \in Partitions : Len(log'[q]) >= Len(log[q])
    PROVE  QueueInv'
<1>1. \A q \in Partitions : Len(log[q]) \in Nat /\ Len(log'[q]) \in Nat /\ position[q] \in Nat
    BY LenProperties, Zenon DEF QueueInv, QueueShape
<1>2. \A q \in Partitions : committed[q] <= position[q] /\ position[q] <= Len(log[q])
    BY Zenon DEF QueueInv, QueueShape
<1>3. \A q \in Partitions : committed'[q] <= position'[q] /\ position'[q] <= Len(log'[q])
    BY <1>1, <1>2
<1>4. QueueShape'
    BY <1>3, Zenon DEF QueueInv, QueueShape
<1>5. HandledOnce' /\ HandledAreCommitted'
    BY Zenon DEF QueueInv, HandledOnce, HandledAreCommitted
<1> QED
    BY <1>4, <1>5, Zenon DEF QueueInv

\* The producer's steps keep it: a partition only grows.
LEMMA ProducerInv ==
    ASSUME QueueInv, NEW p \in Partitions,
           PublishTelemetry(p) \/ WriteBatch(p) \/ WriteFails(p)
    PROVE  QueueInv'
<1>1. /\ batch \in [Partitions -> Seq(1 .. NumEvents)]
      /\ log \in [Partitions -> Seq(1 .. NumEvents)]
      /\ published \in 0 .. NumEvents /\ NumEvents \in Nat
    BY QueueAssumption, Zenon DEF QueueInv, QueueShape
<1>2. /\ log[p] \o batch[p] \in Seq(1 .. NumEvents)
      /\ Len(log[p] \o batch[p]) = Len(log[p]) + Len(batch[p])
    BY <1>1, ConcatProperties
<1>3. \A q \in Partitions : Len(log[q]) \in Nat /\ Len(batch[q]) \in Nat
    BY <1>1, LenProperties, Zenon
<1>4. <<>> \in Seq(1 .. NumEvents)
    BY EmptySeq, Zenon
<1>5. CASE PublishTelemetry(p)
    <2>1. published + 1 \in 1 .. NumEvents
        BY <1>1, <1>5 DEF PublishTelemetry
    <2>2. Append(batch[p], published + 1) \in Seq(1 .. NumEvents)
        BY <1>1, <2>1, AppendProperties, Zenon
    <2>3. batch' \in [Partitions -> Seq(1 .. NumEvents)] /\ published' \in 0 .. NumEvents
        BY <1>1, <1>5, <2>1, <2>2 DEF PublishTelemetry
    <2>4. \A q \in Partitions : Len(log'[q]) >= Len(log[q])
        BY <1>3, <1>5 DEF PublishTelemetry
    <2> QED
        BY <1>1, <1>5, <2>3, <2>4, PartitionsGrow, Zenon DEF PublishTelemetry
<1>6. CASE WriteBatch(p) \/ WriteFails(p)
    <2>1. UNCHANGED <<published, committed, position, handled>>
        BY <1>6, ZenonT(30) DEF WriteBatch, WriteFails
    <2>2. batch' = batch \/ batch' = [batch EXCEPT ![p] = <<>>]
        BY <1>6, ZenonT(30) DEF WriteBatch, WriteFails
    <2>3. log' = log \/ log' = [log EXCEPT ![p] = log[p] \o batch[p]]
        BY <1>6, ZenonT(30) DEF WriteBatch, WriteFails
    <2>4. batch' \in [Partitions -> Seq(1 .. NumEvents)]
        BY <1>1, <1>4, <2>2, ZenonT(30)
    <2>5. log' \in [Partitions -> Seq(1 .. NumEvents)]
        BY <1>1, <1>2, <2>3, ZenonT(30)
    <2>6. \A q \in Partitions : Len(log'[q]) >= Len(log[q])
        <3>1. \A q \in Partitions : log'[q] = log[q] \/ (q = p /\ log'[q] = log[p] \o batch[p])
            BY <1>1, <2>3, Zenon
        <3>2. Len(log[p] \o batch[p]) >= Len(log[p])
            <4>1. \A m, n \in Nat : m + n >= m
                OBVIOUS
            <4> QED
                BY <1>2, <1>3, <4>1, ZenonT(30)
        <3>3. \A q \in Partitions : Len(log[q]) >= Len(log[q])
            BY <1>3
        <3> QED
            BY <3>1, <3>2, <3>3, ZenonT(30)
    <2> QED
        BY <1>1, <2>1, <2>4, <2>5, <2>6, PartitionsGrow, Zenon
<1> QED
    BY <1>5, <1>6, Zenon

\* What handling one more message makes of the history.
LEMMA HandledAppend ==
    ASSUME NEW S, NEW h \in Seq(S), NEW d \in S
    PROVE  /\ Append(h, d) \in Seq(S)
           /\ Len(Append(h, d)) = Len(h) + 1
           /\ \A i \in 1 .. Len(h) : Append(h, d)[i] = h[i]
           /\ Append(h, d)[Len(h) + 1] = d
           /\ Len(h) \in Nat /\ DOMAIN h = 1 .. Len(h)
           /\ DOMAIN Append(h, d) = 1 .. Len(h) + 1
<1>1. /\ Append(h, d) \in Seq(S)
      /\ Len(Append(h, d)) = Len(h) + 1
      /\ \A i \in 1 .. Len(h) : Append(h, d)[i] = h[i]
      /\ Append(h, d)[Len(h) + 1] = d
    BY AppendProperties
<1>2. Len(h) \in Nat /\ DOMAIN h = 1 .. Len(h)
    BY LenProperties, Zenon
<1>3. DOMAIN Append(h, d) = 1 .. Len(Append(h, d))
    BY <1>1, LenProperties, Zenon
<1> QED
    BY <1>1, <1>2, <1>3, Zenon

\* Reading a message keeps it: the message lies above everything committed.
LEMMA ReadMessageInv ==
    ASSUME QueueInv, NEW p \in Partitions, ReadMessage(p)
    PROVE  QueueInv'
<1> USE DEF QueueInv, ReadMessage, HasMessage, NextOffset
<1>1. Len(log[p]) \in Nat /\ position[p] \in Nat /\ committed[p] <= position[p]
    BY LenProperties, Zenon DEF QueueShape
<1> DEFINE d == <<p, position[p] + 1>>
<1>2. d \in Partitions \X Nat /\ d[1] = p /\ d[2] = position[p] + 1
    BY <1>1
<1>3. /\ Append(handled, d) \in Seq(Partitions \X Nat)
      /\ Len(Append(handled, d)) = Len(handled) + 1
      /\ \A i \in 1 .. Len(handled) : Append(handled, d)[i] = handled[i]
      /\ Append(handled, d)[Len(handled) + 1] = d
      /\ Len(handled) \in Nat /\ DOMAIN handled = 1 .. Len(handled)
      /\ DOMAIN Append(handled, d) = 1 .. Len(handled) + 1
    <2>1. handled \in Seq(Partitions \X Nat)
        BY Zenon DEF QueueShape
    <2> HIDE DEF d, QueueInv, ReadMessage, HasMessage
    <2> QED
        BY <1>2, <2>1, HandledAppend
<1>4. DOMAIN Append(handled, d) = 1 .. Len(handled) + 1
    BY <1>3, Zenon
<1>5. QueueShape'
    <2>1. committed' \in [Partitions -> Nat] /\ position' \in [Partitions -> Nat]
        BY <1>1 DEF QueueShape
    <2>2. \A q \in Partitions : committed'[q] <= position'[q] /\ position'[q] <= Len(log'[q])
        <3>1. /\ committed'[p] = position[p] + 1 /\ position'[p] = position[p] + 1
              /\ position[p] + 1 <= Len(log[p]) /\ log' = log
            BY <1>1 DEF QueueShape
        <3>2. \A q \in Partitions : q # p => committed'[q] = committed[q] /\ position'[q] = position[q]
            BY Zenon DEF QueueShape
        <3>3. \A q \in Partitions : committed[q] <= position[q] /\ position[q] <= Len(log[q])
            BY Zenon DEF QueueShape
        <3>4. position[p] + 1 <= position[p] + 1
            BY <1>1
        <3> HIDE DEF QueueInv, ReadMessage, HasMessage
        <3> QED
            BY <3>1, <3>2, <3>3, <3>4, Zenon
    <2>3. handled' \in Seq(Partitions \X Nat)
        BY <1>3, Zenon
    <2> QED
        BY <2>1, <2>2, <2>3, Zenon DEF QueueShape
<1>6. ASSUME NEW i \in DOMAIN handled, handled[i] = d PROVE FALSE
    <2>1. position[p] + 1 <= committed[p] /\ committed[p] \in Nat
        BY <1>2, <1>6, HandledPairs, Zenon
    <2> QED
        BY <1>1, <2>1
<1>7. \A q \in Partitions : committed[q] <= committed'[q] /\ committed'[q] \in Nat
                            /\ committed[q] \in Nat
    BY <1>1, SMTT(60) DEF QueueShape
<1>8. HandledAreCommitted'
    <2> SUFFICES ASSUME NEW i \in DOMAIN handled'
                 PROVE  handled'[i][2] <= committed'[handled'[i][1]]
        BY Zenon DEF HandledAreCommitted
    <2>1. CASE i = Len(handled) + 1
        <3>1. handled'[i] = d /\ committed'[p] = position[p] + 1
            BY <1>3, <2>1, Zenon DEF QueueShape
        <3> QED
            BY <1>1, <1>2, <3>1
    <2>2. CASE i # Len(handled) + 1
        <3>1. i \in DOMAIN handled /\ handled'[i] = handled[i]
            BY <1>3, <1>4, <2>2
        <3>2. /\ handled[i][1] \in Partitions /\ handled[i][2] \in Nat
              /\ handled[i][2] <= committed[handled[i][1]]
            BY <3>1, HandledPairs, Zenon
        <3> QED
            <4>1. /\ committed[handled[i][1]] <= committed'[handled[i][1]]
                  /\ committed'[handled[i][1]] \in Nat /\ committed[handled[i][1]] \in Nat
                BY <1>7, <3>2, Zenon
            <4> HIDE DEF QueueInv, ReadMessage, HasMessage
            <4>2. handled[i][2] <= committed'[handled[i][1]]
                BY <3>2, <4>1, SMTT(60)
            <4> QED
                BY <3>1, <4>2, Zenon
    <2> QED
        BY <2>1, <2>2, Zenon
<1>9. HandledOnce'
    <2> SUFFICES ASSUME NEW i \in DOMAIN handled', NEW j \in DOMAIN handled',
                        handled'[i] = handled'[j], i # j
                 PROVE  FALSE
        BY Zenon DEF HandledOnce
    <2>1. \A l \in DOMAIN handled' : \/ l = Len(handled) + 1 /\ handled'[l] = d
                                     \/ l \in DOMAIN handled /\ handled'[l] = handled[l]
        <3>1. handled' = Append(handled, d)
            BY Zenon
        <3> HIDE DEF d, QueueInv, ReadMessage, HasMessage
        <3>2. \A l \in 1 .. Len(handled) + 1 : l = Len(handled) + 1 \/ l \in 1 .. Len(handled)
            BY <1>3
        <3> QED
            BY <1>3, <3>1, <3>2, Zenon
    <2> QED
        BY <1>6, <2>1, Zenon DEF HandledOnce
<1> QED
    BY <1>5, <1>8, <1>9, Zenon

\* A failed read and a restart keep it.
LEMMA ReaderInv ==
    ASSUME QueueInv, ReaderRestarts \/ \E p \in Partitions : ReadFails(p)
    PROVE  QueueInv'
<1> USE DEF QueueInv, QueueShape
<1>0. \A q \in Partitions : Len(log[q]) \in Nat
    BY LenProperties, Zenon
<1>1. CASE ReaderRestarts
    <2>1. position' = committed /\ UNCHANGED <<published, batch, log, committed, handled>>
        BY <1>1, Zenon DEF ReaderRestarts, StartOffset
    <2>2. \A q \in Partitions : committed[q] <= committed[q] /\ committed[q] <= Len(log[q])
        BY <1>0
    <2>3. QueueShape'
        BY <2>1, <2>2, Zenon
    <2>4. HandledOnce' /\ HandledAreCommitted'
        BY <2>1, Zenon DEF HandledOnce, HandledAreCommitted
    <2> QED
        BY <2>3, <2>4, Zenon
<1>2. ASSUME NEW p \in Partitions, ReadFails(p) PROVE QueueInv'
    <2>1. QueueShape'
        <3>1. /\ position' = [position EXCEPT ![p] = position[p] + 1]
              /\ committed' = committed \/ committed' = [committed EXCEPT ![p] = position[p] + 1]
              /\ UNCHANGED <<published, batch, log, handled>>
              /\ position[p] + 1 \in Nat /\ position[p] + 1 <= Len(log[p])
            BY <1>0, <1>2 DEF ReadFails, HasMessage, NextOffset
        <3>2. committed' \in [Partitions -> Nat] /\ position' \in [Partitions -> Nat]
            BY <3>1, Zenon
        <3>3. \A q \in Partitions : committed'[q] <= position'[q] /\ position'[q] <= Len(log[q])
            <4>1. /\ position'[p] = position[p] + 1
                  /\ committed'[p] \in {committed[p], position[p] + 1}
                BY <3>1, Zenon
            <4>2. committed[p] <= position[p] + 1 /\ position[p] + 1 <= position[p] + 1
                OBVIOUS
            <4>3. \A q \in Partitions : q # p => committed'[q] = committed[q] /\ position'[q] = position[q]
                BY <3>1, Zenon
            <4>4. \A q \in Partitions : committed[q] <= position[q] /\ position[q] <= Len(log[q])
                BY Zenon
            <4> HIDE DEF QueueInv, QueueShape
            <4> QED
                BY <3>1, <4>1, <4>2, <4>3, <4>4, Zenon
        <3> QED
            BY <3>1, <3>2, <3>3, Zenon
    <2>2. \A q \in Partitions : committed[q] <= committed'[q] /\ committed'[q] \in Nat
        <3>1. committed[p] <= position[p] + 1 /\ position[p] + 1 \in Nat
            OBVIOUS
        <3>2. \A q \in Partitions : committed'[q] = committed[q]
                                    \/ (q = p /\ committed'[q] = position[p] + 1)
            BY <1>2, Zenon DEF ReadFails, NextOffset
        <3>3. \A q \in Partitions : committed[q] \in Nat /\ committed[q] <= committed[q]
            OBVIOUS
        <3> QED
            BY <3>1, <3>2, <3>3, ZenonT(30)
    <2>3. HandledOnce'
        BY <1>2, Zenon DEF ReadFails, HandledOnce
    <2>4. ASSUME NEW i \in DOMAIN handled
          PROVE  handled[i][2] <= committed'[handled[i][1]]
        <3>1. /\ handled[i][1] \in Partitions /\ handled[i][2] \in Nat
              /\ handled[i][2] <= committed[handled[i][1]]
              /\ committed[handled[i][1]] \in Nat
            BY HandledPairs, ZenonT(30)
        <3>2. /\ committed[handled[i][1]] <= committed'[handled[i][1]]
              /\ committed'[handled[i][1]] \in Nat
            BY <2>2, <3>1, ZenonT(30)
        <3> HIDE DEF QueueInv, QueueShape
        <3>3. \A l, m, n \in Nat : l <= m /\ m <= n => l <= n
            OBVIOUS
        <3> QED
            BY <3>1, <3>2, <3>3, Zenon
    <2>5. HandledAreCommitted'
        BY <1>2, <2>4, Zenon DEF ReadFails, HandledAreCommitted
    <2> QED
        BY <2>1, <2>3, <2>5, Zenon
<1> QED
    BY <1>1, <1>2, Zenon

-----------------------------------------------------------------------------
ServiceInv == RankingInv /\ QueueInv /\ posted \subseteq Posts /\ faults \in 0 .. MaxFaults

\* The state of both components is an invariant of the service.
THEOREM ServiceInvariant == Spec => []ServiceInv
<1>1. Init => ServiceInv
    BY RankingInitInv, QueueInitInv, ServiceAssumption DEF Init, ServiceInv
<1>2. ServiceInv /\ [Next]_vars => ServiceInv'
    <2> SUFFICES ASSUME ServiceInv, [Next]_vars PROVE ServiceInv'
        BY Zenon
    <2> USE ServiceAssumption DEF ServiceInv
    <2>a. UNCHANGED rankingVars => RankingInv'
        <3> SUFFICES ASSUME UNCHANGED rankingVars PROVE RankingInv'
            BY Zenon
        <3> USE DEF rankingVars, stores, RankingInv
        <3>1. RankingShape' /\ ShownWasRanked'
            BY Zenon DEF RankingShape, ShownWasRanked
        <3>2. StoresAgree'
            BY Zenon DEF StoresAgree, Updating
        <3>3. UpdatesStaged'
            BY Zenon DEF UpdatesStaged
        <3> QED
            BY <3>1, <3>2, <3>3, Zenon
    <2>b. UNCHANGED queueVars => QueueInv'
        BY Zenon DEF queueVars, QueueInv, QueueShape, HandledOnce, HandledAreCommitted
    <2>0. /\ UNCHANGED rankingVars => RankingInv'
          /\ UNCHANGED queueVars => QueueInv'
        BY <2>a, <2>b, Zenon
    <2>1. ASSUME NEW p \in Partitions, Consume(p) PROVE ServiceInv'
        <3>1. log[p][position[p] + 1] \in 1 .. NumEvents
            <4>1. log[p] \in Seq(1 .. NumEvents) /\ position[p] \in Nat
                  /\ position[p] < Len(log[p]) /\ Len(log[p]) \in Nat
                BY <2>1, LenProperties, Zenon DEF Consume, ReadMessage, HasMessage, QueueInv, QueueShape
            <4>2. position[p] + 1 \in 1 .. Len(log[p])
                BY <4>1
            <4> QED
                BY <4>1, <4>2, ElementOfSeq, ZenonT(30)
        <3>2. RankingInv'
            BY <2>0, <2>1, <3>1, StartUpdateInv, Zenon DEF Consume, Deserialize
        <3> QED
            BY <2>1, <3>2, ReadMessageInv, Zenon DEF Consume, Deserialize
    <2>2. ASSUME NEW p \in Partitions, ConsumeFails(p) PROVE ServiceInv'
        <3>1. ReadFails(p) /\ UNCHANGED rankingVars
            BY <2>2, Zenon DEF ConsumeFails
        <3>2. QueueInv'
            BY <3>1, ReaderInv, Zenon
        <3>3. RankingInv'
            BY <2>0, <3>1, Zenon
        <3>4. posted' = posted /\ faults' \in 0 .. MaxFaults
            BY <2>2, ServiceAssumption DEF ConsumeFails, Fault
        <3> QED
            BY <3>2, <3>3, <3>4, Zenon
    <2>3. ASSUME NEW p \in Partitions, Produce(p) \/ Flush(p) PROVE ServiceInv'
        BY <2>0, <2>3, ProducerInv, Zenon DEF Produce, Flush
    <2>4. ASSUME NEW p \in Partitions, FlushFails(p) PROVE ServiceInv'
        BY <2>0, <2>4, ProducerInv DEF FlushFails, Fault
    <2>5. ASSUME NEW k \in Posts, DebugRun(k) PROVE ServiceInv'
        BY <2>0, <2>5, StartUpdateInv, Zenon DEF DebugRun
    <2>6. ASSUME NEW k \in Callers, Update(k) PROVE ServiceInv'
        BY <2>0, <2>6, RedisCallInv, Zenon DEF Update
    <2>7. ASSUME NEW k \in Callers, UpdateFails(k) PROVE ServiceInv'
        BY <2>0, <2>7, RedisErrorInv DEF UpdateFails, Fault
    <2>8. ASSUME NEW s \in Subs, Expiry(s) PROVE ServiceInv'
        BY <2>0, <2>8, MetadataExpiresInv, Zenon DEF Expiry
    <2>9. CASE Restart
        BY <2>9, RestartRankingInv, ReaderInv DEF Restart, Fault
    <2>10. CASE UNCHANGED vars
        BY <2>0, <2>10, Zenon DEF vars
    <2> QED
        BY <2>1, <2>2, <2>3, <2>4, <2>5, <2>6, <2>7, <2>8, <2>9, <2>10, Zenon DEF Next
<1> QED
    BY <1>1, <1>2, PTL DEF Spec

\* The service's state is always well formed.
THEOREM ServiceTypeCorrect == Spec => []TypeOK
<1>1. ServiceInv => TypeOK
    BY Zenon DEF ServiceInv, TypeOK, RankingInv, QueueInv
<1> QED
    BY <1>1, ServiceInvariant, PTL

\* After an update that started alone and met no failure, a submission's
\* score, details and announcement are of one result.
THEOREM StoresAlwaysAgree == Spec => []StoresAgree
<1>1. ServiceInv => StoresAgree
    BY Zenon DEF ServiceInv, RankingInv
<1> QED
    BY <1>1, ServiceInvariant, PTL

\* Only results that have been ranked are shown.
THEOREM AlwaysRankedFirst == Spec => []ShownWasRanked
<1>1. ServiceInv => ShownWasRanked
    BY Zenon DEF ServiceInv, RankingInv
<1> QED
    BY <1>1, ServiceInvariant, PTL

\* No message of the topic is handled twice.
THEOREM AlwaysHandledOnce == Spec => []HandledOnce
<1>1. ServiceInv => HandledOnce
    BY Zenon DEF ServiceInv, QueueInv
<1> QED
    BY <1>1, ServiceInvariant, PTL
-----------------------------------------------------------------------------
\* Scores are natural numbers; formatting moves one by at most half a hundredth
\* and keeps the order.
LEMMA ScoreType ==
    ASSUME NEW x \in Results
    PROVE  Score(x) \in Nat
<1>1. x.tps \in Nat /\ x.p99 \in Nat /\ x.rate \in Nat
    BY RankingAssumption, Zenon
<1>2. PICK n \in Nat : n = x.tps * x.rate * 10000
    BY <1>1
<1>3. CASE x.rate > 0 /\ x.p99 > 0
    <2>1. n \div x.p99 \in Nat
        BY <1>1, <1>3
    <2> QED
        BY <1>2, <1>3, <2>1 DEF Score
<1>4. CASE ~(x.rate > 0 /\ x.p99 > 0)
    BY <1>4 DEF Score
<1> QED
    BY <1>3, <1>4, Zenon

\* Rounding to two decimals moves a score by at most half a hundredth.
LEMMA FormattedBounds ==
    ASSUME NEW m \in Nat, NEW n \in Nat, m <= n
    PROVE  /\ Formatted(m) \in Nat /\ Formatted(m) <= m + 5 /\ m <= Formatted(m) + 4
           /\ Formatted(m) <= Formatted(n)
BY DEF Formatted

\* Whatever the store an entry's score comes from, it is the ranked one or that
\* one formatted, when the stores agree.
LEMMA EntryScore ==
    ASSUME RankingInv, NEW s \in Subs, ranked[s] # Nothing, Updating(s) = {}, ~spoiled[s], NEW lost
    PROVE  Entry(s, lost).score \in {Score(ranked[s]), Formatted(Score(ranked[s]))}
<1>1. metadata[s] = Nothing \/ metadata[s] = ranked[s]
    BY Zenon DEF RankingInv, StoresAgree
<1> QED
    BY <1>1, Zenon DEF Entry

-----------------------------------------------------------------------------
\* The messages the reader has passed without handing them over.
Skipped ==
    {d \in Partitions \X Nat :
        /\ 1 <= d[2] /\ d[2] <= position[d[1]]
        /\ \A i \in DOMAIN handled : handled[i] # d}

\* Each of them was skipped by a failure.
SkippedInv == IsFiniteSet(Skipped) /\ Cardinality(Skipped) <= faults

\* No step but a failed read skips a message.
LEMMA SkippedShrinks ==
    ASSUME IsFiniteSet(Skipped), Skipped' \subseteq Skipped
    PROVE  IsFiniteSet(Skipped') /\ Cardinality(Skipped') <= Cardinality(Skipped)
BY FS_Subset, Zenon

\* A message that is read is handed over.
LEMMA ReadSkipsNone ==
    ASSUME QueueInv, NEW p \in Partitions, ReadMessage(p)
    PROVE  Skipped' \subseteq Skipped
<1>1. /\ position \in [Partitions -> Nat] /\ handled \in Seq(Partitions \X Nat)
      /\ position' = [position EXCEPT ![p] = position[p] + 1]
      /\ handled' = Append(handled, <<p, position[p] + 1>>)
    BY Zenon DEF QueueInv, QueueShape, ReadMessage
<1>2. PICK n \in Nat, h \in Seq(Partitions \X Nat) : n = position[p] /\ h = handled
    BY <1>1, Zenon
<1>3. <<p, n + 1>> \in Partitions \X Nat
    BY <1>2
<1>4. /\ \A i \in DOMAIN h : i \in DOMAIN Append(h, <<p, n + 1>>) /\ Append(h, <<p, n + 1>>)[i] = h[i]
      /\ Len(h) + 1 \in DOMAIN Append(h, <<p, n + 1>>)
      /\ Append(h, <<p, n + 1>>)[Len(h) + 1] = <<p, n + 1>>
    BY <1>3, AppendProperties, LenProperties
<1> SUFFICES ASSUME NEW d \in Skipped' PROVE d \in Skipped
    BY Zenon
<1>5. /\ d \in Partitions \X Nat /\ 1 <= d[2] /\ d[2] <= position'[d[1]]
      /\ \A i \in DOMAIN handled' : handled'[i] # d
    BY Zenon DEF Skipped
<1>6. /\ \A i \in DOMAIN handled : handled[i] # d
      /\ d # <<p, n + 1>>
    BY <1>1, <1>2, <1>4, <1>5, Zenon
<1>7. d[1] \in Partitions /\ d[2] \in Nat /\ d = <<d[1], d[2]>>
    BY <1>5
<1>8. d[2] <= position[d[1]]
    <2>1. CASE d[1] = p
        <3>1. d[2] # n + 1 /\ d[2] <= n + 1
            BY <1>1, <1>2, <1>5, <1>6, <1>7, <2>1, Zenon
        <3> QED
            BY <1>2, <1>7, <2>1, <3>1
    <2>2. CASE d[1] # p
        BY <1>1, <1>5, <1>7, <2>2, Zenon
    <2> QED
        BY <2>1, <2>2, Zenon
<1> QED
    BY <1>5, <1>6, <1>8, Zenon DEF Skipped

\* A failed read skips one.
LEMMA ReadFailsSkipsOne ==
    ASSUME QueueInv, NEW p \in Partitions, ReadFails(p), IsFiniteSet(Skipped)
    PROVE  IsFiniteSet(Skipped') /\ Cardinality(Skipped') <= Cardinality(Skipped) + 1
<1>1. /\ position \in [Partitions -> Nat] /\ handled' = handled
      /\ position' = [position EXCEPT ![p] = position[p] + 1]
    BY Zenon DEF QueueInv, QueueShape, ReadFails
<1>2. PICK n \in Nat : n = position[p]
    BY <1>1, Zenon
<1>3. Skipped' \subseteq Skipped \cup {<<p, n + 1>>}
    <2> SUFFICES ASSUME NEW d \in Skipped', d # <<p, n + 1>> PROVE d \in Skipped
        BY Zenon
    <2>1. /\ d \in Partitions \X Nat /\ 1 <= d[2] /\ d[2] <= position'[d[1]]
          /\ \A i \in DOMAIN handled : handled[i] # d
        BY <1>1, Zenon DEF Skipped
    <2>2. d[1] \in Partitions /\ d[2] \in Nat /\ d = <<d[1], d[2]>>
        BY <2>1
    <2>3. d[2] <= position[d[1]]
        <3>1. CASE d[1] = p
            <4>1. d[2] # n + 1 /\ d[2] <= n + 1
                BY <1>1, <1>2, <2>1, <2>2, <3>1, Zenon
            <4> QED
                BY <1>2, <2>2, <3>1, <4>1
        <3>2. CASE d[1] # p
            BY <1>1, <2>1, <2>2, <3>2, Zenon
        <3> QED
            BY <3>1, <3>2, Zenon
    <2> QED
        BY <2>1, <2>3, Zenon DEF Skipped
<1>4. /\ IsFiniteSet(Skipped \cup {<<p, n + 1>>})
      /\ Cardinality(Skipped \cup {<<p, n + 1>>}) <= Cardinality(Skipped) + 1
    <2>1. Cardinality(Skipped) \in Nat
        BY FS_CardinalityType, Zenon
    <2>2. /\ IsFiniteSet(Skipped \cup {<<p, n + 1>>})
          /\ Cardinality(Skipped \cup {<<p, n + 1>>}) \in {Cardinality(Skipped), Cardinality(Skipped) + 1}
        BY FS_AddElement, ZenonT(30)
    <2> QED
        BY <2>1, <2>2
<1>5. IsFiniteSet(Skipped') /\ Cardinality(Skipped') <= Cardinality(Skipped \cup {<<p, n + 1>>})
    BY <1>3, <1>4, FS_Subset, Zenon
<1>6. /\ Cardinality(Skipped) \in Nat /\ Cardinality(Skipped') \in Nat
      /\ Cardinality(Skipped \cup {<<p, n + 1>>}) \in Nat
    BY <1>4, <1>5, FS_CardinalityType, Zenon
<1> QED
    BY <1>4, <1>5, <1>6

\* A restart goes back to the committed offsets.
LEMMA RestartSkipsNone ==
    ASSUME QueueInv, ReaderRestarts
    PROVE  Skipped' \subseteq Skipped
<1>1. /\ position \in [Partitions -> Nat] /\ committed \in [Partitions -> Nat]
      /\ \A q \in Partitions : committed[q] <= position[q]
      /\ position' = committed /\ handled' = handled
    BY Zenon DEF QueueInv, QueueShape, ReaderRestarts, StartOffset
<1> SUFFICES ASSUME NEW d \in Skipped' PROVE d \in Skipped
    BY Zenon
<1>2. /\ d \in Partitions \X Nat /\ 1 <= d[2] /\ d[2] <= committed[d[1]]
      /\ \A i \in DOMAIN handled : handled[i] # d
    BY <1>1, Zenon DEF Skipped
<1>3. d[1] \in Partitions /\ d[2] \in Nat
    BY <1>2, Zenon
<1>4. d[2] <= position[d[1]]
    BY <1>1, <1>2, <1>3
<1> QED
    BY <1>2, <1>4, Zenon DEF Skipped

\* Every step of the service keeps the account.
LEMMA SkippedNext ==
    ASSUME ServiceInv, SkippedInv, [Next]_vars
    PROVE  SkippedInv'
<1>1. /\ QueueInv /\ faults \in Nat /\ IsFiniteSet(Skipped)
      /\ Cardinality(Skipped) \in Nat /\ Cardinality(Skipped) <= faults
    BY ServiceAssumption, FS_CardinalityType DEF ServiceInv, SkippedInv
<1>2. ASSUME Skipped' \subseteq Skipped, faults' \in {faults, faults + 1} PROVE SkippedInv'
    <2>1. IsFiniteSet(Skipped') /\ Cardinality(Skipped') <= Cardinality(Skipped)
        BY <1>1, <1>2, SkippedShrinks, Zenon
    <2>2. Cardinality(Skipped') \in Nat
        BY <2>1, FS_CardinalityType, Zenon
    <2> QED
        BY <1>1, <1>2, <2>1, <2>2 DEF SkippedInv
<1>3. ASSUME UNCHANGED <<position, handled>>, faults' \in {faults, faults + 1} PROVE SkippedInv'
    BY <1>2, <1>3, Zenon DEF Skipped
<1>4. ASSUME NEW p \in Partitions, Consume(p) PROVE SkippedInv'
    <2>1. ReadMessage(p) /\ faults' = faults
        BY <1>4, Zenon DEF Consume
    <2> QED
        BY <1>1, <1>2, <2>1, ReadSkipsNone, Zenon
<1>5. ASSUME NEW p \in Partitions, ConsumeFails(p) PROVE SkippedInv'
    <2>1. ReadFails(p) /\ faults' = faults + 1
        BY <1>5, Zenon DEF ConsumeFails, Fault
    <2>2. IsFiniteSet(Skipped') /\ Cardinality(Skipped') <= Cardinality(Skipped) + 1
        BY <1>1, <2>1, ReadFailsSkipsOne, Zenon
    <2>3. Cardinality(Skipped') \in Nat
        BY <2>2, FS_CardinalityType, Zenon
    <2> QED
        BY <1>1, <2>1, <2>2, <2>3 DEF SkippedInv
<1>6. ASSUME NEW p \in Partitions, Produce(p) \/ Flush(p) \/ FlushFails(p) PROVE SkippedInv'
    <2>1. UNCHANGED <<position, handled>> /\ faults' \in {faults, faults + 1}
        BY <1>6, Zenon DEF Produce, Flush, FlushFails, PublishTelemetry, WriteBatch, WriteFails, Fault
    <2> QED
        BY <1>3, <2>1, Zenon
<1>7. ASSUME NEW k, DebugRun(k) \/ Update(k) \/ UpdateFails(k) \/ Expiry(k) PROVE SkippedInv'
    <2>1. UNCHANGED <<position, handled>> /\ faults' \in {faults, faults + 1}
        BY <1>7, Zenon DEF DebugRun, Update, UpdateFails, Expiry, queueVars, Fault
    <2> QED
        BY <1>3, <2>1, Zenon
<1>8. CASE Restart
    <2>1. ReaderRestarts /\ faults' = faults + 1
        BY <1>8, Zenon DEF Restart, Fault
    <2> QED
        BY <1>1, <1>2, <2>1, RestartSkipsNone, Zenon
<1>9. CASE UNCHANGED vars
    <2>1. UNCHANGED <<position, handled, faults>>
        BY <1>9, Zenon DEF vars, queueVars
    <2> QED
        BY <1>3, <2>1, Zenon
<1> QED
    BY <1>4, <1>5, <1>6, <1>7, <1>8, <1>9, Zenon DEF Next

\* A committed message that will never be handled was skipped.
LEMMA DroppedSkipped ==
    ASSUME QueueInv
    PROVE  Dropped \subseteq Skipped
<1> SUFFICES ASSUME NEW d \in Dropped PROVE d \in Skipped
    BY Zenon
<1>1. PICK p \in Partitions : d \in {p} \X (1 .. committed[p])
    BY Zenon DEF Dropped
<1>2. \A i \in DOMAIN handled : handled[i] # d
    BY Zenon DEF Dropped
<1>3. /\ committed[p] \in Nat /\ position[p] \in Nat /\ committed[p] <= position[p]
    BY Zenon DEF QueueInv, QueueShape
<1>4. d[1] = p /\ d[2] \in 1 .. committed[p] /\ d = <<d[1], d[2]>>
    BY <1>1
<1>5. d \in Partitions \X Nat /\ 1 <= d[2] /\ d[2] <= position[d[1]]
    BY <1>3, <1>4
<1> QED
    BY <1>2, <1>5, Zenon DEF Skipped

\* Every message that is committed and never handled is accounted for by a
\* failure, for any number of partitions, messages and failures.
THEOREM LossesAlwaysFaults == Spec => []LossesAreFaults
<1>1. Init => SkippedInv
    <2> SUFFICES ASSUME Init PROVE SkippedInv
        BY Zenon
    <2>1. position = [p \in Partitions |-> 0] /\ faults = 0
        BY Zenon DEF Init, QueueInit
    <2>2. \A d \in Partitions \X Nat : position[d[1]] = 0 /\ d[2] \in Nat
        BY <2>1, Zenon
    <2>3. Skipped = {}
        BY <2>2 DEF Skipped
    <2> QED
        BY <2>1, <2>3, FS_EmptySet DEF SkippedInv
<1>2. ServiceInv /\ SkippedInv /\ [Next]_vars => SkippedInv'
    BY SkippedNext, Zenon
<1>3. Spec => []SkippedInv
    BY <1>1, <1>2, ServiceInvariant, PTL DEF Spec
<1>4. ServiceInv /\ SkippedInv => LossesAreFaults
    <2> SUFFICES ASSUME ServiceInv, SkippedInv PROVE Cardinality(Dropped) <= faults
        BY Zenon DEF LossesAreFaults
    <2>1. Dropped \subseteq Skipped /\ IsFiniteSet(Skipped) /\ Cardinality(Skipped) <= faults
        BY DroppedSkipped, Zenon DEF ServiceInv, SkippedInv
    <2>2. IsFiniteSet(Dropped) /\ Cardinality(Dropped) <= Cardinality(Skipped)
        BY <2>1, FS_Subset, Zenon
    <2>3. Cardinality(Dropped) \in Nat /\ Cardinality(Skipped) \in Nat /\ faults \in Nat
        BY <2>1, <2>2, FS_CardinalityType, ServiceAssumption DEF ServiceInv
    <2> QED
        BY <2>1, <2>2, <2>3
<1> QED
    BY <1>3, <1>4, ServiceInvariant, PTL

\* With no update under way and none spoiled, the leaderboard is in falling
\* order of the scores it shows, up to their rounding, whichever details are
\* missing and however many submissions there are.
THEOREM AlwaysListedInOrder == Spec => []ListedInOrder
<1>1. ServiceInv => ListedInOrder
    <2> SUFFICES ASSUME ServiceInv, \A s \in Subs : Updating(s) = {} /\ ~spoiled[s],
                        NEW z \in ZRevRange, NEW lost \in SUBSET Subs,
                        NEW i \in DOMAIN GetLeaderboard(z, lost),
                        NEW j \in DOMAIN GetLeaderboard(z, lost), i < j
                 PROVE  GetLeaderboard(z, lost)[j].score <= GetLeaderboard(z, lost)[i].score + 5
        BY Zenon DEF ListedInOrder
    <2>1. /\ i \in DOMAIN z /\ j \in DOMAIN z
          /\ GetLeaderboard(z, lost)[i] = Entry(z[i], lost)
          /\ GetLeaderboard(z, lost)[j] = Entry(z[j], lost)
        BY Zenon DEF GetLeaderboard
    <2>2. /\ z[i] \in Subs /\ ranked[z[i]] # Nothing
          /\ z[j] \in Subs /\ ranked[z[j]] # Nothing
          /\ Score(ranked[z[i]]) >= Score(ranked[z[j]])
        BY <2>1, Zenon DEF ZRevRange
    <2>3. ranked[z[i]] \in Results /\ ranked[z[j]] \in Results
        BY <2>2, Zenon DEF ServiceInv, RankingInv, RankingShape
    <2>4. PICK m \in Nat, n \in Nat : m = Score(ranked[z[j]]) /\ n = Score(ranked[z[i]])
        BY <2>3, ScoreType, Zenon
    <2>5. /\ GetLeaderboard(z, lost)[j].score \in {m, Formatted(m)}
          /\ GetLeaderboard(z, lost)[i].score \in {n, Formatted(n)}
        BY <2>1, <2>2, <2>4, EntryScore, Zenon DEF ServiceInv
    <2>6. m <= n
        BY <2>2, <2>4, Zenon
    <2>7. /\ Formatted(m) \in Nat /\ Formatted(m) <= m + 5 /\ Formatted(m) <= Formatted(n)
          /\ Formatted(n) \in Nat /\ n <= Formatted(n) + 4
        BY <2>6, FormattedBounds
    <2> QED
        BY <2>5, <2>6, <2>7
<1> QED
    BY <1>1, ServiceInvariant, PTL
=============================================================================
