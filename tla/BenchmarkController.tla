------------------------- MODULE BenchmarkController -------------------------
(***************************************************************************)
(* The BenchmarkRun reconciler of pkg/controller/benchmark_controller.go.   *)
(* One worker reconciles one run at a time; every call of Reconcile to the  *)
(* API server is a step, so that watch events, timers, failures of a call   *)
(* and restarts of the controller come between them. NewReconciler takes    *)
(* any manager: its client reads a run from the API server, the default, or *)
(* from a cache that lags behind it. Status updates carry the version read. *)
(***************************************************************************)
EXTENDS Integers, Sequences, FiniteSets

CONSTANTS
    Runs,                  \* BenchmarkRun objects
    NoRun,
    SubmissionOf,          \* spec.submissionId of each run
    WithoutSpec,           \* the runs that may be created without a spec
    Deletable,             \* the runs a user may delete
    Duration,              \* spec.duration, in ticks of the clock
    MonitorPeriod,         \* the first RequeueAfter, in ticks (5 seconds in the code)
    TicksPerSecond,
    HasStatusSubresource,  \* the CRD enables the status subresource
    MaxFaults              \* bound: failed calls and restarts in a behaviour

ASSUME ControllerAssumption ==
    /\ NoRun \notin Runs
    /\ WithoutSpec \subseteq Runs /\ Deletable \subseteq Runs
    /\ Duration \in Nat /\ MonitorPeriod \in Nat /\ MaxFaults \in Nat
    /\ TicksPerSecond \in Nat \ {0}
    /\ HasStatusSubresource \in BOOLEAN

Submissions == {SubmissionOf[r] : r \in Runs}
Never == -1

\* ResourceQuota run-limits, NetworkPolicy block-egress, Pod contestant-engine.
Kinds == {"quota", "netpol", "pod"}

VARIABLES
    versions,     \* the API server's versions of each run: the status.state of each
    cached,       \* how many of them the controller's watch has delivered
    cachedReads,  \* the manager's client reads runs from the watch's cache
    queue,        \* the keys waiting to be reconciled
    timer,        \* RequeueAfter: ticks until the key is queued, or Never
    worker,       \* the Reconcile call in progress: its next call, run and version read
    ns,           \* namespace run-<submission>: "absent", "active", "terminating"
    objects,      \* for each object in it the run it was created for, or NoRun
    age,          \* ticks since startedAt was taken, up to the run's duration
    phase,        \* ticks that startedAt lost when it was formatted to seconds
    faults

clusterVars == <<ns, objects>>
clockVars == <<age, phase>>
vars == <<versions, cached, cachedReads, queue, timer, worker, clusterVars, clockVars, faults>>

Idle == [pc |-> "idle", run |-> NoRun, seen |-> 0]

Init ==
    /\ versions = [r \in Runs |-> <<>>]
    /\ cached = [r \in Runs |-> 0]
    /\ cachedReads \in BOOLEAN
    /\ queue = {}
    /\ timer = [r \in Runs |-> Never]
    /\ worker = Idle
    /\ ns = [s \in Submissions |-> "absent"]
    /\ objects = [s \in Submissions |-> [k \in Kinds |-> NoRun]]
    /\ age = [r \in Runs |-> 0]
    /\ phase = [r \in Runs |-> 0]
    /\ faults = 0

\* What a version of a run says: its status.state, "nospec" if the run has no
\* spec, and "deleted" when it is gone.
StateOf(r, k) == IF k = 0 THEN "deleted" ELSE versions[r][k]
State(r) == StateOf(r, Len(versions[r]))

\* The version that r.Get returns.
ReadVersion(r) == IF cachedReads THEN cached[r] ELSE Len(versions[r])

-----------------------------------------------------------------------------
\* Users and the cluster.
CreateRun(r) ==
    /\ versions[r] = <<>>
    /\ \E state \in {""} \cup (IF r \in WithoutSpec THEN {"nospec"} ELSE {}) :
        versions' = [versions EXCEPT ![r] = Append(@, state)]
    /\ UNCHANGED <<cached, cachedReads, queue, timer, worker, clusterVars, clockVars, faults>>

DeleteRun(r) ==
    /\ r \in Deletable
    /\ State(r) # "deleted"
    /\ versions' = [versions EXCEPT ![r] = Append(@, "deleted")]
    /\ UNCHANGED <<cached, cachedReads, queue, timer, worker, clusterVars, clockVars, faults>>

NamespaceGone(s) ==
    /\ ns[s] = "terminating"
    /\ ns' = [ns EXCEPT ![s] = "absent"]
    /\ objects' = [objects EXCEPT ![s] = [k \in Kinds |-> NoRun]]
    /\ UNCHANGED <<versions, cached, cachedReads, queue, timer, worker, clockVars, faults>>

\* The run has been given its startedAt.
Started(r) == \E k \in 1 .. Len(versions[r]) : versions[r][k] = "Running"

\* Time passes for the runs and for the timers of the work queue.
Tick ==
    /\ age' = [r \in Runs |-> IF Started(r) /\ age[r] < Duration THEN age[r] + 1 ELSE age[r]]
    /\ timer' = [r \in Runs |-> IF timer[r] > 0 THEN timer[r] - 1 ELSE timer[r]]
    /\ UNCHANGED <<versions, cached, cachedReads, queue, worker, clusterVars, phase, faults>>

\* The controller's runtime: a watch event updates the cache and queues the
\* key, an expired timer queues the key.
Observe(r) ==
    /\ cached[r] < Len(versions[r])
    /\ cached' = [cached EXCEPT ![r] = @ + 1]
    /\ queue' = queue \cup {r}
    /\ UNCHANGED <<versions, cachedReads, timer, worker, clusterVars, clockVars, faults>>

TimerFires(r) ==
    /\ timer[r] = 0
    /\ timer' = [timer EXCEPT ![r] = Never]
    /\ queue' = queue \cup {r}
    /\ UNCHANGED <<versions, cached, cachedReads, worker, clusterVars, clockVars, faults>>

\* A failure, of which there are MaxFaults at most.
Fault == faults < MaxFaults /\ faults' = faults + 1

\* The controller restarts: it lists the runs afresh and queues them all.
Restart ==
    /\ Fault
    /\ worker' = Idle
    /\ cached' = [r \in Runs |-> Len(versions[r])]
    /\ queue' = {r \in Runs : State(r) # "deleted"}
    /\ timer' = [r \in Runs |-> Never]
    /\ UNCHANGED <<versions, cachedReads, clusterVars, clockVars>>

-----------------------------------------------------------------------------
\* time.Since(startedAt): startedAt was truncated to whole seconds.
Elapsed(r) == age[r] + phase[r]

\* Mutant: the next check, not this one, decides.
Expired_Rounded(r) == Elapsed(r) + TicksPerSecond >= Duration

\* elapsed >= duration
Expired(r) == Elapsed(r) >= Duration

\* return ctrl.Result{}, err: the key is queued again.
ReturnError ==
    /\ worker' = Idle
    /\ queue' = queue \cup {worker.run}

\* RequeueAfter: the work queue keeps the earlier of two timers of a key.
AddAfter(r, d) ==
    timer' = [timer EXCEPT ![r] = IF @ = Never \/ d < @ THEN d ELSE @]

\* Mutant: a run that goes on is not queued again.
Requeue_Never(r) == UNCHANGED timer

\* remaining := duration - elapsed; RequeueAfter: remaining
Requeue(r) == AddAfter(r, Duration - Elapsed(r))

\* Reconcile reads the run and chooses what to do by its state.
Get(r) ==
    /\ worker = Idle
    /\ r \in queue
    /\ LET state == StateOf(r, ReadVersion(r))
           start(pc) == worker' = [pc |-> pc, run |-> r, seen |-> ReadVersion(r)]
       IN  /\ queue' = IF state = "nospec" THEN queue ELSE queue \ {r}
           /\ \/ state \in {"nospec", "Succeeded", "deleted"} /\ UNCHANGED <<worker, timer>>
              \/ state = "" /\ start("namespace") /\ UNCHANGED timer
              \/ state = "Running" /\ Expired(r) /\ start("delete") /\ UNCHANGED timer
              \/ state = "Running" /\ ~Expired(r) /\ Requeue(r) /\ UNCHANGED worker
    /\ UNCHANGED <<versions, cached, cachedReads, clusterVars, clockVars, faults>>

\* Mutant: the run is set to Running without its pod.
NextCall_NoPod(pc) ==
    CASE pc = "namespace" -> "quota" [] pc = "quota" -> "netpol" [] OTHER -> "running"

\* The order of the calls that set a run up.
NextCall(pc) ==
    CASE pc = "namespace" -> "quota"
      [] pc = "quota" -> "netpol"
      [] pc = "netpol" -> "pod"
      [] pc = "pod" -> "running"

\* Mutant: a failure to create something is only logged.
AfterFailure_Logged ==
    IF worker.pc \in Kinds
    THEN worker' = [worker EXCEPT !.pc = NextCall(@)] /\ UNCHANGED queue
    ELSE ReturnError

\* if err != nil { return ctrl.Result{}, err }
AfterFailure == ReturnError

\* The next call fails, or the answer to the last one was lost.
CallFails ==
    /\ worker # Idle
    /\ Fault
    /\ AfterFailure
    /\ UNCHANGED <<versions, cached, cachedReads, timer, clusterVars, clockVars>>

\* An existing namespace, even one being deleted, is accepted.
CreateNamespace ==
    /\ worker.pc = "namespace"
    /\ LET s == SubmissionOf[worker.run]
       IN  ns' = [ns EXCEPT ![s] = IF @ = "absent" THEN "active" ELSE @]
    /\ worker' = [worker EXCEPT !.pc = NextCall(@)]
    /\ UNCHANGED <<versions, cached, cachedReads, queue, timer, objects, clockVars, faults>>

\* Create the quota, the network policy or the pod. One that exists is
\* accepted; the API server refuses when the namespace is absent or being
\* deleted.
CreateObject ==
    /\ worker.pc \in Kinds
    /\ LET s == SubmissionOf[worker.run]
       IN  \/ /\ ns[s] = "active"
              /\ objects' = [objects EXCEPT ![s][worker.pc] = IF @ = NoRun THEN worker.run ELSE @]
              /\ worker' = [worker EXCEPT !.pc = NextCall(@)]
              /\ UNCHANGED queue
           \/ /\ ns[s] # "active"
              /\ ReturnError
              /\ UNCHANGED objects
    /\ UNCHANGED <<versions, cached, cachedReads, timer, ns, clockVars, faults>>

\* Mutant: the update does not carry the version that was read.
Accepted_Unversioned == HasStatusSubresource

\* Status().Update succeeds when the resource exists and the run has not
\* changed since it was read.
Accepted == HasStatusSubresource /\ worker.seen = Len(versions[worker.run])

\* The update took effect, but its answer was lost.
AnswerLost == Fault /\ ReturnError

\* Status: Running, with startedAt; look again in five seconds.
UpdateRunning ==
    /\ worker.pc = "running"
    /\ LET r == worker.run
       IN  \/ /\ Accepted
              /\ versions' = [versions EXCEPT ![r] = Append(@, "Running")]
              /\ \E p \in 0 .. TicksPerSecond - 1 : phase' = [phase EXCEPT ![r] = p]
              /\ \/ AddAfter(r, MonitorPeriod) /\ worker' = Idle /\ UNCHANGED <<queue, faults>>
                 \/ AnswerLost /\ UNCHANGED timer
           \/ ~Accepted /\ ReturnError /\ UNCHANGED <<versions, phase, timer, faults>>
    /\ UNCHANGED <<cached, cachedReads, clusterVars, age>>

\* Mutant: a failure to delete the namespace is ignored.
Deletes_Tolerant(s) ==
    ns' \in {ns, [ns EXCEPT ![s] = IF @ = "active" THEN "terminating" ELSE @]}

\* r.Delete of the namespace; one that is gone is accepted.
Deletes(s) == ns' = [ns EXCEPT ![s] = IF @ = "active" THEN "terminating" ELSE @]

\* Time is up: delete the namespace.
DeleteNamespace ==
    /\ worker.pc = "delete"
    /\ Deletes(SubmissionOf[worker.run])
    /\ worker' = [worker EXCEPT !.pc = "succeeded"]
    /\ UNCHANGED <<versions, cached, cachedReads, queue, timer, objects, clockVars, faults>>

\* Status: Succeeded.
UpdateSucceeded ==
    /\ worker.pc = "succeeded"
    /\ LET r == worker.run
       IN  \/ /\ Accepted
              /\ versions' = [versions EXCEPT ![r] = Append(@, "Succeeded")]
              /\ \/ worker' = Idle /\ UNCHANGED <<queue, faults>>
                 \/ AnswerLost
           \/ ~Accepted /\ ReturnError /\ UNCHANGED <<versions, faults>>
    /\ UNCHANGED <<cached, cachedReads, timer, clusterVars, clockVars>>

Reconcile ==
    \/ CreateNamespace \/ CreateObject \/ UpdateRunning
    \/ DeleteNamespace \/ UpdateSucceeded

Next ==
    \/ \E r \in Runs : CreateRun(r) \/ DeleteRun(r) \/ Observe(r) \/ TimerFires(r) \/ Get(r)
    \/ Reconcile \/ CallFails \/ Restart \/ Tick
    \/ \E s \in Submissions : NamespaceGone(s)

Spec == Init /\ [][Next]_vars

\* Watch events and timers.
Notify == \E r \in Runs : Observe(r) \/ TimerFires(r)

\* Watches deliver, time passes, the worker serves its queue in order and the
\* cluster finishes deletions. Failures and restarts are not fair.
FairSpec ==
    /\ Spec
    /\ WF_vars(Reconcile) /\ WF_vars(Tick) /\ WF_vars(Notify)
    /\ \A r \in Runs : SF_vars(Get(r))
    /\ \A s \in Submissions : WF_vars(NamespaceGone(s))

-----------------------------------------------------------------------------
States == {"", "nospec", "Running", "Succeeded", "deleted"}
Steps == Kinds \cup {"idle", "namespace", "running", "delete", "succeeded"}

\* The state has the shape the Go code and the API give it; in particular no
\* RequeueAfter is longer than the run or negative.
TypeOK ==
    /\ versions \in [Runs -> Seq(States)]
    /\ cached \in [Runs -> Nat] /\ \A r \in Runs : cached[r] <= Len(versions[r])
    /\ cachedReads \in BOOLEAN
    /\ queue \subseteq Runs
    /\ timer \in [Runs -> Nat \cup {Never}]
    /\ \A r \in Runs : timer[r] <= Duration \/ timer[r] <= MonitorPeriod
    /\ worker \in [pc : Steps, run : Runs \cup {NoRun}, seen : Nat]
    /\ worker.pc = "idle" => worker = Idle
    /\ worker.pc # "idle" => worker.run \in Runs /\ worker.seen \in 1 .. Len(versions[worker.run])
    /\ ns \in [Submissions -> {"absent", "active", "terminating"}]
    /\ objects \in [Submissions -> [Kinds -> Runs \cup {NoRun}]]
    /\ age \in [Runs -> 0 .. Duration]
    /\ phase \in [Runs -> 0 .. TicksPerSecond - 1]
    /\ faults \in 0 .. MaxFaults

\* A run starts once and ends once, and is never written after its deletion,
\* although Reconcile decides on versions that may be outdated.
LegalHistory ==
    \A r \in Runs :
        \A k \in 2 .. Len(versions[r]) :
            <<versions[r][k - 1], versions[r][k]>> \in
                {<<"", "Running">>, <<"Running", "Succeeded">>}
                \cup ((States \ {"deleted"}) \X {"deleted"})

\* In a live namespace the contestant's pod never exists without the quota
\* and the network policy, whichever call failed and whenever the controller
\* restarted.
PodIsolated ==
    \A s \in Submissions :
        ns[s] = "active" /\ objects[s]["pod"] # NoRun =>
            \A k \in Kinds : objects[s][k] # NoRun

\* r is the only run of its submission so far.
Sole(r) == \A q \in Runs \ {r} : SubmissionOf[q] = SubmissionOf[r] => versions[q] = <<>>

\* Until its duration has elapsed a Running run has its namespace, with a pod
\* created for it, unless another run of the submission was created: the
\* namespace and the pod are named after the submission.
RunningOwnsPod ==
    \A r \in Runs :
        Sole(r) /\ State(r) = "Running" /\ ~Expired(r) =>
            ns[SubmissionOf[r]] = "active" /\ objects[SubmissionOf[r]]["pod"] = r

\* Once a run is Succeeded its namespace is gone or going, and a retry of
\* work decided on an old version does not bring it back.
SucceededIsClean ==
    \A r \in Runs : Sole(r) /\ State(r) = "Succeeded" => ns[SubmissionOf[r]] # "active"

\* Cleanup starts less than one second before the duration has elapsed, the
\* second lost in formatting startedAt, and never earlier.
NotCutShort ==
    worker.pc = "delete" => age[worker.run] > Duration - TicksPerSecond

\* Every run that is created with a spec, and not deleted, is brought to its
\* end, and stays there.
RunsComplete == <>[](\A r \in Runs : State(r) \notin {"", "Running"})
=============================================================================
