--------------------- MODULE BenchmarkControllerProofs ---------------------
(***************************************************************************)
(* Safety of the BenchmarkRun reconciler, for any runs and submissions, any *)
(* durations and any number of failed calls and restarts.                   *)
(***************************************************************************)
EXTENDS BenchmarkController, SequenceTheorems, TLAPS

SettingUp == {"namespace", "quota", "netpol", "pod", "running"}
CleaningUp == {"delete", "succeeded"}

\* Reconcile acts on what the version it read says.
HistoryInv ==
    /\ LegalHistory
    /\ worker.pc \in SettingUp => versions[worker.run][worker.seen] = ""
    /\ worker.pc \in CleaningUp => versions[worker.run][worker.seen] = "Running"

\* What the calls made so far have left in the namespace, if it is still live.
ClusterInv ==
    /\ PodIsolated
    /\ \A s \in Submissions : ns[s] = "absent" => \A k \in Kinds : objects[s][k] = NoRun
    /\ worker.pc \in {"netpol", "pod"} /\ ns[SubmissionOf[worker.run]] = "active" =>
        objects[SubmissionOf[worker.run]]["quota"] # NoRun
    /\ worker.pc = "pod" /\ ns[SubmissionOf[worker.run]] = "active" =>
        objects[SubmissionOf[worker.run]]["netpol"] # NoRun

\* A cleanup that was decided on stays due.
ClockInv == worker.pc = "delete" => Expired(worker.run)

ControllerInv == TypeOK /\ HistoryInv /\ ClusterInv /\ ClockInv

\* The states a user gives a run.
Created == {"", "nospec"}

\* Reads never go back, and a status update is accepted only from a reader of
\* the last version: once a run is Succeeded, nobody reads its first one.
ReadsInv ==
    /\ \A r \in Runs : Len(versions[r]) > 0 => versions[r][1] \in Created
    /\ \A r \in Runs : worker.pc # "idle" /\ worker.run = r => worker.seen <= ReadVersion(r)
    /\ \A r \in Runs : State(r) = "Succeeded" =>
        /\ ReadVersion(r) >= Len(versions[r]) - 1
        /\ worker.pc \in SettingUp => worker.run # r

\* A run that has not started: what the calls for the only run of a submission
\* have left in its namespace, which nobody deletes yet.
Pending(r) == versions[r] = <<>> \/ State(r) = ""

PendingInv ==
    \A r \in Runs : Sole(r) /\ Pending(r) =>
        /\ ns[SubmissionOf[r]] # "terminating"
        /\ objects[SubmissionOf[r]]["pod"] \in {NoRun, r}
        /\ worker.run = r /\ worker.pc \in Kinds \cup {"running"} => ns[SubmissionOf[r]] = "active"
        /\ worker.run = r /\ worker.pc = "running" => objects[SubmissionOf[r]]["pod"] = r

\* Between the deletion of the namespace and the update of the status nobody
\* brings it back.
CleanupInv ==
    worker.pc = "succeeded" /\ Sole(worker.run) => ns[SubmissionOf[worker.run]] # "active"

OwnerInv == ReadsInv /\ PendingInv /\ CleanupInv /\ RunningOwnsPod /\ SucceededIsClean

-----------------------------------------------------------------------------
\* Durations are numbers of ticks.
LEMMA TicksType ==
    /\ Duration \in Nat /\ MonitorPeriod \in Nat
    /\ TicksPerSecond \in Nat /\ TicksPerSecond >= 1
BY ControllerAssumption

\* Elapsed time is a number of ticks.
LEMMA ElapsedType ==
    ASSUME TypeOK, NEW r \in Runs
    PROVE  age[r] \in Nat /\ phase[r] \in Nat /\ phase[r] <= TicksPerSecond - 1
            /\ Elapsed(r) \in Nat /\ age[r] <= Duration
<1>1. age[r] \in 0 .. Duration /\ phase[r] \in 0 .. TicksPerSecond - 1
    BY Zenon DEF TypeOK
<1> QED BY <1>1, TicksType DEF Elapsed

\* The timers the code asks for, and the earlier of two, are within bounds.
LEMMA AddAfterType ==
    ASSUME TypeOK, NEW r \in Runs, NEW d \in Nat,
           d <= Duration \/ d <= MonitorPeriod, AddAfter(r, d)
    PROVE  /\ timer' \in [Runs -> Nat \cup {Never}]
           /\ \A q \in Runs : timer'[q] <= Duration \/ timer'[q] <= MonitorPeriod
<1>1. timer \in [Runs -> Nat \cup {Never}]
        /\ \A q \in Runs : timer[q] <= Duration \/ timer[q] <= MonitorPeriod
    BY Zenon DEF TypeOK
<1>2. \A q \in Runs : timer'[q] \in {timer[q], d}
    BY <1>1, Zenon DEF AddAfter
<1>3. timer' \in [Runs -> Nat \cup {Never}]
    BY <1>1, Zenon DEF AddAfter
<1> QED BY <1>1, <1>2, <1>3, Zenon

\* A version that is added leaves the earlier ones as they are.
LEMMA AppendVersion ==
    ASSUME TypeOK, NEW r \in Runs, NEW state \in States,
           versions' = [versions EXCEPT ![r] = Append(@, state)]
    PROVE  /\ versions' \in [Runs -> Seq(States)]
           /\ \A q \in Runs : Len(versions'[q]) = IF q = r THEN Len(versions[q]) + 1 ELSE Len(versions[q])
           /\ \A q \in Runs : \A k \in 1 .. Len(versions[q]) : versions'[q][k] = versions[q][k]
           /\ versions'[r][Len(versions[r]) + 1] = state
<1>1. versions[r] \in Seq(States) /\ versions \in [Runs -> Seq(States)]
    BY Zenon DEF TypeOK
<1>2. versions'[r] = Append(versions[r], state) /\ \A q \in Runs \ {r} : versions'[q] = versions[q]
    BY <1>1, Zenon
<1>3. /\ Append(versions[r], state) \in Seq(States)
      /\ Len(Append(versions[r], state)) = Len(versions[r]) + 1
      /\ \A k \in 1 .. Len(versions[r]) : Append(versions[r], state)[k] = versions[r][k]
      /\ Append(versions[r], state)[Len(versions[r]) + 1] = state
    BY <1>1, AppendProperties
<1> QED BY <1>1, <1>2, <1>3, Zenon

\* The first version of a run.
LEMMA FirstVersion ==
    ASSUME TypeOK, NEW r \in Runs, CreateRun(r)
    PROVE  Len(versions[r]) = 0 /\ \E state \in States \ {"deleted"} :
                versions' = [versions EXCEPT ![r] = Append(@, state)]
<1>1. Len(versions[r]) = 0
    BY EmptySeq, Zenon DEF CreateRun
<1> QED BY <1>1, Zenon DEF CreateRun, States

-----------------------------------------------------------------------------
\* The invariant holds initially.
LEMMA ControllerInit == Init => ControllerInv
<1> SUFFICES ASSUME Init PROVE ControllerInv
    BY Zenon
<1>1. TypeOK
  <2>1. versions \in [Runs -> Seq(States)] /\ \A r \in Runs : Len(versions[r]) = 0
    BY DEF Init
  <2>2. timer \in [Runs -> Nat \cup {Never}] /\ \A r \in Runs : timer[r] <= Duration
    BY TicksType DEF Init, Never
  <2>3. age \in [Runs -> 0 .. Duration] /\ phase \in [Runs -> 0 .. TicksPerSecond - 1]
    BY TicksType DEF Init
  <2>4. faults \in 0 .. MaxFaults
    BY ControllerAssumption DEF Init
  <2> QED BY <2>1, <2>2, <2>3, <2>4 DEF Init, TypeOK, Idle, Steps
<1>2. HistoryInv
    BY DEF Init, HistoryInv, LegalHistory, Idle, SettingUp, CleaningUp
<1>3. ClusterInv /\ ClockInv
    BY Zenon DEF Init, ClusterInv, ClockInv, PodIsolated, Idle
<1> QED BY <1>1, <1>2, <1>3, Zenon DEF ControllerInv

-----------------------------------------------------------------------------
\* The types that the runs' versions, the cache and the worker have.
VersionsOK ==
    /\ versions \in [Runs -> Seq(States)]
    /\ cached \in [Runs -> Nat] /\ \A r \in Runs : cached[r] <= Len(versions[r])
    /\ cachedReads \in BOOLEAN
WorkerOK ==
    /\ worker \in [pc : Steps, run : Runs \cup {NoRun}, seen : Nat]
    /\ worker.pc = "idle" => worker = Idle
    /\ worker.pc # "idle" => worker.run \in Runs /\ worker.seen \in 1 .. Len(versions[worker.run])
TimersOK ==
    /\ timer \in [Runs -> Nat \cup {Never}]
    /\ \A r \in Runs : timer[r] <= Duration \/ timer[r] <= MonitorPeriod
NamespacesOK ==
    /\ ns \in [Submissions -> {"absent", "active", "terminating"}]
    /\ objects \in [Submissions -> [Kinds -> Runs \cup {NoRun}]]
ClocksOK ==
    /\ age \in [Runs -> 0 .. Duration]
    /\ phase \in [Runs -> 0 .. TicksPerSecond - 1]

\* TypeOK by its parts.
LEMMA TypeParts ==
    TypeOK <=> /\ VersionsOK /\ WorkerOK /\ TimersOK /\ NamespacesOK /\ ClocksOK
               /\ queue \subseteq Runs /\ faults \in 0 .. MaxFaults
BY Zenon DEF TypeOK, VersionsOK, WorkerOK, TimersOK, NamespacesOK, ClocksOK

\* A read returns a version there is.
LEMMA ReadType ==
    ASSUME TypeOK, NEW r \in Runs
    PROVE  /\ cached[r] \in Nat /\ Len(versions[r]) \in Nat /\ cached[r] <= Len(versions[r])
           /\ ReadVersion(r) \in Nat /\ ReadVersion(r) <= Len(versions[r])
<1>1. cached[r] \in Nat /\ cached[r] <= Len(versions[r]) /\ versions[r] \in Seq(States)
    BY Zenon DEF TypeOK
<1>2. Len(versions[r]) \in Nat
    BY <1>1, LenProperties, Zenon
<1> QED BY <1>1, <1>2 DEF ReadVersion

\* The same after a step.
LEMMA TypePartsNext ==
    TypeOK' <=> /\ VersionsOK' /\ WorkerOK' /\ TimersOK' /\ NamespacesOK' /\ ClocksOK'
                /\ queue' \subseteq Runs /\ faults' \in 0 .. MaxFaults
BY Zenon DEF TypeOK, VersionsOK, WorkerOK, TimersOK, NamespacesOK, ClocksOK

\* The worker returns an error or ends: it is idle again.
LEMMA IdleOK == ASSUME worker' = Idle PROVE WorkerOK'
BY Zenon DEF WorkerOK, Idle, Steps

\* Users' and the cluster's steps preserve the types.
LEMMA TypesOfOthers ==
    ASSUME TypeOK, NEW r \in Runs, NEW s \in Submissions,
           CreateRun(r) \/ DeleteRun(r) \/ NamespaceGone(s) \/ Tick \/ Observe(r) \/ TimerFires(r) \/ Restart
    PROVE  TypeOK'
<1> USE TypeParts
<1>1. CASE CreateRun(r)
  <2>0. PICK state \in States : versions' = [versions EXCEPT ![r] = Append(@, state)]
    BY <1>1, FirstVersion, Zenon
  <2>a. UNCHANGED <<cached, cachedReads, queue, timer, worker, ns, objects, age, phase, faults>>
    BY <1>1, Zenon DEF CreateRun, clusterVars, clockVars
  <2>1. versions' \in [Runs -> Seq(States)]
        /\ \A q \in Runs : Len(versions'[q]) \in Nat /\ Len(versions[q]) \in Nat
                              /\ Len(versions'[q]) >= Len(versions[q])
    BY <2>0, AppendVersion DEF VersionsOK
  <2>2. VersionsOK' /\ WorkerOK'
    BY <2>1, <2>a DEF VersionsOK, WorkerOK
  <2> QED BY <2>2, <2>a, TypePartsNext, Zenon DEF TimersOK, NamespacesOK, ClocksOK
<1>2. CASE DeleteRun(r)
  <2> USE <1>2 DEF DeleteRun, clusterVars, clockVars
  <2>1. versions' = [versions EXCEPT ![r] = Append(@, "deleted")] /\ "deleted" \in States
    BY Zenon DEF States
  <2>2. versions' \in [Runs -> Seq(States)]
        /\ \A q \in Runs : Len(versions'[q]) \in Nat /\ Len(versions[q]) \in Nat
                              /\ Len(versions'[q]) >= Len(versions[q])
    BY <2>1, AppendVersion DEF VersionsOK
  <2>3. VersionsOK' /\ WorkerOK'
    BY <2>2 DEF VersionsOK, WorkerOK
  <2> QED BY <2>3, TypePartsNext, Zenon DEF TimersOK, NamespacesOK, ClocksOK
<1>3. CASE NamespaceGone(s)
  <2>1. NamespacesOK'
    BY <1>3, Zenon DEF NamespaceGone, NamespacesOK
  <2> QED BY <1>3, <2>1, TypePartsNext, Zenon DEF NamespaceGone, VersionsOK, WorkerOK, TimersOK, ClocksOK, clockVars
<1>4. CASE Tick
  <2>1. \A q \in Runs : age[q] \in Nat /\ age[q] <= Duration
    BY TicksType DEF ClocksOK
  <2>2. age' \in [Runs -> 0 .. Duration]
    BY <1>4, <2>1, TicksType, SMTT(60) DEF Tick
  <2>3. timer' = [q \in Runs |-> IF timer[q] > 0 THEN timer[q] - 1 ELSE timer[q]]
    BY <1>4, Zenon DEF Tick
  <2>4. TimersOK'
    BY <2>3, TicksType DEF TimersOK, Never
  <2> QED BY <1>4, <2>2, <2>4, TypePartsNext, Zenon
          DEF Tick, VersionsOK, WorkerOK, NamespacesOK, ClocksOK, clusterVars
<1>5. CASE Observe(r)
  <2>1. VersionsOK'
    BY <1>5 DEF Observe, VersionsOK
  <2> QED BY <1>5, <2>1, TypePartsNext, Zenon
          DEF Observe, WorkerOK, TimersOK, NamespacesOK, ClocksOK, clusterVars, clockVars
<1>6. CASE TimerFires(r)
  <2>1. timer' = [timer EXCEPT ![r] = Never]
    BY <1>6, Zenon DEF TimerFires
  <2>2. TimersOK'
    BY <2>1, TicksType DEF TimersOK, Never
  <2> QED BY <1>6, <2>2, TypePartsNext, Zenon
          DEF TimerFires, VersionsOK, WorkerOK, NamespacesOK, ClocksOK, clusterVars, clockVars
<1>7. CASE Restart
  <2> USE <1>7 DEF Restart, clusterVars, clockVars
  <2>1. VersionsOK'
    BY DEF VersionsOK
  <2>2. TimersOK'
    BY TicksType DEF TimersOK, Never
  <2>3. faults' \in 0 .. MaxFaults
    BY ControllerAssumption DEF Fault
  <2> QED BY <2>1, <2>2, <2>3, IdleOK, TypePartsNext, Zenon DEF NamespacesOK, ClocksOK
<1> QED BY <1>1, <1>2, <1>3, <1>4, <1>5, <1>6, <1>7, Zenon

\* Get preserves the types.
LEMMA TypesOfGet == ASSUME TypeOK, NEW r \in Runs, Get(r) PROVE TypeOK'
<1> USE TypeParts
<1>1. UNCHANGED <<versions, cached, cachedReads, ns, objects, age, phase, faults>> /\ queue' \subseteq Runs
    BY Zenon DEF Get, clusterVars, clockVars
<1>2. VersionsOK' /\ NamespacesOK' /\ ClocksOK'
    BY <1>1, Zenon DEF VersionsOK, NamespacesOK, ClocksOK
<1>3. CASE UNCHANGED <<worker, timer>>
    BY <1>1, <1>2, <1>3, TypePartsNext, Zenon DEF WorkerOK, TimersOK
<1>4. ASSUME NEW pc \in {"namespace", "delete"}, StateOf(r, ReadVersion(r)) # "deleted",
             worker' = [pc |-> pc, run |-> r, seen |-> ReadVersion(r)], UNCHANGED timer
      PROVE  TypeOK'
  <2>0. ReadVersion(r) # 0
    BY <1>4, Zenon DEF StateOf
  <2>1. ReadVersion(r) \in 1 .. Len(versions[r]) /\ ReadVersion(r) \in Nat
    BY <2>0, ReadType
  <2>2. WorkerOK'
    BY <1>1, <1>4, <2>1, Zenon DEF WorkerOK, Steps
  <2> QED BY <1>1, <1>2, <1>4, <2>2, TypePartsNext, Zenon DEF TimersOK
<1>5. CASE ~Expired(r) /\ Requeue(r) /\ UNCHANGED worker
  <2> DEFINE d == Duration - Elapsed(r)
  <2>1. d \in Nat /\ d <= Duration
    BY <1>5, ElapsedType, TicksType DEF Expired
  <2>2. TimersOK'
    BY <1>5, <2>1, AddAfterType, Zenon DEF Requeue, TimersOK
  <2> QED BY <1>1, <1>2, <1>5, <2>2, TypePartsNext, Zenon DEF WorkerOK
<1> QED BY <1>3, <1>4, <1>5, Zenon DEF Get

\* NextCall goes on to a step of the setup.
LEMMA NextCallType ==
    ASSUME NEW pc \in {"namespace", "quota", "netpol", "pod"}
    PROVE  NextCall(pc) \in SettingUp \ {"namespace"}
BY Zenon DEF NextCall, SettingUp

\* The worker's steps preserve the types.
LEMMA TypesOfWorker == ASSUME TypeOK, Reconcile \/ CallFails PROVE TypeOK'
<1> USE TypeParts
<1>0. worker.pc # "idle" => worker.run \in Runs /\ SubmissionOf[worker.run] \in Submissions
    BY Zenon DEF WorkerOK, Submissions
<1>a. Fault => faults' \in 0 .. MaxFaults
    BY ControllerAssumption DEF Fault
<1>1. ASSUME NEW pc \in Steps \ {"idle"}, worker.pc # "idle", worker' = [worker EXCEPT !.pc = pc],
             UNCHANGED versions
      PROVE  WorkerOK'
    BY <1>1, Zenon DEF WorkerOK
<1>2. CASE CallFails
  <2>1. worker' = Idle /\ queue' \subseteq Runs
    BY <1>0, <1>2, Zenon DEF CallFails, AfterFailure, ReturnError, WorkerOK
  <2>2. faults' \in 0 .. MaxFaults
    BY <1>2, <1>a, Zenon DEF CallFails
  <2> QED BY <1>2, <2>1, <2>2, IdleOK, TypePartsNext, Zenon
          DEF CallFails, VersionsOK, TimersOK, NamespacesOK, ClocksOK, clusterVars, clockVars
<1>3. CASE CreateNamespace
  <2> USE <1>3 DEF CreateNamespace
  <2>1. NextCall(worker.pc) \in Steps \ {"idle"} /\ worker.pc # "idle"
    BY NextCallType, Zenon DEF SettingUp, Steps, Kinds
  <2>2. WorkerOK'
    BY <1>1, <2>1, Zenon
  <2>3. NamespacesOK'
    BY ZenonT(30) DEF NamespacesOK
  <2> QED BY <2>2, <2>3, TypePartsNext, Zenon DEF VersionsOK, TimersOK, ClocksOK, clockVars
<1>4. CASE CreateObject
  <2>0. worker.pc \in Kinds /\ worker.pc # "idle"
        /\ UNCHANGED <<versions, cached, cachedReads, timer, ns, age, phase, faults>>
    BY <1>4, Zenon DEF CreateObject, Kinds, clockVars
  <2>1. CASE worker' = [worker EXCEPT !.pc = NextCall(@)] /\ UNCHANGED queue
            /\ objects' = [objects EXCEPT ![SubmissionOf[worker.run]][worker.pc] =
                                IF @ = NoRun THEN worker.run ELSE @]
    <3>1. NextCall(worker.pc) \in Steps \ {"idle"}
      BY <2>0, NextCallType, Zenon DEF SettingUp, Steps, Kinds
    <3>2. WorkerOK'
      BY <1>1, <2>0, <2>1, <3>1, Zenon
    <3>3. NamespacesOK'
      BY <1>0, <2>0, <2>1, Zenon DEF NamespacesOK
    <3> QED BY <2>0, <2>1, <3>2, <3>3, TypePartsNext, Zenon DEF VersionsOK, TimersOK, ClocksOK
  <2>2. CASE ReturnError /\ UNCHANGED objects
    <3>1. worker' = Idle /\ queue' \subseteq Runs
      BY <1>0, <2>0, <2>2, Zenon DEF ReturnError
    <3> QED BY <2>0, <2>2, <3>1, IdleOK, TypePartsNext, Zenon
            DEF VersionsOK, TimersOK, NamespacesOK, ClocksOK
  <2> QED BY <1>4, <2>1, <2>2, Zenon DEF CreateObject
<1>5. CASE UpdateRunning
  <2>0. worker.pc # "idle" /\ UNCHANGED <<cached, cachedReads, ns, objects, age>>
    BY <1>5, Zenon DEF UpdateRunning, clusterVars
  <2>a. AnswerLost => worker' = Idle /\ queue' \subseteq Runs /\ faults' \in 0 .. MaxFaults
    BY <1>0, <1>a, <2>0, Zenon DEF AnswerLost, ReturnError
  <2>1. ASSUME NEW p \in 0 .. TicksPerSecond - 1,
               versions' = [versions EXCEPT ![worker.run] = Append(@, "Running")],
               phase' = [phase EXCEPT ![worker.run] = p],
               \/ AddAfter(worker.run, MonitorPeriod) /\ worker' = Idle /\ UNCHANGED <<queue, faults>>
               \/ AnswerLost /\ UNCHANGED timer
        PROVE  TypeOK'
    <3>1. "Running" \in States
      BY Zenon DEF States
    <3>2. versions' \in [Runs -> Seq(States)]
          /\ \A q \in Runs : Len(versions'[q]) \in Nat /\ Len(versions[q]) \in Nat
                                /\ Len(versions'[q]) >= Len(versions[q])
      BY <1>0, <2>0, <2>1, <3>1, AppendVersion, SMTT(60) DEF VersionsOK
    <3>3. VersionsOK'
      BY <2>0, <3>2 DEF VersionsOK
    <3>4. TimersOK'
      <4>1. CASE UNCHANGED timer
        BY <4>1, Zenon DEF TimersOK
      <4>2. CASE AddAfter(worker.run, MonitorPeriod)
        BY <1>0, <2>0, <4>2, TicksType, AddAfterType DEF TimersOK
      <4> QED BY <2>1, <4>1, <4>2, Zenon
    <3>5. ClocksOK'
      BY <2>0, <2>1, ZenonT(30) DEF ClocksOK
    <3>6. worker' = Idle /\ queue' \subseteq Runs /\ faults' \in 0 .. MaxFaults
      BY <2>1, <2>a, Zenon
    <3> QED BY <2>0, <3>3, <3>4, <3>5, <3>6, IdleOK, TypePartsNext, Zenon DEF NamespacesOK
  <2>2. CASE ReturnError /\ UNCHANGED <<versions, phase, timer, faults>>
    <3>1. worker' = Idle /\ queue' \subseteq Runs
      BY <1>0, <2>0, <2>2, Zenon DEF ReturnError
    <3> QED BY <2>0, <2>2, <3>1, IdleOK, TypePartsNext, Zenon
            DEF VersionsOK, TimersOK, NamespacesOK, ClocksOK
  <2> QED BY <1>5, <2>1, <2>2, Zenon DEF UpdateRunning
<1>6. CASE DeleteNamespace
  <2> USE <1>6 DEF DeleteNamespace
  <2>1. WorkerOK'
    BY <1>1, Zenon DEF Steps
  <2>2. NamespacesOK'
    BY ZenonT(30) DEF NamespacesOK, Deletes
  <2> QED BY <2>1, <2>2, TypePartsNext, Zenon DEF VersionsOK, TimersOK, ClocksOK, clockVars
<1>7. CASE UpdateSucceeded
  <2>0. worker.pc # "idle" /\ UNCHANGED <<cached, cachedReads, timer, ns, objects, age, phase>>
    BY <1>7, Zenon DEF UpdateSucceeded, clusterVars, clockVars
  <2>a. AnswerLost => worker' = Idle /\ queue' \subseteq Runs /\ faults' \in 0 .. MaxFaults
    BY <1>0, <1>a, <2>0, Zenon DEF AnswerLost, ReturnError
  <2>1. CASE /\ versions' = [versions EXCEPT ![worker.run] = Append(@, "Succeeded")]
             /\ \/ worker' = Idle /\ UNCHANGED <<queue, faults>>
                \/ AnswerLost
    <3>1. "Succeeded" \in States
      BY Zenon DEF States
    <3>2. versions' \in [Runs -> Seq(States)]
          /\ \A q \in Runs : Len(versions'[q]) \in Nat /\ Len(versions[q]) \in Nat
                                /\ Len(versions'[q]) >= Len(versions[q])
      BY <1>0, <2>0, <2>1, <3>1, AppendVersion, SMTT(60) DEF VersionsOK
    <3>3. VersionsOK'
      BY <2>0, <3>2 DEF VersionsOK
    <3>4. worker' = Idle /\ queue' \subseteq Runs /\ faults' \in 0 .. MaxFaults
      BY <2>1, <2>a, Zenon
    <3> QED BY <2>0, <3>3, <3>4, IdleOK, TypePartsNext, Zenon DEF TimersOK, NamespacesOK, ClocksOK
  <2>2. CASE ReturnError /\ UNCHANGED <<versions, faults>>
    <3>1. worker' = Idle /\ queue' \subseteq Runs
      BY <1>0, <2>0, <2>2, Zenon DEF ReturnError
    <3> QED BY <2>0, <2>2, <3>1, IdleOK, TypePartsNext, Zenon
            DEF VersionsOK, TimersOK, NamespacesOK, ClocksOK
  <2> QED BY <1>7, <2>1, <2>2, Zenon DEF UpdateSucceeded
<1> QED BY <1>2, <1>3, <1>4, <1>5, <1>6, <1>7, Zenon DEF Reconcile

-----------------------------------------------------------------------------
\* What may follow a version.
Follows(old, new) ==
    <<old, new>> \in {<<"", "Running">>, <<"Running", "Succeeded">>}
                        \cup ((States \ {"deleted"}) \X {"deleted"})

\* Adding a version that may follow the last one keeps the history legal.
LEMMA LegalAppend ==
    ASSUME TypeOK, LegalHistory, NEW r \in Runs, NEW state \in States,
           versions' = [versions EXCEPT ![r] = Append(@, state)],
           Len(versions[r]) > 0 => Follows(versions[r][Len(versions[r])], state)
    PROVE  LegalHistory'
<1>1. /\ \A q \in Runs : Len(versions'[q]) = IF q = r THEN Len(versions[q]) + 1 ELSE Len(versions[q])
      /\ \A q \in Runs : \A k \in 1 .. Len(versions[q]) : versions'[q][k] = versions[q][k]
      /\ versions'[r][Len(versions[r]) + 1] = state
    BY AppendVersion, ZenonT(30)
<1>2. \A q \in Runs : Len(versions[q]) \in Nat
    BY ReadType, Zenon
<1>3. SUFFICES ASSUME NEW q \in Runs, NEW k \in 2 .. Len(versions'[q])
               PROVE  Follows(versions'[q][k - 1], versions'[q][k])
    BY Zenon DEF LegalHistory, Follows
<1>4. CASE k \in 2 .. Len(versions[q])
  <2>1. Follows(versions[q][k - 1], versions[q][k])
    BY <1>4, Zenon DEF LegalHistory, Follows
  <2>2. k \in 1 .. Len(versions[q]) /\ k - 1 \in 1 .. Len(versions[q])
    BY <1>2, <1>4
  <2>3. versions'[q][k - 1] = versions[q][k - 1] /\ versions'[q][k] = versions[q][k]
    BY <1>1, <2>2, Zenon
  <2> QED BY <2>1, <2>3, Zenon
<1>5. CASE k \notin 2 .. Len(versions[q])
  <2>1. q = r /\ k = Len(versions[r]) + 1 /\ k - 1 = Len(versions[r]) /\ Len(versions[r]) \in 1 .. Len(versions[r])
    BY <1>1, <1>2, <1>5
  <2>2. versions'[q][k - 1] = versions[r][Len(versions[r])] /\ versions'[q][k] = state
    BY <1>1, <2>1, Zenon
  <2>3. Follows(versions[r][Len(versions[r])], state)
    BY <1>2, <2>1
  <2> QED BY <2>2, <2>3, Zenon
<1> QED BY <1>4, <1>5, Zenon

\* What the worker read is still what that version says.
LEMMA ReadKept ==
    ASSUME TypeOK, HistoryInv, NEW r \in Runs, NEW state \in States,
           versions' = [versions EXCEPT ![r] = Append(@, state)], UNCHANGED worker
    PROVE  /\ worker'.pc \in SettingUp => versions'[worker'.run][worker'.seen] = ""
           /\ worker'.pc \in CleaningUp => versions'[worker'.run][worker'.seen] = "Running"
<1>1. \A q \in Runs : \A k \in 1 .. Len(versions[q]) : versions'[q][k] = versions[q][k]
    BY AppendVersion, Zenon
<1>2. worker.pc \in SettingUp \cup CleaningUp =>
        worker.run \in Runs /\ worker.seen \in 1 .. Len(versions[worker.run])
    BY Zenon DEF TypeOK, SettingUp, CleaningUp
<1>3. worker' = worker
    BY Zenon
<1>4. worker.pc \in SettingUp \cup CleaningUp =>
        versions'[worker.run][worker.seen] = versions[worker.run][worker.seen]
    BY <1>1, <1>2, Zenon
<1> QED BY <1>3, <1>4, Zenon DEF HistoryInv

\* An idle worker has read nothing.
LEMMA IdleRead == worker' = Idle => worker'.pc \notin SettingUp \cup CleaningUp
BY DEF Idle, SettingUp, CleaningUp

\* Every step preserves the history.
LEMMA HistoryNext == TypeOK /\ HistoryInv /\ [Next]_vars => HistoryInv'
<1> SUFFICES ASSUME TypeOK, HistoryInv, [Next]_vars PROVE HistoryInv'
    BY Zenon
<1>0. LegalHistory
    BY Zenon DEF HistoryInv
<1>a. worker.pc # "idle" => worker.run \in Runs /\ worker.seen \in 1 .. Len(versions[worker.run])
    BY Zenon DEF TypeOK
<1>b. \A r \in Runs : Len(versions[r]) \in Nat
    BY ReadType, Zenon
<1>1. ASSUME NEW r \in Runs, CreateRun(r) PROVE HistoryInv'
  <2>1. PICK state \in States : versions' = [versions EXCEPT ![r] = Append(@, state)] /\ Len(versions[r]) = 0
    BY <1>1, FirstVersion, Zenon
  <2>2. UNCHANGED worker
    BY <1>1, Zenon DEF CreateRun
  <2>3. Len(versions[r]) > 0 => Follows(versions[r][Len(versions[r])], state)
    BY <2>1
  <2>4. LegalHistory'
    BY <1>0, <2>1, <2>3, LegalAppend, ZenonT(30)
  <2> QED BY <2>1, <2>2, <2>4, ReadKept, Zenon DEF HistoryInv
<1>2. ASSUME NEW r \in Runs, DeleteRun(r) PROVE HistoryInv'
  <2>1. versions' = [versions EXCEPT ![r] = Append(@, "deleted")] /\ UNCHANGED worker /\ "deleted" \in States
    BY <1>2, Zenon DEF DeleteRun, States
  <2>2. ASSUME Len(versions[r]) > 0 PROVE Follows(versions[r][Len(versions[r])], "deleted")
    <3>1. versions[r][Len(versions[r])] \in States
      BY <1>b, <2>2, ElementOfSeq DEF TypeOK
    <3>2. versions[r][Len(versions[r])] # "deleted"
      BY <1>2, <1>b, <2>2, Zenon DEF DeleteRun, State, StateOf
    <3> QED BY <3>1, <3>2, Zenon DEF Follows
  <2> QED BY <1>0, <2>1, <2>2, LegalAppend, ReadKept, Zenon DEF HistoryInv
<1>3. CASE UNCHANGED <<versions, worker>>
    BY <1>3, Zenon DEF HistoryInv, LegalHistory
<1>4. CASE worker' = Idle /\ UNCHANGED versions
    BY <1>4, IdleRead, Zenon DEF HistoryInv, LegalHistory
<1>5. ASSUME NEW r \in Runs, Get(r) PROVE HistoryInv'
  <2>1. UNCHANGED versions
    BY <1>5, Zenon DEF Get
  <2>2. ASSUME NEW pc \in {"namespace", "delete"}, worker' = [pc |-> pc, run |-> r, seen |-> ReadVersion(r)],
               StateOf(r, ReadVersion(r)) = IF pc = "namespace" THEN "" ELSE "Running"
        PROVE  HistoryInv'
    <3>1. versions[r][ReadVersion(r)] = IF pc = "namespace" THEN "" ELSE "Running"
      BY <2>2, Zenon DEF StateOf
    <3> QED BY <1>0, <2>1, <2>2, <3>1, Zenon DEF HistoryInv, LegalHistory, SettingUp, CleaningUp
  <2> QED BY <1>3, <1>5, <2>1, <2>2, Zenon DEF Get
<1>6. CASE CreateNamespace \/ CreateObject
  <2>1. UNCHANGED versions /\ worker.pc \in {"namespace", "quota", "netpol", "pod"}
    BY <1>6, Zenon DEF CreateNamespace, CreateObject, Kinds
  <2>2. CASE worker' = [worker EXCEPT !.pc = NextCall(@)]
    <3>1. worker'.run = worker.run /\ worker'.seen = worker.seen /\ worker'.pc \in SettingUp
      BY <2>1, <2>2, NextCallType, Zenon DEF TypeOK
    <3>2. worker.pc \in SettingUp /\ SettingUp \cap CleaningUp = {}
      BY <2>1, Zenon DEF SettingUp, CleaningUp
    <3> QED BY <1>0, <2>1, <3>1, <3>2, Zenon DEF HistoryInv, LegalHistory
  <2> QED BY <1>4, <1>6, <2>1, <2>2, Zenon DEF CreateNamespace, CreateObject, ReturnError
<1>7. ASSUME NEW state \in {"Running", "Succeeded"}, worker.pc # "idle", Accepted, worker' = Idle,
             versions' = [versions EXCEPT ![worker.run] = Append(@, state)],
             versions[worker.run][worker.seen] = IF state = "Running" THEN "" ELSE "Running"
      PROVE  HistoryInv'
  <2>1. worker.seen = Len(versions[worker.run]) /\ worker.run \in Runs /\ state \in States
    BY <1>a, <1>7, Zenon DEF Accepted, States
  <2>2. Follows(versions[worker.run][Len(versions[worker.run])], state)
    BY <1>7, <2>1, Zenon DEF Follows
  <2>3. LegalHistory'
    BY <1>0, <1>7, <2>1, <2>2, LegalAppend, Zenon
  <2> QED BY <1>7, <2>3, IdleRead, Zenon DEF HistoryInv
<1>8. CASE UpdateRunning
  <2>1. worker.pc # "idle" /\ versions[worker.run][worker.seen] = ""
    BY <1>8, Zenon DEF UpdateRunning, HistoryInv, SettingUp
  <2> QED BY <1>4, <1>7, <1>8, <2>1, Zenon DEF UpdateRunning, AnswerLost, ReturnError
<1>9. CASE UpdateSucceeded
  <2>1. worker.pc # "idle" /\ versions[worker.run][worker.seen] = "Running"
    BY <1>9, Zenon DEF UpdateSucceeded, HistoryInv, CleaningUp
  <2> QED BY <1>4, <1>7, <1>9, <2>1, Zenon DEF UpdateSucceeded, AnswerLost, ReturnError
<1>10. CASE DeleteNamespace
  <2>1. UNCHANGED versions /\ worker.pc = "delete" /\ worker' = [worker EXCEPT !.pc = "succeeded"]
    BY <1>10, Zenon DEF DeleteNamespace
  <2>2. worker'.run = worker.run /\ worker'.seen = worker.seen /\ worker'.pc = "succeeded"
    BY <2>1, Zenon DEF TypeOK
  <2> QED BY <1>0, <2>1, <2>2, Zenon DEF HistoryInv, LegalHistory, SettingUp, CleaningUp
<1>11. ASSUME NEW r \in Runs, Observe(r) \/ TimerFires(r) PROVE HistoryInv'
    BY <1>3, <1>11, Zenon DEF Observe, TimerFires
<1>12. CASE Tick \/ CallFails \/ Restart \/ \E s \in Submissions : NamespaceGone(s)
    BY <1>3, <1>4, <1>12, Zenon DEF Tick, CallFails, AfterFailure, ReturnError, Restart, NamespaceGone
<1>13. CASE UNCHANGED vars
    BY <1>3, <1>13, Zenon DEF vars
<1> QED BY <1>1, <1>2, <1>5, <1>6, <1>8, <1>9, <1>10, <1>11, <1>12, <1>13, Zenon DEF Next, Reconcile

\* What Get may start.
LEMMA GetStarts ==
    ASSUME NEW r \in Runs, Get(r)
    PROVE  \/ UNCHANGED worker
           \/ worker'.pc = "namespace"
           \/ worker'.pc = "delete" /\ worker'.run = r /\ Expired(r)
<1>1. \/ UNCHANGED worker
      \/ worker' = [pc |-> "namespace", run |-> r, seen |-> ReadVersion(r)]
      \/ worker' = [pc |-> "delete", run |-> r, seen |-> ReadVersion(r)] /\ Expired(r)
    BY Zenon DEF Get
<1> QED BY <1>1

-----------------------------------------------------------------------------
\* Every step preserves what is known of the namespaces.
LEMMA ClusterNext == TypeOK /\ ClusterInv /\ [Next]_vars => ClusterInv'
<1> SUFFICES ASSUME TypeOK, ClusterInv, [Next]_vars PROVE ClusterInv'
    BY Zenon
<1>0. worker.pc # "idle" => worker.run \in Runs /\ SubmissionOf[worker.run] \in Submissions
    BY Zenon DEF TypeOK, Submissions
<1>a. NoRun \notin Runs
    BY ControllerAssumption, Zenon
<1>1. CASE UNCHANGED <<ns, objects>> /\ (UNCHANGED worker \/ worker'.pc \notin {"netpol", "pod"})
  <2>1. PodIsolated' /\ \A s \in Submissions : ns'[s] = "absent" => \A k \in Kinds : objects'[s][k] = NoRun
    BY <1>1, Zenon DEF ClusterInv, PodIsolated
  <2>2. CASE UNCHANGED worker
    BY <1>1, <2>1, <2>2, Zenon DEF ClusterInv
  <2>3. CASE worker'.pc \notin {"netpol", "pod"}
    BY <1>1, <2>1, <2>3, Zenon DEF ClusterInv
  <2> QED BY <1>1, <2>2, <2>3, Zenon
<1>2. ASSUME NEW s \in Submissions, NamespaceGone(s) PROVE ClusterInv'
  <2>1. UNCHANGED worker
    BY <1>2, Zenon DEF NamespaceGone
  <2>2. \A t \in Submissions : ns'[t] = IF t = s THEN "absent" ELSE ns[t]
    BY <1>2, Zenon DEF NamespaceGone, TypeOK
  <2>3. \A t \in Submissions, k \in Kinds : objects'[t][k] = IF t = s THEN NoRun ELSE objects[t][k]
    BY <1>2, Zenon DEF NamespaceGone, TypeOK
  <2>4. PodIsolated' /\ \A t \in Submissions : ns'[t] = "absent" => \A k \in Kinds : objects'[t][k] = NoRun
    BY <2>2, <2>3, SMTT(60) DEF ClusterInv, PodIsolated, Kinds
  <2> QED BY <1>0, <2>1, <2>2, <2>3, <2>4, Zenon DEF ClusterInv, Kinds
<1>3. ASSUME NEW r \in Runs, Get(r) PROVE ClusterInv'
  <2>1. UNCHANGED <<ns, objects>>
    BY <1>3, Zenon DEF Get, clusterVars
  <2>2. UNCHANGED worker \/ worker'.pc = "namespace" \/ worker'.pc = "delete"
    BY <1>3, GetStarts, Zenon
  <2> QED BY <1>1, <2>1, <2>2, Zenon
<1>4. CASE CreateNamespace
  <2> DEFINE s == SubmissionOf[worker.run]
  <2>1. s \in Submissions /\ UNCHANGED objects /\ worker'.pc = "quota"
    BY <1>0, <1>4, Zenon DEF CreateNamespace, NextCall, TypeOK
  <2>2. \A t \in Submissions : ns'[t] = IF t = s /\ ns[t] = "absent" THEN "active" ELSE ns[t]
    BY <1>4, Zenon DEF CreateNamespace, TypeOK
  <2>3. PodIsolated' /\ \A t \in Submissions : ns'[t] = "absent" => \A k \in Kinds : objects'[t][k] = NoRun
    BY <2>1, <2>2, Zenon DEF ClusterInv, PodIsolated, Kinds
  <2> QED BY <2>1, <2>3, Zenon DEF ClusterInv
<1>5. CASE CreateObject
  <2> DEFINE s == SubmissionOf[worker.run]
  <2>0. worker.pc \in Kinds /\ worker.run \in Runs /\ s \in Submissions /\ UNCHANGED ns
    BY <1>0, <1>5, Zenon DEF CreateObject, Kinds
  <2>1. CASE /\ ns[s] = "active"
             /\ objects' = [objects EXCEPT ![s][worker.pc] = IF @ = NoRun THEN worker.run ELSE @]
             /\ worker' = [worker EXCEPT !.pc = NextCall(@)]
    <3>1. \A t \in Submissions, k \in Kinds :
            objects'[t][k] = IF t = s /\ k = worker.pc /\ objects[t][k] = NoRun THEN worker.run
                             ELSE objects[t][k]
      BY <2>0, <2>1, Zenon DEF TypeOK
    <3>2. worker'.run = worker.run
          /\ worker'.pc = CASE worker.pc = "quota" -> "netpol" [] worker.pc = "netpol" -> "pod"
                             [] worker.pc = "pod" -> "running"
      BY <2>0, <2>1, Zenon DEF NextCall, Kinds, TypeOK
    <3>3. objects'[s][worker.pc] # NoRun
      BY <1>a, <2>0, <3>1, Zenon
    <3>4. \A t \in Submissions, k \in Kinds : objects[t][k] # NoRun => objects'[t][k] # NoRun
      BY <1>a, <2>0, <3>1, Zenon
    <3>5. worker.pc \in {"netpol", "pod"} => objects'[s]["quota"] # NoRun
      BY <2>0, <2>1, <3>4, Zenon DEF ClusterInv, Kinds
    <3>6. worker.pc = "pod" => objects'[s]["netpol"] # NoRun
      BY <2>0, <2>1, <3>4, Zenon DEF ClusterInv, Kinds
    <3>7. PodIsolated'
      <4> SUFFICES ASSUME NEW t \in Submissions, ns'[t] = "active", objects'[t]["pod"] # NoRun,
                          NEW k \in Kinds
                   PROVE  objects'[t][k] # NoRun
        BY Zenon DEF PodIsolated
      <4>1. CASE objects[t]["pod"] # NoRun
        BY <2>0, <3>4, <4>1, Zenon DEF ClusterInv, PodIsolated
      <4>2. CASE objects[t]["pod"] = NoRun
        <5>1. t = s /\ worker.pc = "pod"
          BY <3>1, <4>2, Zenon DEF Kinds
        <5> QED BY <3>3, <3>5, <3>6, <5>1, Zenon DEF Kinds
      <4> QED BY <4>1, <4>2, Zenon
    <3>8. \A t \in Submissions : ns'[t] = "absent" => \A k \in Kinds : objects'[t][k] = NoRun
      BY <2>0, <2>1, <3>1, SMTT(60) DEF ClusterInv
    <3>9. worker'.pc \in {"netpol", "pod"} => objects'[s]["quota"] # NoRun
      BY <2>0, <3>2, <3>3, <3>5, Zenon DEF Kinds
    <3>10. worker'.pc = "pod" => objects'[s]["netpol"] # NoRun
      BY <2>0, <3>2, <3>3, Zenon DEF Kinds
    <3> QED BY <3>2, <3>7, <3>8, <3>9, <3>10, ZenonT(30) DEF ClusterInv
  <2>2. CASE ReturnError /\ UNCHANGED objects
    BY <1>1, <2>0, <2>2, Zenon DEF ReturnError, Idle
  <2> QED BY <1>5, <2>1, <2>2, Zenon DEF CreateObject
<1>6. CASE DeleteNamespace
  <2> DEFINE s == SubmissionOf[worker.run]
  <2>1. UNCHANGED objects /\ worker'.pc = "succeeded"
    BY <1>6, Zenon DEF DeleteNamespace, TypeOK
  <2>2. \A t \in Submissions : ns'[t] = IF t = s /\ ns[t] = "active" THEN "terminating" ELSE ns[t]
    BY <1>6, Zenon DEF DeleteNamespace, Deletes, TypeOK
  <2>3. PodIsolated' /\ \A t \in Submissions : ns'[t] = "absent" => \A k \in Kinds : objects'[t][k] = NoRun
    BY <2>1, <2>2, Zenon DEF ClusterInv, PodIsolated
  <2> QED BY <2>1, <2>3, Zenon DEF ClusterInv
<1>7. CASE UpdateRunning \/ UpdateSucceeded \/ CallFails \/ Restart
  <2>1. UNCHANGED <<ns, objects>> /\ worker' = Idle
    BY <1>7, Zenon DEF UpdateRunning, UpdateSucceeded, CallFails, AfterFailure, Restart, AnswerLost, ReturnError, clusterVars
  <2> QED BY <1>1, <2>1, Zenon DEF Idle
<1>8. ASSUME NEW r \in Runs, CreateRun(r) \/ DeleteRun(r) \/ Observe(r) \/ TimerFires(r) PROVE ClusterInv'
    BY <1>1, <1>8, Zenon DEF CreateRun, DeleteRun, Observe, TimerFires, clusterVars
<1>9. CASE Tick \/ UNCHANGED vars
    BY <1>1, <1>9, Zenon DEF Tick, vars, clusterVars
<1> QED BY <1>2, <1>3, <1>4, <1>5, <1>6, <1>7, <1>8, <1>9, Zenon DEF Next, Reconcile

-----------------------------------------------------------------------------
\* Every step keeps a cleanup that was decided on due.
LEMMA ClockNext == TypeOK /\ ClockInv /\ [Next]_vars => ClockInv'
<1> SUFFICES ASSUME TypeOK, ClockInv, [Next]_vars PROVE ClockInv'
    BY Zenon
<1>1. CASE UNCHANGED <<age, phase, worker>>
    BY <1>1, Zenon DEF ClockInv, Expired, Elapsed
<1>2. CASE worker'.pc # "delete"
    BY <1>2, Zenon DEF ClockInv
<1>3. ASSUME NEW r \in Runs, Get(r) PROVE ClockInv'
  <2>1. UNCHANGED <<age, phase>>
    BY <1>3, Zenon DEF Get, clockVars
  <2>2. CASE worker'.pc = "delete" /\ worker'.run = r /\ Expired(r)
    BY <2>1, <2>2, Zenon DEF ClockInv, Expired, Elapsed
  <2>3. CASE worker'.pc = "namespace"
    BY <1>2, <2>3, Zenon
  <2> QED BY <1>1, <1>3, <2>1, <2>2, <2>3, GetStarts, Zenon
<1>4. CASE Tick
  <2>1. UNCHANGED <<phase, worker>>
    BY <1>4, Zenon DEF Tick
  <2>2. SUFFICES ASSUME worker.pc = "delete" PROVE Expired(worker.run)'
    BY <2>1, Zenon DEF ClockInv
  <2>3. worker.run \in Runs
    BY <2>2, Zenon DEF TypeOK
  <2>4. age'[worker.run] \in {age[worker.run], age[worker.run] + 1}
    BY <1>4, <2>3, Zenon DEF Tick
  <2>5. Elapsed(worker.run) >= Duration
    BY <2>2, Zenon DEF ClockInv, Expired
  <2>6. age[worker.run] \in Nat /\ phase[worker.run] \in Nat
    BY <2>3, ElapsedType, Zenon
  <2>7. age'[worker.run] + phase[worker.run] >= Duration
    BY <2>4, <2>5, <2>6, TicksType DEF Elapsed
  <2> QED BY <2>1, <2>7, Zenon DEF Expired, Elapsed
<1>5. CASE CreateNamespace \/ CreateObject
  <2>1. worker.pc \in {"namespace", "quota", "netpol", "pod"}
    BY <1>5, Zenon DEF CreateNamespace, CreateObject, Kinds
  <2>2. worker' = Idle \/ worker' = [worker EXCEPT !.pc = NextCall(@)]
    BY <1>5, Zenon DEF CreateNamespace, CreateObject, ReturnError
  <2>3. worker'.pc = "idle" \/ worker'.pc \in SettingUp
    BY <2>1, <2>2, NextCallType DEF Idle, TypeOK
  <2> QED BY <1>2, <2>3, Zenon DEF SettingUp
<1>6. CASE DeleteNamespace
  <2>1. worker'.pc = "succeeded"
    BY <1>6, Zenon DEF DeleteNamespace, TypeOK
  <2> QED BY <1>2, <2>1, Zenon
<1>7. CASE UpdateRunning \/ UpdateSucceeded \/ CallFails \/ Restart
  <2>1. worker' = Idle
    BY <1>7, Zenon DEF UpdateRunning, UpdateSucceeded, CallFails, AfterFailure, Restart, AnswerLost, ReturnError
  <2> QED BY <1>2, <2>1, Zenon DEF Idle
<1>8. ASSUME NEW r \in Runs, CreateRun(r) \/ DeleteRun(r) \/ Observe(r) \/ TimerFires(r) PROVE ClockInv'
    BY <1>1, <1>8, Zenon DEF CreateRun, DeleteRun, Observe, TimerFires, clockVars
<1>9. CASE UNCHANGED vars \/ \E s \in Submissions : NamespaceGone(s)
    BY <1>1, <1>9, Zenon DEF NamespaceGone, vars, clockVars
<1> QED BY <1>3, <1>4, <1>5, <1>6, <1>7, <1>8, <1>9, Zenon DEF Next, Reconcile

\* Every step preserves the types.
LEMMA TypesNext == TypeOK /\ [Next]_vars => TypeOK'
<1> SUFFICES ASSUME TypeOK, [Next]_vars PROVE TypeOK'
    BY Zenon
<1>1. ASSUME NEW r \in Runs, CreateRun(r) \/ DeleteRun(r) \/ Observe(r) \/ TimerFires(r) PROVE TypeOK'
  <2>1. SubmissionOf[r] \in Submissions
    BY Zenon DEF Submissions
  <2> QED BY <1>1, <2>1, TypesOfOthers, Zenon
<1>2. ASSUME NEW s \in Submissions, NamespaceGone(s) \/ Tick \/ Restart PROVE TypeOK'
  <2>1. PICK r \in Runs : s = SubmissionOf[r]
    BY Zenon DEF Submissions
  <2> QED BY <1>2, <2>1, TypesOfOthers, Zenon
<1>3. CASE (Tick \/ Restart) /\ Submissions = {}
  <2>1. Runs = {}
    BY <1>3, Zenon DEF Submissions
  <2>2. VersionsOK' /\ TimersOK' /\ NamespacesOK' /\ ClocksOK' /\ WorkerOK' /\ queue' \subseteq Runs
    BY <1>3, <2>1, TypeParts, IdleOK, ZenonT(30)
       DEF Tick, Restart, VersionsOK, TimersOK, NamespacesOK, ClocksOK, WorkerOK, clusterVars, clockVars
  <2>3. faults' \in 0 .. MaxFaults
    <3>1. faults \in 0 .. MaxFaults /\ MaxFaults \in Nat
      BY TypeParts, ControllerAssumption, Zenon
    <3>2. faults' = faults \/ (faults < MaxFaults /\ faults' = faults + 1)
      BY <1>3, Zenon DEF Tick, Restart, Fault
    <3> QED BY <3>1, <3>2
  <2> QED BY <2>2, <2>3, TypePartsNext, Zenon
<1>4. CASE UNCHANGED vars
    BY <1>4, TypeParts, TypePartsNext, Zenon
       DEF vars, clusterVars, clockVars, VersionsOK, TimersOK, NamespacesOK, ClocksOK, WorkerOK
<1> QED BY <1>1, <1>2, <1>3, <1>4, TypesOfGet, TypesOfWorker, Zenon DEF Next

-----------------------------------------------------------------------------
\* The state of a run is what its last version says.
LEMMA LastVersion ==
    ASSUME TypeOK, NEW r \in Runs
    PROVE  /\ Len(versions[r]) \in Nat /\ (versions[r] = <<>> <=> Len(versions[r]) = 0)
           /\ State(r) = IF Len(versions[r]) = 0 THEN "deleted" ELSE versions[r][Len(versions[r])]
<1>1. versions[r] \in Seq(States)
    BY Zenon DEF TypeOK
<1> QED BY <1>1, EmptySeq, LenProperties, Zenon DEF State, StateOf

\* A worker in the namespace of the only run of a submission works for it.
LEMMA SoleWorker ==
    ASSUME TypeOK, NEW r \in Runs, Sole(r), worker.pc # "idle",
           SubmissionOf[worker.run] = SubmissionOf[r]
    PROVE  worker.run = r
<1>1. worker.run \in Runs /\ worker.seen \in 1 .. Len(versions[worker.run])
    BY Zenon DEF TypeOK
<1>2. versions[worker.run] # <<>>
    BY <1>1, LastVersion
<1> QED BY <1>1, <1>2, Zenon DEF Sole

\* A run that has not started has a single version, and nobody cleans it up.
LEMMA PendingVersion ==
    ASSUME TypeOK, HistoryInv, NEW r \in Runs, Pending(r), worker.pc \in CleaningUp
    PROVE  worker.run # r
<1> SUFFICES ASSUME worker.run = r PROVE FALSE
    BY Zenon
<1>1. worker.seen \in 1 .. Len(versions[r]) /\ versions[r][worker.seen] = "Running"
    BY Zenon DEF TypeOK, HistoryInv, CleaningUp
<1>2. PICK n \in Nat : n = Len(versions[r]) /\ State(r) = IF n = 0 THEN "deleted" ELSE versions[r][n]
    BY LastVersion, Zenon
<1>3. PICK k \in 1 .. n : k = worker.seen /\ versions[r][k] = "Running"
    BY <1>1, <1>2, Zenon
<1>4. n # 0 /\ versions[r] # <<>>
    BY <1>2, <1>3, LastVersion
<1>5. versions[r][n] = ""
    BY <1>2, <1>4, Zenon DEF Pending
<1>6. n \in 2 .. n
  <2>1. k # n
    BY <1>3, <1>5, ZenonT(30)
  <2> QED BY <2>1
<1>7. Follows(versions[r][n - 1], versions[r][n])
    BY <1>2, <1>6, Zenon DEF HistoryInv, LegalHistory, Follows
<1> QED BY <1>5, <1>7, Zenon DEF Follows, States

\* A Succeeded run was Running in the version before.
LEMMA SucceededVersion ==
    ASSUME TypeOK, LegalHistory, ReadsInv, NEW r \in Runs, State(r) = "Succeeded"
    PROVE  /\ Len(versions[r]) \in Nat /\ Len(versions[r]) >= 2
           /\ versions[r][Len(versions[r])] = "Succeeded"
           /\ versions[r][Len(versions[r]) - 1] = "Running"
<1>1. PICK n \in Nat : n = Len(versions[r]) /\ n # 0 /\ versions[r][n] = "Succeeded"
    BY LastVersion, Zenon
<1>2. n > 0 => versions[r][1] \in Created
    BY <1>1, Zenon DEF ReadsInv
<1>3. n \in 2 .. n
  <2>1. n > 0
    BY <1>1
  <2>2. n # 1
    BY <1>1, <1>2, <2>1, ZenonT(30) DEF Created
  <2> QED BY <2>1, <2>2
<1>4. Follows(versions[r][n - 1], versions[r][n])
    BY <1>1, <1>3, Zenon DEF LegalHistory, Follows
<1>5. versions[r][n - 1] = "Running"
    BY <1>1, <1>4, Zenon DEF Follows
<1> QED BY <1>1, <1>3, <1>5

\* A step that adds no version leaves the states of the runs as they are.
LEMMA VersionsSame ==
    ASSUME UNCHANGED versions, NEW r \in Runs
    PROVE  /\ Sole(r)' <=> Sole(r)
           /\ State(r)' = State(r)
           /\ Pending(r)' <=> Pending(r)
BY Zenon DEF Sole, State, StateOf, Pending

\* A version that is added changes the state of its run only, and of all the
\* runs of the submission leaves at most that one alone.
LEMMA VersionAdded ==
    ASSUME TypeOK, NEW r \in Runs, NEW state \in States,
           versions' = [versions EXCEPT ![r] = Append(@, state)]
    PROVE  /\ \A q \in Runs : Sole(q)' => Sole(q)
           /\ State(r)' = state /\ versions'[r] # <<>>
           /\ \A q \in Runs \ {r} : /\ versions'[q] = versions[q]
                                    /\ State(q)' = State(q)
                                    /\ Pending(q)' <=> Pending(q)
<1>1. /\ Len(versions[r]) \in Nat
      /\ Len(versions'[r]) = Len(versions[r]) + 1
      /\ versions'[r][Len(versions[r]) + 1] = state
      /\ versions' \in [Runs -> Seq(States)]
    BY AppendVersion, LastVersion, Zenon
<1>2. \A q \in Runs \ {r} : versions'[q] = versions[q]
    BY Zenon DEF TypeOK
<1>3. versions'[r] # <<>>
    BY <1>1, EmptySeq
<1>4. State(r)' = state
    BY <1>1 DEF State, StateOf
<1>5. \A q \in Runs \ {r} : State(q)' = State(q)
    BY <1>2 DEF State, StateOf
<1>6. \A q \in Runs \ {r} : Pending(q)' <=> Pending(q)
    BY <1>2, <1>5, Zenon DEF Pending
<1>7. ASSUME NEW q \in Runs, Sole(q)' PROVE Sole(q)
  <2> SUFFICES ASSUME NEW p \in Runs \ {q}, SubmissionOf[p] = SubmissionOf[q] PROVE versions[p] = <<>>
    BY Zenon DEF Sole
  <2>1. versions'[p] = <<>>
    BY <1>7, Zenon DEF Sole
  <2> QED BY <1>2, <1>3, <2>1, Zenon
<1> QED BY <1>2, <1>3, <1>4, <1>5, <1>6, <1>7, Zenon

\* The elapsed time of a run that is not started anew does not fall.
LEMMA StaysExpired ==
    ASSUME TypeOK, NEW r \in Runs, age'[r] \in {age[r], age[r] + 1}, phase'[r] = phase[r], Expired(r)
    PROVE  Expired(r)'
<1>1. age[r] \in Nat /\ phase[r] \in Nat /\ age[r] + phase[r] >= Duration
    BY ElapsedType, Zenon DEF Expired, Elapsed
<1>2. age'[r] + phase'[r] >= Duration
    BY <1>1, TicksType
<1> QED BY <1>2, Zenon DEF Expired, Elapsed

-----------------------------------------------------------------------------
\* Whether the client reads live or from its cache, reads never go back.
LEMMA ReadsAdvance ==
    ASSUME TypeOK, TypeOK', UNCHANGED cachedReads, NEW r \in Runs, cached'[r] >= cached[r],
           Len(versions'[r]) >= Len(versions[r])
    PROVE  ReadVersion(r)' \in Nat /\ ReadVersion(r)' >= ReadVersion(r)
<1>0. cached'[r] \in Nat /\ versions'[r] \in Seq(States)
    BY Zenon DEF TypeOK
<1>1. cached'[r] \in Nat /\ Len(versions'[r]) \in Nat
    BY <1>0, LenProperties, Zenon
<1>2. CASE cachedReads
    BY <1>1, <1>2 DEF ReadVersion
<1>3. CASE ~cachedReads
    BY <1>1, <1>3 DEF ReadVersion
<1> QED BY <1>2, <1>3, Zenon

\* The same version is read as long as there is no news of the run.
LEMMA ReadsSame ==
    ASSUME UNCHANGED <<cached, cachedReads>>, NEW r \in Runs, versions'[r] = versions[r]
    PROVE  ReadVersion(r)' = ReadVersion(r)
BY Zenon DEF ReadVersion

\* Steps that add no version, touch no namespace and start no work.
LEMMA OwnerUnchanged ==
    ASSUME TypeOK, TypeOK', OwnerInv, UNCHANGED <<versions, cachedReads, ns, objects, phase>>,
           \A r \in Runs : cached'[r] >= cached[r] /\ age'[r] \in {age[r], age[r] + 1},
           UNCHANGED worker \/ worker' = Idle
    PROVE  OwnerInv'
<1>1. \A r \in Runs : /\ ReadVersion(r) \in Nat /\ Len(versions[r]) \in Nat
                      /\ ReadVersion(r)' \in Nat /\ ReadVersion(r)' >= ReadVersion(r)
  <2> TAKE r \in Runs
  <2>1. ReadVersion(r) \in Nat /\ Len(versions[r]) \in Nat
    BY ReadType, Zenon
  <2>2. Len(versions'[r]) >= Len(versions[r])
    BY <2>1
  <2> QED BY <2>1, <2>2, ReadsAdvance, Zenon
<1>2. \A r \in Runs : /\ Sole(r)' <=> Sole(r)
                      /\ State(r)' = State(r)
                      /\ Pending(r)' <=> Pending(r)
    BY VersionsSame, ZenonT(30)
<1>3. \/ UNCHANGED worker
      \/ /\ worker'.pc = "idle" /\ worker'.pc \notin SettingUp /\ worker'.pc # "succeeded"
         /\ worker'.pc \notin Kinds \cup {"running"}
    BY DEF Idle, SettingUp, Kinds
<1>4. ReadsInv'
  <2>1. \A r \in Runs : Len(versions'[r]) > 0 => versions'[r][1] \in Created
    BY Zenon DEF OwnerInv, ReadsInv
  <2>2. ASSUME NEW r \in Runs, worker'.pc # "idle", worker'.run = r PROVE worker'.seen <= ReadVersion(r)'
    <3>1. /\ worker' = worker /\ worker.seen \in Nat /\ worker.seen <= ReadVersion(r)
      BY <1>3, <2>2, Zenon DEF OwnerInv, ReadsInv, TypeOK
    <3> QED BY <1>1, <3>1
  <2>3. ASSUME NEW r \in Runs, State(r)' = "Succeeded"
        PROVE  /\ ReadVersion(r)' >= Len(versions'[r]) - 1
               /\ worker'.pc \in SettingUp => worker'.run # r
    <3>1. /\ ReadVersion(r) >= Len(versions[r]) - 1
          /\ worker.pc \in SettingUp => worker.run # r
      BY <1>2, <2>3, Zenon DEF OwnerInv, ReadsInv
    <3>2. ReadVersion(r)' >= Len(versions'[r]) - 1
      BY <1>1, <3>1
    <3> QED BY <1>3, <3>1, <3>2, Zenon
  <2> QED BY <2>1, <2>2, <2>3, Zenon DEF ReadsInv
<1>5. PendingInv'
    BY <1>2, <1>3, ZenonT(60) DEF OwnerInv, PendingInv
<1>6. CleanupInv'
  <2> SUFFICES ASSUME worker'.pc = "succeeded", Sole(worker.run)' PROVE ns'[SubmissionOf[worker'.run]] # "active"
    BY <1>3, Zenon DEF CleanupInv
  <2>1. worker' = worker /\ worker.run \in Runs
    BY <1>3, Zenon DEF TypeOK
  <2> QED BY <1>2, <2>1, Zenon DEF OwnerInv, CleanupInv
<1>7. RunningOwnsPod'
  <2>1. \A r \in Runs : Expired(r) => Expired(r)'
    BY StaysExpired, Zenon
  <2> QED BY <1>2, <2>1, ZenonT(30) DEF OwnerInv, RunningOwnsPod
<1>8. SucceededIsClean'
    BY <1>2, ZenonT(30) DEF OwnerInv, SucceededIsClean
<1> QED BY <1>4, <1>5, <1>6, <1>7, <1>8, Zenon DEF OwnerInv

\* Steps that only leave the worker idle, or leave it alone too.
LEMMA OwnerStill ==
    ASSUME TypeOK, TypeOK', OwnerInv, UNCHANGED <<versions, cached, cachedReads, ns, objects, age, phase>>,
           UNCHANGED worker \/ worker' = Idle
    PROVE  OwnerInv'
<1>1. \A r \in Runs : cached[r] \in Nat
    BY Zenon DEF TypeOK
<1>2. \A r \in Runs : cached'[r] >= cached[r] /\ age'[r] \in {age[r], age[r] + 1}
    BY <1>1
<1> QED BY <1>2, OwnerUnchanged, Zenon

\* A version that is added makes no sequence of versions shorter.
LEMMA VersionsGrow ==
    ASSUME TypeOK, NEW r \in Runs, NEW state \in States,
           versions' = [versions EXCEPT ![r] = Append(@, state)], NEW q \in Runs
    PROVE  Len(versions'[q]) >= Len(versions[q])
<1>1. Len(versions[q]) \in Nat /\ Len(versions[r]) \in Nat
    BY ReadType, Zenon
<1>2. CASE q # r
  <2>1. versions'[q] = versions[q]
    BY <1>2, Zenon DEF TypeOK
  <2> QED BY <1>1, <2>1
<1>3. CASE q = r
  <2>1. Len(versions'[r]) = Len(versions[r]) + 1
    BY AppendVersion, Zenon
  <2> QED BY <1>1, <1>3, <2>1
<1> QED BY <1>2, <1>3, Zenon

\* A run is created or deleted: nothing is known of the started ones anew.
LEMMA OwnerUser ==
    ASSUME TypeOK, TypeOK', OwnerInv, NEW r \in Runs, CreateRun(r) \/ DeleteRun(r)
    PROVE  OwnerInv'
<1>1. PICK state \in Created \cup {"deleted"} :
        /\ versions' = [versions EXCEPT ![r] = Append(@, state)]
        /\ Len(versions[r]) = 0 => state # "deleted"
        /\ state = "" => versions[r] = <<>>
    BY LastVersion, ZenonT(30) DEF CreateRun, DeleteRun, Created
<1>2. state \in States /\ UNCHANGED <<cached, cachedReads, worker, ns, objects, age, phase>>
    BY Zenon DEF CreateRun, DeleteRun, clusterVars, clockVars, States, Created
<1>3. /\ \A q \in Runs : Sole(q)' => Sole(q)
      /\ State(r)' = state /\ versions'[r] # <<>>
      /\ \A q \in Runs \ {r} : /\ versions'[q] = versions[q]
                               /\ State(q)' = State(q)
                               /\ Pending(q)' <=> Pending(q)
    BY <1>1, <1>2, VersionAdded, ZenonT(30)
<1>a. state # "Running" /\ state # "Succeeded"
    BY ZenonT(30) DEF Created
<1>4. ReadsInv'
  <2>1. ASSUME NEW q \in Runs, Len(versions'[q]) > 0 PROVE versions'[q][1] \in Created
    <3>1. CASE q # r
      BY <1>3, <2>1, <3>1, Zenon DEF OwnerInv, ReadsInv
    <3>0. PICK n \in Nat : n = Len(versions[r])
      BY LastVersion, Zenon
    <3>2. CASE q = r /\ n = 0
      <4>1. versions'[r][n + 1] = state
        BY <1>1, <1>2, <3>0, AppendVersion, Zenon
      <4>2. n + 1 = 1
        BY <3>2
      <4>3. versions'[r][1] = state
        BY <4>1, <4>2, ZenonT(30)
      <4> QED BY <1>1, <3>0, <3>2, <4>3, Zenon
    <3>3. CASE q = r /\ n # 0
      <4>1. 1 \in 1 .. n /\ n > 0
        BY <3>3
      <4>2. versions'[r][1] = versions[r][1]
        BY <1>1, <1>2, <3>0, <4>1, AppendVersion, Zenon
      <4> QED BY <3>0, <3>3, <4>1, <4>2, Zenon DEF OwnerInv, ReadsInv
    <3> QED BY <3>1, <3>2, <3>3, Zenon
  <2>2. ASSUME NEW q \in Runs, worker'.pc # "idle", worker'.run = q PROVE worker'.seen <= ReadVersion(q)'
    <3>1. worker' = worker /\ worker.seen \in Nat /\ worker.seen <= ReadVersion(q)
      BY <1>2, <2>2, Zenon DEF OwnerInv, ReadsInv, TypeOK
    <3>a. ReadVersion(q) \in Nat /\ cached[q] \in Nat /\ cached'[q] = cached[q]
      BY <1>2, ReadType, Zenon
    <3>2. ReadVersion(q) \in Nat /\ cached'[q] >= cached[q]
      BY <3>a
    <3>3. Len(versions'[q]) >= Len(versions[q])
      BY <1>1, <1>2, <1>3, VersionsGrow, Zenon
    <3>4. ReadVersion(q)' \in Nat /\ ReadVersion(q)' >= ReadVersion(q)
      BY <1>2, <3>2, <3>3, ReadsAdvance, Zenon
    <3> QED BY <3>1, <3>2, <3>4
  <2>3. ASSUME NEW q \in Runs, State(q)' = "Succeeded"
        PROVE  /\ ReadVersion(q)' >= Len(versions'[q]) - 1
               /\ worker'.pc \in SettingUp => worker'.run # q
    <3>1. q # r
      BY <1>3, <1>a, <2>3, Zenon
    <3>2. ReadVersion(q)' = ReadVersion(q)
      BY <1>2, <1>3, <3>1, ReadsSame, Zenon
    <3> QED BY <1>2, <1>3, <2>3, <3>1, <3>2, Zenon DEF OwnerInv, ReadsInv
  <2> QED BY <2>1, <2>2, <2>3, Zenon DEF ReadsInv
<1>5. PendingInv'
  <2>1. \A q \in Runs : Pending(q)' => Pending(q)
    BY <1>1, <1>3, Zenon DEF Pending
  <2> QED BY <1>2, <1>3, <2>1, ZenonT(60) DEF OwnerInv, PendingInv
<1>6. CleanupInv'
  <2>1. worker.pc = "succeeded" => worker.run \in Runs
    BY Zenon DEF TypeOK
  <2> QED BY <1>2, <1>3, <2>1, Zenon DEF OwnerInv, CleanupInv
<1>7. RunningOwnsPod'
  <2>1. \A q \in Runs : State(q)' = "Running" => State(q) = "Running"
    BY <1>3, <1>a, Zenon
  <2>2. \A q \in Runs : Expired(q)' <=> Expired(q)
    BY <1>2, Zenon DEF Expired, Elapsed
  <2> QED BY <1>2, <1>3, <2>1, <2>2, ZenonT(30) DEF OwnerInv, RunningOwnsPod
<1>8. SucceededIsClean'
  <2>1. \A q \in Runs : State(q)' = "Succeeded" => State(q) = "Succeeded"
    BY <1>3, <1>a, Zenon
  <2> QED BY <1>2, <1>3, <2>1, ZenonT(30) DEF OwnerInv, SucceededIsClean
<1> QED BY <1>4, <1>5, <1>6, <1>7, <1>8, Zenon DEF OwnerInv

\* A namespace that was being deleted is gone: it was no started run's own.
LEMMA OwnerNamespaceGone ==
    ASSUME TypeOK, OwnerInv, NEW s \in Submissions, NamespaceGone(s)
    PROVE  OwnerInv'
<1>1. UNCHANGED <<versions, cached, cachedReads, worker, age, phase>>
    BY Zenon DEF NamespaceGone, clockVars
<1>2. \A r \in Runs : SubmissionOf[r] \in Submissions
    BY Zenon DEF Submissions
<1>3. ns[s] = "terminating" /\ \A t \in Submissions : ns'[t] = IF t = s THEN "absent" ELSE ns[t]
    BY Zenon DEF NamespaceGone, TypeOK
<1>4. \A t \in Submissions \ {s} : objects'[t] = objects[t]
    BY Zenon DEF NamespaceGone, TypeOK
<1>5. \A r \in Runs : /\ Sole(r)' <=> Sole(r)
                      /\ State(r)' = State(r)
                      /\ Pending(r)' <=> Pending(r)
    BY <1>1, VersionsSame, ZenonT(30)
<1>6. ReadsInv'
  <2>1. \A r \in Runs : ReadVersion(r)' = ReadVersion(r)
    BY <1>1, ReadsSame, Zenon
  <2> QED BY <1>1, <1>5, <2>1, Zenon DEF OwnerInv, ReadsInv
<1>7. PendingInv'
  <2> SUFFICES ASSUME NEW r \in Runs, Sole(r), Pending(r)
               PROVE  /\ ns'[SubmissionOf[r]] = ns[SubmissionOf[r]]
                      /\ objects'[SubmissionOf[r]] = objects[SubmissionOf[r]]
    BY <1>1, <1>5, ZenonT(60) DEF OwnerInv, PendingInv
  <2>1. SubmissionOf[r] # s
    BY <1>3, Zenon DEF OwnerInv, PendingInv
  <2> QED BY <1>2, <1>3, <1>4, <2>1, Zenon
<1>8. CleanupInv'
  <2>1. worker.pc = "succeeded" => worker.run \in Runs
    BY Zenon DEF TypeOK
  <2> QED BY <1>1, <1>2, <1>3, <1>5, <2>1, Zenon DEF OwnerInv, CleanupInv
<1>9. RunningOwnsPod'
  <2> SUFFICES ASSUME NEW r \in Runs, Sole(r), State(r) = "Running", ~Expired(r)
               PROVE  ns'[SubmissionOf[r]] = "active" /\ objects'[SubmissionOf[r]]["pod"] = r
    BY <1>1, <1>5, Zenon DEF RunningOwnsPod, Expired, Elapsed
  <2>1. ns[SubmissionOf[r]] = "active" /\ objects[SubmissionOf[r]]["pod"] = r
    BY Zenon DEF OwnerInv, RunningOwnsPod
  <2> QED BY <1>2, <1>3, <1>4, <2>1, Zenon
<1>10. SucceededIsClean'
    BY <1>2, <1>3, <1>5, Zenon DEF OwnerInv, SucceededIsClean
<1> QED BY <1>6, <1>7, <1>8, <1>9, <1>10, Zenon DEF OwnerInv

\* Reconcile starts: its read shows that a Succeeded run has run.
LEMMA OwnerGet ==
    ASSUME TypeOK, TypeOK', HistoryInv, OwnerInv, NEW r \in Runs, Get(r)
    PROVE  OwnerInv'
<1>1. UNCHANGED <<versions, cached, cachedReads, ns, objects, age, phase>>
    BY Zenon DEF Get, clusterVars, clockVars
<1>2. CASE UNCHANGED worker
    BY <1>1, <1>2, OwnerStill, Zenon
<1>3. ASSUME NEW pc \in {"namespace", "delete"},
             worker' = [pc |-> pc, run |-> r, seen |-> ReadVersion(r)],
             pc = "namespace" => StateOf(r, ReadVersion(r)) = ""
      PROVE  OwnerInv'
  <2>1. worker'.pc = pc /\ worker'.run = r /\ worker'.seen = ReadVersion(r)
    BY <1>3, Zenon
  <2>2. \A q \in Runs : /\ Sole(q)' <=> Sole(q)
                        /\ State(q)' = State(q)
                        /\ Pending(q)' <=> Pending(q)
    BY <1>1, VersionsSame, ZenonT(30)
  <2>3. ReadsInv'
    <3>0. \A q \in Runs : ReadVersion(q)' = ReadVersion(q)
      BY <1>1, ReadsSame, Zenon
    <3>1. worker'.seen <= ReadVersion(r)'
      BY <2>1, <3>0, ReadType
    <3>2. ASSUME NEW q \in Runs, State(q) = "Succeeded", worker'.pc \in SettingUp PROVE worker'.run # q
      <4> SUFFICES ASSUME q = r PROVE FALSE
        BY <2>1, Zenon
      <4>1. StateOf(r, ReadVersion(r)) = ""
        BY <1>3, <2>1, <3>2, Zenon DEF SettingUp
      <4>2. PICK n \in Nat : /\ n = Len(versions[r]) /\ n >= 2
                             /\ versions[r][n] = "Succeeded" /\ versions[r][n - 1] = "Running"
        BY <3>2, SucceededVersion, Zenon DEF HistoryInv, OwnerInv
      <4>3. ReadVersion(r) \in Nat /\ ReadVersion(r) >= n - 1 /\ ReadVersion(r) <= n
        BY <3>2, <4>2, ReadType, Zenon DEF OwnerInv, ReadsInv
      <4>4. ReadVersion(r) = n \/ ReadVersion(r) = n - 1
        BY <4>2, <4>3
      <4>5. ReadVersion(r) # 0
        BY <4>2, <4>4
      <4>6. versions[r][ReadVersion(r)] = ""
        BY <4>1, <4>5, Zenon DEF StateOf
      <4> QED BY <4>2, <4>4, <4>6, ZenonT(30)
    <3> QED BY <1>1, <2>1, <2>2, <3>0, <3>1, <3>2, Zenon DEF OwnerInv, ReadsInv
  <2>4. PendingInv'
    <3>1. pc \notin Kinds \cup {"running"}
      BY <1>3, Zenon DEF Kinds
    <3> QED BY <1>1, <2>1, <2>2, <3>1, ZenonT(60) DEF OwnerInv, PendingInv
  <2>5. CleanupInv'
    BY <1>3, <2>1, Zenon DEF CleanupInv
  <2>6. RunningOwnsPod' /\ SucceededIsClean'
    BY <1>1, <2>2, ZenonT(30) DEF OwnerInv, RunningOwnsPod, SucceededIsClean, Expired, Elapsed
  <2> QED BY <2>3, <2>4, <2>5, <2>6, Zenon DEF OwnerInv
<1> QED BY <1>2, <1>3, Zenon DEF Get

\* The namespace is created for a run, which is not Succeeded.
LEMMA OwnerCreateNamespace ==
    ASSUME TypeOK, OwnerInv, CreateNamespace
    PROVE  OwnerInv'
<1>0. worker.pc = "namespace" /\ worker.run \in Runs
    BY Zenon DEF CreateNamespace, TypeOK
<1>1. PICK w \in Runs : w = worker.run
    BY <1>0, Zenon
<1>2. /\ UNCHANGED <<versions, cached, cachedReads, objects, age, phase>>
      /\ worker'.pc = "quota" /\ worker'.run = w /\ worker'.seen = worker.seen
    BY <1>1, Zenon DEF CreateNamespace, clockVars, NextCall, TypeOK
<1>3. \A r \in Runs : SubmissionOf[r] \in Submissions
    BY Zenon DEF Submissions
<1>4. \A t \in Submissions : ns'[t] = IF t = SubmissionOf[w] /\ ns[t] = "absent" THEN "active" ELSE ns[t]
    BY <1>1, Zenon DEF CreateNamespace, TypeOK
<1>5. \A r \in Runs : /\ Sole(r)' <=> Sole(r)
                      /\ State(r)' = State(r)
                      /\ Pending(r)' <=> Pending(r)
    BY <1>2, VersionsSame, ZenonT(30)
<1>6. \A r \in Runs : Sole(r) /\ SubmissionOf[r] = SubmissionOf[w] => r = w
    BY <1>0, <1>1, SoleWorker, Zenon
<1>7. ReadsInv'
  <2>1. \A r \in Runs : ReadVersion(r)' = ReadVersion(r)
    BY <1>2, ReadsSame, Zenon
  <2> QED BY <1>0, <1>1, <1>2, <1>5, <2>1, Zenon DEF OwnerInv, ReadsInv, SettingUp
<1>8. PendingInv'
  <2> SUFFICES ASSUME NEW r \in Runs, Sole(r), Pending(r)
               PROVE  /\ ns'[SubmissionOf[r]] # "terminating"
                      /\ objects'[SubmissionOf[r]]["pod"] \in {NoRun, r}
                      /\ r = w => ns'[SubmissionOf[r]] = "active"
    BY <1>2, <1>5, ZenonT(30) DEF PendingInv
  <2>1. ns[SubmissionOf[r]] # "terminating" /\ objects[SubmissionOf[r]]["pod"] \in {NoRun, r}
    BY Zenon DEF OwnerInv, PendingInv
  <2>2. ns[SubmissionOf[r]] \in {"absent", "active"}
    BY <1>3, <2>1, Zenon DEF TypeOK
  <2> QED BY <1>2, <1>3, <1>4, <2>1, <2>2, Zenon
<1>9. CleanupInv'
    BY <1>2, Zenon DEF CleanupInv
<1>10. RunningOwnsPod'
  <2>1. \A r \in Runs : ns[SubmissionOf[r]] = "active" => ns'[SubmissionOf[r]] = "active"
    BY <1>3, <1>4, Zenon
  <2> QED BY <1>2, <1>5, <2>1, ZenonT(30) DEF OwnerInv, RunningOwnsPod, Expired, Elapsed
<1>11. SucceededIsClean'
  <2> SUFFICES ASSUME NEW r \in Runs, Sole(r), State(r) = "Succeeded"
               PROVE  ns'[SubmissionOf[r]] # "active"
    BY <1>5, Zenon DEF SucceededIsClean
  <2>1. ns[SubmissionOf[r]] # "active" /\ r # w
    BY <1>0, <1>1, Zenon DEF OwnerInv, SucceededIsClean, ReadsInv, SettingUp
  <2> QED BY <1>3, <1>4, <1>6, <2>1, Zenon
<1> QED BY <1>7, <1>8, <1>9, <1>10, <1>11, Zenon DEF OwnerInv

\* An object is created in the live namespace: an existing one is kept.
LEMMA OwnerCreateObject ==
    ASSUME TypeOK, TypeOK', OwnerInv, CreateObject
    PROVE  OwnerInv'
<1>0. worker.pc \in Kinds /\ worker.pc # "idle" /\ worker.run \in Runs
    BY Zenon DEF CreateObject, TypeOK, Kinds
<1>1. PICK w \in Runs : w = worker.run
    BY <1>0, Zenon
<1>2. UNCHANGED <<versions, cached, cachedReads, ns, age, phase>>
    BY Zenon DEF CreateObject, clockVars
<1>3. \A r \in Runs : SubmissionOf[r] \in Submissions
    BY Zenon DEF Submissions
<1>4. CASE ReturnError /\ UNCHANGED objects
  <2>1. worker' = Idle
    BY <1>4, Zenon DEF ReturnError
  <2> QED BY <1>2, <1>4, <2>1, OwnerStill, Zenon
<1>5. ASSUME ns[SubmissionOf[w]] = "active",
             objects' = [objects EXCEPT ![SubmissionOf[w]][worker.pc] = IF @ = NoRun THEN w ELSE @],
             worker' = [worker EXCEPT !.pc = NextCall(@)]
      PROVE  OwnerInv'
  <2>1. /\ worker'.run = w /\ worker'.seen = worker.seen /\ worker'.pc \in {"netpol", "pod", "running"}
        /\ worker'.pc = "running" => worker.pc = "pod"
    BY <1>0, <1>1, <1>5, Zenon DEF NextCall, Kinds, TypeOK
  <2>2. \A t \in Submissions : objects'[t]["pod"] =
            IF t = SubmissionOf[w] /\ worker.pc = "pod" /\ objects[t]["pod"] = NoRun THEN w
            ELSE objects[t]["pod"]
    <3>1. objects \in [Submissions -> [Kinds -> Runs \cup {NoRun}]] /\ "pod" \in Kinds
      BY Zenon DEF TypeOK, Kinds
    <3>2. \A t \in Submissions, k \in Kinds :
            objects'[t][k] = IF t = SubmissionOf[w] /\ k = worker.pc /\ objects[t][k] = NoRun THEN w
                             ELSE objects[t][k]
      BY <1>0, <1>5, <3>1, Zenon
    <3> QED BY <3>1, <3>2, Zenon
  <2>3. \A r \in Runs : /\ Sole(r)' <=> Sole(r)
                        /\ State(r)' = State(r)
                        /\ Pending(r)' <=> Pending(r)
    BY <1>2, VersionsSame, ZenonT(30)
  <2>4. \A r \in Runs : Sole(r) /\ SubmissionOf[r] = SubmissionOf[w] => r = w
    BY <1>0, <1>1, SoleWorker, Zenon
  <2>5. ReadsInv'
    <3>1. worker.pc \in SettingUp
      BY <1>0, Zenon DEF Kinds, SettingUp
    <3>2. \A r \in Runs : ReadVersion(r)' = ReadVersion(r)
      BY <1>2, ReadsSame, Zenon
    <3> QED BY <1>0, <1>1, <1>2, <2>1, <2>3, <3>1, <3>2, Zenon DEF OwnerInv, ReadsInv
  <2>6. PendingInv'
    <3> SUFFICES ASSUME NEW r \in Runs, Sole(r), Pending(r)
                 PROVE  /\ ns[SubmissionOf[r]] # "terminating"
                        /\ objects'[SubmissionOf[r]]["pod"] \in {NoRun, r}
                        /\ r = w => ns[SubmissionOf[r]] = "active"
                        /\ r = w /\ worker'.pc = "running" => objects'[SubmissionOf[r]]["pod"] = r
      BY <1>2, <2>1, <2>3, ZenonT(30) DEF PendingInv
    <3>1. ns[SubmissionOf[r]] # "terminating" /\ objects[SubmissionOf[r]]["pod"] \in {NoRun, r}
      BY Zenon DEF OwnerInv, PendingInv
    <3>2. objects'[SubmissionOf[r]]["pod"] \in {NoRun, r}
      BY <1>3, <2>2, <2>4, <3>1, Zenon
    <3>3. r = w /\ worker'.pc = "running" => objects'[SubmissionOf[r]]["pod"] = r
      BY <1>3, <2>1, <2>2, <3>1, Zenon
    <3> QED BY <1>5, <3>1, <3>2, <3>3, Zenon
  <2>7. CleanupInv'
    BY <2>1, Zenon DEF CleanupInv
  <2>8. RunningOwnsPod'
    <3> SUFFICES ASSUME NEW r \in Runs, Sole(r), State(r) = "Running", ~Expired(r)
                 PROVE  ns[SubmissionOf[r]] = "active" /\ objects'[SubmissionOf[r]]["pod"] = r
      BY <1>2, <2>3, Zenon DEF RunningOwnsPod, Expired, Elapsed
    <3>1. ns[SubmissionOf[r]] = "active" /\ objects[SubmissionOf[r]]["pod"] = r
      BY Zenon DEF OwnerInv, RunningOwnsPod
    <3> QED BY <1>3, <2>2, <3>1, ControllerAssumption, Zenon
  <2>9. SucceededIsClean'
    BY <1>2, <2>3, ZenonT(30) DEF OwnerInv, SucceededIsClean
  <2> QED BY <2>5, <2>6, <2>7, <2>8, <2>9, Zenon DEF OwnerInv
<1> QED BY <1>1, <1>4, <1>5, Zenon DEF CreateObject

\* The namespace is deleted: its run is due, and nobody else's.
LEMMA OwnerDeleteNamespace ==
    ASSUME TypeOK, HistoryInv, ClockInv, OwnerInv, DeleteNamespace
    PROVE  OwnerInv'
<1>0. worker.pc = "delete" /\ worker.run \in Runs
    BY Zenon DEF DeleteNamespace, TypeOK
<1>1. PICK w \in Runs : w = worker.run
    BY <1>0, Zenon
<1>2. /\ UNCHANGED <<versions, cached, cachedReads, objects, age, phase>>
      /\ worker'.pc = "succeeded" /\ worker'.run = w /\ worker'.seen = worker.seen
    BY <1>1, Zenon DEF DeleteNamespace, clockVars, TypeOK
<1>3. \A r \in Runs : SubmissionOf[r] \in Submissions
    BY Zenon DEF Submissions
<1>4. \A t \in Submissions : ns'[t] = IF t = SubmissionOf[w] /\ ns[t] = "active" THEN "terminating" ELSE ns[t]
    BY <1>1, Zenon DEF DeleteNamespace, Deletes, TypeOK
<1>5. \A r \in Runs : /\ Sole(r)' <=> Sole(r)
                      /\ State(r)' = State(r)
                      /\ Pending(r)' <=> Pending(r)
    BY <1>2, VersionsSame, ZenonT(30)
<1>6. \A r \in Runs : Sole(r) /\ SubmissionOf[r] = SubmissionOf[w] => r = w
    BY <1>0, <1>1, SoleWorker, Zenon
<1>7. ReadsInv'
  <2>1. \A r \in Runs : ReadVersion(r)' = ReadVersion(r)
    BY <1>2, ReadsSame, Zenon
  <2> QED BY <1>0, <1>1, <1>2, <1>5, <2>1, Zenon DEF OwnerInv, ReadsInv, SettingUp
<1>8. PendingInv'
  <2> SUFFICES ASSUME NEW r \in Runs, Sole(r), Pending(r)
               PROVE  r # w /\ ns'[SubmissionOf[r]] # "terminating" /\ objects'[SubmissionOf[r]]["pod"] \in {NoRun, r}
    BY <1>2, <1>5, ZenonT(30) DEF PendingInv
  <2>1. r # w
    BY <1>0, <1>1, PendingVersion, Zenon DEF CleaningUp
  <2>2. ns[SubmissionOf[r]] # "terminating" /\ objects[SubmissionOf[r]]["pod"] \in {NoRun, r}
    BY Zenon DEF OwnerInv, PendingInv
  <2> QED BY <1>2, <1>3, <1>4, <1>6, <2>1, <2>2, Zenon
<1>9. CleanupInv'
    BY <1>2, <1>3, <1>4, Zenon DEF CleanupInv
<1>10. RunningOwnsPod'
  <2> SUFFICES ASSUME NEW r \in Runs, Sole(r), State(r) = "Running", ~Expired(r)
               PROVE  ns'[SubmissionOf[r]] = "active" /\ objects[SubmissionOf[r]]["pod"] = r
    BY <1>2, <1>5, Zenon DEF RunningOwnsPod, Expired, Elapsed
  <2>1. ns[SubmissionOf[r]] = "active" /\ objects[SubmissionOf[r]]["pod"] = r
    BY Zenon DEF OwnerInv, RunningOwnsPod
  <2>2. r # w
    BY <1>0, <1>1, Zenon DEF ClockInv
  <2> QED BY <1>3, <1>4, <1>6, <2>1, <2>2, Zenon
<1>11. SucceededIsClean'
    BY <1>3, <1>4, <1>5, Zenon DEF OwnerInv, SucceededIsClean
<1> QED BY <1>7, <1>8, <1>9, <1>10, <1>11, Zenon DEF OwnerInv

\* A status update that is accepted comes from a reader of the last version.
LEMMA OwnerStatus ==
    ASSUME TypeOK, TypeOK', HistoryInv, OwnerInv, UpdateRunning \/ UpdateSucceeded
    PROVE  OwnerInv'
<1>0. worker.pc \in {"running", "succeeded"} /\ worker.run \in Runs
        /\ worker.seen \in 1 .. Len(versions[worker.run])
    BY Zenon DEF UpdateRunning, UpdateSucceeded, TypeOK
<1>1. PICK w \in Runs : w = worker.run
    BY <1>0, Zenon
<1>2. worker' = Idle /\ UNCHANGED <<cached, cachedReads, ns, objects, age>>
    BY Zenon DEF UpdateRunning, UpdateSucceeded, AnswerLost, ReturnError, clusterVars, clockVars
<1>3. CASE UNCHANGED <<versions, phase>>
    BY <1>2, <1>3, OwnerStill, Zenon
<1>4. ASSUME NEW state \in {"Running", "Succeeded"}, Accepted,
             state = "Running" <=> worker.pc = "running",
             versions' = [versions EXCEPT ![w] = Append(@, state)],
             \A q \in Runs \ {w} : phase'[q] = phase[q],
             state = "Succeeded" => phase' = phase
      PROVE  OwnerInv'
  <2>0. state \in States
    BY Zenon DEF States
  <2>1. worker'.pc = "idle" /\ worker'.run = NoRun /\ NoRun \notin Runs
    BY <1>2, ControllerAssumption, Zenon DEF Idle
  <2>2. /\ \A q \in Runs : Sole(q)' => Sole(q)
        /\ State(w)' = state /\ versions'[w] # <<>>
        /\ \A q \in Runs \ {w} : /\ versions'[q] = versions[q]
                                 /\ State(q)' = State(q)
                                 /\ Pending(q)' <=> Pending(q)
    BY <1>4, <2>0, VersionAdded, ZenonT(30)
  <2>3. PICK n \in Nat : n = Len(versions[w]) /\ n = worker.seen /\ n >= 1 /\ State(w) = versions[w][n]
    BY <1>0, <1>1, <1>4, LastVersion DEF Accepted
  <2>4. State(w) = IF state = "Running" THEN "" ELSE "Running"
    BY <1>0, <1>1, <1>4, <2>3, Zenon DEF HistoryInv, SettingUp, CleaningUp
  <2>5. ReadsInv'
    <3>1. ASSUME NEW q \in Runs, Len(versions'[q]) > 0 PROVE versions'[q][1] \in Created
      <4>1. CASE q # w
        BY <2>2, <3>1, <4>1, Zenon DEF OwnerInv, ReadsInv
      <4>2. CASE q = w
        <5>1. 1 \in 1 .. Len(versions[w]) /\ Len(versions[w]) > 0
          BY <2>3
        <5>2. versions'[w][1] = versions[w][1]
          BY <1>4, <2>0, <5>1, AppendVersion, Zenon
        <5> QED BY <4>2, <5>1, <5>2, Zenon DEF OwnerInv, ReadsInv
      <4> QED BY <4>1, <4>2, Zenon
    <3>2. ASSUME NEW q \in Runs, State(q)' = "Succeeded" PROVE ReadVersion(q)' >= Len(versions'[q]) - 1
      <4>1. CASE q # w
        <5>1. ReadVersion(q)' = ReadVersion(q)
          BY <1>2, <2>2, <4>1, ReadsSame, Zenon
        <5> QED BY <2>2, <3>2, <4>1, <5>1, Zenon DEF OwnerInv, ReadsInv
      <4>2. CASE q = w
        <5>1. Len(versions'[w]) = n + 1
          BY <1>4, <2>0, <2>3, AppendVersion, Zenon
        <5>2. n <= ReadVersion(w) /\ ReadVersion(w) \in Nat
          BY <1>0, <1>1, <2>3, ReadType, Zenon DEF OwnerInv, ReadsInv
        <5>a. cached[w] \in Nat /\ cached'[w] = cached[w]
          BY <1>2, ReadType, Zenon
        <5>3. cached'[w] >= cached[w]
          BY <5>a
        <5>4. Len(versions'[w]) >= Len(versions[w])
          BY <1>4, <2>0, VersionsGrow, Zenon
        <5>5. ReadVersion(w)' \in Nat /\ ReadVersion(w)' >= ReadVersion(w)
          BY <1>2, <5>3, <5>4, ReadsAdvance, Zenon
        <5> QED BY <4>2, <5>1, <5>2, <5>5
      <4> QED BY <4>1, <4>2, Zenon
    <3>3. worker'.pc \notin SettingUp
      BY <2>1, Zenon DEF SettingUp
    <3> QED BY <2>1, <3>1, <3>2, <3>3, Zenon DEF ReadsInv
  <2>6. PendingInv'
    <3>1. ~Pending(w)'
      BY <1>4, <2>2, Zenon DEF Pending
    <3> SUFFICES ASSUME NEW q \in Runs \ {w}, Sole(q), Pending(q)
                 PROVE  /\ ns[SubmissionOf[q]] # "terminating"
                        /\ objects[SubmissionOf[q]]["pod"] \in {NoRun, q}
      BY <1>2, <2>1, <2>2, <3>1, ZenonT(30) DEF PendingInv
    <3> QED BY Zenon DEF OwnerInv, PendingInv
  <2>7. CleanupInv'
    BY <2>1, Zenon DEF CleanupInv
  <2>8. RunningOwnsPod'
    <3> SUFFICES ASSUME NEW q \in Runs, Sole(q), State(q)' = "Running", ~Expired(q)'
                 PROVE  ns[SubmissionOf[q]] = "active" /\ objects[SubmissionOf[q]]["pod"] = q
      BY <1>2, <2>2, Zenon DEF RunningOwnsPod
    <3>1. CASE q = w
      <4>1. worker.pc = "running" /\ Pending(w)
        BY <1>4, <2>2, <2>4, <3>1, Zenon DEF Pending
      <4> QED BY <1>1, <3>1, <4>1, ZenonT(30) DEF OwnerInv, PendingInv
    <3>2. CASE q # w
      <4>1. State(q) = "Running" /\ ~Expired(q)
        BY <1>2, <1>4, <2>2, <3>2, Zenon DEF Expired, Elapsed
      <4> QED BY <4>1, Zenon DEF OwnerInv, RunningOwnsPod
    <3> QED BY <3>1, <3>2, Zenon
  <2>9. SucceededIsClean'
    <3> SUFFICES ASSUME NEW q \in Runs, Sole(q), State(q)' = "Succeeded"
                 PROVE  ns[SubmissionOf[q]] # "active"
      BY <1>2, <2>2, Zenon DEF SucceededIsClean
    <3>1. CASE q = w
      <4>1. worker.pc = "succeeded"
        BY <1>0, <1>4, <2>2, <3>1, Zenon
      <4> QED BY <1>1, <3>1, <4>1, Zenon DEF OwnerInv, CleanupInv
    <3>2. CASE q # w
      BY <2>2, <3>2, Zenon DEF OwnerInv, SucceededIsClean
    <3> QED BY <3>1, <3>2, Zenon
  <2> QED BY <2>5, <2>6, <2>7, <2>8, <2>9, Zenon DEF OwnerInv
<1>5. CASE UpdateRunning /\ Accepted
  <2>1. PICK p \in 0 .. TicksPerSecond - 1 : phase' = [phase EXCEPT ![w] = p]
    BY <1>1, <1>5, Zenon DEF UpdateRunning
  <2>2. \A q \in Runs \ {w} : phase'[q] = phase[q]
    BY <2>1, Zenon DEF TypeOK
  <2> QED BY <1>1, <1>4, <1>5, <2>2, Zenon DEF UpdateRunning
<1>6. CASE UpdateSucceeded /\ Accepted
    BY <1>1, <1>4, <1>6, Zenon DEF UpdateSucceeded, clockVars
<1>7. CASE ~Accepted
    BY <1>3, <1>7, Zenon DEF UpdateRunning, UpdateSucceeded, clockVars
<1> QED BY <1>5, <1>6, <1>7, Zenon

\* Every step preserves the invariant.
LEMMA OwnerNext == ControllerInv /\ OwnerInv /\ [Next]_vars => OwnerInv'
<1> SUFFICES ASSUME ControllerInv, OwnerInv, [Next]_vars PROVE OwnerInv'
    BY Zenon
<1>0. TypeOK /\ TypeOK' /\ HistoryInv /\ ClockInv
    BY TypesNext, Zenon DEF ControllerInv
<1>a. \A r \in Runs : cached[r] \in Nat /\ cached[r] >= cached[r]
                        /\ Len(versions[r]) >= cached[r] /\ cached[r] + 1 >= cached[r]
  <2> TAKE r \in Runs
  <2>1. cached[r] \in Nat /\ Len(versions[r]) \in Nat /\ cached[r] <= Len(versions[r])
    BY <1>0, ReadType, Zenon
  <2> QED BY <2>1
<1>1. ASSUME NEW r \in Runs, Observe(r) PROVE OwnerInv'
  <2>1. \A q \in Runs : cached'[q] >= cached[q]
    BY <1>0, <1>1, <1>a, Zenon DEF Observe, TypeOK
  <2>2. UNCHANGED <<versions, cachedReads, ns, objects, age, phase, worker>>
    BY <1>1, Zenon DEF Observe, clusterVars, clockVars
  <2> QED BY <1>0, <2>1, <2>2, OwnerUnchanged, Zenon
<1>2. ASSUME NEW r \in Runs, TimerFires(r) PROVE OwnerInv'
  <2>1. UNCHANGED <<versions, cached, cachedReads, ns, objects, age, phase, worker>>
    BY <1>2, Zenon DEF TimerFires, clusterVars, clockVars
  <2> QED BY <1>0, <1>a, <2>1, OwnerUnchanged, Zenon
<1>3. CASE CallFails \/ UNCHANGED vars
  <2>1. /\ UNCHANGED <<versions, cached, cachedReads, ns, objects, age, phase>>
        /\ UNCHANGED worker \/ worker' = Idle
    BY <1>3, Zenon DEF CallFails, AfterFailure, ReturnError, vars, clusterVars, clockVars
  <2> QED BY <1>0, <1>a, <2>1, OwnerUnchanged, Zenon
<1>4. CASE Restart
  <2>1. \A q \in Runs : cached'[q] >= cached[q]
    BY <1>4, <1>a, Zenon DEF Restart
  <2>2. UNCHANGED <<versions, cachedReads, ns, objects, age, phase>> /\ worker' = Idle
    BY <1>4, Zenon DEF Restart, clusterVars, clockVars
  <2> QED BY <1>0, <2>1, <2>2, OwnerUnchanged, Zenon
<1>5. CASE Tick
  <2>1. \A q \in Runs : age'[q] \in {age[q], age[q] + 1}
    BY <1>5, Zenon DEF Tick
  <2>2. UNCHANGED <<versions, cached, cachedReads, ns, objects, phase, worker>>
    BY <1>5, Zenon DEF Tick, clusterVars
  <2> QED BY <1>0, <1>a, <2>1, <2>2, OwnerUnchanged, Zenon
<1>6. ASSUME NEW r \in Runs, CreateRun(r) \/ DeleteRun(r) PROVE OwnerInv'
    BY <1>0, <1>6, OwnerUser, Zenon
<1>7. ASSUME NEW r \in Runs, Get(r) PROVE OwnerInv'
    BY <1>0, <1>7, OwnerGet, Zenon
<1>8. ASSUME NEW s \in Submissions, NamespaceGone(s) PROVE OwnerInv'
    BY <1>0, <1>8, OwnerNamespaceGone, Zenon
<1>9. CASE Reconcile
    BY <1>0, <1>9, OwnerCreateNamespace, OwnerCreateObject, OwnerDeleteNamespace, OwnerStatus, Zenon DEF Reconcile
<1> QED BY <1>1, <1>2, <1>3, <1>4, <1>5, <1>6, <1>7, <1>8, <1>9, Zenon DEF Next

-----------------------------------------------------------------------------
\* The inductive invariant of the reconciler: types, what the worker read,
\* what its calls have left behind, and that a cleanup is due.
THEOREM ControllerInvariant == Spec => []ControllerInv
<1>1. ControllerInv /\ [Next]_vars => ControllerInv'
    BY TypesNext, HistoryNext, ClusterNext, ClockNext, Zenon DEF ControllerInv
<1> QED BY <1>1, ControllerInit, PTL DEF Spec

\* The state of the reconciler and of its work queue is well formed.
THEOREM ControllerTypeCorrect == Spec => []TypeOK
<1>1. ControllerInv => TypeOK
    BY Zenon DEF ControllerInv
<1> QED BY <1>1, ControllerInvariant, PTL

\* Status updates never break the order of a run's states, although they are
\* decided on outdated versions, retried, and race with deletions.
THEOREM AlwaysLegalHistory == Spec => []LegalHistory
<1>1. ControllerInv => LegalHistory
    BY Zenon DEF ControllerInv, HistoryInv
<1> QED BY <1>1, ControllerInvariant, PTL

\* A contestant's pod is never in a live namespace without its quota and its
\* network policy.
THEOREM AlwaysPodIsolated == Spec => []PodIsolated
<1>1. ControllerInv => PodIsolated
    BY Zenon DEF ControllerInv, ClusterInv
<1> QED BY <1>1, ControllerInvariant, PTL

\* Truncating startedAt never costs a run a whole second.
THEOREM NeverCutShort == Spec => []NotCutShort
<1>1. ControllerInv => NotCutShort
  <2> SUFFICES ASSUME ControllerInv, worker.pc = "delete"
               PROVE  age[worker.run] > Duration - TicksPerSecond
    BY Zenon DEF NotCutShort
  <2>1. TypeOK /\ worker.run \in Runs
    BY Zenon DEF ControllerInv, TypeOK
  <2>2. age[worker.run] + phase[worker.run] >= Duration
    BY Zenon DEF ControllerInv, ClockInv, Expired, Elapsed
  <2>3. age[worker.run] \in Nat /\ phase[worker.run] \in Nat /\ phase[worker.run] <= TicksPerSecond - 1
    BY <2>1, ElapsedType, Zenon
  <2> QED BY <2>2, <2>3, TicksType
<1> QED BY <1>1, ControllerInvariant, PTL
\* What the reconciler keeps for the only run of a submission is an invariant.
THEOREM OwnerInvariant == Spec => []OwnerInv
<1>1. Init => OwnerInv
  <2> SUFFICES ASSUME Init PROVE OwnerInv
    BY Zenon
  <2>1. TypeOK
    BY ControllerInit, Zenon DEF ControllerInv
  <2>2. \A r \in Runs : versions[r] = <<>> /\ State(r) = "deleted" /\ Len(versions[r]) = 0
    BY <2>1, LastVersion, Zenon DEF Init
  <2>3. worker.pc = "idle" /\ \A r \in Runs : SubmissionOf[r] \in Submissions
    BY Zenon DEF Init, Idle, Submissions
  <2>4. \A s \in Submissions : ns[s] = "absent" /\ objects[s]["pod"] = NoRun
    BY Zenon DEF Init, Kinds
  <2>5. ReadsInv
    <3>1. \A r \in Runs : ~(Len(versions[r]) > 0) /\ State(r) # "Succeeded"
      BY <2>2
    <3> QED BY <2>3, <3>1, ZenonT(30) DEF ReadsInv
  <2>6. PendingInv
    BY <2>3, <2>4, Zenon DEF PendingInv, Kinds
  <2> QED BY <2>2, <2>3, <2>5, <2>6, Zenon DEF OwnerInv, CleanupInv, RunningOwnsPod, SucceededIsClean
<1>2. ControllerInv /\ OwnerInv /\ [Next]_vars => OwnerInv'
    BY OwnerNext, Zenon
<1> QED BY <1>1, <1>2, ControllerInvariant, PTL DEF Spec

\* Until its duration has elapsed, a Running run that is the only one of its
\* submission has a live namespace with its own pod.
THEOREM AlwaysOwnsPod == Spec => []RunningOwnsPod
<1>1. OwnerInv => RunningOwnsPod
    BY Zenon DEF OwnerInv
<1> QED BY <1>1, OwnerInvariant, PTL

\* Work decided on an old version never brings the namespace of a Succeeded
\* run back.
THEOREM AlwaysClean == Spec => []SucceededIsClean
<1>1. OwnerInv => SucceededIsClean
    BY Zenon DEF OwnerInv
<1> QED BY <1>1, OwnerInvariant, PTL
=============================================================================
