---------------------------- MODULE KpiLanesProofs ----------------------------
(***************************************************************************)
(* Proofs about KpiLanes, for any canvases, settings, KPIs, workspaces and *)
(* executions, and any limits.                                             *)
(*                                                                         *)
(* The inductive invariant has four parts.  LanesHeld: a lane that anybody *)
(* holds is the registered one of its workspace, so that two canvases of   *)
(* one workspace meet in one object.  AppliesToCurrent.  JobsQueued: what  *)
(* a queue holds was accepted under the setting in force.  JobsFollowed: a *)
(* KPI in preparation is queued, or runs under the setting in force, or an *)
(* update that was rejected has cut its run off.                           *)
(***************************************************************************)
EXTENDS KpiLanes, TLAPS, SequenceTheorems, FiniteSetTheorems, WellFoundedInduction

-----------------------------------------------------------------------------
(* The invariant.                                                           *)

\* Whoever is attached to a lane, runs in it or has left a process in it finds
\* it in the registry, and the lane knows them.
LanesHeld ==
    /\ \A v, w \in Workspace : registry[v] # None /\ registry[v] = registry[w] => v = w
    /\ \A l \in LaneId : lanes[l] # EmptyLane => \E w \in Workspace : registry[w] = l
    /\ \A s \in Scheduler : attached[s] # None =>
         /\ ~gone[s] /\ registry[attached[s].workspace] = attached[s].lane
         /\ s \in lanes[attached[s].lane].members
    /\ \A s \in Scheduler, l \in LaneId : s \in lanes[l].members =>
         attached[s] # None /\ attached[s].lane = l
    /\ \A s \in Scheduler : active[s] # None =>
         /\ registry[WorkspaceOf[active[s].gen]] = active[s].lane
         /\ lanes[active[s].lane].owner = s
    /\ \A s \in Scheduler, l \in LaneId : lanes[l].owner = s =>
         active[s] # None /\ active[s].lane = l
    /\ \A p \in loose : Blocked(p[1], p[2])

Queued(s) == 1 .. Len(queue[s])

\* What is queued was accepted under the setting in force, a KPI at a time; it
\* was not attempted in that setting, unless the user has asked for it.
JobsQueued ==
    /\ queue \in [Scheduler -> Seq(Jobs)]
    /\ \A s \in Scheduler :
         /\ Len(queue[s]) <= QueueLimit
         /\ Queued(s) # {} => gen[s] # None /\ ExecutionOf[gen[s]] # None
         /\ active[s] # None => ExecutionOf[active[s].gen] # None
         /\ \A i, j \in Queued(s) : queue[s][i].target = queue[s][j].target => i = j
         /\ \A i \in Queued(s) :
              ~queue[s][i].explicit => queue[s][i].target \notin attempted[s]

\* The KPI runs, and what comes of it will be said.
RunsOn(s, t) ==
    active[s] # None /\ active[s].target = t /\ active[s].stage # "over" /\ Current(s)

\* It is queued, or it runs, or the rejection of an update has cut that off.
Followed(s, t) == QueuedFor(s, t) # {} \/ RunsOn(s, t) \/ t \in lost[s]

JobsFollowed ==
    \A s \in Scheduler, t \in Target : shot[s][t].status = "preparing" => Followed(s, t)

Requests == [target : Target, priority : 0..3, explicit : BOOLEAN, gen : Setting]

RegistryTypes ==
    /\ lanes \in [LaneId -> [owner : Scheduler \cup {None}, blocked : SUBSET Execution,
                             members : SUBSET Scheduler]]
    /\ registry \in [Workspace -> LaneId \cup {None}]
    /\ loose \subseteq Workspace \X Execution
    /\ attached \in [Scheduler -> [workspace : Workspace, lane : LaneId] \cup {None}]

SettingTypes ==
    /\ gone \in [Scheduler -> BOOLEAN] /\ stopped \in [Scheduler -> BOOLEAN]
    /\ off \in [Scheduler -> BOOLEAN]
    /\ pumping \in [Scheduler -> BOOLEAN] /\ waking \in [Scheduler -> BOOLEAN]
    /\ latest \in [Scheduler -> [n : Nat, to : Setting \cup {None},
                               state : {"pending", "done", "failed"}]]
    /\ gen \in [Scheduler -> Setting \cup {None}]
    /\ \A s \in Scheduler : latest[s].state = "pending" => latest[s].to # None

JobTypes ==
    /\ attempted \in [Scheduler -> SUBSET Target]
    /\ spent \in [Scheduler -> 0..Budget]
    /\ active \in [Scheduler -> ActiveJobs \cup {None}]
    /\ retries \in [Scheduler -> 0..MaxRetries]
    /\ asking \in [Scheduler -> Requests \cup {None}]

ViewTypes ==
    /\ shot \in [Scheduler -> [Target -> Shots]]
    /\ shown \in [Scheduler -> [Target -> Shots \cup {None}]]
    /\ lost \in [Scheduler -> SUBSET Target]

IInv ==
    /\ RegistryTypes /\ SettingTypes /\ JobTypes /\ ViewTypes
    /\ LanesHeld /\ NotOverLoose /\ AppliesToCurrent /\ JobsQueued /\ JobsFollowed
-----------------------------------------------------------------------------
(* Sequences and choices.                                                   *)

\* A nonempty set of naturals has a least member.
LEMMA LeastOfSet ==
    ASSUME NEW S \in SUBSET Nat, S # {}
    PROVE  \E m \in S : \A k \in S : m <= k
<1>1. PICK m \in S : \A k \in S : ~ (<<k, m>> \in OpToRel(<, Nat))
  BY NatLessThanWellFounded, WFMin, Zenon
<1>2. \A k \in S : ~ (k < m)
  BY <1>1 DEF OpToRel
<1> QED  BY <1>2

\* Of what has a rank and a number something comes first.
LEMMA FirstByRank ==
    ASSUME NEW S, S # {}, NEW rank \in [S -> Nat], NEW number \in [S -> Nat]
    PROVE  \E i \in S : \A j \in S :
             rank[i] < rank[j] \/ (rank[i] = rank[j] /\ number[i] <= number[j])
<1> DEFINE R == {rank[i] : i \in S}
<1>1. PICK r \in R : \A k \in R : r <= k
  <2>1. R \in SUBSET Nat /\ R # {}
    OBVIOUS
  <2> HIDE DEF R
  <2> QED  BY <2>1, LeastOfSet
<1> DEFINE N == {number[i] : i \in {j \in S : rank[j] = r}}
<1>2. PICK n \in N : \A k \in N : n <= k
  <2>1. N \in SUBSET Nat /\ N # {}
    OBVIOUS
  <2> HIDE DEF N
  <2> QED  BY <2>1, LeastOfSet
<1>3. PICK i \in S : rank[i] = r /\ number[i] = n
  OBVIOUS
<1>4. ASSUME NEW j \in S
      PROVE  rank[i] < rank[j] \/ (rank[i] = rank[j] /\ number[i] <= number[j])
  <2>1. r <= rank[j] /\ r \in Nat
    BY <1>1
  <2>2. rank[j] = r => n <= number[j]
    BY <1>2
  <2> QED  BY <1>3, <2>1, <2>2
<1> QED  BY <1>4

\* A queue is a sequence of jobs.
LEMMA QueueTyped ==
    ASSUME JobsQueued, NEW s \in Scheduler
    PROVE  /\ queue[s] \in Seq(Jobs) /\ Len(queue[s]) \in Nat
           /\ DOMAIN queue[s] = Queued(s) /\ Queued(s) = 1 .. Len(queue[s])
           /\ \A i \in Queued(s) : queue[s][i] \in Jobs
BY LenProperties DEF JobsQueued, Queued

\* The first candidate and the worst job are in the queue.
LEMMA FirstQueued ==
    ASSUME JobsQueued, NEW s \in Scheduler, Candidates(s) # {}
    PROVE  First(s) \in Candidates(s) /\ First(s) \in Queued(s)
<1> DEFINE rank == [i \in Candidates(s) |-> queue[s][i].priority]
           number == [i \in Candidates(s) |-> i]
<1>1. Candidates(s) \subseteq Queued(s) /\ Queued(s) \subseteq Nat
  BY QueueTyped DEF Candidates, Queued
<1>2. rank \in [Candidates(s) -> Nat] /\ number \in [Candidates(s) -> Nat]
  BY <1>1, QueueTyped DEF Jobs
<1>3. \E i \in Candidates(s) : \A j \in Candidates(s) :
         rank[i] < rank[j] \/ (rank[i] = rank[j] /\ number[i] <= number[j])
  <2> HIDE DEF rank, number
  <2> QED  BY <1>2, FirstByRank
<1>4. \E i \in Candidates(s) : \A j \in Candidates(s) :
         \/ queue[s][i].priority < queue[s][j].priority
         \/ queue[s][i].priority = queue[s][j].priority /\ i <= j
  BY <1>3
<1>5. First(s) \in Candidates(s)
  BY <1>4 DEF First
<1> QED  BY <1>1, <1>5

\* The job that a full queue evicts is one of it.
LEMMA WorstQueued ==
    ASSUME JobsQueued, NEW s \in Scheduler, Queued(s) # {}
    PROVE  Worst(s) \in Queued(s)
<1> DEFINE n == Len(queue[s])
           rank == [i \in Queued(s) |-> 3 - queue[s][i].priority]
           number == [i \in Queued(s) |-> n - i]
<1>1. /\ Queued(s) = 1 .. n /\ n \in Nat
      /\ \A i \in Queued(s) : queue[s][i].priority \in 0 .. 3
  BY QueueTyped DEF Jobs
<1>2. rank \in [Queued(s) -> Nat] /\ number \in [Queued(s) -> Nat]
  BY <1>1
<1>3. PICK i \in Queued(s) : \A j \in Queued(s) :
         rank[i] < rank[j] \/ (rank[i] = rank[j] /\ number[i] <= number[j])
  <2> HIDE DEF rank, number
  <2> QED  BY <1>2, FirstByRank
<1>4. ASSUME NEW j \in Queued(s)
      PROVE  \/ queue[s][j].priority < queue[s][i].priority
             \/ queue[s][j].priority = queue[s][i].priority /\ j <= i
  <2>1. /\ rank[i] = 3 - queue[s][i].priority /\ rank[j] = 3 - queue[s][j].priority
        /\ number[i] = n - i /\ number[j] = n - j
    OBVIOUS
  <2>2. rank[i] < rank[j] \/ (rank[i] = rank[j] /\ number[i] <= number[j])
    BY <1>3
  <2>3. queue[s][i].priority \in 0 .. 3 /\ queue[s][j].priority \in 0 .. 3
    BY <1>1
  <2>4. i \in Int /\ j \in Int /\ n \in Int
    BY <1>1
  <2> HIDE DEF rank, number, n
  <2> QED  BY <2>1, <2>2, <2>3, <2>4
<1>5. \E k \in 1 .. Len(queue[s]) : \A j \in 1 .. Len(queue[s]) :
         \/ queue[s][j].priority < queue[s][k].priority
         \/ queue[s][j].priority = queue[s][k].priority /\ j <= k
  BY <1>1, <1>4
<1> HIDE DEF n
<1>6. Worst(s) \in 1 .. Len(queue[s])
  BY <1>5 DEF Worst
<1> QED  BY <1>6 DEF Queued

\* What a sequence is without its i-th member.
LEMMA WithoutOne ==
    ASSUME NEW S, NEW q \in Seq(S), NEW i \in 1 .. Len(q)
    PROVE  /\ Without(q, i) \in Seq(S) /\ Len(Without(q, i)) = Len(q) - 1
           /\ \A k \in 1 .. Len(q) - 1 :
                Without(q, i)[k] = IF k < i THEN q[k] ELSE q[k + 1]
<1> DEFINE a == SubSeq(q, 1, i - 1)
           b == SubSeq(q, i + 1, Len(q))
<1>1. Len(q) \in Nat
  OBVIOUS
<1>2. a \in Seq(S) /\ Len(a) = i - 1 /\ (\A k \in 1 .. i - 1 : a[k] = q[k])
  BY <1>1, SubSeqProperties
<1>3. b \in Seq(S) /\ Len(b) = Len(q) - i /\ (\A k \in 1 .. Len(q) - i : b[k] = q[i + k])
  BY <1>1, SubSeqProperties
<1> HIDE DEF a, b
<1>4. /\ a \o b \in Seq(S) /\ Len(a \o b) = Len(a) + Len(b)
      /\ \A k \in 1 .. Len(a) + Len(b) :
           (a \o b)[k] = IF k <= Len(a) THEN a[k] ELSE b[k - Len(a)]
  BY <1>2, <1>3, ConcatProperties
<1>5. Without(q, i) = a \o b
  BY DEF Without, a, b
<1>6. ASSUME NEW k \in 1 .. Len(q) - 1
      PROVE  (a \o b)[k] = IF k < i THEN q[k] ELSE q[k + 1]
  <2>1. CASE k < i
    BY <1>1, <1>2, <1>3, <1>4, <2>1
  <2>2. CASE ~(k < i)
    <3>1. (a \o b)[k] = b[k - (i - 1)]
      BY <1>1, <1>2, <1>3, <1>4, <2>2
    <3>2. k - (i - 1) \in 1 .. Len(q) - i
      BY <1>1, <2>2
    <3> QED  BY <1>1, <1>3, <2>2, <3>1, <3>2
  <2> QED  BY <2>1, <2>2
<1>7. Len(a \o b) = Len(q) - 1
  BY <1>1, <1>2, <1>3, <1>4
<1> QED  BY <1>4, <1>5, <1>6, <1>7

-----------------------------------------------------------------------------
(* The running job.                                                         *)

\* Whoever runs goes on running, for the same KPI, in the same lane; nobody
\* goes back to the provider.
GoesOn ==
    /\ active' \in [Scheduler -> ActiveJobs \cup {None}]
    /\ \A s \in Scheduler :
         /\ active'[s] = None <=> active[s] = None
         /\ active[s] # None =>
              /\ active'[s].target = active[s].target /\ active'[s].gen = active[s].gen
              /\ active'[s].lane = active[s].lane
              /\ active'[s].stage = "prepare" => active[s].stage = "prepare"

OthersRun(s) == \A x \in Scheduler \ {s} : active'[x] = active[x]

\* A step that leaves the running jobs alone.
LEMMA SameRuns ==
    ASSUME IInv, UNCHANGED active
    PROVE  GoesOn
BY DEF IInv, JobTypes, GoesOn

\* A step that rewrites the running job of one scheduler.
LEMMA RunRewritten ==
    ASSUME IInv, NEW s \in Scheduler, active[s] # None, NEW d \in ActiveJobs,
           active' = [active EXCEPT ![s] = d],
           d.target = active[s].target, d.gen = active[s].gen, d.lane = active[s].lane,
           d.stage = "prepare" => active[s].stage = "prepare"
    PROVE  GoesOn /\ OthersRun(s) /\ active'[s] = d
<1>1. active \in [Scheduler -> ActiveJobs \cup {None}]
  BY DEF IInv, JobTypes
<1>2. d # None
  BY RecordAssumption
<1> QED  BY <1>1, <1>2 DEF GoesOn, OthersRun

\* What runs is a job.
LEMMA RunTyped ==
    ASSUME IInv, NEW s \in Scheduler, active[s] # None
    PROVE  active[s] \in ActiveJobs
BY DEF IInv, JobTypes

\* abort() leaves a run where it stands.
LEMMA AbortedRun ==
    ASSUME IInv, NEW s \in Scheduler, active' = Aborted(s)
    PROVE  /\ GoesOn /\ OthersRun(s)
           /\ active[s] # None => active'[s] = [active[s] EXCEPT !.aborted = TRUE]
<1>1. CASE active[s] = None
  BY <1>1, SameRuns DEF Aborted, OthersRun
<1>2. CASE active[s] # None
  <2> DEFINE d == [active[s] EXCEPT !.aborted = TRUE]
  <2>1. /\ d \in ActiveJobs /\ d.target = active[s].target /\ d.gen = active[s].gen
        /\ d.lane = active[s].lane /\ d.stage = active[s].stage
    BY <1>2, RunTyped DEF ActiveJobs
  <2>2. active' = [active EXCEPT ![s] = d]
    BY <1>2 DEF Aborted
  <2> HIDE DEF d
  <2>3. GoesOn /\ OthersRun(s) /\ active'[s] = d
    BY <1>2, <2>1, <2>2, RunRewritten
  <2> QED  BY <2>3 DEF d
<1> QED  BY <1>1, <1>2

\* A run comes to its next stage.
LEMMA StagedRun ==
    ASSUME IInv, NEW s \in Scheduler, active[s] # None,
           NEW stage \in Stages \ {"prepare"}, To(s, stage) \/ Awaits(s, stage)
    PROVE  /\ GoesOn /\ OthersRun(s) /\ active'[s].stage = stage
           /\ active'[s].aborted = active[s].aborted
<1> DEFINE d(n) == [active[s] EXCEPT !.stage = stage, !.awaits = n]
<1>1. PICK n \in Nat : active' = [active EXCEPT ![s].stage = stage, ![s].awaits = n]
  <2>1. latest[s].n \in Nat
    BY DEF IInv, SettingTypes
  <2> QED  BY <2>1 DEF To, Awaits
<1>2. /\ d(n) \in ActiveJobs /\ d(n).target = active[s].target /\ d(n).gen = active[s].gen
      /\ d(n).lane = active[s].lane /\ d(n).stage = stage /\ d(n).aborted = active[s].aborted
  BY RunTyped DEF ActiveJobs
<1>3. active' = [active EXCEPT ![s] = d(n)]
  BY <1>1, RunTyped DEF ActiveJobs, IInv, JobTypes
<1> HIDE DEF d
<1>4. GoesOn /\ OthersRun(s) /\ active'[s] = d(n)
  BY <1>2, <1>3, RunRewritten
<1> QED  BY <1>2, <1>4

\* Pre-emption aborts the running job, or does nothing.
LEMMA PreemptedRun ==
    ASSUME IInv, NEW s \in Scheduler, NEW hot, NEW news, WithPreemption(s, hot, news)
    PROVE  GoesOn /\ OthersRun(s)
BY AbortedRun, SameRuns DEF WithPreemption, OthersRun

\* What Deduplicated makes of a job, running or queued.
Raised(job, ask) == [job EXCEPT !.priority = Higher(@, ask.priority),
                                !.explicit = @ \/ ask.explicit]

\* A request for the KPI that runs makes its run more urgent.
LEMMA RaisedRun ==
    ASSUME IInv, NEW s \in Scheduler, active[s] # None, asking[s] # None,
           active' = [active EXCEPT ![s] = Raised(active[s], asking[s])]
    PROVE  /\ GoesOn /\ OthersRun(s) /\ active'[s].stage = active[s].stage
           /\ active'[s].aborted = active[s].aborted
<1> DEFINE d == Raised(active[s], asking[s])
<1>1. asking[s] \in Requests /\ active[s] \in ActiveJobs
  BY RunTyped DEF IInv, JobTypes
<1>2. Higher(active[s].priority, asking[s].priority) \in 0..3
  BY <1>1 DEF Higher, ActiveJobs, Requests
<1>3. (active[s].explicit \/ asking[s].explicit) \in BOOLEAN
  OBVIOUS
<1>4. /\ d \in ActiveJobs /\ d.target = active[s].target /\ d.gen = active[s].gen
      /\ d.lane = active[s].lane /\ d.stage = active[s].stage /\ d.aborted = active[s].aborted
  BY <1>1, <1>2, <1>3 DEF ActiveJobs, Raised
<1> HIDE DEF d
<1>5. GoesOn /\ OthersRun(s) /\ active'[s] = d
  BY <1>4, RunRewritten DEF d
<1> QED  BY <1>4, <1>5

\* How the await of an update ends.
LEMMA Examined ==
    ASSUME IInv, NEW s \in Scheduler, Examine(s)
    PROVE  /\ active[s] # None
           /\ \/ Awaits(s, "error") /\ UNCHANGED viewVars
              \/ ~Current(s) /\ To(s, "over") /\ UNCHANGED viewVars
              \/ To(s, "put") /\ UNCHANGED viewVars
              \/ To(s, "over") /\ Publish(s, active[s].target, Snapshot("unavailable"))
<1>1. active[s] # None
  BY DEF Examine, Stage
<1>2. Stage(s, "proposal") \/ Stage(s, "nothing") \/ Stage(s, "nonsense")
  BY DEF Examine
<1>3. PICK how \in Settled(s) :
        CASE how = "failed" \/ (Current(s) /\ Stage(s, "nonsense")) ->
                 Awaits(s, "error") /\ UNCHANGED viewVars
          [] how = "done" /\ ~Current(s) -> To(s, "over") /\ UNCHANGED viewVars
          [] how = "done" /\ Current(s) /\ Stage(s, "proposal") ->
                 To(s, "put") /\ UNCHANGED viewVars
          [] how = "done" /\ Current(s) /\ Stage(s, "nothing") ->
                 To(s, "over") /\ Publish(s, active[s].target, Snapshot("unavailable"))
  BY DEF Examine
<1>4. how \in {"done", "failed"}
  BY DEF Settled, IInv, SettingTypes
<1> QED  BY <1>1, <1>2, <1>3, <1>4

\* The only step that begins a run is PumpStarts, and the only one that ends
\* it is Release.
LEMMA RunsStep ==
    ASSUME IInv, [Next]_vars
    PROVE  GoesOn \/ (\E s \in Scheduler : PumpStarts(s) \/ Release(s))
<1>1. ASSUME UNCHANGED active  PROVE GoesOn
  BY <1>1, SameRuns
<1>2. ASSUME NEW s \in Scheduler, active' = Aborted(s)  PROVE GoesOn
  BY <1>2, AbortedRun
<1>3. ASSUME NEW s \in Scheduler, NEW stage \in Stages \ {"prepare"}, active[s] # None,
             To(s, stage) \/ Awaits(s, stage)
      PROVE  GoesOn
  BY <1>3, StagedRun
<1>4. ASSUME NEW s \in Scheduler, Deduplicated(s)  PROVE GoesOn
  BY <1>4, RaisedRun, PreemptedRun DEF Deduplicated, Answering, RunsFor, Raised
<1>5. ASSUME NEW s \in Scheduler, Enqueued(s)  PROVE GoesOn
  BY <1>5, PreemptedRun DEF Enqueued
<1>6. ASSUME NEW s \in Scheduler, Run(s), ~Release(s)  PROVE GoesOn
  <2>1. ASSUME NEW what \in Outcomes \ {"unconfirmed"}, Prepared(s, what)  PROVE GoesOn
    <3>1. what \in Stages \ {"prepare"}
      BY OutcomeAssumption DEF Stages
    <3> QED  BY <1>3, <2>1, <3>1 DEF Prepared, Stage
  <2>2. CASE Unconfirmed(s) \/ Stored(s) \/ NotStored(s) \/ Failed(s)
    BY <1>3, <2>2 DEF Unconfirmed, Stored, NotStored, Failed, Stage, Stages
  <2>3. CASE Examine(s)
    BY <1>3, <2>3, Examined DEF Stages
  <2> QED  BY <1>6, <2>1, <2>2, <2>3 DEF Run
<1>7. ASSUME NEW s \in Scheduler, Updated(s)  PROVE GoesOn
  BY <1>1, <1>2, <1>7 DEF Updated
<1>8. ASSUME NEW s \in Scheduler, Demand(s)  PROVE GoesOn
  BY <1>1, <1>2, <1>8 DEF Demand, SetWorkspace, Ask, Freeze, ReleaseDisplay, RefreshDisplay, Expire,
     Background, Stop, Resume, Dispose, jobVars
<1>9. ASSUME NEW s \in Scheduler, Pump(s), ~PumpStarts(s)  PROVE GoesOn
  BY <1>1, <1>9 DEF Pump, PumpNothing, PumpLater, PumpBlocked, PumpOverBudget, jobVars
<1>10. ASSUME NEW s \in Scheduler, Answer(s)  PROVE GoesOn
  BY <1>1, <1>4, <1>5, <1>10 DEF Answer, AskedInVain, NoContext, KnownAlready, Refused
<1>11. ASSUME NEW s \in Scheduler, UpdateFails(s) \/ Wake(s)  PROVE GoesOn
  BY <1>1, <1>11 DEF UpdateFails, Wake, jobVars
<1>12. ASSUME NEW w \in Workspace, NEW e \in Execution, ConfirmCleanup(w, e)  PROVE GoesOn
  BY <1>1, <1>12 DEF ConfirmCleanup, jobVars
<1>13. CASE UNCHANGED vars
  BY <1>1, <1>13 DEF vars, jobVars
<1> QED  BY <1>6, <1>7, <1>8, <1>9, <1>10, <1>11, <1>12, <1>13 DEF Next, Update

-----------------------------------------------------------------------------
(* The types of settings and jobs.                                          *)

\* Every step keeps the types of the settings.
LEMMA SettingTypesStep ==
    ASSUME IInv, [Next]_vars
    PROVE  SettingTypes'
<1>1. SettingTypes
  BY DEF IInv
<1>2. ASSUME UNCHANGED <<modeVars, latest, gen, waking>>, pumping' \in [Scheduler -> BOOLEAN]
      PROVE  SettingTypes'
  BY <1>1, <1>2 DEF SettingTypes, modeVars
<1>3. pumping \in [Scheduler -> BOOLEAN]
  BY <1>1 DEF SettingTypes
<1>4. ASSUME NEW s \in Scheduler, Scheduled(s)  PROVE pumping' \in [Scheduler -> BOOLEAN]
  BY <1>3, <1>4 DEF Scheduled
<1>5. ASSUME NEW s \in Scheduler, Answer(s)  PROVE SettingTypes'
  <2>1. UNCHANGED <<modeVars, latest, gen, waking>> /\ (UNCHANGED pumping \/ Scheduled(s))
    BY <1>5 DEF Answer, AskedInVain, NoContext, Deduplicated, KnownAlready, Refused, Enqueued,
       NotPrepared, Answering, workVars
  <2> QED  BY <1>2, <1>3, <1>4, <2>1
<1>6. ASSUME NEW s \in Scheduler, Run(s)  PROVE SettingTypes'
  <2>1. CASE Release(s)
    <3>1. pumping' = Notified(lanes[active[s].lane], s)
      BY <2>1 DEF Release
    <3>2. pumping' \in [Scheduler -> BOOLEAN]
      BY <1>3, <3>1 DEF Notified
    <3> QED  BY <1>2, <2>1, <3>2 DEF Release, workVars
  <2>2. CASE UNCHANGED <<modeVars, workVars, timerVars>>
    BY <1>2, <1>3, <2>2 DEF workVars, timerVars
  <2> QED  BY <1>6, <2>1, <2>2 DEF Run, Prepared, Unconfirmed, Examine, Stored, NotStored, Failed
<1>7. ASSUME NEW s \in Scheduler, Pump(s)  PROVE SettingTypes'
  BY <1>1, <1>7 DEF Pump, PumpNothing, PumpLater, PumpBlocked, PumpOverBudget, PumpStarts, Pumping,
     SettingTypes, modeVars, workVars
<1>8. ASSUME NEW s \in Scheduler, Update(s)  PROVE SettingTypes'
  <2>1. latest[s].to \in Setting \cup {None} /\ latest[s].n \in Nat
    BY <1>1 DEF SettingTypes
  <2>2. latest' \in [Scheduler -> [n : Nat, to : Setting \cup {None},
                                   state : {"pending", "done", "failed"}]]
    <3>1. PICK state \in {"done", "failed"} :
            latest' = [latest EXCEPT ![s].to = None, ![s].state = state]
      BY <1>8 DEF Update, UpdateFails, Updated, Settle
    <3> DEFINE d == [latest[s] EXCEPT !.to = None, !.state = state]
    <3>2. latest[s] \in [n : Nat, to : Setting \cup {None}, state : {"pending", "done", "failed"}]
      BY <1>1 DEF SettingTypes
    <3>3. d \in [n : Nat, to : Setting \cup {None}, state : {"pending", "done", "failed"}]
      BY <3>2
    <3>4. latest' = [latest EXCEPT ![s] = d]
      BY <1>1, <3>1, <3>2 DEF SettingTypes
    <3> HIDE DEF d
    <3> QED  BY <1>1, <3>3, <3>4 DEF SettingTypes
  <2>5. \A x \in Scheduler : latest'[x].state = "pending" => latest'[x].to # None
    BY <1>1, <1>8 DEF Update, UpdateFails, Updated, Settle, SettingTypes
  <2>3. CASE UpdateFails(s)
    BY <1>1, <2>2, <2>5, <2>3 DEF UpdateFails, SettingTypes, modeVars, timerVars
  <2>4. CASE Updated(s)
    <3>1. gen' \in [Scheduler -> Setting \cup {None}]
      BY <1>1, <2>1, <2>4 DEF Updated, SettingTypes
    <3>2. UNCHANGED <<modeVars, waking>> /\ Scheduled(s)
      BY <2>4 DEF Updated
    <3>3. pumping' \in [Scheduler -> BOOLEAN]
      BY <1>4, <3>2
    <3> QED  BY <1>1, <2>2, <2>5, <3>1, <3>2, <3>3 DEF SettingTypes, modeVars
  <2> QED  BY <1>8, <2>3, <2>4 DEF Update
<1>9. ASSUME NEW s \in Scheduler, Wake(s)  PROVE SettingTypes'
  BY <1>1, <1>9 DEF Wake, Scheduled, SettingTypes, modeVars, workVars
<1>10. ASSUME NEW s \in Scheduler, Demand(s)  PROVE SettingTypes'
  <2>1. ASSUME NEW g \in Setting, SetWorkspace(s, g)  PROVE SettingTypes'
    BY <1>1, <2>1, NoneAssumption DEF SetWorkspace, SettingTypes, modeVars
  <2>2. CASE Background(s) \/ Stop(s) \/ Resume(s) \/ Dispose(s)
    BY <1>1, <2>2 DEF Background, Stop, Resume, Dispose, Scheduled, SettingTypes, modeVars, workVars
  <2>3. CASE UNCHANGED <<modeVars, workVars, timerVars>>
    BY <1>2, <1>3, <2>3 DEF workVars, timerVars
  <2> QED  BY <1>10, <2>1, <2>2, <2>3 DEF Demand, Ask, Freeze, ReleaseDisplay, RefreshDisplay, Expire
<1>11. ASSUME NEW w \in Workspace, NEW e \in Execution, ConfirmCleanup(w, e)
       PROVE  SettingTypes'
  <2>1. pumping' \in [Scheduler -> BOOLEAN]
    <3>1. CASE Blocked(w, e)
      <4>1. PICK m : pumping' = [x \in Scheduler |-> pumping[x] \/ (x \in m /\ ~gone[x])]
        BY <1>11, <3>1 DEF ConfirmCleanup
      <4> QED  BY <1>3, <4>1
    <3> QED  BY <1>3, <1>11, <3>1 DEF ConfirmCleanup
  <2> QED  BY <1>2, <1>11, <2>1 DEF ConfirmCleanup, workVars
<1>12. CASE UNCHANGED vars
  BY <1>2, <1>3, <1>12 DEF vars, workVars, timerVars
<1> QED  BY <1>5, <1>6, <1>7, <1>8, <1>9, <1>10, <1>11, <1>12 DEF Next

\* What a pump finds when it may go on.
LEMMA FirstJob ==
    ASSUME IInv, NEW s \in Scheduler, MayPump(s), Candidates(s) # {}
    PROVE  /\ queue[s][First(s)] \in Jobs /\ First(s) \in Queued(s)
           /\ gen[s] \in Setting /\ ExecutionOf[gen[s]] \in Execution
           /\ WorkspaceOf[gen[s]] \in Workspace
           /\ active[s] = None /\ ~gone[s]
<1>1. First(s) \in Queued(s) /\ queue[s][First(s)] \in Jobs
  BY FirstQueued, QueueTyped DEF IInv
<1>2. gen[s] # None /\ ExecutionOf[gen[s]] # None
  BY <1>1 DEF IInv, JobsQueued
<1>3. gen[s] \in Setting
  BY <1>2 DEF IInv, SettingTypes
<1> QED
  BY <1>1, <1>2, <1>3, WorkspaceAssumption, ExecutionAssumption DEF MayPump

\* The job that a pump begins to run.
LEMMA StartedRun ==
    ASSUME IInv, NEW s \in Scheduler, PumpStarts(s)
    PROVE  LET job == queue[s][First(s)]  l == registry[WorkspaceOf[gen[s]]] IN
           /\ l \in LaneId /\ lanes[l].owner = None
           /\ active' = [active EXCEPT ![s] = active'[s]]
           /\ active'[s] \in ActiveJobs /\ active'[s] # None
           /\ active'[s].target = job.target /\ active'[s].explicit = job.explicit
           /\ active'[s].gen = gen[s] /\ active'[s].lane = l
           /\ active'[s].stage = "prepare" /\ ~active'[s].aborted
<1> DEFINE job == queue[s][First(s)]
           l == registry[WorkspaceOf[gen[s]]]
           run == [target |-> job.target, priority |-> job.priority, explicit |-> job.explicit,
                   gen |-> gen[s], aborted |-> FALSE, lane |-> l,
                   stage |-> "prepare", awaits |-> 0]
<1>1. MayPump(s) /\ Candidates(s) # {} /\ active' = [active EXCEPT ![s] = run]
  BY DEF PumpStarts
<1>2. l \in LaneId /\ lanes[l].owner = None
  BY <1>1, FirstJob DEF IInv, RegistryTypes, MayPump
<1>3. run \in ActiveJobs
  BY <1>1, <1>2, FirstJob DEF Jobs, ActiveJobs, Stages
<1>4. active'[s] = run
  BY <1>1 DEF IInv, JobTypes
<1>5. run # None
  BY <1>3, RecordAssumption
<1>6. active' = [active EXCEPT ![s] = active'[s]]
  BY <1>1, <1>4
<1> QED  BY <1>2, <1>3, <1>4, <1>5, <1>6

\* Every step keeps the types of the jobs.
LEMMA JobTypesStep ==
    ASSUME IInv, [Next]_vars
    PROVE  JobTypes'
<1> USE LimitAssumption
<1>1. JobTypes
  BY DEF IInv
<1>2. active' \in [Scheduler -> ActiveJobs \cup {None}]
  <2>1. ASSUME NEW s \in Scheduler, PumpStarts(s)
        PROVE  active' \in [Scheduler -> ActiveJobs \cup {None}]
    BY <1>1, <2>1, StartedRun DEF JobTypes
  <2>2. ASSUME NEW s \in Scheduler, Release(s)
        PROVE  active' \in [Scheduler -> ActiveJobs \cup {None}]
    BY <1>1, <2>2 DEF Release, JobTypes
  <2> QED  BY <2>1, <2>2, RunsStep DEF GoesOn
<1>3. ASSUME UNCHANGED <<attempted, spent, retries>>, asking' \in [Scheduler -> Requests \cup {None}]
      PROVE  JobTypes'
  BY <1>1, <1>2, <1>3 DEF JobTypes
<1>4. asking \in [Scheduler -> Requests \cup {None}]
  BY <1>1 DEF JobTypes
<1>5. ASSUME NEW s \in Scheduler, Answer(s)  PROVE JobTypes'
  <2>1. UNCHANGED <<attempted, spent, retries>> /\ asking' = [asking EXCEPT ![s] = None]
    BY <1>5 DEF Answer, AskedInVain, NoContext, Deduplicated, KnownAlready, Refused, Enqueued,
       NotPrepared, Answering
  <2> QED  BY <1>3, <1>4, <2>1
<1>6. ASSUME NEW s \in Scheduler, Run(s) \/ UpdateFails(s) \/ Wake(s)  PROVE JobTypes'
  <2>1. UNCHANGED <<attempted, spent, retries, asking>>
    BY <1>6 DEF Run, Prepared, Unconfirmed, Examine, Stored, NotStored, Failed, Release,
       UpdateFails, Wake, jobVars
  <2> QED  BY <1>3, <1>4, <2>1
<1>7. ASSUME NEW s \in Scheduler, Pump(s)  PROVE JobTypes'
  <2>1. CASE PumpStarts(s)
    <3>1. queue[s][First(s)] \in Jobs /\ UNCHANGED <<retries, asking>>
      BY <2>1, FirstJob DEF PumpStarts, Pumping
    <3>2. attempted' \in [Scheduler -> SUBSET Target]
      BY <1>1, <2>1, <3>1 DEF PumpStarts, JobTypes, Jobs
    <3>3. spent' \in [Scheduler -> 0..Budget]
      BY <1>1, <2>1, <3>1 DEF PumpStarts, OverBudget, JobTypes
    <3> QED  BY <1>1, <1>2, <3>1, <3>2, <3>3 DEF JobTypes
  <2>2. CASE UNCHANGED <<attempted, spent, retries, asking>>
    BY <1>3, <1>4, <2>2
  <2> QED  BY <1>7, <2>1, <2>2 DEF Pump, PumpNothing, PumpLater, PumpBlocked, PumpOverBudget, Pumping,
              jobVars
<1>8. ASSUME NEW s \in Scheduler, Updated(s)  PROVE JobTypes'
  <2>1. UNCHANGED <<asking, retries>>
    BY <1>8 DEF Updated
  <2>2. \/ UNCHANGED <<attempted, spent>>
        \/ attempted' = [attempted EXCEPT ![s] = {}] /\ spent' = [spent EXCEPT ![s] = 0]
    BY <1>8 DEF Updated
  <2>3. attempted' \in [Scheduler -> SUBSET Target] /\ spent' \in [Scheduler -> 0..Budget]
    BY <1>1, <2>2 DEF JobTypes
  <2> QED  BY <1>1, <1>2, <2>1, <2>3 DEF JobTypes
<1>9. ASSUME NEW s \in Scheduler, Demand(s)  PROVE JobTypes'
  <2>1. ASSUME NEW t \in Target, NEW p \in Priorities[t], NEW explicit \in BOOLEAN,
               Ask(s, t, p, explicit)
        PROVE  JobTypes'
    <3> DEFINE ask == [target |-> t, priority |-> p, explicit |-> explicit, gen |-> gen[s]]
    <3>1. gen[s] \in Setting
      BY <2>1 DEF Ask, IInv, SettingTypes
    <3>2. p \in 0..3
      BY PriorityAssumption
    <3>3. ask \in Requests
      BY <3>1, <3>2 DEF Requests
    <3>4. asking' = [asking EXCEPT ![s] = ask]
      BY <2>1 DEF Ask
    <3> HIDE DEF ask
    <3>5. asking' \in [Scheduler -> Requests \cup {None}]
      BY <1>4, <3>3, <3>4
    <3>6. retries' \in [Scheduler -> 0..MaxRetries]
      BY <1>1, <2>1 DEF Ask, JobTypes
    <3> QED  BY <1>1, <1>2, <2>1, <3>5, <3>6 DEF Ask, JobTypes
  <2>2. CASE UNCHANGED <<attempted, spent, retries, asking>>
    BY <1>3, <1>4, <2>2
  <2> QED  BY <1>9, <2>1, <2>2 DEF Demand, SetWorkspace, Freeze, ReleaseDisplay, RefreshDisplay, Expire,
     Background, Stop, Resume, Dispose, jobVars
<1>10. ASSUME NEW w \in Workspace, NEW e \in Execution, ConfirmCleanup(w, e)  PROVE JobTypes'
  BY <1>3, <1>4, <1>10 DEF ConfirmCleanup, jobVars
<1>11. CASE UNCHANGED vars
  BY <1>3, <1>4, <1>11 DEF vars, jobVars
<1> QED  BY <1>5, <1>6, <1>7, <1>8, <1>9, <1>10, <1>11 DEF Next, Update

-----------------------------------------------------------------------------
(* The lanes.                                                               *)

Lane == [owner : Scheduler \cup {None}, blocked : SUBSET Execution,
         members : SUBSET Scheduler]

\* A lane is empty when nobody holds it.
LEMMA EmptyLaneIs ==
    ASSUME NEW lane \in Lane
    PROVE  lane = EmptyLane <=> lane.owner = None /\ lane.blocked = {} /\ lane.members = {}
BY DEF Lane, EmptyLane

\* The types of all that has to do with lanes.
LEMMA LanesTyped ==
    ASSUME IInv
    PROVE  /\ lanes \in [LaneId -> Lane] /\ registry \in [Workspace -> LaneId \cup {None}]
           /\ attached \in [Scheduler -> [workspace : Workspace, lane : LaneId] \cup {None}]
           /\ loose \subseteq Workspace \X Execution
           /\ \A s \in Scheduler : active[s] # None =>
                /\ active[s].lane \in LaneId /\ active[s].gen \in Setting
                /\ WorkspaceOf[active[s].gen] \in Workspace
           /\ None \notin LaneId \cup Scheduler
<1>1. /\ lanes \in [LaneId -> Lane] /\ registry \in [Workspace -> LaneId \cup {None}]
      /\ attached \in [Scheduler -> [workspace : Workspace, lane : LaneId] \cup {None}]
      /\ loose \subseteq Workspace \X Execution
  BY DEF IInv, RegistryTypes, Lane
<1>2. \A s \in Scheduler : active[s] # None =>
         active[s].lane \in LaneId /\ active[s].gen \in Setting
  BY RunTyped DEF ActiveJobs
<1> QED  BY <1>1, <1>2, NoneAssumption, WorkspaceAssumption

\* What a step of the registry has to keep.
LaneTypes == RegistryTypes /\ LanesHeld /\ NotOverLoose

\* A step that leaves the registry and the attachments alone.
LEMMA SameLanes ==
    ASSUME IInv, GoesOn, UNCHANGED <<registryVars, attached, gone>>
    PROVE  LaneTypes'
<1>1. RegistryTypes'
  BY DEF IInv, RegistryTypes, registryVars
<1>2. LanesHeld'
  BY DEF IInv, LanesHeld, Blocked, GoesOn, registryVars
<1>3. NotOverLoose'
  BY DEF IInv, NotOverLoose, Busy, GoesOn, registryVars
<1> QED  BY <1>1, <1>2, <1>3 DEF LaneTypes

\* A step that rewrites one lane.
LEMMA LaneRewritten ==
    ASSUME IInv, NEW l \in LaneId, NEW d \in Lane, lanes' = [lanes EXCEPT ![l] = d]
    PROVE  lanes' \in [LaneId -> Lane] /\ lanes'[l] = d
           /\ \A k \in LaneId \ {l} : lanes'[k] = lanes[k]
BY LanesTyped

\* What becomes of the registry when a lane may be dropped.
LEMMA DroppedLane ==
    ASSUME IInv, NEW w \in Workspace, NEW lane,
           registry' = IF LaneEmpty(lane) THEN [registry EXCEPT ![w] = None] ELSE registry
    PROVE  /\ registry' \in [Workspace -> LaneId \cup {None}]
           /\ \A v \in Workspace :
                registry'[v] = IF v = w /\ lane = EmptyLane THEN None ELSE registry[v]
BY LanesTyped DEF LaneEmpty

\* A started job becomes the owner of a free lane.
LEMMA StartLanes ==
    ASSUME IInv, NEW s \in Scheduler, PumpStarts(s)
    PROVE  LaneTypes'
<1> DEFINE l == registry[WorkspaceOf[gen[s]]]
           d == [lanes[l] EXCEPT !.owner = s]
<1>1. /\ l \in LaneId /\ lanes[l].owner = None
      /\ active' = [active EXCEPT ![s] = active'[s]] /\ active'[s] # None
      /\ active'[s].gen = gen[s] /\ active'[s].lane = l
  BY StartedRun
<1>2. /\ WorkspaceOf[gen[s]] \in Workspace /\ active[s] = None
      /\ <<WorkspaceOf[gen[s]], ExecutionOf[gen[s]]>> \notin loose
  <2>1. MayPump(s) /\ Candidates(s) # {} /\ ~Blocked(WorkspaceOf[gen[s]], ExecutionOf[gen[s]])
    BY DEF PumpStarts, QuarantineOf
  <2> QED  BY <2>1, FirstJob DEF IInv, LanesHeld
<1>3. d \in Lane /\ d.owner = s /\ d.blocked = lanes[l].blocked /\ d.members = lanes[l].members
  BY <1>1, LanesTyped DEF Lane
<1>4. lanes' = [lanes EXCEPT ![l] = d]
  BY DEF PumpStarts
<1>5. UNCHANGED <<registry, loose, attached, gone>>
  BY DEF PumpStarts, Pumping, modeVars, workVars
<1> HIDE DEF d
<1>6. lanes' \in [LaneId -> Lane] /\ lanes'[l] = d /\ \A k \in LaneId \ {l} : lanes'[k] = lanes[k]
  BY <1>1, <1>3, <1>4, LaneRewritten
<1>7. \A x \in Scheduler \ {s} : active'[x] = active[x]
  BY <1>1 DEF IInv, JobTypes
<1>8. RegistryTypes'
  BY <1>5, <1>6, LanesTyped DEF RegistryTypes, Lane
<1>9. LanesHeld'
  <2>1. \A k \in LaneId : lanes'[k] # EmptyLane => \E w \in Workspace : registry'[w] = k
    BY <1>1, <1>2, <1>5, <1>6 DEF IInv, LanesHeld
  <2>2. \A x \in Scheduler : attached'[x] # None =>
           /\ ~gone'[x] /\ registry'[attached'[x].workspace] = attached'[x].lane
           /\ x \in lanes'[attached'[x].lane].members
    BY <1>3, <1>5, <1>6, LanesTyped DEF IInv, LanesHeld
  <2>3. \A x \in Scheduler, k \in LaneId : x \in lanes'[k].members =>
           attached'[x] # None /\ attached'[x].lane = k
    BY <1>3, <1>5, <1>6 DEF IInv, LanesHeld
  <2>4. \A x \in Scheduler : active'[x] # None =>
           /\ registry'[WorkspaceOf[active'[x].gen]] = active'[x].lane
           /\ lanes'[active'[x].lane].owner = x
    BY <1>1, <1>3, <1>5, <1>6, <1>7, LanesTyped DEF IInv, LanesHeld
  <2>5. \A x \in Scheduler, k \in LaneId : lanes'[k].owner = x =>
           active'[x] # None /\ active'[x].lane = k
    BY <1>1, <1>2, <1>3, <1>6, <1>7 DEF IInv, LanesHeld
  <2>6. \A p \in loose' : Blocked(p[1], p[2])'
    BY <1>1, <1>3, <1>5, <1>6, LanesTyped DEF IInv, LanesHeld, Blocked
  <2> QED  BY <1>5, <2>1, <2>2, <2>3, <2>4, <2>5, <2>6 DEF IInv, LanesHeld
<1>10. NotOverLoose'
  BY <1>1, <1>2, <1>5, <1>7 DEF IInv, NotOverLoose, Busy
<1> QED  BY <1>8, <1>9, <1>10 DEF LaneTypes

\* A run that is over gives its lane back.
LEMMA ReleaseLanes ==
    ASSUME IInv, NEW s \in Scheduler, Release(s)
    PROVE  LaneTypes'
<1> DEFINE l == active[s].lane
           w == WorkspaceOf[active[s].gen]
           d == [lanes[l] EXCEPT !.owner = IF @ = s THEN None ELSE @]
<1>1. active[s] # None /\ active' = [active EXCEPT ![s] = None]
  BY DEF Release, Stage
<1>2. l \in LaneId /\ w \in Workspace /\ registry[w] = l /\ lanes[l].owner = s
  BY <1>1, LanesTyped DEF IInv, LanesHeld
<1>3. d \in Lane /\ d.owner = None /\ d.blocked = lanes[l].blocked /\ d.members = lanes[l].members
  BY <1>2, LanesTyped DEF Lane
<1>4. lanes' = [lanes EXCEPT ![l] = d]
  BY DEF Release
<1>5. UNCHANGED <<loose, attached, gone>> /\ registry' = Dropped(lanes', w, l)
  BY DEF Release, modeVars, workVars
<1> HIDE DEF d, w, l
<1>6. lanes' \in [LaneId -> Lane] /\ lanes'[l] = d /\ \A k \in LaneId \ {l} : lanes'[k] = lanes[k]
  BY <1>2, <1>3, <1>4, LaneRewritten
<1>7. /\ registry' \in [Workspace -> LaneId \cup {None}]
      /\ \A v \in Workspace : registry'[v] = IF v = w /\ d = EmptyLane THEN None ELSE registry[v]
  <2>1. registry' = IF LaneEmpty(d) THEN [registry EXCEPT ![w] = None] ELSE registry
    BY <1>5, <1>6 DEF Dropped
  <2> QED  BY <1>2, <2>1, DroppedLane
<1>8. d = EmptyLane <=> lanes[l].blocked = {} /\ lanes[l].members = {}
  BY <1>3, EmptyLaneIs
<1>9. /\ \A x \in Scheduler \ {s} : active'[x] = active[x]
      /\ active'[s] = None
  BY <1>1 DEF IInv, JobTypes
<1>10. RegistryTypes'
  BY <1>5, <1>6, <1>7, LanesTyped DEF RegistryTypes, Lane
<1>11. LanesHeld'
  <2>1. \A k \in LaneId : lanes'[k] # EmptyLane => \E v \in Workspace : registry'[v] = k
    BY <1>2, <1>6, <1>7 DEF IInv, LanesHeld
  <2>2. \A x \in Scheduler : attached'[x] # None =>
           /\ ~gone'[x] /\ registry'[attached'[x].workspace] = attached'[x].lane
           /\ x \in lanes'[attached'[x].lane].members
    BY <1>2, <1>3, <1>5, <1>6, <1>7, <1>8, LanesTyped DEF IInv, LanesHeld
  <2>3. \A x \in Scheduler, k \in LaneId : x \in lanes'[k].members =>
           attached'[x] # None /\ attached'[x].lane = k
    BY <1>3, <1>5, <1>6 DEF IInv, LanesHeld
  <2>4. \A x \in Scheduler : active'[x] # None =>
           /\ registry'[WorkspaceOf[active'[x].gen]] = active'[x].lane
           /\ lanes'[active'[x].lane].owner = x
    BY <1>2, <1>6, <1>7, <1>9, LanesTyped DEF IInv, LanesHeld
  <2>5. \A x \in Scheduler, k \in LaneId : lanes'[k].owner = x =>
           active'[x] # None /\ active'[x].lane = k
    BY <1>2, <1>3, <1>6, <1>9, LanesTyped DEF IInv, LanesHeld
  <2>6. \A p \in loose' : Blocked(p[1], p[2])'
    BY <1>2, <1>3, <1>5, <1>6, <1>7, <1>8, LanesTyped DEF IInv, LanesHeld, Blocked
  <2>7. \A u, v \in Workspace : registry'[v] # None /\ registry'[v] = registry'[u] => v = u
    BY <1>7 DEF IInv, LanesHeld
  <2> QED  BY <2>1, <2>2, <2>3, <2>4, <2>5, <2>6, <2>7 DEF LanesHeld
<1>12. NotOverLoose'
  BY <1>5, <1>9 DEF IInv, NotOverLoose, Busy
<1> QED  BY <1>10, <1>11, <1>12 DEF LaneTypes

\* A process that may still live is put in quarantine in its lane.
LEMMA UnconfirmedLanes ==
    ASSUME IInv, NEW s \in Scheduler, Unconfirmed(s)
    PROVE  LaneTypes'
<1> DEFINE l == active[s].lane
           w == WorkspaceOf[active[s].gen]
           e == ExecutionOf[active[s].gen]
           d == [lanes[l] EXCEPT !.blocked = @ \cup {e}]
<1>1. active[s] # None /\ GoesOn /\ OthersRun(s) /\ active'[s].stage = "over"
  BY StagedRun DEF Unconfirmed, Stage, Stages
<1>2. /\ l \in LaneId /\ w \in Workspace /\ registry[w] = l /\ lanes[l].owner = s
      /\ e \in Execution
  <2>1. ExecutionOf[active[s].gen] # None
    BY <1>1 DEF IInv, JobsQueued
  <2> QED  BY <1>1, <2>1, LanesTyped, ExecutionAssumption DEF IInv, LanesHeld
<1>3. /\ d \in Lane /\ d.owner = s /\ d.blocked = lanes[l].blocked \cup {e}
      /\ d.members = lanes[l].members
  BY <1>2, LanesTyped DEF Lane
<1>4. lanes' = [lanes EXCEPT ![l] = d] /\ loose' = loose \cup {<<w, e>>}
  BY DEF Unconfirmed
<1>5. UNCHANGED <<registry, attached, gone>>
  BY DEF Unconfirmed, modeVars, workVars
<1> HIDE DEF d, w, l, e
<1>6. lanes' \in [LaneId -> Lane] /\ lanes'[l] = d /\ \A k \in LaneId \ {l} : lanes'[k] = lanes[k]
  BY <1>2, <1>3, <1>4, LaneRewritten
<1>7. RegistryTypes'
  BY <1>2, <1>4, <1>5, <1>6, LanesTyped DEF RegistryTypes, Lane
<1>8. LanesHeld'
  <2>1. \A k \in LaneId : lanes'[k] # EmptyLane => \E v \in Workspace : registry'[v] = k
    BY <1>2, <1>5, <1>6 DEF IInv, LanesHeld
  <2>2. \A x \in Scheduler : attached'[x] # None =>
           /\ ~gone'[x] /\ registry'[attached'[x].workspace] = attached'[x].lane
           /\ x \in lanes'[attached'[x].lane].members
    BY <1>3, <1>5, <1>6, LanesTyped DEF IInv, LanesHeld
  <2>3. \A x \in Scheduler, k \in LaneId : x \in lanes'[k].members =>
           attached'[x] # None /\ attached'[x].lane = k
    BY <1>3, <1>5, <1>6 DEF IInv, LanesHeld
  <2>4. \A x \in Scheduler : active'[x] # None =>
           /\ registry'[WorkspaceOf[active'[x].gen]] = active'[x].lane
           /\ lanes'[active'[x].lane].owner = x
    BY <1>1, <1>2, <1>3, <1>5, <1>6, LanesTyped DEF IInv, LanesHeld, GoesOn
  <2>5. \A x \in Scheduler, k \in LaneId : lanes'[k].owner = x =>
           active'[x] # None /\ active'[x].lane = k
    BY <1>1, <1>2, <1>3, <1>6, LanesTyped DEF IInv, LanesHeld, GoesOn
  <2>6. \A p \in loose' : Blocked(p[1], p[2])'
    BY <1>2, <1>3, <1>4, <1>5, <1>6, LanesTyped DEF IInv, LanesHeld, Blocked
  <2> QED  BY <1>5, <2>1, <2>2, <2>3, <2>4, <2>5, <2>6 DEF IInv, LanesHeld
<1>9. NotOverLoose'
  <2> SUFFICES ASSUME NEW x \in Scheduler, Busy(x)'
               PROVE  <<WorkspaceOf[active'[x].gen], ExecutionOf[active'[x].gen]>> \notin loose'
    BY DEF NotOverLoose
  <2>1. x # s /\ active[x] # None /\ active'[x] = active[x] /\ Busy(x)
    BY <1>1 DEF Busy, GoesOn, OthersRun
  <2>2. <<WorkspaceOf[active[x].gen], ExecutionOf[active[x].gen]>> \notin loose
    BY <2>1 DEF IInv, NotOverLoose
  <2>3. WorkspaceOf[active[x].gen] # w
    BY <1>2, <2>1, LanesTyped DEF IInv, LanesHeld
  <2> QED  BY <1>4, <2>1, <2>2, <2>3
<1> QED  BY <1>7, <1>8, <1>9 DEF LaneTypes

\* The host's confirmation lifts the quarantine.
LEMMA ConfirmLanes ==
    ASSUME IInv, NEW w \in Workspace, NEW e \in Execution, ConfirmCleanup(w, e)
    PROVE  LaneTypes'
<1> DEFINE l == registry[w]
           d == [lanes[l] EXCEPT !.blocked = @ \ {e}]
<1>1. <<w, e>> \in loose /\ Blocked(w, e)
  BY DEF ConfirmCleanup, IInv, LanesHeld
<1>2. l \in LaneId /\ registry[w] = l /\ e \in lanes[l].blocked
  BY <1>1, LanesTyped DEF Blocked
<1>3. /\ d \in Lane /\ d.owner = lanes[l].owner /\ d.blocked = lanes[l].blocked \ {e}
      /\ d.members = lanes[l].members
  BY <1>2, LanesTyped DEF Lane
<1>4. /\ lanes' = [lanes EXCEPT ![l] = d] /\ loose' = loose \ {<<w, e>>}
      /\ registry' = Dropped(lanes', w, l)
  BY <1>1 DEF ConfirmCleanup
<1>5. UNCHANGED <<attached, gone, active>>
  BY DEF ConfirmCleanup, modeVars, workVars, jobVars
<1> HIDE DEF d, l
<1>6. lanes' \in [LaneId -> Lane] /\ lanes'[l] = d /\ \A k \in LaneId \ {l} : lanes'[k] = lanes[k]
  BY <1>2, <1>3, <1>4, LaneRewritten
<1>7. /\ registry' \in [Workspace -> LaneId \cup {None}]
      /\ \A v \in Workspace : registry'[v] = IF v = w /\ d = EmptyLane THEN None ELSE registry[v]
  <2>1. registry' = IF LaneEmpty(d) THEN [registry EXCEPT ![w] = None] ELSE registry
    BY <1>4, <1>6 DEF Dropped
  <2> QED  BY <2>1, DroppedLane
<1>8. d = EmptyLane <=> d.blocked = {} /\ d.members = {} /\ d.owner = None
  BY <1>3, EmptyLaneIs
<1>9. RegistryTypes'
  BY <1>4, <1>5, <1>6, <1>7, LanesTyped DEF RegistryTypes, Lane
<1>10. LanesHeld'
  <2>1. \A k \in LaneId : lanes'[k] # EmptyLane => \E v \in Workspace : registry'[v] = k
    BY <1>2, <1>6, <1>7 DEF IInv, LanesHeld
  <2>2. \A x \in Scheduler : attached'[x] # None =>
           /\ ~gone'[x] /\ registry'[attached'[x].workspace] = attached'[x].lane
           /\ x \in lanes'[attached'[x].lane].members
    BY <1>2, <1>3, <1>5, <1>6, <1>7, <1>8, LanesTyped DEF IInv, LanesHeld
  <2>3. \A x \in Scheduler, k \in LaneId : x \in lanes'[k].members =>
           attached'[x] # None /\ attached'[x].lane = k
    BY <1>3, <1>5, <1>6 DEF IInv, LanesHeld
  <2>4. \A x \in Scheduler : active'[x] # None =>
           /\ registry'[WorkspaceOf[active'[x].gen]] = active'[x].lane
           /\ lanes'[active'[x].lane].owner = x
    BY <1>2, <1>3, <1>5, <1>6, <1>7, <1>8, LanesTyped DEF IInv, LanesHeld
  <2>5. \A x \in Scheduler, k \in LaneId : lanes'[k].owner = x =>
           active'[x] # None /\ active'[x].lane = k
    BY <1>2, <1>3, <1>5, <1>6, LanesTyped DEF IInv, LanesHeld
  <2>6. \A p \in loose' : Blocked(p[1], p[2])'
    <3> SUFFICES ASSUME NEW p \in loose'  PROVE Blocked(p[1], p[2])'
      OBVIOUS
    <3>1. /\ p \in loose /\ p # <<w, e>> /\ p = <<p[1], p[2]>>
          /\ p[1] \in Workspace /\ p[2] \in Execution
      BY <1>4, LanesTyped
    <3>2. registry[p[1]] \in LaneId /\ p[2] \in lanes[registry[p[1]]].blocked
      BY <3>1, LanesTyped DEF IInv, LanesHeld, Blocked
    <3>3. CASE p[1] = w
      BY <1>2, <1>3, <1>6, <1>7, <1>8, <3>1, <3>2, <3>3, LanesTyped DEF Blocked
    <3>4. CASE p[1] # w
      <4>1. registry[p[1]] # l
        BY <1>2, <3>1, <3>2, <3>4, LanesTyped DEF IInv, LanesHeld
      <4> QED  BY <1>6, <1>7, <3>1, <3>2, <3>4, <4>1, LanesTyped DEF Blocked
    <3> QED  BY <3>3, <3>4
  <2>7. \A u, v \in Workspace : registry'[v] # None /\ registry'[v] = registry'[u] => v = u
    BY <1>7 DEF IInv, LanesHeld
  <2> QED  BY <2>1, <2>2, <2>3, <2>4, <2>5, <2>6, <2>7 DEF LanesHeld
<1>11. NotOverLoose'
  BY <1>4, <1>5 DEF IInv, NotOverLoose, Busy
<1> QED  BY <1>9, <1>10, <1>11 DEF LaneTypes

\* What is left when s has given up its lane.
Detached(ls, reg, s) ==
    /\ ls \in [LaneId -> Lane] /\ reg \in [Workspace -> LaneId \cup {None}]
    /\ \A k \in LaneId :
         /\ ls[k].owner = lanes[k].owner /\ ls[k].blocked = lanes[k].blocked
         /\ ls[k].members = lanes[k].members \ {s}
         /\ ls[k] # EmptyLane => \E v \in Workspace : reg[v] = k
    /\ \A v \in Workspace : reg[v] # registry[v] =>
         reg[v] = None /\ ls[registry[v]] = EmptyLane

\* A scheduler that is attached nowhere is a member of no lane.
LEMMA NeverAttached ==
    ASSUME IInv, NEW s \in Scheduler, attached[s] = None
    PROVE  Detached(lanes, registry, s)
BY LanesTyped DEF IInv, LanesHeld, Detached, Lane

\* A scheduler leaves its lane, which is dropped when it is empty.
LEMMA DetachedLane ==
    ASSUME IInv, NEW s \in Scheduler, attached[s] # None,
           NEW ls, ls = [lanes EXCEPT ![attached[s].lane].members = @ \ {s}],
           NEW reg, reg = Dropped(ls, attached[s].workspace, attached[s].lane)
    PROVE  /\ Detached(ls, reg, s)
           /\ \A v \in Workspace \ {attached[s].workspace} : reg[v] = registry[v]
<1> DEFINE l == attached[s].lane
           w == attached[s].workspace
           d == [lanes[l] EXCEPT !.members = @ \ {s}]
<1>1. l \in LaneId /\ w \in Workspace /\ registry[w] = l
  BY LanesTyped DEF IInv, LanesHeld
<1>2. /\ d \in Lane /\ d.owner = lanes[l].owner /\ d.blocked = lanes[l].blocked
      /\ d.members = lanes[l].members \ {s}
  BY <1>1, LanesTyped DEF Lane
<1>3. ls = [lanes EXCEPT ![l] = d]
  OBVIOUS
<1> HIDE DEF d
<1>4. ls \in [LaneId -> Lane] /\ ls[l] = d /\ \A k \in LaneId \ {l} : ls[k] = lanes[k]
  BY <1>1, <1>2, <1>3, LanesTyped
<1>5. /\ reg \in [Workspace -> LaneId \cup {None}]
      /\ \A v \in Workspace : reg[v] = IF v = w /\ d = EmptyLane THEN None ELSE registry[v]
  BY <1>1, <1>4, LanesTyped DEF Dropped, LaneEmpty
<1> HIDE DEF l, w
<1>6. \A k \in LaneId \ {l} : s \notin lanes[k].members
  BY DEF IInv, LanesHeld, l
<1>7. \A k \in LaneId : /\ ls[k].owner = lanes[k].owner /\ ls[k].blocked = lanes[k].blocked
                        /\ ls[k].members = lanes[k].members \ {s}
  BY <1>2, <1>4, <1>6, LanesTyped DEF Lane
<1>8. \A k \in LaneId : ls[k] # EmptyLane => \E v \in Workspace : reg[v] = k
  <2> SUFFICES ASSUME NEW k \in LaneId, ls[k] # EmptyLane
               PROVE  \E v \in Workspace : reg[v] = k
    OBVIOUS
  <2>1. CASE k = l
    BY <1>1, <1>4, <1>5, <2>1
  <2>2. CASE k # l
    <3>1. PICK v \in Workspace : registry[v] = k
      BY <1>4, <2>2 DEF IInv, LanesHeld
    <3> QED  BY <1>1, <1>5, <2>2, <3>1
  <2> QED  BY <2>1, <2>2
<1>9. \A v \in Workspace : reg[v] # registry[v] => reg[v] = None /\ ls[registry[v]] = EmptyLane
  BY <1>1, <1>4, <1>5
<1>10. \A v \in Workspace \ {attached[s].workspace} : reg[v] = registry[v]
  BY <1>5 DEF w
<1> QED  BY <1>4, <1>5, <1>7, <1>8, <1>9, <1>10 DEF Detached

\* A lane for workspace w is the registered one, or one that nobody holds.
LEMMA LaneInWorkspace ==
    ASSUME IInv, NEW s \in Scheduler, NEW ls, NEW reg, Detached(ls, reg, s),
           NEW w \in Workspace, reg[w] = registry[w]
    PROVE  /\ LaneIn(reg, w) \in LaneId
           /\ reg[w] # None => LaneIn(reg, w) = reg[w]
           /\ reg[w] = None => \A v \in Workspace : reg[v] # LaneIn(reg, w)
<1>1. reg \in [Workspace -> LaneId \cup {None}]
  BY DEF Detached
<1>2. CASE reg[w] # None
  BY <1>1, <1>2 DEF LaneIn
<1>3. CASE reg[w] = None
  <2>1. PICK l \in LaneId : \A v \in Workspace : registry[v] # l
    BY <1>3, LanesTyped, LaneAssumption
  <2>2. \A v \in Workspace : reg[v] # l
    BY <2>1, LanesTyped DEF Detached
  <2>3. \A x \in Scheduler : attached[x] # None => attached[x].lane # l
    BY <2>1, LanesTyped DEF IInv, LanesHeld
  <2>4. \A x \in Scheduler : active[x] # None => active[x].lane # l
    BY <2>1, LanesTyped DEF IInv, LanesHeld
  <2>5. \E k \in LaneId :
          /\ \A v \in Workspace : reg[v] # k
          /\ \A x \in Scheduler : /\ attached[x] # None => attached[x].lane # k
                                  /\ active[x] # None => active[x].lane # k
    BY <2>2, <2>3, <2>4
  <2>6. LaneIn(reg, w) = CHOOSE k \in LaneId :
          /\ \A v \in Workspace : reg[v] # k
          /\ \A x \in Scheduler : /\ attached[x] # None => attached[x].lane # k
                                  /\ active[x] # None => active[x].lane # k
    BY <1>3 DEF LaneIn
  <2> QED  BY <1>3, <2>5, <2>6
<1> QED  BY <1>2, <1>3

\* A detached scheduler joins the lane of a workspace.
LEMMA AttachedLane ==
    ASSUME IInv, NEW s \in Scheduler, NEW ls, NEW reg, Detached(ls, reg, s),
           NEW w \in Workspace, reg[w] = registry[w], ~gone[s],
           NEW l, l = LaneIn(reg, w), NEW d, d = [ls[l] EXCEPT !.members = @ \cup {s}],
           NEW a, a = [workspace |-> w, lane |-> l],
           lanes' = [ls EXCEPT ![l] = d], registry' = [reg EXCEPT ![w] = l],
           attached' = [attached EXCEPT ![s] = a],
           UNCHANGED <<loose, gone>>, GoesOn
    PROVE  LaneTypes'
<1>1. /\ ls \in [LaneId -> Lane] /\ reg \in [Workspace -> LaneId \cup {None}]
      /\ l \in LaneId /\ (reg[w] = l \/ \A v \in Workspace : reg[v] # l)
      /\ reg[w] = None \/ reg[w] = l
  BY LaneInWorkspace DEF Detached
<1>2. /\ d \in Lane /\ d.owner = ls[l].owner /\ d.blocked = ls[l].blocked
      /\ d.members = ls[l].members \cup {s}
  BY <1>1 DEF Lane
<1>3. a # None /\ a \in [workspace : Workspace, lane : LaneId] /\ a.workspace = w /\ a.lane = l
  BY <1>1, RecordAssumption
<1>5. lanes' \in [LaneId -> Lane] /\ lanes'[l] = d /\ \A k \in LaneId \ {l} : lanes'[k] = ls[k]
  BY <1>1, <1>2
<1>6. /\ attached' \in [Scheduler -> [workspace : Workspace, lane : LaneId] \cup {None}]
      /\ attached'[s] = a /\ \A x \in Scheduler \ {s} : attached'[x] = attached[x]
  BY <1>3, LanesTyped
<1>7. /\ registry' \in [Workspace -> LaneId \cup {None}] /\ registry'[w] = l
      /\ \A v \in Workspace \ {w} : registry'[v] = reg[v]
  BY <1>1
<1>8. ASSUME NEW k \in LaneId
      PROVE  /\ lanes'[k].owner = lanes[k].owner /\ lanes'[k].blocked = lanes[k].blocked
             /\ s \in lanes'[k].members <=> k = l
             /\ \A x \in Scheduler \ {s} : x \in lanes'[k].members <=> x \in lanes[k].members
  <2>1. /\ ls[k].owner = lanes[k].owner /\ ls[k].blocked = lanes[k].blocked
        /\ ls[k].members = lanes[k].members \ {s}
    BY DEF Detached
  <2>2. CASE k = l
    BY <1>2, <1>5, <2>1, <2>2
  <2>3. CASE k # l
    BY <1>5, <2>1, <2>3
  <2> QED  BY <2>2, <2>3
\* A lane that somebody else holds is registered as before.
<1>9. ASSUME NEW v \in Workspace, registry[v] \in LaneId, ls[registry[v]] # EmptyLane
      PROVE  registry'[v] = registry[v]
  BY <1>1, <1>7, <1>9, LanesTyped DEF Detached
<1>10. \A k \in LaneId : \/ ls[k] # EmptyLane
                         \/ ls[k].owner = None /\ ls[k].blocked = {} /\ ls[k].members = {}
  BY <1>1, EmptyLaneIs
<1>11. RegistryTypes'
  BY <1>5, <1>6, <1>7, LanesTyped DEF RegistryTypes, Lane
<1>12. LanesHeld'
  <2>1. \A k \in LaneId : lanes'[k] # EmptyLane => \E v \in Workspace : registry'[v] = k
    <3> SUFFICES ASSUME NEW k \in LaneId, lanes'[k] # EmptyLane
                 PROVE  \E v \in Workspace : registry'[v] = k
      OBVIOUS
    <3>1. CASE k = l
      BY <1>7, <3>1
    <3>2. CASE k # l
      <4>1. PICK v \in Workspace : reg[v] = k
        BY <1>5, <3>2 DEF Detached
      <4>2. v # w
        BY <1>1, <3>2, <4>1, LanesTyped
      <4> QED  BY <1>7, <4>1, <4>2
    <3> QED  BY <3>1, <3>2
  <2>2. \A x \in Scheduler : attached'[x] # None =>
           /\ ~gone'[x] /\ registry'[attached'[x].workspace] = attached'[x].lane
           /\ x \in lanes'[attached'[x].lane].members
    <3> SUFFICES ASSUME NEW x \in Scheduler, attached'[x] # None
                 PROVE  /\ ~gone'[x] /\ registry'[attached'[x].workspace] = attached'[x].lane
                        /\ x \in lanes'[attached'[x].lane].members
      OBVIOUS
    <3>1. CASE x = s
      BY <1>1, <1>3, <1>6, <1>7, <1>8, <3>1
    <3>2. CASE x # s
      <4>1. /\ ~gone[x] /\ registry[attached[x].workspace] = attached[x].lane
            /\ x \in lanes[attached[x].lane].members /\ attached'[x] = attached[x]
            /\ attached[x].workspace \in Workspace /\ attached[x].lane \in LaneId
        BY <1>6, <3>2, LanesTyped DEF IInv, LanesHeld
      <4>2. x \in ls[attached[x].lane].members
        BY <3>2, <4>1 DEF Detached
      <4>3. registry'[attached[x].workspace] = attached[x].lane
        BY <1>9, <1>10, <4>1, <4>2
      <4> QED  BY <1>8, <3>2, <4>1, <4>3
    <3> QED  BY <3>1, <3>2
  <2>3. \A x \in Scheduler, k \in LaneId : x \in lanes'[k].members =>
           attached'[x] # None /\ attached'[x].lane = k
    BY <1>3, <1>6, <1>8 DEF IInv, LanesHeld
  <2>4. \A x \in Scheduler : active'[x] # None =>
           /\ registry'[WorkspaceOf[active'[x].gen]] = active'[x].lane
           /\ lanes'[active'[x].lane].owner = x
    <3> SUFFICES ASSUME NEW x \in Scheduler, active[x] # None
                 PROVE  /\ registry'[WorkspaceOf[active[x].gen]] = active[x].lane
                        /\ lanes'[active[x].lane].owner = x
      BY DEF GoesOn
    <3>1. /\ registry[WorkspaceOf[active[x].gen]] = active[x].lane
          /\ lanes[active[x].lane].owner = x /\ active[x].lane \in LaneId
          /\ WorkspaceOf[active[x].gen] \in Workspace /\ x # None
      BY LanesTyped DEF IInv, LanesHeld
    <3>2. ls[active[x].lane] # EmptyLane
      BY <3>1 DEF Detached, EmptyLane
    <3> QED  BY <1>8, <1>9, <3>1, <3>2
  <2>5. \A x \in Scheduler, k \in LaneId : lanes'[k].owner = x =>
           active'[x] # None /\ active'[x].lane = k
    BY <1>8 DEF IInv, LanesHeld, GoesOn
  <2>6. \A p \in loose' : Blocked(p[1], p[2])'
    <3> SUFFICES ASSUME NEW p \in loose  PROVE Blocked(p[1], p[2])'
      OBVIOUS
    <3>1. /\ p[1] \in Workspace /\ registry[p[1]] \in LaneId
          /\ p[2] \in lanes[registry[p[1]]].blocked
      BY LanesTyped DEF IInv, LanesHeld, Blocked
    <3>2. ls[registry[p[1]]] # EmptyLane
      BY <3>1 DEF Detached, EmptyLane
    <3>3. registry'[p[1]] = registry[p[1]]
      BY <1>9, <3>1, <3>2
    <3> QED  BY <1>8, <3>1, <3>3, LanesTyped DEF Blocked
  <2>7. \A u, v \in Workspace : registry'[v] # None /\ registry'[v] = registry'[u] => v = u
    <3>1. \A u, v \in Workspace : reg[v] # None /\ reg[v] = reg[u] => v = u
      BY DEF IInv, LanesHeld, Detached
    <3> QED  BY <1>1, <1>7, <3>1, LanesTyped
  <2> QED  BY <2>1, <2>2, <2>3, <2>4, <2>5, <2>6, <2>7 DEF LanesHeld
<1>13. NotOverLoose'
  BY DEF IInv, NotOverLoose, Busy, GoesOn
<1> QED  BY <1>11, <1>12, <1>13 DEF LaneTypes

\* An update moves its scheduler to the lane of the new workspace.
LEMMA UpdatedLanes ==
    ASSUME IInv, NEW s \in Scheduler, Updated(s), GoesOn
    PROVE  LaneTypes'
<1> DEFINE w == WorkspaceOf[latest[s].to]
<1>1. /\ ~gone[s] /\ Attach(s, w) /\ UNCHANGED <<loose, gone>>
      /\ latest[s].state = "pending"
  BY DEF Updated, modeVars, Settle
<1>2. w \in Workspace
  BY <1>1, WorkspaceAssumption DEF IInv, SettingTypes
<1> HIDE DEF w
<1>3. CASE attached[s] # None /\ attached[s].workspace = w
  BY <1>1, <1>3, SameLanes DEF Attach, registryVars
<1>4. CASE ~(attached[s] # None /\ attached[s].workspace = w)
  <2> DEFINE ls == IF attached[s] = None THEN lanes
                   ELSE [lanes EXCEPT ![attached[s].lane].members = @ \ {s}]
             reg == IF attached[s] = None THEN registry
                    ELSE Dropped(ls, attached[s].workspace, attached[s].lane)
             l == LaneIn(reg, w)
  <2>1. /\ lanes' = [ls EXCEPT ![l].members = @ \cup {s}]
        /\ registry' = [reg EXCEPT ![w] = l]
        /\ attached' = [attached EXCEPT ![s] = [workspace |-> w, lane |-> l]]
    BY <1>1, <1>4 DEF Attach
  <2>3. lanes' = [ls EXCEPT ![l] = [ls[l] EXCEPT !.members = @ \cup {s}]]
    BY <2>1
  <2>2. Detached(ls, reg, s) /\ reg[w] = registry[w]
    <3>1. CASE attached[s] = None
      BY <3>1, NeverAttached
    <3>2. CASE attached[s] # None
      <4>1. /\ ls = [lanes EXCEPT ![attached[s].lane].members = @ \ {s}]
            /\ reg = Dropped(ls, attached[s].workspace, attached[s].lane)
        BY <3>2
      <4>2. w \in Workspace \ {attached[s].workspace}
        BY <1>2, <1>4, <3>2
      <4> HIDE DEF ls, reg
      <4>3. /\ Detached(ls, reg, s)
            /\ \A v \in Workspace \ {attached[s].workspace} : reg[v] = registry[v]
        BY <3>2, <4>1, DetachedLane
      <4> QED  BY <4>2, <4>3
    <3> QED  BY <3>1, <3>2
  <2> HIDE DEF ls, reg
  <2> QED  BY <1>1, <1>2, <2>1, <2>2, <2>3, AttachedLane
<1> QED  BY <1>3, <1>4

\* A disposed scheduler leaves its lane, and its run keeps it.
LEMMA DisposeLanes ==
    ASSUME IInv, NEW s \in Scheduler, Dispose(s)
    PROVE  LaneTypes'
<1>1. /\ GoesOn /\ UNCHANGED loose /\ gone' = [gone EXCEPT ![s] = TRUE]
      /\ gone \in [Scheduler -> BOOLEAN]
  BY AbortedRun DEF Dispose, IInv, SettingTypes
<1>2. Detached(lanes', registry', s) /\ attached' = [attached EXCEPT ![s] = None]
  <2>1. CASE attached[s] = None
    <3>1. UNCHANGED <<lanes, registry, attached>>
      BY <2>1 DEF Dispose
    <3>2. attached' = [attached EXCEPT ![s] = None]
      BY <2>1, <3>1, LanesTyped
    <3> QED  BY <2>1, <3>1, <3>2, NeverAttached DEF Detached
  <2>2. CASE attached[s] # None
    <3>1. PICK ls, reg : lanes' = ls /\ registry' = reg
      OBVIOUS
    <3>2. /\ ls = [lanes EXCEPT ![attached[s].lane].members = @ \ {s}]
          /\ reg = Dropped(ls, attached[s].workspace, attached[s].lane)
          /\ attached' = [attached EXCEPT ![s] = None]
      BY <2>2, <3>1 DEF Dispose, Dropped
    <3>3. Detached(ls, reg, s)
      BY <2>2, <3>2, DetachedLane
    <3> QED  BY <3>1, <3>2, <3>3 DEF Detached
  <2> QED  BY <2>1, <2>2
<1>3. /\ attached' \in [Scheduler -> [workspace : Workspace, lane : LaneId] \cup {None}]
      /\ attached'[s] = None /\ \A x \in Scheduler \ {s} : attached'[x] = attached[x]
  BY <1>2, LanesTyped
<1>4. /\ lanes' \in [LaneId -> Lane] /\ registry' \in [Workspace -> LaneId \cup {None}]
      /\ \A k \in LaneId :
           /\ lanes'[k].owner = lanes[k].owner /\ lanes'[k].blocked = lanes[k].blocked
           /\ lanes'[k].members = lanes[k].members \ {s}
           /\ lanes'[k] # EmptyLane => \E v \in Workspace : registry'[v] = k
  BY <1>2 DEF Detached
<1>5. \A v \in Workspace : registry[v] \in LaneId /\ lanes'[registry[v]] # EmptyLane
         => registry'[v] = registry[v]
  BY <1>2 DEF Detached
<1>6. RegistryTypes'
  BY <1>1, <1>3, <1>4, LanesTyped DEF RegistryTypes, Lane
<1>7. LanesHeld'
  <2>2. \A x \in Scheduler : attached'[x] # None =>
           /\ ~gone'[x] /\ registry'[attached'[x].workspace] = attached'[x].lane
           /\ x \in lanes'[attached'[x].lane].members
    <3> SUFFICES ASSUME NEW x \in Scheduler, attached'[x] # None
                 PROVE  /\ ~gone'[x] /\ registry'[attached'[x].workspace] = attached'[x].lane
                        /\ x \in lanes'[attached'[x].lane].members
      OBVIOUS
    <3>1. /\ ~gone[x] /\ registry[attached[x].workspace] = attached[x].lane
          /\ x \in lanes[attached[x].lane].members /\ attached'[x] = attached[x] /\ x # s
          /\ attached[x].workspace \in Workspace /\ attached[x].lane \in LaneId
      BY <1>3, LanesTyped DEF IInv, LanesHeld
    <3>2. x \in lanes'[attached[x].lane].members
      BY <1>4, <3>1
    <3>3. lanes'[attached[x].lane] # EmptyLane
      BY <3>2 DEF EmptyLane
    <3> QED  BY <1>1, <1>5, <3>1, <3>2, <3>3
  <2>3. \A x \in Scheduler, k \in LaneId : x \in lanes'[k].members =>
           attached'[x] # None /\ attached'[x].lane = k
    BY <1>3, <1>4 DEF IInv, LanesHeld
  <2>4. \A x \in Scheduler : active'[x] # None =>
           /\ registry'[WorkspaceOf[active'[x].gen]] = active'[x].lane
           /\ lanes'[active'[x].lane].owner = x
    <3> SUFFICES ASSUME NEW x \in Scheduler, active[x] # None
                 PROVE  /\ registry'[WorkspaceOf[active[x].gen]] = active[x].lane
                        /\ lanes'[active[x].lane].owner = x
      BY <1>1 DEF GoesOn
    <3>1. /\ registry[WorkspaceOf[active[x].gen]] = active[x].lane
          /\ lanes[active[x].lane].owner = x /\ active[x].lane \in LaneId
          /\ WorkspaceOf[active[x].gen] \in Workspace /\ x # None
      BY LanesTyped DEF IInv, LanesHeld
    <3>2. lanes'[active[x].lane] # EmptyLane
      BY <1>4, <3>1 DEF EmptyLane
    <3> QED  BY <1>4, <1>5, <3>1, <3>2
  <2>5. \A x \in Scheduler, k \in LaneId : lanes'[k].owner = x =>
           active'[x] # None /\ active'[x].lane = k
    BY <1>1, <1>4 DEF IInv, LanesHeld, GoesOn
  <2>6. \A p \in loose' : Blocked(p[1], p[2])'
    <3> SUFFICES ASSUME NEW p \in loose  PROVE Blocked(p[1], p[2])'
      BY <1>1
    <3>1. /\ p[1] \in Workspace /\ registry[p[1]] \in LaneId
          /\ p[2] \in lanes[registry[p[1]]].blocked
      BY LanesTyped DEF IInv, LanesHeld, Blocked
    <3>2. lanes'[registry[p[1]]] # EmptyLane
      BY <1>4, <3>1 DEF EmptyLane
    <3>3. registry'[p[1]] = registry[p[1]]
      BY <1>5, <3>1, <3>2
    <3> QED  BY <1>4, <3>1, <3>3, LanesTyped DEF Blocked
  <2>7. \A u, v \in Workspace : registry'[v] # None /\ registry'[v] = registry'[u] => v = u
    BY <1>2 DEF IInv, LanesHeld, Detached
  <2> QED  BY <1>4, <2>2, <2>3, <2>4, <2>5, <2>6, <2>7 DEF LanesHeld
<1>8. NotOverLoose'
  BY <1>1 DEF IInv, NotOverLoose, Busy, GoesOn
<1> QED  BY <1>6, <1>7, <1>8 DEF LaneTypes

\* Every step keeps LanesHeld, and no provider is started over a loose process.
LEMMA LaneTypesStep ==
    ASSUME IInv, [Next]_vars
    PROVE  LaneTypes'
<1>1. CASE \E s \in Scheduler : PumpStarts(s)
  BY <1>1, StartLanes
<1>2. CASE \E s \in Scheduler : Release(s)
  BY <1>2, ReleaseLanes
<1>3. CASE GoesOn
  <2>1. ASSUME NEW s \in Scheduler, Updated(s) \/ Dispose(s) \/ Unconfirmed(s)  PROVE LaneTypes'
    BY <1>3, <2>1, UpdatedLanes, DisposeLanes, UnconfirmedLanes
  <2>2. ASSUME NEW w \in Workspace, NEW e \in Execution, ConfirmCleanup(w, e)  PROVE LaneTypes'
    BY <2>2, ConfirmLanes
  <2>3. ASSUME UNCHANGED <<registryVars, attached, gone>>  PROVE LaneTypes'
    BY <1>3, <2>3, SameLanes
  <2>4. ASSUME NEW s \in Scheduler, Demand(s), ~Dispose(s)  PROVE LaneTypes'
    BY <2>3, <2>4 DEF Demand, SetWorkspace, Ask, Freeze, ReleaseDisplay, RefreshDisplay, Expire,
       Background, Stop, Resume, modeVars, workVars
  <2>5. ASSUME NEW s \in Scheduler, Answer(s)  PROVE LaneTypes'
    BY <2>3, <2>5 DEF Answer, AskedInVain, NoContext, Deduplicated, KnownAlready, Refused, Enqueued,
       NotPrepared, Answering, modeVars, workVars
  <2>6. ASSUME NEW s \in Scheduler, Pump(s), ~PumpStarts(s)  PROVE LaneTypes'
    BY <2>3, <2>6 DEF Pump, PumpNothing, PumpLater, PumpBlocked, PumpOverBudget, Pumping,
       registryVars, modeVars, workVars
  <2>7. ASSUME NEW s \in Scheduler, Run(s), ~Release(s), ~Unconfirmed(s)  PROVE LaneTypes'
    BY <2>3, <2>7 DEF Run, Prepared, Examine, Stored, NotStored, Failed, modeVars, workVars
  <2>8. ASSUME NEW s \in Scheduler, UpdateFails(s) \/ Wake(s)  PROVE LaneTypes'
    BY <2>3, <2>8 DEF UpdateFails, Wake, modeVars, workVars
  <2>9. ASSUME UNCHANGED vars  PROVE LaneTypes'
    BY <2>3, <2>9 DEF vars, modeVars, workVars
  <2> QED  BY <1>1, <1>2, <2>1, <2>2, <2>4, <2>5, <2>6, <2>7, <2>8, <2>9 DEF Next, Update
<1> QED  BY <1>1, <1>2, <1>3, RunsStep

-----------------------------------------------------------------------------
(* What is shown.                                                           *)

\* A publication that is well formed and promises nothing that is not so.
Says(s, news) ==
    /\ Publishes(s, news)
    /\ DOMAIN news \subseteq Target
    /\ \A t \in DOMAIN news :
         /\ news[t] \in Shots
         /\ news[t].status = "ready" => news[t].of = gen[s] /\ ~gone[s]

\* A snapshot without a proposal.
LEMMA SnapshotIs ==
    ASSUME NEW status \in Statuses
    PROVE  Snapshot(status) \in Shots /\ Snapshot(status).status = status
BY DEF Snapshot, Shots

\* A snapshot with a proposal.
LEMMA ReadyIs ==
    ASSUME NEW g \in Setting
    PROVE  Ready(g) \in Shots /\ Ready(g).status = "ready" /\ Ready(g).of = g
BY DEF Ready, Shots, Statuses

\* Marking as stale.
LEMMA StaleIs ==
    ASSUME NEW x \in Shots
    PROVE  StaleShot(x) \in Shots /\ StaleShot(x).status = "stale"
BY DEF StaleShot, Shots, Statuses

\* What a publication changes.
LEMMA SaysView ==
    ASSUME IInv, NEW s \in Scheduler, NEW news, Says(s, news)
    PROVE  /\ ViewTypes'
           /\ \A x \in Scheduler \ {s} :
                shot'[x] = shot[x] /\ shown'[x] = shown[x] /\ lost'[x] = lost[x]
           /\ \A t \in Target :
                /\ shot'[s][t] = IF t \in DOMAIN news THEN news[t] ELSE shot[s][t]
                /\ shown'[s][t] = shown[s][t] \/ (t \in DOMAIN news /\ shown'[s][t] = news[t])
                /\ t \in lost'[s] <=> t \in lost[s] /\ t \notin DOMAIN news
<1> DEFINE a == [t \in Target |-> IF t \in DOMAIN news THEN news[t] ELSE shot[s][t]]
           b == [t \in Target |-> IF t \in DOMAIN news /\ Follows(shown[s][t]) THEN news[t]
                                  ELSE shown[s][t]]
           c == lost[s] \ DOMAIN news
<1>1. /\ shot' = [shot EXCEPT ![s] = a] /\ shown' = [shown EXCEPT ![s] = b]
      /\ lost' = [lost EXCEPT ![s] = c]
  BY DEF Says, Publishes
<1>2. /\ shot \in [Scheduler -> [Target -> Shots]]
      /\ shown \in [Scheduler -> [Target -> Shots \cup {None}]]
      /\ lost \in [Scheduler -> SUBSET Target]
  BY DEF IInv, ViewTypes
<1>3. a \in [Target -> Shots] /\ b \in [Target -> Shots \cup {None}] /\ c \in SUBSET Target
  BY <1>2 DEF Says
<1>4. \A t \in Target :
        /\ a[t] = IF t \in DOMAIN news THEN news[t] ELSE shot[s][t]
        /\ b[t] = shown[s][t] \/ (t \in DOMAIN news /\ b[t] = news[t])
        /\ t \in c <=> t \in lost[s] /\ t \notin DOMAIN news
  OBVIOUS
<1> HIDE DEF a, b, c
<1>5. /\ shot'[s] = a /\ shown'[s] = b /\ lost'[s] = c
      /\ \A x \in Scheduler \ {s} :
           shot'[x] = shot[x] /\ shown'[x] = shown[x] /\ lost'[x] = lost[x]
  BY <1>1, <1>2
<1>6. ViewTypes'
  BY <1>1, <1>2, <1>3 DEF ViewTypes
<1> QED  BY <1>4, <1>5, <1>6

\* A publication leaves only proposals for the setting in force.
LEMMA SaysApplies ==
    ASSUME IInv, NEW s \in Scheduler, NEW news, Says(s, news), UNCHANGED <<gen, gone>>
    PROVE  AppliesToCurrent'
<1> SUFFICES ASSUME NEW x \in Scheduler, NEW t \in Target, NEW y \in {shot'[x][t], shown'[x][t]} \ {None},
                    y.status = "ready"
             PROVE  y.of = gen[x] /\ ~gone[x]
  BY DEF AppliesToCurrent
<1>1. CASE x # s
  BY <1>1, SaysView DEF IInv, AppliesToCurrent
<1>2. CASE x = s
  <2>1. y \in {shot[s][t], shown[s][t]} \/ (t \in DOMAIN news /\ y = news[t])
    BY <1>2, SaysView
  <2> QED  BY <1>2, <2>1 DEF IInv, AppliesToCurrent, Says
<1> QED  BY <1>1, <1>2

\* A new generation makes all that was shown stale.
LEMMA AllStaleView ==
    ASSUME IInv, NEW s \in Scheduler, AllStale(s)
    PROVE  /\ ViewTypes'
           /\ \A x \in Scheduler \ {s} :
                shot'[x] = shot[x] /\ shown'[x] = shown[x] /\ lost'[x] = lost[x]
           /\ \A t \in Target :
                /\ shot'[s][t].status = "stale"
                /\ shown'[s][t] # None => shown'[s][t].status = "stale"
<1> DEFINE a == [t \in Target |-> StaleShot(shot[s][t])]
           b == [t \in Target |-> IF shown[s][t] = None THEN None ELSE StaleShot(shown[s][t])]
<1>1. /\ shot' = [shot EXCEPT ![s] = a] /\ shown' = [shown EXCEPT ![s] = b]
      /\ lost' = [lost EXCEPT ![s] = {}]
  BY DEF AllStale
<1>2. /\ shot \in [Scheduler -> [Target -> Shots]]
      /\ shown \in [Scheduler -> [Target -> Shots \cup {None}]]
      /\ lost \in [Scheduler -> SUBSET Target]
  BY DEF IInv, ViewTypes
<1>3. /\ a \in [Target -> Shots] /\ b \in [Target -> Shots \cup {None}]
      /\ \A t \in Target : /\ a[t].status = "stale"
                           /\ b[t] # None => b[t].status = "stale"
  BY <1>2, StaleIs
<1> HIDE DEF a, b
<1>4. /\ shot'[s] = a /\ shown'[s] = b
      /\ \A x \in Scheduler \ {s} :
           shot'[x] = shot[x] /\ shown'[x] = shown[x] /\ lost'[x] = lost[x]
  BY <1>1, <1>2
<1>5. ViewTypes'
  BY <1>1, <1>2, <1>3 DEF ViewTypes
<1> QED  BY <1>3, <1>4, <1>5

\* Afterwards there is no proposal for another setting.
LEMMA AllStaleApplies ==
    ASSUME IInv, NEW s \in Scheduler, AllStale(s),
           \A x \in Scheduler \ {s} : gen'[x] = gen[x] /\ gone'[x] = gone[x]
    PROVE  AppliesToCurrent'
<1> SUFFICES ASSUME NEW x \in Scheduler, NEW t \in Target, NEW y \in {shot'[x][t], shown'[x][t]} \ {None},
                    y.status = "ready"
             PROVE  y.of = gen'[x] /\ ~gone'[x]
  BY DEF AppliesToCurrent
<1> QED  BY AllStaleView DEF IInv, AppliesToCurrent

\* One snapshot is published.
LEMMA PublishSays ==
    ASSUME NEW s \in Scheduler, NEW t \in Target, NEW x \in Shots, Publish(s, t, x),
           x.status = "ready" => x.of = gen[s] /\ ~gone[s]
    PROVE  Says(s, [u \in {t} |-> x])
BY DEF Publish, Says

\* Publications with a pre-emption say in addition that the running job's KPI
\* is stale.
LEMMA PreemptionSays ==
    ASSUME IInv, NEW s \in Scheduler, NEW hot, NEW news, WithPreemption(s, hot, news),
           DOMAIN news \subseteq Target,
           \A t \in DOMAIN news : news[t] \in Shots /\ news[t].status # "ready"
    PROVE  \E more :
             /\ Says(s, more) /\ DOMAIN news \subseteq DOMAIN more
             /\ \A t \in DOMAIN more :
                  more[t].status = "preparing" => t \in DOMAIN news /\ news[t].status = "preparing"
             /\ \/ UNCHANGED active
                \/ active' = Aborted(s) /\ active[s].target \in DOMAIN more
<1>1. CASE Preempts(s, hot)
  <2> DEFINE more == [u \in DOMAIN news \cup {active[s].target} |->
                        IF u = active[s].target THEN Snapshot("stale") ELSE news[u]]
  <2>1. active[s].target \in Target
    BY <1>1, RunTyped DEF Preempts, ActiveJobs
  <2>2. Publishes(s, more) /\ active' = Aborted(s)
    BY <1>1 DEF WithPreemption
  <2>3. Snapshot("stale") \in Shots /\ Snapshot("stale").status = "stale"
    BY SnapshotIs DEF Statuses
  <2>4. \A t \in DOMAIN more : more[t] \in Shots /\ more[t].status # "ready"
    BY <2>3
  <2>5. DOMAIN more \subseteq Target
    BY <2>1
  <2> HIDE DEF more
  <2>6. Says(s, more)
    BY <2>2, <2>4, <2>5 DEF Says
  <2>7. DOMAIN more = DOMAIN news \cup {active[s].target}
    BY DEF more
  <2>8. \A t \in DOMAIN more : more[t] = IF t = active[s].target THEN Snapshot("stale")
                                         ELSE news[t]
    BY DEF more
  <2>9. DOMAIN news \subseteq DOMAIN more /\ active[s].target \in DOMAIN more
    BY <2>7
  <2>10. \A t \in DOMAIN more :
           more[t].status = "preparing" => t \in DOMAIN news /\ news[t].status = "preparing"
    BY <2>3, <2>7, <2>8
  <2> QED  BY <2>2, <2>6, <2>9, <2>10
<1>2. CASE ~Preempts(s, hot)
  <2>1. Publishes(s, news) /\ UNCHANGED active
    BY <1>2 DEF WithPreemption
  <2>2. Says(s, news)
    BY <2>1 DEF Says
  <2> QED  BY <2>1, <2>2
<1> QED  BY <1>1, <1>2

\* How the error handler of run() ends.
LEMMA FailedRun ==
    ASSUME IInv, NEW s \in Scheduler, Failed(s)
    PROVE  /\ active[s] # None /\ To(s, "over")
           /\ \/ Publish(s, active[s].target, Snapshot("unavailable"))
              \/ ~Current(s) /\ UNCHANGED viewVars
              \/ /\ lost' = [lost EXCEPT ![s] = @ \cup {active[s].target}]
                 /\ UNCHANGED <<shot, shown>>
<1>1. active[s] # None /\ To(s, "over")
  BY DEF Failed, Stage
<1>2. PICK how \in Settled(s) :
        CASE how = "done" /\ Current(s) ->
                 Publish(s, active[s].target, Snapshot("unavailable"))
          [] how = "done" /\ ~Current(s) -> UNCHANGED viewVars
          [] how = "failed" ->
                 lost' = [lost EXCEPT ![s] = @ \cup {active[s].target}] /\ UNCHANGED <<shot, shown>>
  BY DEF Failed
<1>3. how \in {"done", "failed"}
  BY DEF Settled, IInv, SettingTypes
<1> QED  BY <1>1, <1>2, <1>3

\* What an accepted request publishes.
LEMMA EnqueuedSays ==
    ASSUME IInv, NEW s \in Scheduler, Enqueued(s)
    PROVE  /\ asking[s] \in Requests /\ gen[s] \in Setting /\ ExecutionOf[gen[s]] # None
           /\ \E more :
                /\ Says(s, more)
                /\ Evicted(s) \cup {asking[s].target} \subseteq DOMAIN more
                /\ \A t \in DOMAIN more : more[t].status = "preparing" => t = asking[s].target
                /\ \/ UNCHANGED active
                   \/ active' = Aborted(s) /\ active[s].target \in DOMAIN more
<1> DEFINE ask == asking[s]
           job == [target |-> ask.target, priority |-> ask.priority,
                   explicit |-> ask.explicit,
                   delayed |-> ~ask.explicit /\ ask.priority \in {2, 3}]
           news == [u \in Evicted(s) \cup {ask.target} |->
                     Snapshot(IF u = ask.target THEN "preparing" ELSE "unavailable")]
<1>1. asking[s] \in Requests /\ asking[s].gen = gen[s] /\ asking[s].target \in Target
  BY DEF Enqueued, NotPrepared, Answering, Valid, IInv, JobTypes, Requests
<1>2. gen[s] \in Setting /\ ExecutionOf[gen[s]] # None
  BY <1>1 DEF Requests, Enqueued, Refusal
<1>3. WithPreemption(s, job, news)
  BY DEF Enqueued
<1>4. Evicted(s) \subseteq Target
  <2>1. Full(s) => Queued(s) # {}
    BY QueueTyped, LimitAssumption DEF Full, IInv, Queued
  <2> QED  BY <2>1, WorstQueued, QueueTyped DEF Evicted, IInv, Jobs
<1>5. /\ Snapshot("preparing") \in Shots /\ Snapshot("preparing").status = "preparing"
      /\ Snapshot("unavailable") \in Shots /\ Snapshot("unavailable").status = "unavailable"
      /\ Snapshot("stale") \in Shots /\ Snapshot("stale").status = "stale"
  BY SnapshotIs DEF Statuses
<1>6. /\ DOMAIN news = Evicted(s) \cup {ask.target}
      /\ \A t \in DOMAIN news : /\ news[t] \in Shots /\ news[t].status # "ready"
                                /\ news[t].status = "preparing" => t = ask.target
  BY <1>5
<1> HIDE DEF job, news
<1>8. PICK more :
         /\ Says(s, more) /\ DOMAIN news \subseteq DOMAIN more
         /\ \A t \in DOMAIN more :
              more[t].status = "preparing" => t \in DOMAIN news /\ news[t].status = "preparing"
         /\ \/ UNCHANGED active
            \/ active' = Aborted(s) /\ active[s].target \in DOMAIN more
  <2>1. DOMAIN news \subseteq Target /\ \A t \in DOMAIN news : news[t] \in Shots /\ news[t].status # "ready"
    BY <1>1, <1>4, <1>6
  <2> QED  BY <1>3, <2>1, PreemptionSays
<1>9. \A t \in DOMAIN more : more[t].status = "preparing" => t = asking[s].target
  BY <1>6, <1>8
<1> QED  BY <1>1, <1>2, <1>6, <1>8, <1>9

\* Every step keeps the types of what is shown, and AppliesToCurrent.
LEMMA ViewStep ==
    ASSUME IInv, [Next]_vars
    PROVE  ViewTypes' /\ AppliesToCurrent'
<1> DEFINE Goal == ViewTypes' /\ AppliesToCurrent'
<1>1. ASSUME UNCHANGED <<viewVars, gen, gone>>  PROVE Goal
  BY <1>1 DEF IInv, ViewTypes, AppliesToCurrent, viewVars
<1>2. ASSUME NEW s \in Scheduler, NEW news, Says(s, news), UNCHANGED <<gen, gone>>  PROVE Goal
  BY <1>2, SaysView, SaysApplies
<1>3. ASSUME NEW s \in Scheduler, NEW t \in Target, NEW status \in Statuses \ {"ready"},
             Publish(s, t, Snapshot(status)), UNCHANGED <<gen, gone>>
      PROVE  Goal
  BY <1>2, <1>3, PublishSays, SnapshotIs
<1>4. ASSUME NEW s \in Scheduler, NEW t \in Target, gen[s] \in Setting, ~gone[s],
             Publish(s, t, Ready(gen[s])), UNCHANGED <<gen, gone>>
      PROVE  Goal
  BY <1>2, <1>4, PublishSays, ReadyIs
<1>5. ASSUME NEW s \in Scheduler, AllStale(s),
             \A x \in Scheduler \ {s} : gen'[x] = gen[x] /\ gone'[x] = gone[x]
      PROVE  Goal
  BY <1>5, AllStaleView, AllStaleApplies
<1> HIDE DEF Goal
<1>6. ASSUME NEW s \in Scheduler, Demand(s)  PROVE Goal
  <2>1. ASSUME NEW t \in Target, Freeze(s, t) \/ ReleaseDisplay(s, t) \/ RefreshDisplay(s, t)
        PROVE  Goal
    <3>1. /\ UNCHANGED <<shot, lost, gen, gone>>
          /\ shown' = [shown EXCEPT ![s][t] = shot[s][t]] \/ shown' = [shown EXCEPT ![s][t] = None]
      BY <2>1 DEF Freeze, ReleaseDisplay, RefreshDisplay, workVars, modeVars
    <3>2. ViewTypes'
      <4>1. PICK x \in {shot[s][t], None} : shown' = [shown EXCEPT ![s][t] = x]
        BY <3>1
      <4> DEFINE row == [shown[s] EXCEPT ![t] = x]
      <4>2. row \in [Target -> Shots \cup {None}] /\ shown' = [shown EXCEPT ![s] = row]
        BY <4>1 DEF IInv, ViewTypes
      <4> HIDE DEF row
      <4> QED  BY <3>1, <4>2 DEF IInv, ViewTypes
    <3>3. \A x \in Scheduler, u \in Target : shown'[x][u] \in {shown[x][u], shot[x][u], None}
      BY <3>1 DEF IInv, ViewTypes
    <3> QED  BY <3>1, <3>2, <3>3 DEF IInv, AppliesToCurrent, Goal
  <2>2. ASSUME NEW t \in Target, Expire(s, t)  PROVE Goal
    <3>1. UNCHANGED <<lost, gen, gone>>
      BY <2>2 DEF Expire, workVars, modeVars
    <3>2. \/ UNCHANGED shown /\ shot' = [shot EXCEPT ![s][t] = StaleShot(@)]
          \/ UNCHANGED shot /\ shown[s][t] # None /\ shown' = [shown EXCEPT ![s][t] = StaleShot(@)]
      BY <2>2 DEF Expire
    <3>3. /\ StaleShot(shot[s][t]) \in Shots /\ StaleShot(shot[s][t]).status = "stale"
          /\ shown[s][t] # None =>
               StaleShot(shown[s][t]) \in Shots /\ StaleShot(shown[s][t]).status = "stale"
      BY StaleIs DEF IInv, ViewTypes
    <3>4. ViewTypes'
      <4>1. CASE UNCHANGED shown /\ shot' = [shot EXCEPT ![s][t] = StaleShot(@)]
        <5> DEFINE row == [shot[s] EXCEPT ![t] = StaleShot(shot[s][t])]
        <5>1. row \in [Target -> Shots] /\ shot' = [shot EXCEPT ![s] = row]
          BY <3>3, <4>1 DEF IInv, ViewTypes
        <5> HIDE DEF row
        <5> QED  BY <3>1, <4>1, <5>1 DEF IInv, ViewTypes
      <4>2. CASE UNCHANGED shot /\ shown[s][t] # None /\ shown' = [shown EXCEPT ![s][t] = StaleShot(@)]
        <5> DEFINE row == [shown[s] EXCEPT ![t] = StaleShot(shown[s][t])]
        <5>1. row \in [Target -> Shots \cup {None}] /\ shown' = [shown EXCEPT ![s] = row]
          BY <3>3, <4>2 DEF IInv, ViewTypes
        <5> HIDE DEF row
        <5> QED  BY <3>1, <4>2, <5>1 DEF IInv, ViewTypes
      <4> QED  BY <3>2, <4>1, <4>2
    <3>5. \A x \in Scheduler, u \in Target :
            /\ shown'[x][u] = shown[x][u] \/ shown'[x][u].status = "stale"
            /\ shot'[x][u] = shot[x][u] \/ shot'[x][u].status = "stale"
      BY <3>2, <3>3 DEF IInv, ViewTypes
    <3> QED  BY <3>1, <3>4, <3>5 DEF IInv, AppliesToCurrent, Goal
  <2>3. CASE Stop(s)
    <3> DEFINE ran == IF active[s] = None THEN {} ELSE {active[s].target}
               queued == {queue[s][i].target : i \in 1..Len(queue[s])}
               news == [u \in ran \cup queued |->
                          Snapshot(IF u \in ran THEN "stale" ELSE "unavailable")]
    <3>1. Publishes(s, news) /\ UNCHANGED <<gen, gone>>
      BY <2>3 DEF Stop, workVars
    <3>2. ran \subseteq Target /\ queued \subseteq Target
      BY RunTyped, QueueTyped DEF ActiveJobs, IInv, Jobs, Queued
    <3>3. \A u \in DOMAIN news : news[u] \in Shots /\ news[u].status # "ready"
      BY SnapshotIs DEF Statuses
    <3>4. DOMAIN news \subseteq Target
      BY <3>2
    <3> HIDE DEF news
    <3> QED  BY <1>2, <3>1, <3>3, <3>4 DEF Says
  <2>4. CASE Dispose(s)
    <3>1. AllStale(s) /\ gone' = [gone EXCEPT ![s] = TRUE] /\ UNCHANGED gen
      BY <2>4 DEF Dispose
    <3> QED  BY <1>5, <3>1 DEF IInv, SettingTypes
  <2> QED  BY <1>1, <1>6, <2>1, <2>2, <2>3, <2>4 DEF Demand, SetWorkspace, Ask, Background, Resume,
     workVars, modeVars
<1>7. ASSUME NEW s \in Scheduler, Update(s)  PROVE Goal
  <2>1. CASE UpdateFails(s)
    BY <1>1, <2>1 DEF UpdateFails, modeVars
  <2>2. CASE Updated(s)
    <3>1. UNCHANGED gone
      BY <2>2 DEF Updated, modeVars
    <3>2. CASE UNCHANGED <<gen, viewVars>>
      BY <1>1, <3>1, <3>2
    <3>3. CASE gen' = [gen EXCEPT ![s] = latest[s].to] /\ AllStale(s)
      BY <1>5, <3>1, <3>3 DEF IInv, SettingTypes
    <3> QED  BY <2>2, <3>2, <3>3 DEF Updated
  <2> QED  BY <1>7, <2>1, <2>2 DEF Update
<1>8. ASSUME NEW s \in Scheduler, Answer(s)  PROVE Goal
  <2>1. UNCHANGED <<gen, gone>> /\ asking[s] # None
    BY <1>8 DEF Answer, AskedInVain, NoContext, Deduplicated, KnownAlready, Refused, Enqueued,
       NotPrepared, Answering, modeVars, workVars
  <2>2. asking[s] \in Requests /\ asking[s].target \in Target
    BY <2>1 DEF IInv, JobTypes, Requests
  <2>3. CASE AskedInVain(s)
    BY <1>1, <2>1, <2>3 DEF AskedInVain
  <2>4. CASE NoContext(s)
    <3>1. Publish(s, asking[s].target, Snapshot("stale"))
      BY <2>4 DEF NoContext
    <3> QED  BY <1>3, <2>1, <2>2, <3>1 DEF Statuses
  <2>5. CASE Deduplicated(s)
    <3>1. CASE UNCHANGED viewVars
      BY <1>1, <2>1, <3>1
    <3>2. CASE \E hot : WithPreemption(s, hot, <<>>)
      <4>1. PICK hot : WithPreemption(s, hot, <<>>)
        BY <3>2
      <4>2. DOMAIN <<>> = {}
        OBVIOUS
      <4>3. \E more : Says(s, more)
        BY <4>1, <4>2, PreemptionSays
      <4> QED  BY <1>2, <2>1, <4>3
    <3> QED  BY <2>5, <3>1, <3>2 DEF Deduplicated
  <2>6. CASE KnownAlready(s)
    <3>1. gen[s] = asking[s].gen /\ ~gone[s]
      BY <2>6 DEF KnownAlready, NotPrepared, Valid
    <3>2. gen[s] \in Setting
      BY <2>2, <3>1 DEF Requests
    <3>3. \/ Publish(s, asking[s].target, Ready(gen[s]))
          \/ Publish(s, asking[s].target, Snapshot("unavailable"))
      BY <2>6 DEF KnownAlready
    <3> QED  BY <1>3, <1>4, <2>1, <2>2, <3>1, <3>2, <3>3 DEF Statuses
  <2>7. CASE Refused(s)
    <3>1. Publish(s, asking[s].target, Snapshot(Refusal(s))) /\ Refusal(s) # "none"
      BY <2>7 DEF Refused
    <3>2. Refusal(s) \in Statuses \ {"ready"}
      BY <3>1 DEF Refusal, Statuses
    <3> QED  BY <1>3, <2>1, <2>2, <3>1, <3>2
  <2>8. CASE Enqueued(s)
    BY <1>2, <2>1, <2>8, EnqueuedSays
  <2> QED  BY <1>8, <2>3, <2>4, <2>5, <2>6, <2>7, <2>8 DEF Answer
<1>9. ASSUME NEW s \in Scheduler, Pump(s)  PROVE Goal
  <2>1. UNCHANGED <<gen, gone>>
    BY <1>9 DEF Pump, PumpNothing, PumpLater, PumpBlocked, PumpOverBudget, PumpStarts, Pumping,
       modeVars, workVars
  <2>2. CASE PumpBlocked(s)
    <3> DEFINE news == [u \in {queue[s][i].target : i \in 1..Len(queue[s])} |-> Snapshot("blocked")]
    <3>1. Publishes(s, news)
      BY <2>2 DEF PumpBlocked
    <3>2. Snapshot("blocked") \in Shots /\ Snapshot("blocked").status # "ready"
      BY SnapshotIs DEF Statuses
    <3>3. DOMAIN news \subseteq Target
      BY QueueTyped DEF IInv, Jobs, Queued
    <3>4. Says(s, news)
      BY <3>1, <3>2, <3>3 DEF Says
    <3> QED  BY <1>2, <2>1, <3>4
  <2>3. CASE PumpOverBudget(s)
    <3>1. Publish(s, queue[s][First(s)].target, Snapshot("unavailable"))
      BY <2>3 DEF PumpOverBudget
    <3>2. queue[s][First(s)].target \in Target
      BY <2>3, FirstJob DEF PumpOverBudget, Jobs
    <3> QED  BY <1>3, <2>1, <3>1, <3>2 DEF Statuses
  <2> QED  BY <1>1, <1>9, <2>1, <2>2, <2>3 DEF Pump, PumpNothing, PumpLater, PumpStarts
<1>10. ASSUME NEW s \in Scheduler, Run(s)  PROVE Goal
  <2>1. UNCHANGED <<gen, gone>> /\ active[s] # None
    BY <1>10 DEF Run, Prepared, Unconfirmed, Examine, Stored, NotStored, Failed, Release, Stage,
       modeVars, workVars
  <2>2. active[s].target \in Target /\ active[s].gen \in Setting
    BY <2>1, RunTyped DEF ActiveJobs
  <2>3. CASE UNCHANGED viewVars
    BY <1>1, <2>1, <2>3
  <2>4. ASSUME NEW status \in Statuses \ {"ready"}, Publish(s, active[s].target, Snapshot(status))
        PROVE  Goal
    BY <1>3, <2>1, <2>2, <2>4
  <2>5. CASE Unconfirmed(s)
    BY <2>3, <2>4, <2>5 DEF Unconfirmed, Statuses
  <2>6. CASE Examine(s)
    BY <2>3, <2>4, <2>6, Examined DEF Statuses
  <2>7. CASE Stored(s)
    <3>1. CASE Current(s)
      <4>1. gen[s] = active[s].gen /\ ~gone[s] /\ Publish(s, active[s].target, Ready(active[s].gen))
        BY <2>7, <3>1 DEF Stored, Current
      <4> QED  BY <1>4, <2>1, <2>2, <4>1
    <3> QED  BY <2>3, <2>7, <3>1 DEF Stored
  <2>8. CASE Failed(s)
    <3>1. CASE UNCHANGED <<shot, shown>> /\ lost' = [lost EXCEPT ![s] = @ \cup {active[s].target}]
      BY <2>1, <2>2, <3>1 DEF IInv, ViewTypes, AppliesToCurrent, Goal
    <3> QED  BY <2>3, <2>4, <2>8, <3>1, FailedRun DEF Statuses
  <2> QED  BY <1>10, <2>3, <2>5, <2>6, <2>7, <2>8 DEF Run, Prepared, NotStored, Release
<1>11. ASSUME NEW s \in Scheduler, Wake(s)  PROVE Goal
  BY <1>1, <1>11 DEF Wake, modeVars, workVars
<1>12. ASSUME NEW w \in Workspace, NEW e \in Execution, ConfirmCleanup(w, e)  PROVE Goal
  BY <1>1, <1>12 DEF ConfirmCleanup, modeVars, workVars
<1>13. ASSUME UNCHANGED vars  PROVE Goal
  <2>1. UNCHANGED <<viewVars, gen, gone>>
    BY <1>13 DEF vars, modeVars, workVars
  <2> QED  BY <1>1, <2>1
<1> QED  BY <1>6, <1>7, <1>8, <1>9, <1>10, <1>11, <1>12, <1>13 DEF Next, Goal

-----------------------------------------------------------------------------
(* The queues.                                                              *)

\* A job that runs has an execution.
LEMMA ActiveExecutes ==
    ASSUME IInv, [Next]_vars
    PROVE  \A s \in Scheduler : active'[s] # None => ExecutionOf[active'[s].gen] # None
<1>1. \A s \in Scheduler : active[s] # None => ExecutionOf[active[s].gen] # None
  BY DEF IInv, JobsQueued
<1>2. CASE GoesOn
  BY <1>1, <1>2 DEF GoesOn
<1>3. ASSUME NEW s \in Scheduler, PumpStarts(s)
      PROVE  \A x \in Scheduler : active'[x] # None => ExecutionOf[active'[x].gen] # None
  <2>1. active' = [active EXCEPT ![s] = active'[s]] /\ active'[s].gen = gen[s]
    BY <1>3, StartedRun
  <2>2. ExecutionOf[gen[s]] # None
    BY <1>3, FirstJob, NoneAssumption DEF PumpStarts
  <2> QED  BY <1>1, <2>1, <2>2 DEF IInv, JobTypes
<1>4. ASSUME NEW s \in Scheduler, Release(s)
      PROVE  \A x \in Scheduler : active'[x] # None => ExecutionOf[active'[x].gen] # None
  BY <1>1, <1>4 DEF Release, IInv, JobTypes
<1> QED  BY <1>2, <1>3, <1>4, RunsStep

\* A step that leaves the queues alone.
LEMMA SameQueues ==
    ASSUME IInv, [Next]_vars, UNCHANGED <<queue, gen, attempted>>
    PROVE  JobsQueued'
BY ActiveExecutes DEF IInv, JobsQueued, Queued

\* One queue becomes q.
Requeues(s, q) ==
    /\ queue' = [queue EXCEPT ![s] = q]
    /\ q \in Seq(Jobs) /\ Len(q) <= QueueLimit
    /\ \A i, j \in 1 .. Len(q) : q[i].target = q[j].target => i = j

\* A step that makes q of one queue.
LEMMA Requeued ==
    ASSUME IInv, [Next]_vars, NEW s \in Scheduler, NEW q, Requeues(s, q),
           \A x \in Scheduler \ {s} : gen'[x] = gen[x] /\ attempted'[x] = attempted[x],
           1 .. Len(q) # {} => gen'[s] # None /\ ExecutionOf[gen'[s]] # None,
           \A i \in 1 .. Len(q) : ~q[i].explicit => q[i].target \notin attempted'[s]
    PROVE  JobsQueued'
<1>1. queue \in [Scheduler -> Seq(Jobs)]
  BY DEF IInv, JobsQueued
<1>2. queue' \in [Scheduler -> Seq(Jobs)] /\ queue'[s] = q
  BY <1>1 DEF Requeues
<1>3. \A x \in Scheduler \ {s} : queue'[x] = queue[x]
  BY <1>1 DEF Requeues
<1> DEFINE Ok(x) ==
        /\ Len(queue'[x]) <= QueueLimit
        /\ 1 .. Len(queue'[x]) # {} => gen'[x] # None /\ ExecutionOf[gen'[x]] # None
        /\ \A i, j \in 1 .. Len(queue'[x]) : queue'[x][i].target = queue'[x][j].target => i = j
        /\ \A i \in 1 .. Len(queue'[x]) :
             ~queue'[x][i].explicit => queue'[x][i].target \notin attempted'[x]
<1>4. Ok(s)
  BY <1>2 DEF Requeues
<1>5. ASSUME NEW x \in Scheduler \ {s}  PROVE Ok(x)
  BY <1>3, <1>5 DEF IInv, JobsQueued, Queued
<1>6. \A x \in Scheduler : Ok(x)
  BY <1>4, <1>5
<1> QED  BY <1>2, <1>6, ActiveExecutes DEF JobsQueued, Queued

\* A step that empties one queue.
LEMMA EmptiedQueue ==
    ASSUME IInv, [Next]_vars, NEW s \in Scheduler, queue' = [queue EXCEPT ![s] = <<>>],
           \A x \in Scheduler \ {s} : gen'[x] = gen[x] /\ attempted'[x] = attempted[x]
    PROVE  JobsQueued'
<1>1. <<>> \in Seq(Jobs) /\ Len(<<>>) = 0 /\ 1 .. 0 = {}
  BY EmptySeq
<1>2. Requeues(s, <<>>)
  BY <1>1, LimitAssumption DEF Requeues
<1> QED  BY <1>1, <1>2, Requeued

\* A queue without one of its jobs.
LEMMA WithoutJob ==
    ASSUME IInv, NEW s \in Scheduler, NEW m \in Queued(s), NEW q, q = Without(queue[s], m)
    PROVE  /\ q \in Seq(Jobs) /\ Len(q) = Len(queue[s]) - 1 /\ Len(q) \in Nat
           /\ \A i, j \in 1 .. Len(q) : q[i].target = q[j].target => i = j
           /\ \A i \in 1 .. Len(q) : \E k \in Queued(s) \ {m} : q[i] = queue[s][k]
           /\ \A k \in Queued(s) \ {m} : \E i \in 1 .. Len(q) : q[i] = queue[s][k]
           /\ \A i \in 1 .. Len(q) : q[i].target # queue[s][m].target
<1> DEFINE n == Len(queue[s])
           at(i) == IF i < m THEN i ELSE i + 1
<1>1. /\ queue[s] \in Seq(Jobs) /\ n \in Nat /\ Queued(s) = 1 .. n /\ m \in 1 .. n
      /\ \A i, j \in 1 .. n : queue[s][i].target = queue[s][j].target => i = j
  BY QueueTyped DEF IInv, JobsQueued
<1>2. /\ q \in Seq(Jobs) /\ Len(q) = n - 1
      /\ \A i \in 1 .. n - 1 : q[i] = IF i < m THEN queue[s][i] ELSE queue[s][i + 1]
  BY <1>1, WithoutOne
<1> HIDE DEF n
<1>3. \A i \in 1 .. n - 1 : /\ q[i] = queue[s][at(i)] /\ at(i) \in (1 .. n) \ {m}
  BY <1>1, <1>2
<1>4. \A i, j \in 1 .. n - 1 : at(i) = at(j) => i = j
  BY <1>1
<1>5. \A k \in (1 .. n) \ {m} : \E i \in 1 .. n - 1 : at(i) = k
  <2> SUFFICES ASSUME NEW k \in (1 .. n) \ {m}  PROVE \E i \in 1 .. n - 1 : at(i) = k
    OBVIOUS
  <2>1. CASE k < m
    <3>1. k \in 1 .. n - 1 /\ at(k) = k
      BY <1>1, <2>1
    <3> QED  BY <3>1
  <2>2. CASE k > m
    <3>1. k - 1 \in 1 .. n - 1 /\ at(k - 1) = k
      BY <1>1, <2>2
    <3> QED  BY <3>1
  <2> QED  BY <1>1, <2>1, <2>2
<1> HIDE DEF at
<1>6. \A i, j \in 1 .. n - 1 : q[i].target = q[j].target => i = j
  BY <1>1, <1>3, <1>4
<1>7. \A k \in (1 .. n) \ {m} : \E i \in 1 .. n - 1 : q[i] = queue[s][k]
  BY <1>3, <1>5
<1>8. \A i \in 1 .. n - 1 : q[i].target # queue[s][m].target
  BY <1>1, <1>3
<1>9. n - 1 \in Nat /\ n = Len(queue[s])
  BY <1>1 DEF n
<1> QED  BY <1>1, <1>2, <1>3, <1>6, <1>7, <1>8, <1>9

\* The pump takes the first job.
LEMMA TakenQueue ==
    ASSUME IInv, [Next]_vars, NEW s \in Scheduler, MayPump(s), Candidates(s) # {},
           queue' = [queue EXCEPT ![s] = Without(@, First(s))], UNCHANGED gen,
           attempted' \in {attempted,
                           [attempted EXCEPT ![s] = @ \cup {queue[s][First(s)].target}]}
    PROVE  JobsQueued'
<1> DEFINE q == Without(queue[s], First(s))
<1>1. First(s) \in Queued(s) /\ gen[s] # None /\ ExecutionOf[gen[s]] # None
  BY FirstJob, NoneAssumption
<1>2. /\ q \in Seq(Jobs) /\ Len(q) = Len(queue[s]) - 1 /\ Len(q) \in Nat
      /\ \A i, j \in 1 .. Len(q) : q[i].target = q[j].target => i = j
      /\ \A i \in 1 .. Len(q) : \E k \in Queued(s) \ {First(s)} : q[i] = queue[s][k]
      /\ \A i \in 1 .. Len(q) : q[i].target # queue[s][First(s)].target
  BY <1>1, WithoutJob
<1>3. Len(queue[s]) \in Nat /\ Len(queue[s]) <= QueueLimit /\ QueueLimit \in Nat
  BY QueueTyped, LimitAssumption DEF IInv, JobsQueued
<1>4. \A k \in Queued(s) : ~queue[s][k].explicit => queue[s][k].target \notin attempted[s]
  BY DEF IInv, JobsQueued
<1>5. queue' = [queue EXCEPT ![s] = q]
  OBVIOUS
<1> HIDE DEF q
<1>6. Requeues(s, q)
  <2>1. Len(q) <= QueueLimit
    BY <1>2, <1>3
  <2> QED  BY <1>2, <1>5, <2>1 DEF Requeues
<1>7. ASSUME NEW i \in 1 .. Len(q), ~q[i].explicit  PROVE q[i].target \notin attempted'[s]
  <2>1. q[i].target \notin attempted[s] /\ q[i].target # queue[s][First(s)].target
    BY <1>2, <1>4, <1>7
  <2>2. attempted'[s] \subseteq attempted[s] \cup {queue[s][First(s)].target}
    BY DEF IInv, JobTypes
  <2> QED  BY <2>1, <2>2
<1>8. \A x \in Scheduler \ {s} : gen'[x] = gen[x] /\ attempted'[x] = attempted[x]
  BY DEF IInv, JobTypes
<1> QED  BY <1>1, <1>6, <1>7, <1>8, Requeued
\* The same jobs, some of them more urgent.
SameJobs(s, q) ==
    /\ q \in Seq(Jobs) /\ Len(q) = Len(queue[s])
    /\ \A i \in Queued(s) : /\ q[i].target = queue[s][i].target
                            /\ ~q[i].explicit => ~queue[s][i].explicit

\* A step after which one queue has the same jobs.
LEMMA RelabelledQueue ==
    ASSUME IInv, [Next]_vars, NEW s \in Scheduler, NEW q, SameJobs(s, q),
           queue' = [queue EXCEPT ![s] = q], UNCHANGED <<gen, attempted>>
    PROVE  JobsQueued'
<1>1. 1 .. Len(q) = Queued(s)
  BY DEF SameJobs, Queued
<1>2. /\ \A i, j \in Queued(s) : queue[s][i].target = queue[s][j].target => i = j
      /\ \A i \in Queued(s) : ~queue[s][i].explicit => queue[s][i].target \notin attempted[s]
      /\ Len(queue[s]) <= QueueLimit
      /\ Queued(s) # {} => gen[s] # None /\ ExecutionOf[gen[s]] # None
  BY DEF IInv, JobsQueued
<1>3. Requeues(s, q)
  BY <1>1, <1>2 DEF SameJobs, Requeues
<1>4. \A i \in 1 .. Len(q) : ~q[i].explicit => q[i].target \notin attempted'[s]
  BY <1>1, <1>2 DEF SameJobs
<1> QED  BY <1>1, <1>2, <1>3, <1>4, Requeued

Ripened(job, ask) ==
    [Raised(job, ask) EXCEPT !.delayed = @ /\ ~Urgent(Raised(job, ask))]

\* A more urgent job is a job for the same KPI.
LEMMA RipenedJob ==
    ASSUME NEW job \in Jobs, NEW ask \in Requests
    PROVE  /\ Ripened(job, ask) \in Jobs /\ Ripened(job, ask).target = job.target
           /\ ~Ripened(job, ask).explicit => ~job.explicit
<1>1. Higher(job.priority, ask.priority) \in 0 .. 3
  BY DEF Higher, Jobs, Requests
<1>2. (job.explicit \/ ask.explicit) \in BOOLEAN
  OBVIOUS
<1>3. /\ Raised(job, ask) \in Jobs /\ Raised(job, ask).target = job.target
      /\ ~Raised(job, ask).explicit => ~job.explicit
  BY <1>1, <1>2 DEF Raised, Jobs
<1> DEFINE r == Raised(job, ask)
<1> HIDE DEF r
<1>4. r \in Jobs /\ Ripened(job, ask) = [r EXCEPT !.delayed = r.delayed /\ ~Urgent(r)]
  BY <1>3 DEF Ripened, r, Jobs
<1>5. (r.delayed /\ ~Urgent(r)) \in BOOLEAN
  OBVIOUS
<1>6. /\ Ripened(job, ask) \in Jobs /\ Ripened(job, ask).target = r.target
      /\ Ripened(job, ask).explicit = r.explicit
  BY <1>4, <1>5 DEF Jobs
<1> QED  BY <1>3, <1>6 DEF r

\* A request for a KPI that runs or is queued adds no job.
LEMMA DeduplicatedQueue ==
    ASSUME IInv, NEW s \in Scheduler, Deduplicated(s)
    PROVE  /\ UNCHANGED <<gen, gone, attempted>>
           /\ \/ /\ active[s] # None /\ asking[s] # None
                 /\ active' = [active EXCEPT ![s] = Raised(active[s], asking[s])]
                 /\ UNCHANGED <<queue, viewVars>>
              \/ \E q, hot : /\ SameJobs(s, q) /\ queue' = [queue EXCEPT ![s] = q]
                             /\ WithPreemption(s, hot, <<>>)
<1>1. asking[s] # None /\ UNCHANGED <<gen, gone, attempted>>
  BY DEF Deduplicated, Answering, modeVars, workVars
<1>2. asking[s] \in Requests
  BY <1>1 DEF IInv, JobTypes
<1>3. CASE RunsFor(s, asking[s].target)
  <2>1. /\ active' = [active EXCEPT ![s] = Raised(active[s], asking[s])]
        /\ UNCHANGED <<queue, viewVars>> /\ active[s] # None
    BY <1>3 DEF Deduplicated, Raised, RunsFor
  <2> QED  BY <1>1, <2>1
<1>4. CASE ~RunsFor(s, asking[s].target)
  <2>1. PICK i \in QueuedFor(s, asking[s].target) :
          /\ queue' = [queue EXCEPT ![s][i] = Ripened(queue[s][i], asking[s])]
          /\ WithPreemption(s, Ripened(queue[s][i], asking[s]), <<>>)
    BY <1>4 DEF Deduplicated, Ripened, Raised
  <2> DEFINE r == Ripened(queue[s][i], asking[s])
             q == [queue[s] EXCEPT ![i] = r]
  <2>2. i \in Queued(s) /\ queue[s] \in Seq(Jobs) /\ queue[s][i] \in Jobs
    BY QueueTyped DEF QueuedFor, Queued, IInv
  <2>3. r \in Jobs /\ r.target = queue[s][i].target /\ (~r.explicit => ~queue[s][i].explicit)
    BY <1>2, <2>2, RipenedJob
  <2> HIDE DEF r
  <2>4. /\ q \in Seq(Jobs) /\ Len(q) = Len(queue[s])
        /\ \A j \in Queued(s) : q[j] = IF j = i THEN r ELSE queue[s][j]
    BY <2>2, <2>3, ExceptSeq DEF Queued
  <2>5. queue' = [queue EXCEPT ![s] = q]
    BY <2>1 DEF r, IInv, JobsQueued
  <2> HIDE DEF q
  <2>6. SameJobs(s, q)
    BY <2>3, <2>4 DEF SameJobs
  <2> QED  BY <1>1, <2>1, <2>5, <2>6
<1> QED  BY <1>3, <1>4

\* The timer ends the grace period of the first job.
LEMMA WakeQueue ==
    ASSUME IInv, NEW s \in Scheduler, Wake(s)
    PROVE  /\ UNCHANGED <<gen, gone, attempted, active, shot, lost>>
           /\ \E q : SameJobs(s, q) /\ queue' = [queue EXCEPT ![s] = q]
<1> DEFINE e(i) == IF i \in Candidates(s) /\ i = First(s)
                   THEN [queue[s][i] EXCEPT !.delayed = FALSE] ELSE queue[s][i]
           q == [i \in 1 .. Len(queue[s]) |-> e(i)]
<1>1. queue' = [queue EXCEPT ![s] = q]
  BY DEF Wake
<1>2. Len(queue[s]) \in Nat /\ \A i \in 1 .. Len(queue[s]) : queue[s][i] \in Jobs
  BY QueueTyped DEF IInv, Queued
<1>3. \A i \in 1 .. Len(queue[s]) : /\ e(i) \in Jobs /\ e(i).target = queue[s][i].target
                                    /\ e(i).explicit = queue[s][i].explicit
  BY <1>2 DEF Jobs
<1> HIDE DEF e
<1>4. q \in Seq(Jobs) /\ Len(q) = Len(queue[s])
  BY <1>2, <1>3
<1>5. SameJobs(s, q)
  BY <1>3, <1>4 DEF SameJobs, Queued
<1>6. UNCHANGED <<gen, gone, attempted, active, shot, lost>>
  BY DEF Wake, modeVars, workVars, viewVars
<1> HIDE DEF q
<1> QED  BY <1>1, <1>5, <1>6

\* An accepted request is queued, and at most the worst job is evicted for it.
LEMMA EnqueuedQueue ==
    ASSUME IInv, NEW s \in Scheduler, Enqueued(s)
    PROVE  /\ UNCHANGED <<gen, gone, attempted>>
           /\ \E q : /\ Requeues(s, q)
                     /\ \E i \in 1 .. Len(q) : q[i].target = asking[s].target
                     /\ \A k \in Queued(s) : \/ queue[s][k].target \in Evicted(s)
                                             \/ \E i \in 1 .. Len(q) : q[i] = queue[s][k]
                     /\ \A i \in 1 .. Len(q) :
                          ~q[i].explicit => q[i].target \notin attempted[s]
<1> DEFINE ask == asking[s]
           job == [target |-> ask.target, priority |-> ask.priority,
                   explicit |-> ask.explicit,
                   delayed |-> ~ask.explicit /\ ask.priority \in {2, 3}]
           rest == IF Full(s) THEN Without(queue[s], Worst(s)) ELSE queue[s]
           q == Append(rest, job)
<1>1. /\ NotPrepared(s) /\ Refusal(s) = "none" /\ queue' = [queue EXCEPT ![s] = q]
      /\ UNCHANGED <<gen, gone, attempted>>
  BY DEF Enqueued, NotPrepared, Answering, modeVars, workVars
<1>2. ask \in Requests
  BY <1>1 DEF NotPrepared, Answering, IInv, JobTypes
<1>3. job \in Jobs /\ job.target = ask.target /\ job.explicit = ask.explicit
  BY <1>2 DEF Requests, Jobs
<1>4. ~job.explicit => job.target \notin attempted[s]
  BY <1>1, <1>3 DEF Refusal, AttemptedBefore
<1>5. \A k \in Queued(s) : queue[s][k].target # ask.target
  BY <1>1 DEF NotPrepared, QueuedFor, Queued
<1>6. /\ rest \in Seq(Jobs) /\ Len(rest) \in Nat /\ Len(rest) < QueueLimit
      /\ \A i, j \in 1 .. Len(rest) : rest[i].target = rest[j].target => i = j
      /\ \A i \in 1 .. Len(rest) : \E k \in Queued(s) : rest[i] = queue[s][k]
      /\ \A k \in Queued(s) : \/ queue[s][k].target \in Evicted(s)
                              \/ \E i \in 1 .. Len(rest) : rest[i] = queue[s][k]
  <2>1. /\ queue[s] \in Seq(Jobs) /\ Len(queue[s]) \in Nat /\ Queued(s) = 1 .. Len(queue[s])
        /\ Len(queue[s]) <= QueueLimit /\ QueueLimit \in Nat \ {0}
        /\ \A i, j \in Queued(s) : queue[s][i].target = queue[s][j].target => i = j
    BY QueueTyped, LimitAssumption DEF IInv, JobsQueued
  <2>2. CASE ~Full(s)
    <3>1. rest = queue[s] /\ Len(queue[s]) < QueueLimit
      BY <2>1, <2>2 DEF Full
    <3> HIDE DEF rest
    <3> QED  BY <2>1, <3>1
  <2>3. CASE Full(s)
    <3>1. Queued(s) # {} /\ Worst(s) \in Queued(s)
      <4>1. 1 \in Queued(s)
        BY <2>1, <2>3 DEF Full
      <4> QED  BY <4>1, WorstQueued DEF IInv
    <3> DEFINE w == Without(queue[s], Worst(s))
    <3>2. rest = w
      BY <2>3
    <3>5. Evicted(s) = {queue[s][Worst(s)].target}
      BY <2>3 DEF Evicted
    <3>3. /\ w \in Seq(Jobs) /\ Len(w) = Len(queue[s]) - 1 /\ Len(w) \in Nat
          /\ \A i, j \in 1 .. Len(w) : w[i].target = w[j].target => i = j
          /\ \A i \in 1 .. Len(w) : \E k \in Queued(s) \ {Worst(s)} : w[i] = queue[s][k]
          /\ \A k \in Queued(s) \ {Worst(s)} : \E i \in 1 .. Len(w) : w[i] = queue[s][k]
      BY <3>1, WithoutJob
    <3> HIDE DEF rest, w
    <3>4. Len(w) < QueueLimit
      BY <2>1, <3>3
    <3> QED  BY <3>2, <3>3, <3>4, <3>5
  <2> QED  BY <2>2, <2>3
<1> HIDE DEF job, rest
<1>7. /\ q \in Seq(Jobs) /\ Len(q) = Len(rest) + 1 /\ q[Len(rest) + 1] = job
      /\ \A i \in 1 .. Len(rest) : q[i] = rest[i]
  BY <1>3, <1>6, AppendProperties
<1> HIDE DEF q
<1>8. \A i \in 1 .. Len(q) : i = Len(rest) + 1 \/ i \in 1 .. Len(rest)
  BY <1>6, <1>7
<1>9. Len(q) <= QueueLimit /\ Len(rest) + 1 \in 1 .. Len(q) /\ 1 .. Len(rest) \subseteq 1 .. Len(q)
  BY <1>6, <1>7, LimitAssumption
<1>10. \A i \in 1 .. Len(rest) : rest[i].target # job.target
  BY <1>3, <1>5, <1>6
<1>11. \A i, j \in 1 .. Len(q) : q[i].target = q[j].target => i = j
  BY <1>6, <1>7, <1>8, <1>10
<1>12. Requeues(s, q)
  BY <1>1, <1>7, <1>9, <1>11 DEF Requeues
<1>13. \A i \in 1 .. Len(q) : ~q[i].explicit => q[i].target \notin attempted[s]
  BY <1>4, <1>6, <1>7, <1>8 DEF IInv, JobsQueued
<1>14. \A k \in Queued(s) : \/ queue[s][k].target \in Evicted(s)
                            \/ \E i \in 1 .. Len(q) : q[i] = queue[s][k]
  BY <1>6, <1>7, <1>9
<1>15. \E i \in 1 .. Len(q) : q[i].target = asking[s].target
  BY <1>3, <1>7, <1>9
<1> QED  BY <1>1, <1>12, <1>13, <1>14, <1>15

\* Every step keeps JobsQueued.
LEMMA JobsQueuedStep ==
    ASSUME IInv, [Next]_vars
    PROVE  JobsQueued'
<1>1. ASSUME UNCHANGED <<queue, gen, attempted>>  PROVE JobsQueued'
  BY <1>1, SameQueues
<1>2. ASSUME NEW s \in Scheduler, queue' = [queue EXCEPT ![s] = <<>>], UNCHANGED <<gen, attempted>>
      PROVE  JobsQueued'
  BY <1>2, EmptiedQueue
<1>3. ASSUME NEW s \in Scheduler, Demand(s)  PROVE JobsQueued'
  <2>1. CASE Stop(s) \/ Dispose(s)
    BY <1>2, <2>1 DEF Stop, Dispose, workVars
  <2>2. CASE UNCHANGED <<queue, gen, attempted>>
    BY <1>1, <2>2
  <2> QED  BY <1>3, <2>1, <2>2 DEF Demand, SetWorkspace, Ask, Freeze, ReleaseDisplay, RefreshDisplay,
              Expire, Background, Resume, workVars, jobVars
<1>4. ASSUME NEW s \in Scheduler, Update(s)  PROVE JobsQueued'
  <2>1. CASE UNCHANGED <<queue, gen, attempted>>
    BY <1>1, <2>1
  <2>2. CASE /\ gen' = [gen EXCEPT ![s] = latest[s].to] /\ queue' = [queue EXCEPT ![s] = <<>>]
             /\ attempted' = [attempted EXCEPT ![s] = {}]
    BY <2>2, EmptiedQueue DEF IInv, SettingTypes, JobTypes
  <2> QED  BY <1>4, <2>1, <2>2 DEF Update, UpdateFails, Updated, jobVars
<1>5. ASSUME NEW s \in Scheduler, Answer(s)  PROVE JobsQueued'
  <2>1. CASE Deduplicated(s)
    <3>1. UNCHANGED <<gen, attempted>>
      BY <2>1, DeduplicatedQueue
    <3>2. \/ UNCHANGED queue
          \/ \E q : SameJobs(s, q) /\ queue' = [queue EXCEPT ![s] = q]
      BY <2>1, DeduplicatedQueue
    <3> QED  BY <1>1, <3>1, <3>2, RelabelledQueue
  <2>2. CASE Enqueued(s)
    <3>1. PICK q : Requeues(s, q) /\ \A i \in 1 .. Len(q) :
                                       ~q[i].explicit => q[i].target \notin attempted[s]
      BY <2>2, EnqueuedQueue
    <3>2. UNCHANGED <<gen, attempted>>
      BY <2>2, EnqueuedQueue
    <3>3. gen[s] # None /\ ExecutionOf[gen[s]] # None
      BY <2>2, EnqueuedSays, NoneAssumption
    <3> QED  BY <3>1, <3>2, <3>3, Requeued
  <2> QED  BY <1>1, <1>5, <2>1, <2>2 DEF Answer, AskedInVain, NoContext, KnownAlready, Refused,
              NotPrepared, Answering, workVars
<1>6. ASSUME NEW s \in Scheduler, Pump(s)  PROVE JobsQueued'
  <2>1. CASE PumpNothing(s) \/ PumpLater(s)
    BY <1>1, <2>1 DEF PumpNothing, PumpLater, workVars, jobVars
  <2>2. CASE PumpBlocked(s)
    BY <1>2, <2>2 DEF PumpBlocked, Pumping, workVars
  <2>3. CASE PumpOverBudget(s)
    <3>1. /\ MayPump(s) /\ Candidates(s) # {} /\ UNCHANGED <<gen, attempted>>
          /\ queue' = [queue EXCEPT ![s] = Without(@, First(s))]
      BY <2>3 DEF PumpOverBudget, Pumping, workVars
    <3> QED  BY <3>1, TakenQueue
  <2>4. CASE PumpStarts(s)
    <3>1. /\ MayPump(s) /\ Candidates(s) # {} /\ UNCHANGED gen
          /\ queue' = [queue EXCEPT ![s] = Without(@, First(s))]
          /\ attempted' = [attempted EXCEPT ![s] = @ \cup {queue[s][First(s)].target}]
      BY <2>4 DEF PumpStarts, Pumping, workVars
    <3> QED  BY <3>1, TakenQueue
  <2> QED  BY <1>6, <2>1, <2>2, <2>3, <2>4 DEF Pump
<1>7. ASSUME NEW s \in Scheduler, Wake(s)  PROVE JobsQueued'
  BY <1>7, WakeQueue, RelabelledQueue
<1>8. ASSUME NEW s \in Scheduler, Run(s)  PROVE JobsQueued'
  BY <1>1, <1>8 DEF Run, Prepared, Unconfirmed, Examine, Stored, NotStored, Failed, Release, workVars
<1>9. ASSUME NEW w \in Workspace, NEW e \in Execution, ConfirmCleanup(w, e)  PROVE JobsQueued'
  BY <1>1, <1>9 DEF ConfirmCleanup, workVars, jobVars
<1>10. CASE UNCHANGED vars
  BY <1>1, <1>10 DEF vars, workVars, jobVars
<1> QED  BY <1>3, <1>4, <1>5, <1>6, <1>7, <1>8, <1>9, <1>10 DEF Next

-----------------------------------------------------------------------------
(* What becomes of a KPI in preparation.                                    *)

\* One scheduler works, and the KPIs of the others stay followed.
LEMMA OthersFollowed ==
    ASSUME IInv, NEW s \in Scheduler,
           \A x \in Scheduler \ {s} :
             /\ shot'[x] = shot[x] /\ lost'[x] = lost[x] /\ active'[x] = active[x]
             /\ queue'[x] = queue[x] /\ gone'[x] = gone[x] /\ gen'[x] = gen[x],
           \A t \in Target : shot'[s][t].status = "preparing" => Followed(s, t)'
    PROVE  JobsFollowed'
<1>1. ASSUME NEW x \in Scheduler \ {s}, NEW t \in Target, shot'[x][t].status = "preparing"
      PROVE  Followed(x, t)'
  <2>1. Followed(x, t)
    BY <1>1 DEF IInv, JobsFollowed
  <2> QED  BY <2>1 DEF Followed, QueuedFor, RunsOn, Current
<1> QED  BY <1>1 DEF JobsFollowed

\* A step after which no more KPIs are in preparation and the jobs are the
\* same.
LEMMA StillFollowed ==
    ASSUME IInv, UNCHANGED <<lost, queue, active, gone, gen>>,
           \A s \in Scheduler, t \in Target :
             shot'[s][t].status = "preparing" => shot[s][t].status = "preparing"
    PROVE  JobsFollowed'
BY DEF IInv, JobsFollowed, Followed, QueuedFor, RunsOn, Current

\* One scheduler works, and what it says nothing of stays followed.
LEMMA SilentFollowed ==
    ASSUME IInv, NEW s \in Scheduler, UNCHANGED <<shot, lost, gone, gen>>, OthersRun(s),
           \A x \in Scheduler \ {s} : queue'[x] = queue[x],
           \A t \in Target : QueuedFor(s, t) # {} \/ RunsOn(s, t) => (QueuedFor(s, t) # {} \/ RunsOn(s, t))'
    PROVE  JobsFollowed'
<1>1. \A t \in Target : shot'[s][t].status = "preparing" => Followed(s, t)'
  BY DEF IInv, JobsFollowed, Followed
<1> QED  BY <1>1, OthersFollowed DEF OthersRun

\* One scheduler publishes news, and what it says nothing of stays followed.
LEMMA SaidFollowed ==
    ASSUME IInv, NEW s \in Scheduler, NEW news, Says(s, news), UNCHANGED <<gone, gen>>, OthersRun(s),
           \A x \in Scheduler \ {s} : queue'[x] = queue[x],
           \A t \in DOMAIN news : news[t].status = "preparing" => QueuedFor(s, t)' # {},
           \A t \in Target \ DOMAIN news :
             QueuedFor(s, t) # {} \/ RunsOn(s, t) => (QueuedFor(s, t) # {} \/ RunsOn(s, t))'
    PROVE  JobsFollowed'
<1>1. ASSUME NEW t \in Target, shot'[s][t].status = "preparing"
      PROVE  Followed(s, t)'
  <2>1. CASE t \in DOMAIN news
    BY <1>1, <2>1, SaysView DEF Followed
  <2>2. CASE t \notin DOMAIN news
    <3>1. shot[s][t].status = "preparing" /\ (t \in lost[s] => t \in lost'[s])
      BY <1>1, <2>2, SaysView
    <3>2. Followed(s, t)
      BY <3>1 DEF IInv, JobsFollowed
    <3> QED  BY <2>2, <3>1, <3>2 DEF Followed
  <2> QED  BY <2>1, <2>2
<1>2. \A x \in Scheduler \ {s} : shot'[x] = shot[x] /\ lost'[x] = lost[x]
  BY SaysView
<1> QED  BY <1>1, <1>2, OthersFollowed DEF OthersRun

\* After all has become stale nothing is in preparation.
LEMMA StaleFollowed ==
    ASSUME IInv, NEW s \in Scheduler, AllStale(s), OthersRun(s),
           \A x \in Scheduler \ {s} :
             queue'[x] = queue[x] /\ gone'[x] = gone[x] /\ gen'[x] = gen[x]
    PROVE  JobsFollowed'
<1>1. \A t \in Target : shot'[s][t].status # "preparing"
  BY AllStaleView
<1>2. \A x \in Scheduler \ {s} : shot'[x] = shot[x] /\ lost'[x] = lost[x]
  BY AllStaleView
<1> QED  BY <1>1, <1>2, OthersFollowed DEF OthersRun

\* The same jobs are queued for the same KPIs.
LEMMA SameQueuedFor ==
    ASSUME IInv, NEW s \in Scheduler, NEW q, queue' = [queue EXCEPT ![s] = q], SameJobs(s, q)
    PROVE  /\ \A t \in Target : QueuedFor(s, t)' = QueuedFor(s, t)
           /\ \A x \in Scheduler \ {s} : queue'[x] = queue[x]
<1>1. queue'[s] = q /\ \A x \in Scheduler \ {s} : queue'[x] = queue[x]
  BY DEF IInv, JobsQueued
<1> QED  BY <1>1 DEF QueuedFor, SameJobs, Queued

\* A run that goes on and is not over is followed as it was.
LEMMA RunsOnStill ==
    ASSUME IInv, NEW s \in Scheduler, NEW t \in Target, RunsOn(s, t), UNCHANGED <<gone, gen>>,
           GoesOn, active'[s].aborted = active[s].aborted, active'[s].stage # "over"
    PROVE  RunsOn(s, t)'
BY DEF RunsOn, Current, GoesOn

\* A repeated request: the pre-empted KPI is said to be stale.
LEMMA DeduplicatedFollowed ==
    ASSUME IInv, NEW s \in Scheduler, Deduplicated(s)
    PROVE  JobsFollowed'
<1>1. UNCHANGED <<gen, gone>>
  BY DeduplicatedQueue
<1>2. CASE /\ active[s] # None /\ asking[s] # None
           /\ active' = [active EXCEPT ![s] = Raised(active[s], asking[s])]
           /\ UNCHANGED <<queue, viewVars>>
  <2>1. /\ GoesOn /\ OthersRun(s) /\ active'[s].stage = active[s].stage
        /\ active'[s].aborted = active[s].aborted
    BY <1>2, RaisedRun
  <2>2. UNCHANGED <<shot, lost, queue>>
    BY <1>2 DEF viewVars
  <2>3. ASSUME NEW t \in Target, RunsOn(s, t)  PROVE RunsOn(s, t)'
    BY <1>1, <2>1, <2>3, RunsOnStill DEF RunsOn
  <2>4. \A t \in Target : QueuedFor(s, t)' = QueuedFor(s, t)
    BY <2>2 DEF QueuedFor
  <2> QED  BY <1>1, <2>1, <2>2, <2>3, <2>4, SilentFollowed
<1>3. ASSUME NEW q, NEW hot, SameJobs(s, q), queue' = [queue EXCEPT ![s] = q],
             WithPreemption(s, hot, <<>>)
      PROVE  JobsFollowed'
  <2>1. PICK more :
          /\ Says(s, more)
          /\ \A t \in DOMAIN more : more[t].status # "preparing"
          /\ \/ UNCHANGED active
             \/ active' = Aborted(s) /\ active[s].target \in DOMAIN more
    <3>1. DOMAIN <<>> = {}
      OBVIOUS
    <3> QED  BY <1>3, <3>1, PreemptionSays
  <2>2. OthersRun(s)
    BY <1>3, PreemptedRun
  <2>3. /\ \A t \in Target : QueuedFor(s, t)' = QueuedFor(s, t)
        /\ \A x \in Scheduler \ {s} : queue'[x] = queue[x]
    BY <1>3, SameQueuedFor
  <2>4. ASSUME NEW t \in Target \ DOMAIN more, RunsOn(s, t)  PROVE RunsOn(s, t)'
    BY <1>1, <2>1, <2>4 DEF RunsOn, Current
  <2> QED  BY <1>1, <2>1, <2>2, <2>3, <2>4, SaidFollowed
<1> QED  BY <1>2, <1>3, DeduplicatedQueue

\* An accepted request: the evicted KPI and the pre-empted one are spoken of.
LEMMA EnqueuedFollowed ==
    ASSUME IInv, NEW s \in Scheduler, Enqueued(s)
    PROVE  JobsFollowed'
<1>1. PICK more :
        /\ Says(s, more)
        /\ Evicted(s) \cup {asking[s].target} \subseteq DOMAIN more
        /\ \A t \in DOMAIN more : more[t].status = "preparing" => t = asking[s].target
        /\ \/ UNCHANGED active
           \/ active' = Aborted(s) /\ active[s].target \in DOMAIN more
  BY EnqueuedSays
<1>2. PICK q : /\ Requeues(s, q)
               /\ \E i \in 1 .. Len(q) : q[i].target = asking[s].target
               /\ \A k \in Queued(s) : \/ queue[s][k].target \in Evicted(s)
                                       \/ \E i \in 1 .. Len(q) : q[i] = queue[s][k]
  BY EnqueuedQueue
<1>3. UNCHANGED <<gen, gone>>
  BY EnqueuedQueue
<1>4. queue'[s] = q /\ \A x \in Scheduler \ {s} : queue'[x] = queue[x]
  BY <1>2 DEF Requeues, IInv, JobsQueued
<1>5. OthersRun(s)
  BY PreemptedRun DEF Enqueued
<1>6. ASSUME NEW t \in DOMAIN more, more[t].status = "preparing"
      PROVE  QueuedFor(s, t)' # {}
  <2>1. PICK i \in 1 .. Len(q) : q[i].target = t
    BY <1>1, <1>2, <1>6
  <2> QED  BY <1>4, <2>1 DEF QueuedFor
<1>7. ASSUME NEW t \in Target \ DOMAIN more, QueuedFor(s, t) # {}
      PROVE  QueuedFor(s, t)' # {}
  <2>1. PICK k \in Queued(s) : queue[s][k].target = t
    BY <1>7 DEF QueuedFor, Queued
  <2>2. t \notin Evicted(s)
    BY <1>1, <1>7
  <2>3. PICK i \in 1 .. Len(q) : q[i] = queue[s][k]
    BY <1>2, <2>1, <2>2
  <2> QED  BY <1>4, <2>1, <2>3 DEF QueuedFor
<1>8. ASSUME NEW t \in Target \ DOMAIN more, RunsOn(s, t)  PROVE RunsOn(s, t)'
  BY <1>1, <1>3, <1>8 DEF RunsOn, Current
<1> QED  BY <1>1, <1>3, <1>4, <1>5, <1>6, <1>7, <1>8, SaidFollowed

\* A step of the queue's pump.
LEMMA PumpFollowed ==
    ASSUME IInv, NEW s \in Scheduler, Pump(s)
    PROVE  JobsFollowed'
<1>1. UNCHANGED <<gen, gone>>
  BY DEF Pump, PumpNothing, PumpLater, PumpBlocked, PumpOverBudget, PumpStarts, Pumping,
     modeVars, workVars
<1>2. CASE PumpNothing(s) \/ PumpLater(s)
  BY <1>1, <1>2, StillFollowed DEF PumpNothing, PumpLater, jobVars, viewVars
<1>3. CASE PumpBlocked(s)
  <2> DEFINE news == [u \in {queue[s][i].target : i \in 1..Len(queue[s])} |-> Snapshot("blocked")]
  <2>1. Publishes(s, news) /\ UNCHANGED active /\ queue' = [queue EXCEPT ![s] = <<>>]
    BY <1>3 DEF PumpBlocked
  <2>2. Snapshot("blocked") \in Shots /\ Snapshot("blocked").status = "blocked"
    BY SnapshotIs DEF Statuses
  <2>3. Says(s, news) /\ \A t \in DOMAIN news : news[t].status # "preparing"
    <3>1. DOMAIN news \subseteq Target
      BY QueueTyped DEF IInv, Jobs, Queued
    <3> QED  BY <2>1, <2>2, <3>1 DEF Says
  <2>4. \A t \in Target \ DOMAIN news : QueuedFor(s, t) = {}
    BY DEF QueuedFor
  <2>5. \A t \in Target : RunsOn(s, t) => RunsOn(s, t)'
    BY <1>1, <2>1 DEF RunsOn, Current
  <2>6. \A x \in Scheduler \ {s} : queue'[x] = queue[x]
    BY <2>1 DEF IInv, JobsQueued
  <2> HIDE DEF news
  <2> QED  BY <1>1, <2>1, <2>3, <2>4, <2>5, <2>6, SaidFollowed DEF OthersRun
<1>4. CASE PumpOverBudget(s) \/ PumpStarts(s)
  <2> DEFINE q == Without(queue[s], First(s))
             job == queue[s][First(s)]
  <2>1. /\ MayPump(s) /\ Candidates(s) # {}
        /\ queue' = [queue EXCEPT ![s] = q]
    BY <1>4 DEF PumpOverBudget, PumpStarts
  <2>2. First(s) \in Queued(s) /\ job \in Jobs /\ active[s] = None
    BY <2>1, FirstJob
  <2>3. \A k \in Queued(s) \ {First(s)} : \E i \in 1 .. Len(q) : q[i] = queue[s][k]
    BY <2>2, WithoutJob
  <2> HIDE DEF q
  <2>4. queue'[s] = q /\ \A x \in Scheduler \ {s} : queue'[x] = queue[x]
    BY <2>1 DEF IInv, JobsQueued
  <2>5. ASSUME NEW t \in Target, t # job.target, QueuedFor(s, t) # {}
        PROVE  QueuedFor(s, t)' # {}
    <3>1. PICK k \in Queued(s) : queue[s][k].target = t
      BY <2>5 DEF QueuedFor, Queued
    <3>2. k # First(s)
      BY <2>5, <3>1
    <3>3. PICK i \in 1 .. Len(q) : q[i] = queue[s][k]
      BY <2>3, <3>2
    <3> QED  BY <2>4, <3>1, <3>3 DEF QueuedFor
  <2>6. \A t \in Target : ~RunsOn(s, t)
    BY <2>2 DEF RunsOn
  <2>7. CASE PumpOverBudget(s)
    <3> DEFINE news == [u \in {job.target} |-> Snapshot("unavailable")]
    <3>1. Publish(s, job.target, Snapshot("unavailable")) /\ UNCHANGED active
      BY <2>7 DEF PumpOverBudget
    <3>2. /\ Snapshot("unavailable") \in Shots /\ Snapshot("unavailable").status = "unavailable"
          /\ job.target \in Target
      BY <2>2, SnapshotIs DEF Statuses, Jobs
    <3> HIDE DEF job
    <3>3. Says(s, news)
      BY <3>1, <3>2, PublishSays
    <3>4. DOMAIN news = {job.target} /\ \A t \in DOMAIN news : news[t].status # "preparing"
      BY <3>2
    <3> HIDE DEF news
    <3> QED  BY <1>1, <2>4, <2>5, <2>6, <3>1, <3>3, <3>4, SaidFollowed DEF OthersRun
  <2>8. CASE PumpStarts(s)
    <3>1. /\ active' = [active EXCEPT ![s] = active'[s]] /\ active'[s] # None
          /\ active'[s].target = job.target /\ active'[s].gen = gen[s]
          /\ active'[s].stage = "prepare" /\ ~active'[s].aborted
      BY <2>8, StartedRun
    <3>2. UNCHANGED <<shot, lost>> /\ ~gone[s]
      BY <2>8 DEF PumpStarts, viewVars, MayPump
    <3>3. OthersRun(s)
      BY <3>1 DEF OthersRun, IInv, JobTypes
    <3>4. ASSUME NEW t \in Target, t = job.target  PROVE RunsOn(s, t)'
      BY <1>1, <3>1, <3>2, <3>4 DEF RunsOn, Current
    <3>5. \A t \in Target : QueuedFor(s, t) # {} \/ RunsOn(s, t) => (QueuedFor(s, t) # {} \/ RunsOn(s, t))'
      BY <2>5, <2>6, <3>4
    <3> QED  BY <1>1, <2>4, <3>2, <3>3, <3>5, SilentFollowed
  <2> QED  BY <1>4, <2>7, <2>8
<1> QED  BY <1>2, <1>3, <1>4 DEF Pump

\* A run comes to a stage with nothing said; when it is over, it was not current.
LEMMA StageFollowed ==
    ASSUME IInv, NEW s \in Scheduler, active[s] # None, NEW stage \in Stages \ {"prepare"},
           To(s, stage) \/ Awaits(s, stage), stage # "over" \/ ~Current(s),
           UNCHANGED <<queue, gone, gen, shot, lost>>
    PROVE  JobsFollowed'
<1>1. /\ GoesOn /\ OthersRun(s) /\ active'[s].stage = stage
      /\ active'[s].aborted = active[s].aborted
  BY StagedRun
<1>2. ASSUME NEW t \in Target, RunsOn(s, t)  PROVE RunsOn(s, t)'
  BY <1>1, <1>2, RunsOnStill DEF RunsOn
<1>3. \A t \in Target : QueuedFor(s, t)' = QueuedFor(s, t)
  BY DEF QueuedFor
<1> QED  BY <1>1, <1>2, <1>3, SilentFollowed

\* A run is over and its end is said.
LEMMA OverFollowed ==
    ASSUME IInv, NEW s \in Scheduler, active[s] # None, To(s, "over"),
           NEW x \in Shots, x.status # "preparing",
           x.status = "ready" => x.of = gen[s] /\ ~gone[s],
           Publish(s, active[s].target, x), UNCHANGED <<queue, gone, gen>>
    PROVE  JobsFollowed'
<1> DEFINE news == [u \in {active[s].target} |-> x]
<1>1. active[s].target \in Target
  BY RunTyped DEF ActiveJobs
<1>2. Says(s, news)
  BY <1>1, PublishSays
<1>3. OthersRun(s)
  BY StagedRun DEF Stages
<1>4. DOMAIN news = {active[s].target} /\ \A t \in DOMAIN news : news[t].status # "preparing"
  OBVIOUS
<1> HIDE DEF news
<1>5. \A t \in Target \ DOMAIN news : ~RunsOn(s, t) /\ QueuedFor(s, t)' = QueuedFor(s, t)
  BY <1>4 DEF RunsOn, QueuedFor
<1> QED  BY <1>2, <1>3, <1>4, <1>5, SaidFollowed

\* A step of run().
LEMMA RunFollowed ==
    ASSUME IInv, NEW s \in Scheduler, Run(s)
    PROVE  JobsFollowed'
<1>1. UNCHANGED <<queue, gone, gen>> /\ active[s] # None
  BY DEF Run, Prepared, Unconfirmed, Examine, Stored, NotStored, Failed, Release, Stage,
     modeVars, workVars
<1>2. ASSUME NEW stage \in Stages \ {"prepare"}, To(s, stage) \/ Awaits(s, stage),
             stage # "over" \/ ~Current(s), UNCHANGED viewVars
      PROVE  JobsFollowed'
  BY <1>1, <1>2, StageFollowed DEF viewVars
<1>3. ASSUME NEW status \in Statuses \ {"preparing", "ready"}, To(s, "over"),
             Publish(s, active[s].target, Snapshot(status))
      PROVE  JobsFollowed'
  BY <1>1, <1>3, OverFollowed, SnapshotIs
<1>4. ASSUME NEW what \in Outcomes \ {"unconfirmed"}, Prepared(s, what)  PROVE JobsFollowed'
  <2>1. what \in Stages \ {"prepare", "over"}
    BY OutcomeAssumption DEF Stages
  <2> QED  BY <1>2, <1>4, <2>1 DEF Prepared
<1>5. CASE Unconfirmed(s)
  <2>1. To(s, "over")
    BY <1>5 DEF Unconfirmed
  <2>2. CASE ~gone[s] /\ gen[s] = active[s].gen
    BY <1>3, <1>5, <2>1, <2>2 DEF Unconfirmed, Statuses
  <2>3. CASE ~(~gone[s] /\ gen[s] = active[s].gen)
    BY <1>2, <1>5, <2>1, <2>3 DEF Unconfirmed, Current, Stages
  <2> QED  BY <2>2, <2>3
<1>6. CASE Examine(s)
  BY <1>2, <1>3, <1>6, Examined DEF Stages, Statuses
<1>7. CASE Stored(s)
  <2>1. To(s, "over")
    BY <1>7 DEF Stored
  <2>2. CASE Current(s)
    <3>1. gen[s] = active[s].gen /\ ~gone[s] /\ active[s].gen \in Setting
      BY <1>1, <2>2, RunTyped DEF Current, ActiveJobs
    <3>2. Publish(s, active[s].target, Ready(active[s].gen))
      BY <1>7, <2>2 DEF Stored
    <3> QED  BY <1>1, <2>1, <3>1, <3>2, OverFollowed, ReadyIs
  <2>3. CASE ~Current(s)
    BY <1>2, <1>7, <2>1, <2>3 DEF Stored, Stages
  <2> QED  BY <2>2, <2>3
<1>8. CASE NotStored(s)
  BY <1>2, <1>8 DEF NotStored, Stages
<1>9. CASE Failed(s)
  <2>1. CASE /\ lost' = [lost EXCEPT ![s] = @ \cup {active[s].target}]
             /\ UNCHANGED <<shot, shown>>
    <3>1. OthersRun(s)
      BY <1>1, <1>9, FailedRun, StagedRun DEF Stages
    <3>2. /\ lost'[s] = lost[s] \cup {active[s].target}
          /\ \A x \in Scheduler \ {s} : lost'[x] = lost[x]
      BY <2>1 DEF IInv, ViewTypes
    <3>3. ASSUME NEW t \in Target, shot[s][t].status = "preparing"  PROVE Followed(s, t)'
      <4>1. QueuedFor(s, t) # {} \/ RunsOn(s, t) \/ t \in lost[s]
        BY <3>3 DEF IInv, JobsFollowed, Followed
      <4>2. QueuedFor(s, t)' = QueuedFor(s, t)
        BY <1>1 DEF QueuedFor
      <4> QED  BY <3>2, <4>1, <4>2 DEF Followed, RunsOn
    <3> QED  BY <1>1, <2>1, <3>1, <3>2, <3>3, OthersFollowed DEF OthersRun
  <2> QED  BY <1>2, <1>3, <1>9, <2>1, FailedRun DEF Stages, Statuses
<1>10. CASE Release(s)
  <2>1. UNCHANGED <<shot, lost>> /\ active[s].stage = "over" /\ active' = [active EXCEPT ![s] = None]
    BY <1>10 DEF Release, Stage, viewVars
  <2>2. OthersRun(s)
    BY <2>1 DEF OthersRun, IInv, JobTypes
  <2>3. \A t \in Target : ~RunsOn(s, t) /\ QueuedFor(s, t)' = QueuedFor(s, t)
    BY <1>1, <2>1 DEF RunsOn, QueuedFor
  <2> QED  BY <1>1, <2>1, <2>2, <2>3, SilentFollowed
<1> QED  BY <1>4, <1>5, <1>6, <1>7, <1>8, <1>9, <1>10 DEF Run

\* A step of the user, the page or the host.
LEMMA DemandFollowed ==
    ASSUME IInv, NEW s \in Scheduler, Demand(s)
    PROVE  JobsFollowed'
<1>1. CASE UNCHANGED <<shot, lost, queue, active, gone, gen>>
  BY <1>1, StillFollowed
<1>2. ASSUME NEW t \in Target, Expire(s, t)  PROVE JobsFollowed'
  <2>1. UNCHANGED <<lost, queue, active, gone, gen>>
    BY <1>2 DEF Expire, jobVars, workVars, modeVars
  <2>2. StaleShot(shot[s][t]).status = "stale"
    BY StaleIs DEF IInv, ViewTypes
  <2>3. UNCHANGED shot \/ shot' = [shot EXCEPT ![s][t] = StaleShot(shot[s][t])]
    BY <1>2 DEF Expire
  <2>4. \A x \in Scheduler, u \in Target :
          shot'[x][u] = shot[x][u] \/ shot'[x][u] = StaleShot(shot[s][t])
    BY <2>3 DEF IInv, ViewTypes
  <2> QED  BY <2>1, <2>2, <2>4, StillFollowed
<1>3. CASE Stop(s)
  <2> DEFINE ran == IF active[s] = None THEN {} ELSE {active[s].target}
             queued == {queue[s][i].target : i \in 1..Len(queue[s])}
             news == [u \in ran \cup queued |->
                        Snapshot(IF u \in ran THEN "stale" ELSE "unavailable")]
  <2>1. /\ Publishes(s, news) /\ UNCHANGED <<gen, gone>> /\ active' = Aborted(s)
        /\ queue' = [queue EXCEPT ![s] = <<>>]
    BY <1>3 DEF Stop, workVars
  <2>2. ran \subseteq Target /\ queued \subseteq Target
    BY RunTyped, QueueTyped DEF ActiveJobs, IInv, Jobs, Queued
  <2>3. \A u \in DOMAIN news : news[u] \in Shots /\ news[u].status \notin {"ready", "preparing"}
    BY SnapshotIs DEF Statuses
  <2>4. Says(s, news)
    <3>1. DOMAIN news \subseteq Target
      BY <2>2
    <3> HIDE DEF news
    <3> QED  BY <2>1, <2>3, <3>1 DEF Says
  <2>5. \A t \in Target \ DOMAIN news : QueuedFor(s, t) = {} /\ ~RunsOn(s, t)
    BY DEF QueuedFor, RunsOn
  <2>6. OthersRun(s)
    BY <2>1, AbortedRun
  <2>7. \A x \in Scheduler \ {s} : queue'[x] = queue[x]
    BY <2>1 DEF IInv, JobsQueued
  <2> HIDE DEF news
  <2> QED  BY <2>1, <2>3, <2>4, <2>5, <2>6, <2>7, SaidFollowed
<1>4. CASE Dispose(s)
  <2>1. AllStale(s) /\ OthersRun(s)
    BY <1>4, AbortedRun DEF Dispose
  <2>2. \A x \in Scheduler \ {s} : queue'[x] = queue[x] /\ gone'[x] = gone[x] /\ gen'[x] = gen[x]
    BY <1>4 DEF Dispose, IInv, JobsQueued, SettingTypes
  <2> QED  BY <2>1, <2>2, StaleFollowed
<1> QED  BY <1>1, <1>2, <1>3, <1>4 DEF Demand, SetWorkspace, Ask, Freeze, ReleaseDisplay,
            RefreshDisplay, Background, Resume, modeVars, workVars, jobVars, viewVars

\* Every step keeps JobsFollowed.
LEMMA JobsFollowedStep ==
    ASSUME IInv, [Next]_vars
    PROVE  JobsFollowed'
<1>1. ASSUME UNCHANGED <<shot, lost, queue, active, gone, gen>>  PROVE JobsFollowed'
  BY <1>1, StillFollowed
<1>2. ASSUME NEW s \in Scheduler, Update(s)  PROVE JobsFollowed'
  <2>1. CASE UpdateFails(s)
    BY <1>1, <2>1 DEF UpdateFails, modeVars, jobVars, viewVars
  <2>2. CASE Updated(s)
    <3>1. CASE UNCHANGED <<gen, queue, active, viewVars>>
      BY <1>1, <2>2, <3>1 DEF Updated, modeVars, viewVars
    <3>2. CASE /\ gen' = [gen EXCEPT ![s] = latest[s].to] /\ queue' = [queue EXCEPT ![s] = <<>>]
               /\ active' = Aborted(s) /\ AllStale(s)
      <4>1. OthersRun(s)
        BY <3>2, AbortedRun
      <4>2. \A x \in Scheduler \ {s} :
              queue'[x] = queue[x] /\ gone'[x] = gone[x] /\ gen'[x] = gen[x]
        BY <2>2, <3>2 DEF Updated, modeVars, IInv, JobsQueued, SettingTypes
      <4> QED  BY <3>2, <4>1, <4>2, StaleFollowed
    <3> QED  BY <2>2, <3>1, <3>2 DEF Updated
  <2> QED  BY <1>2, <2>1, <2>2 DEF Update
<1>3. ASSUME NEW s \in Scheduler, Answer(s)  PROVE JobsFollowed'
  <2>1. UNCHANGED <<gen, gone>> /\ asking[s] # None
    BY <1>3 DEF Answer, AskedInVain, NoContext, Deduplicated, KnownAlready, Refused, Enqueued,
       NotPrepared, Answering, modeVars, workVars
  <2>2. asking[s].target \in Target /\ asking[s].gen \in Setting
    BY <2>1 DEF IInv, JobTypes, Requests
  <2>3. ASSUME NEW x \in Shots, x.status # "preparing",
               x.status = "ready" => x.of = gen[s] /\ ~gone[s],
               Publish(s, asking[s].target, x), UNCHANGED <<queue, active>>
        PROVE  JobsFollowed'
    <3> DEFINE news == [u \in {asking[s].target} |-> x]
    <3>1. Says(s, news) /\ \A t \in DOMAIN news : news[t].status # "preparing"
      BY <2>2, <2>3, PublishSays
    <3>2. \A t \in Target : QueuedFor(s, t)' = QueuedFor(s, t) /\ (RunsOn(s, t) => RunsOn(s, t)')
      BY <2>1, <2>3 DEF QueuedFor, RunsOn, Current
    <3> HIDE DEF news
    <3> QED  BY <2>1, <2>3, <3>1, <3>2, SaidFollowed DEF OthersRun
  <2>4. CASE AskedInVain(s)
    BY <1>1, <2>1, <2>4 DEF AskedInVain, viewVars
  <2>5. CASE NoContext(s)
    <3>1. Publish(s, asking[s].target, Snapshot("stale")) /\ UNCHANGED <<queue, active>>
      BY <2>5 DEF NoContext
    <3>2. Snapshot("stale") \in Shots /\ Snapshot("stale").status = "stale"
      BY SnapshotIs DEF Statuses
    <3> QED  BY <2>3, <3>1, <3>2
  <2>6. CASE KnownAlready(s)
    <3>1. gen[s] = asking[s].gen /\ ~gone[s] /\ UNCHANGED <<queue, active>>
      BY <2>6 DEF KnownAlready, NotPrepared, Valid
    <3>2. PICK x \in {Ready(gen[s]), Snapshot("unavailable")} : Publish(s, asking[s].target, x)
      BY <2>6 DEF KnownAlready
    <3>3. /\ x \in Shots /\ x.status # "preparing"
          /\ x.status = "ready" => x.of = gen[s]
      BY <2>2, <3>1, ReadyIs, SnapshotIs DEF Statuses
    <3> QED  BY <2>3, <3>1, <3>2, <3>3
  <2>7. CASE Refused(s)
    <3>1. /\ Publish(s, asking[s].target, Snapshot(Refusal(s))) /\ Refusal(s) # "none"
          /\ UNCHANGED <<queue, active>>
      BY <2>7 DEF Refused
    <3>2. Refusal(s) \in Statuses \ {"ready", "preparing"}
      BY <3>1 DEF Refusal, Statuses
    <3>3. Snapshot(Refusal(s)) \in Shots /\ Snapshot(Refusal(s)).status = Refusal(s)
      BY <3>2, SnapshotIs
    <3> QED  BY <2>3, <3>1, <3>2, <3>3
  <2> QED  BY <1>3, <2>4, <2>5, <2>6, <2>7, DeduplicatedFollowed, EnqueuedFollowed DEF Answer
<1>4. ASSUME NEW s \in Scheduler, Wake(s)  PROVE JobsFollowed'
  <2>1. UNCHANGED <<gen, gone, active, shot, lost>>
    BY <1>4, WakeQueue
  <2>2. PICK q : SameJobs(s, q) /\ queue' = [queue EXCEPT ![s] = q]
    BY <1>4, WakeQueue
  <2>3. /\ \A t \in Target : QueuedFor(s, t)' = QueuedFor(s, t)
        /\ \A x \in Scheduler \ {s} : queue'[x] = queue[x]
    BY <2>2, SameQueuedFor
  <2>4. \A t \in Target : RunsOn(s, t) => RunsOn(s, t)'
    BY <2>1 DEF RunsOn, Current
  <2> QED  BY <2>1, <2>3, <2>4, SilentFollowed DEF OthersRun
<1>5. ASSUME NEW w \in Workspace, NEW e \in Execution, ConfirmCleanup(w, e)  PROVE JobsFollowed'
  BY <1>1, <1>5 DEF ConfirmCleanup, modeVars, workVars, jobVars, viewVars
<1>6. ASSUME UNCHANGED vars  PROVE JobsFollowed'
  BY <1>1, <1>6 DEF vars, modeVars, workVars, jobVars, viewVars
<1> QED  BY <1>2, <1>3, <1>4, <1>5, <1>6, DemandFollowed, PumpFollowed, RunFollowed DEF Next

-----------------------------------------------------------------------------
(* The theorems.                                                            *)

\* The invariant holds initially.
LEMMA InitInvariant ==
    ASSUME Init
    PROVE  IInv
<1> USE DEF Init
<1>1. RegistryTypes /\ SettingTypes /\ JobTypes
  <2>1. RegistryTypes
    BY DEF RegistryTypes, EmptyLane
  <2>2. SettingTypes
    BY DEF SettingTypes
  <2>3. JobTypes
    BY LimitAssumption DEF JobTypes
  <2> QED  BY <2>1, <2>2, <2>3
<1>2. /\ Snapshot("idle") \in Shots
      /\ Snapshot("idle").status # "ready" /\ Snapshot("idle").status # "preparing"
  BY SnapshotIs DEF Statuses
<1>3. ViewTypes /\ AppliesToCurrent /\ JobsFollowed
  BY <1>2 DEF ViewTypes, AppliesToCurrent, JobsFollowed
<1>4. LanesHeld /\ NotOverLoose
  BY NoneAssumption DEF LanesHeld, NotOverLoose, Busy, EmptyLane
<1>5. JobsQueued
  <2>1. <<>> \in Seq(Jobs) /\ Len(<<>>) = 0 /\ 1 .. 0 = {}
    BY EmptySeq
  <2> QED  BY <2>1, LimitAssumption DEF JobsQueued, Queued
<1> QED  BY <1>1, <1>3, <1>4, <1>5 DEF IInv

\* The invariant holds of every state.
THEOREM Invariant == Spec => []IInv
<1>1. ASSUME IInv, [Next]_vars  PROVE IInv'
  BY <1>1, LaneTypesStep, SettingTypesStep, JobTypesStep, ViewStep, JobsQueuedStep,
     JobsFollowedStep DEF IInv, LaneTypes
<1> QED  BY <1>1, InitInvariant, PTL DEF Spec

\* The types and the limits: no queue exceeds QueueLimit, no budget is
\* overdrawn, and a KPI is queued at most once.
THEOREM TypeCorrect == Spec => []TypeOK
<1>1. ASSUME IInv  PROVE TypeOK
  <2>1. ASSUME NEW s \in Scheduler
        PROVE  /\ Len(queue[s]) <= QueueLimit
               /\ \A i \in 1..Len(queue[s]) : queue[s][i] \in Jobs
               /\ \A t \in Target : Cardinality(QueuedFor(s, t)) <= 1
    <3>1. /\ Len(queue[s]) <= QueueLimit
          /\ \A i, j \in Queued(s) : queue[s][i].target = queue[s][j].target => i = j
      BY <1>1 DEF IInv, JobsQueued
    <3>2. \A i \in Queued(s) : queue[s][i] \in Jobs
      BY <1>1, QueueTyped DEF IInv
    <3>3. ASSUME NEW t \in Target  PROVE Cardinality(QueuedFor(s, t)) <= 1
      <4>1. \A i, j \in QueuedFor(s, t) : i = j
        BY <3>1 DEF QueuedFor, Queued
      <4>2. CASE QueuedFor(s, t) = {}
        BY <4>2, FS_EmptySet
      <4>3. CASE QueuedFor(s, t) # {}
        <5>1. PICK i : QueuedFor(s, t) = {i}
          BY <4>1, <4>3
        <5> QED  BY <5>1, FS_Singleton
      <4> QED  BY <4>2, <4>3
    <3> QED  BY <3>1, <3>2, <3>3 DEF Queued
  <2> QED  BY <1>1, <2>1 DEF IInv, RegistryTypes, SettingTypes, JobTypes, ViewTypes, TypeOK
<1> QED  BY <1>1, Invariant, PTL

\* In one workspace one provider is at work at a time, and none is begun
\* beside a process of the same execution that may still live.
THEOREM ProviderAloneCorrect == Spec => []ProviderAlone
<1>1. ASSUME IInv  PROVE ProviderAlone
  <2>1. ASSUME NEW s \in Scheduler, NEW x \in Scheduler, Busy(s), Busy(x), s # x,
               WorkspaceOf[active[s].gen] = WorkspaceOf[active[x].gen]
        PROVE  FALSE
    <3>1. active[s].lane = active[x].lane
      BY <1>1, <2>1 DEF IInv, LanesHeld, Busy
    <3>2. lanes[active[s].lane].owner = s /\ lanes[active[x].lane].owner = x
      BY <1>1, <2>1 DEF IInv, LanesHeld, Busy
    <3> QED  BY <2>1, <3>1, <3>2
  <2> QED  BY <1>1, <2>1 DEF IInv, ProviderAlone, OneProvider
<1> QED  BY <1>1, Invariant, PTL

\* What a user may apply was prepared for the setting in force.
THEOREM AppliesToCurrentCorrect == Spec => []AppliesToCurrent
<1>1. IInv => AppliesToCurrent
  BY DEF IInv
<1> QED  BY <1>1, Invariant, PTL

\* A KPI that is shown as being prepared has a job that will say how it ends,
\* and in one generation it is prepared at most once unasked.
THEOREM JobsKeptCorrect == Spec => JobsKept
<1> DEFINE Attempt ==
        \A s \in Scheduler :
          active[s] = None /\ active'[s] # None /\ ~active'[s].explicit
              => active'[s].target \notin attempted[s]
<1>1. ASSUME IInv  PROVE PreparingHasJob
  BY <1>1 DEF IInv, JobsFollowed, Followed, RunsOn, PreparingHasJob
<1>2. ASSUME IInv, [Next]_vars  PROVE Attempt
  <2>1. ASSUME NEW s \in Scheduler, active[s] = None, active'[s] # None, ~active'[s].explicit
        PROVE  active'[s].target \notin attempted[s]
    <3>1. ~GoesOn
      BY <2>1 DEF GoesOn
    <3>2. ASSUME NEW x \in Scheduler, Release(x)  PROVE FALSE
      BY <1>2, <2>1, <3>2 DEF Release, IInv, JobTypes
    <3>3. PICK x \in Scheduler : PumpStarts(x)
      BY <1>2, <3>1, <3>2, RunsStep
    <3>4. x = s
      BY <1>2, <2>1, <3>3, StartedRun DEF IInv, JobTypes
    <3>5. /\ active'[s].target = queue[s][First(s)].target
          /\ active'[s].explicit = queue[s][First(s)].explicit
      BY <1>2, <3>3, <3>4, StartedRun
    <3>6. First(s) \in Queued(s)
      BY <1>2, <3>3, <3>4, FirstJob DEF PumpStarts
    <3> QED  BY <1>2, <2>1, <3>5, <3>6 DEF IInv, JobsQueued
  <2> QED  BY <2>1
<1>3. IInv /\ [Next]_vars => [Attempt]_vars
  BY <1>2
<1>4. Spec => []PreparingHasJob
  BY <1>1, Invariant, PTL
<1>5. Spec => [][Attempt]_vars
  BY <1>3, Invariant, PTL DEF Spec
<1> QED  BY <1>4, <1>5, PTL DEF JobsKept, OneAttempt
=============================================================================
