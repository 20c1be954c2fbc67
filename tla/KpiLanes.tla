------------------------------ MODULE KpiLanes ------------------------------
(****************************************************************************)
(* The Suggested KPI scheduler (smart-kpi-scheduler.ts): which KPI's        *)
(* suggestions are prepared when, and on which of them a user may act.      *)
(*                                                                          *)
(* A scheduler serves one canvas.  The registry of lanes is shared by all   *)
(* schedulers of the browser tab and outlives them: a provider process that *)
(* one canvas has begun still runs when the canvas is gone.  A lane is an   *)
(* object, and an empty one is dropped from the registry, so holders of the *)
(* old object and of a new one must not exist at the same time.             *)
(*                                                                          *)
(* Everything runs in one thread.  An action is the code between two        *)
(* awaits; schedule() asks for a pump, which runs later, as a microtask.    *)
(*                                                                          *)
(* A setting is what setWorkspace is given: workspace, graph, execution...  *)
(* Its generation string is injective, so the setting stands for it.  The   *)
(* cache and the library are not modelled: they may or may not have an      *)
(* answer.                                                                  *)
(****************************************************************************)
EXTENDS Integers, Sequences, FiniteSets

CONSTANTS
    Scheduler, Setting, Target, Workspace, Execution, LaneId, None,
    WorkspaceOf,    \* the workspace of a setting
    ExecutionOf,    \* its execution, or None
    Priorities,     \* of the requests for a KPI: 0 hover, 1 selected, 2 new_child, 3 visible
    QueueLimit,     \* 12 in the code
    Budget,         \* speculativeAttempts, 8
    Events,         \* what else may happen in an instance, of the below
    Outcomes,       \* what may come of a preparation, of the below
    MaxUpdates,     \* bound on calls of setWorkspace, per scheduler
    MaxRetries      \* bound on explicit requests, per scheduler

ASSUME WorkspaceAssumption == WorkspaceOf \in [Setting -> Workspace]
ASSUME ExecutionAssumption == ExecutionOf \in [Setting -> Execution \cup {None}]
ASSUME PriorityAssumption == Priorities \in [Target -> SUBSET (0..3)]
ASSUME NoneAssumption ==
    None \notin Setting \cup Execution \cup LaneId \cup Scheduler \cup Workspace
\* A new lane object can be made whatever lanes the workspaces have.
ASSUME LaneAssumption ==
    \A reg \in [Workspace -> LaneId \cup {None}], w \in Workspace :
        reg[w] = None => \E l \in LaneId : \A v \in Workspace : reg[v] # l
ASSUME LimitAssumption ==
    QueueLimit \in Nat \ {0} /\ Budget \in Nat /\ MaxUpdates \in [Scheduler -> Nat] /\ MaxRetries \in Nat
ASSUME EventAssumption ==
    Events \in [Scheduler -> SUBSET {"display", "expiry", "background", "stop", "dispose",
                                     "known", "no_context", "update_failure"}]
ASSUME OutcomeAssumption ==
    Outcomes \subseteq {"proposal", "nothing", "nonsense", "error", "unconfirmed"}

VARIABLES
    \* the registry
    lanes,      \* the lane objects
    registry,   \* the lane of a workspace
    loose,      \* executions whose process may live on, unconfirmed
    \* a scheduler
    gone,       \* disposed
    stopped,
    off,        \* the agent is active or the page hidden: no background work
    latest,     \* the latest call of setWorkspace, pendingUpdate
    gen,        \* generation
    attached,   \* attachedLane
    queue, attempted, spent,
    active,     \* the job that runs, and where its run() stands
    asking,     \* requests that wait for their context
    retries,
    pumping,    \* pumpQueued
    waking,     \* backgroundWake is set
    shot,       \* snapshots
    shown,      \* frozen
    lost        \* history: the KPIs whose run() was rejected, nothing said since

registryVars == <<lanes, registry, loose>>
modeVars == <<gone, stopped, off>>
workVars == <<latest, gen, attached>>
jobVars == <<queue, attempted, spent, active, asking, retries>>
timerVars == <<pumping, waking>>
viewVars == <<shot, shown, lost>>
vars == <<registryVars, modeVars, workVars, jobVars, timerVars, viewVars>>

EmptyLane == [owner |-> None, blocked |-> {}, members |-> {}]

Snapshot(status) == [status |-> status, of |-> None]
Ready(g) == [status |-> "ready", of |-> g]
StaleShot(x) == [x EXCEPT !.status = "stale"]

Init ==
    /\ lanes = [l \in LaneId |-> EmptyLane]
    /\ registry = [w \in Workspace |-> None]
    /\ loose = {}
    /\ gone = [s \in Scheduler |-> FALSE]
    /\ stopped = [s \in Scheduler |-> FALSE]
    /\ off = [s \in Scheduler |-> FALSE]
    /\ latest = [s \in Scheduler |-> [n |-> 0, to |-> None, state |-> "done"]]
    /\ gen = [s \in Scheduler |-> None]
    /\ attached = [s \in Scheduler |-> None]
    /\ queue = [s \in Scheduler |-> <<>>]
    /\ attempted = [s \in Scheduler |-> {}]
    /\ spent = [s \in Scheduler |-> 0]
    /\ active = [s \in Scheduler |-> None]
    /\ asking = [s \in Scheduler |-> None]
    /\ retries = [s \in Scheduler |-> 0]
    /\ pumping = [s \in Scheduler |-> FALSE]
    /\ waking = [s \in Scheduler |-> FALSE]
    /\ shot = [s \in Scheduler |-> [t \in Target |-> Snapshot("idle")]]
    /\ shown = [s \in Scheduler |-> [t \in Target |-> None]]
    /\ lost = [s \in Scheduler |-> {}]

----------------------------------------------------------------------------
(* Snapshots                                                                *)

\* A frozen list with a proposal, or a stale one, stays until it is refreshed.
Follows(x) == x # None /\ x.of = None /\ x.status # "stale"

\* publish, for the targets in DOMAIN news.
Publishes(s, news) ==
    /\ shot' = [shot EXCEPT ![s] =
           [t \in Target |-> IF t \in DOMAIN news THEN news[t] ELSE @[t]]]
    /\ shown' = [shown EXCEPT ![s] =
           [t \in Target |-> IF t \in DOMAIN news /\ Follows(@[t]) THEN news[t] ELSE @[t]]]
    /\ lost' = [lost EXCEPT ![s] = @ \ DOMAIN news]

Publish(s, t, x) == Publishes(s, [u \in {t} |-> x])

AllStale(s) ==
    /\ shot' = [shot EXCEPT ![s] = [t \in Target |-> StaleShot(@[t])]]
    /\ shown' = [shown EXCEPT ![s] =
           [t \in Target |-> IF @[t] = None THEN None ELSE StaleShot(@[t])]]
    /\ lost' = [lost EXCEPT ![s] = {}]

View(s, t) == IF shown[s][t] = None THEN shot[s][t] ELSE shown[s][t]

\* freezeDisplay, releaseDisplay and refreshDisplay.
Freeze(s, t) ==
    /\ "display" \in Events[s] /\ shown[s][t] = None
    /\ shown' = [shown EXCEPT ![s][t] = shot[s][t]]
    /\ UNCHANGED <<registryVars, modeVars, workVars, jobVars, timerVars, shot, lost>>

ReleaseDisplay(s, t) ==
    /\ shown[s][t] # None
    /\ shown' = [shown EXCEPT ![s][t] = None]
    /\ UNCHANGED <<registryVars, modeVars, workVars, jobVars, timerVars, shot, lost>>

RefreshDisplay(s, t) ==
    /\ "display" \in Events[s]
    /\ shown' = [shown EXCEPT ![s][t] = shot[s][t]]
    /\ UNCHANGED <<registryVars, modeVars, workVars, jobVars, timerVars, shot, lost>>

\* getSnapshot finds that the proposal has expired.
Expire(s, t) ==
    /\ "expiry" \in Events[s] /\ View(s, t).status = "ready"
    /\ IF shown[s][t] = None
       THEN shot' = [shot EXCEPT ![s][t] = StaleShot(@)] /\ UNCHANGED <<shown, lost>>
       ELSE shown' = [shown EXCEPT ![s][t] = StaleShot(@)] /\ UNCHANGED <<shot, lost>>
    /\ UNCHANGED <<registryVars, modeVars, workVars, jobVars, timerVars>>

----------------------------------------------------------------------------
(* Lanes                                                                    *)

LaneFree(lane) == lane.members = {} /\ lane.blocked = {}

LaneEmpty(lane) == lane = EmptyLane

\* lanes.delete, when lane l of workspace w is empty.
Dropped(ls, w, l) ==
    IF LaneEmpty(ls[l]) THEN [registry EXCEPT ![w] = None] ELSE registry

\* laneFor: the registered lane, or a new object.
LaneIn(reg, w) ==
    IF reg[w] # None THEN reg[w]
    ELSE CHOOSE l \in LaneId :
            /\ \A v \in Workspace : reg[v] # l
            /\ \A s \in Scheduler : /\ attached[s] # None => attached[s].lane # l
                                    /\ active[s] # None => active[s].lane # l

Blocked(w, e) == registry[w] # None /\ e \in lanes[registry[w]].blocked

NotifiedOthers(lane, s) ==
    [x \in Scheduler |-> pumping[x] \/ (x \in lane.members \ {s} /\ ~gone[x])]

\* notifyLane, and a schedule() of s.
Notified(lane, s) ==
    [x \in Scheduler |-> pumping[x] \/ (x \in lane.members \cup {s} /\ ~gone[x])]

Scheduled(s) == pumping' = [pumping EXCEPT ![s] = TRUE]

\* The host has seen the process end.
ConfirmCleanup(w, e) ==
    /\ <<w, e>> \in loose
    /\ loose' = loose \ {<<w, e>>}
    /\ IF Blocked(w, e)
       THEN LET l == registry[w] IN
            /\ lanes' = [lanes EXCEPT ![l].blocked = @ \ {e}]
            /\ registry' = Dropped(lanes', w, l)
            /\ pumping' = [x \in Scheduler |->
                              pumping[x] \/ (x \in lanes[l].members /\ ~gone[x])]
       ELSE UNCHANGED <<lanes, registry, pumping>>
    /\ UNCHANGED <<modeVars, workVars, jobVars, waking, viewVars>>

----------------------------------------------------------------------------
(* setWorkspace                                                             *)

Aborted(s) == IF active[s] = None THEN active ELSE [active EXCEPT ![s].aborted = TRUE]

SetWorkspace(s, g) ==
    /\ ~gone[s] /\ latest[s].n < MaxUpdates[s]
    /\ latest' = [latest EXCEPT ![s] = [n |-> @.n + 1, to |-> g, state |-> "pending"]]
    /\ waking' = [waking EXCEPT ![s] = FALSE]
    /\ UNCHANGED <<registryVars, modeVars, gen, attached, jobVars, pumping, viewVars>>

Settle(s, state) ==
    /\ latest[s].state = "pending"
    /\ latest' = [latest EXCEPT ![s].to = None, ![s].state = state]

\* The fingerprint cannot be computed, or the execution is not valid.
UpdateFails(s) ==
    /\ "update_failure" \in Events[s] /\ ~gone[s]
    /\ Settle(s, "failed")
    /\ UNCHANGED <<registryVars, modeVars, gen, attached, jobVars, timerVars, viewVars>>

\* attachLane, with detachLane of another workspace's lane.
Attach(s, w) ==
    IF attached[s] # None /\ attached[s].workspace = w
    THEN UNCHANGED <<lanes, registry, attached>>
    ELSE LET left == IF attached[s] = None THEN lanes
                     ELSE [lanes EXCEPT ![attached[s].lane].members = @ \ {s}]
             reg == IF attached[s] = None THEN registry
                    ELSE Dropped(left, attached[s].workspace, attached[s].lane)
             l == LaneIn(reg, w)
         IN /\ lanes' = [left EXCEPT ![l].members = @ \cup {s}]
            /\ registry' = [reg EXCEPT ![w] = l]
            /\ attached' = [attached EXCEPT ![s] = [workspace |-> w, lane |-> l]]

Updated(s) ==
    LET g == latest[s].to
    IN /\ ~gone[s]
       /\ Settle(s, "done")
       /\ Attach(s, WorkspaceOf[g])
       /\ IF g = gen[s]
          THEN UNCHANGED <<gen, queue, attempted, spent, active, viewVars>>
          ELSE /\ gen' = [gen EXCEPT ![s] = g]
               /\ queue' = [queue EXCEPT ![s] = <<>>]
               /\ attempted' = [attempted EXCEPT ![s] = {}]
               /\ spent' = [spent EXCEPT ![s] = 0]
               /\ active' = Aborted(s)
               /\ AllStale(s)
       /\ Scheduled(s)
       /\ UNCHANGED <<loose, modeVars, asking, retries, waking>>

----------------------------------------------------------------------------
(* request                                                                  *)

Ask(s, t, p, explicit) ==
    /\ ~gone[s] /\ gen[s] # None /\ asking[s] = None /\ latest[s].state # "failed"
    /\ explicit => p = 0 /\ retries[s] < MaxRetries
    /\ retries' = [retries EXCEPT ![s] = IF explicit THEN @ + 1 ELSE @]
    /\ asking' = [asking EXCEPT ![s] =
           [target |-> t, priority |-> p, explicit |-> explicit, gen |-> gen[s]]]
    /\ UNCHANGED <<registryVars, modeVars, workVars, queue, attempted, spent, active,
                   timerVars, viewVars>>

\* The request of s goes on, and ends in this step.
Answering(s) ==
    /\ asking[s] # None
    /\ asking' = [asking EXCEPT ![s] = None]
    /\ UNCHANGED <<registryVars, modeVars, workVars, spent, retries, waking>>

Valid(s) == ~gone[s] /\ asking[s].gen = gen[s]

\* Disposed, or another generation; nothing is said.
AskedInVain(s) ==
    /\ Answering(s) /\ ~Valid(s)
    /\ UNCHANGED <<queue, attempted, active, pumping, viewVars>>

NoContext(s) ==
    /\ "no_context" \in Events[s] /\ Answering(s) /\ Valid(s)
    /\ Publish(s, asking[s].target, Snapshot("stale"))
    /\ UNCHANGED <<queue, attempted, active, pumping>>

RunsFor(s, t) ==
    /\ active[s] # None /\ active[s].target = t
    /\ active[s].gen = gen[s] /\ ~active[s].aborted

QueuedFor(s, t) == {i \in 1..Len(queue[s]) : queue[s][i].target = t}

Higher(p, q) == IF p < q THEN p ELSE q

Urgent(job) == job.explicit \/ job.priority <= 1

Eligible(s, job) == ~off[s] \/ job.explicit

\* preemptBackground: does the hot job make the running one yield?
Preempts(s, hot) ==
    /\ active[s] # None
    /\ LET job == active[s] IN
        /\ hot.priority = 0 /\ Eligible(s, hot)
        /\ job.gen = gen[s] /\ job.target # hot.target
        /\ ~job.explicit /\ ~job.aborted /\ job.priority \in {2, 3}
        /\ hot.explicit \/ spent[s] < Budget
        /\ attached[s] # None /\ lanes[attached[s].lane].owner = s

\* It is aborted and shown as stale, together with the other news.
WithPreemption(s, hot, news) ==
    IF Preempts(s, hot)
    THEN LET t == active[s].target IN
         /\ active' = Aborted(s)
         /\ Publishes(s, [u \in DOMAIN news \cup {t} |->
                              IF u = t THEN Snapshot("stale") ELSE news[u]])
    ELSE UNCHANGED active /\ Publishes(s, news)

\* The same KPI is running or queued: it is made as urgent as the request.
Deduplicated(s) ==
    LET ask == asking[s]
        raised(job) == [job EXCEPT !.priority = Higher(@, ask.priority),
                                   !.explicit = @ \/ ask.explicit]
        ripened(job) == [raised(job) EXCEPT !.delayed = @ /\ ~Urgent(raised(job))]
    IN /\ Answering(s) /\ Valid(s)
       /\ \/ /\ RunsFor(s, ask.target)
             /\ active' = [active EXCEPT ![s] = raised(@)]
             /\ UNCHANGED <<queue, viewVars>>
          \/ /\ ~RunsFor(s, ask.target)
             /\ \E i \in QueuedFor(s, ask.target) :
                   /\ queue' = [queue EXCEPT ![s][i] = ripened(@)]
                   /\ WithPreemption(s, ripened(queue[s][i]), <<>>)
       /\ Scheduled(s)
       /\ UNCHANGED attempted

NotPrepared(s) ==
    /\ Answering(s) /\ Valid(s)
    /\ ~RunsFor(s, asking[s].target) /\ QueuedFor(s, asking[s].target) = {}

\* The library, the cache or a recent failure has the answer.
KnownAlready(s) ==
    /\ "known" \in Events[s] /\ NotPrepared(s) /\ ~asking[s].explicit
    /\ \E x \in {Ready(gen[s]), Snapshot("unavailable")} : Publish(s, asking[s].target, x)
    /\ UNCHANGED <<queue, attempted, active, pumping>>

FullTooLate(s) == Len(queue[s]) > QueueLimit

Full(s) == Len(queue[s]) >= QueueLimit

\* The lowest priority, the latest of them.
Worst(s) ==
    CHOOSE i \in 1..Len(queue[s]) :
        \A j \in 1..Len(queue[s]) :
            \/ queue[s][j].priority < queue[s][i].priority
            \/ queue[s][j].priority = queue[s][i].priority /\ j <= i

\* No place for the request, which is not more urgent than the worst job.
Overflows(s) ==
    /\ Full(s) /\ ~asking[s].explicit
    /\ asking[s].priority >= queue[s][Worst(s)].priority

AttemptAgain(s) == FALSE

AttemptedBefore(s) == ~asking[s].explicit /\ asking[s].target \in attempted[s]

Refusal(s) ==
    LET e == ExecutionOf[gen[s]] IN
    CASE e = None -> "unavailable"
      [] e # None /\ Blocked(WorkspaceOf[gen[s]], e) -> "blocked"
      [] OTHER -> IF AttemptedBefore(s) \/ Overflows(s) THEN "unavailable" ELSE "none"

Refused(s) ==
    /\ NotPrepared(s) /\ Refusal(s) # "none"
    /\ Publish(s, asking[s].target, Snapshot(Refusal(s)))
    /\ UNCHANGED <<queue, attempted, active, pumping>>

Without(q, i) == SubSeq(q, 1, i - 1) \o SubSeq(q, i + 1, Len(q))

EvictedSilently(s) == {}

Evicted(s) == IF Full(s) THEN {queue[s][Worst(s)].target} ELSE {}

Enqueued(s) ==
    LET ask == asking[s]
        job == [target |-> ask.target, priority |-> ask.priority,
                explicit |-> ask.explicit,
                delayed |-> ~ask.explicit /\ ask.priority \in {2, 3}]
        rest == IF Full(s) THEN Without(queue[s], Worst(s)) ELSE queue[s]
    IN /\ NotPrepared(s) /\ Refusal(s) = "none"
       /\ queue' = [queue EXCEPT ![s] = Append(rest, job)]
       /\ WithPreemption(s, job, [u \in Evicted(s) \cup {ask.target} |->
              Snapshot(IF u = ask.target THEN "preparing" ELSE "unavailable")])
       /\ Scheduled(s)
       /\ UNCHANGED attempted

----------------------------------------------------------------------------
(* pump                                                                     *)

Pumping(s) ==
    /\ pumping[s]
    /\ waking' = [waking EXCEPT ![s] = FALSE]
    /\ UNCHANGED <<modeVars, workVars, asking, retries, loose>>

MayPump(s) ==
    /\ ~gone[s] /\ ~stopped[s] /\ active[s] = None /\ gen[s] # None
    /\ registry[WorkspaceOf[gen[s]]] # None
    /\ lanes[registry[WorkspaceOf[gen[s]]]].owner = None

\* The indices of the eligible jobs, and the first of them.
Candidates(s) == {i \in 1..Len(queue[s]) : Eligible(s, queue[s][i])}

First(s) ==
    CHOOSE i \in Candidates(s) :
        \A j \in Candidates(s) :
            \/ queue[s][i].priority < queue[s][j].priority
            \/ queue[s][i].priority = queue[s][j].priority /\ i <= j

PumpNothing(s) ==
    /\ pumping[s]
    /\ ~MayPump(s) \/ Candidates(s) = {}
    /\ pumping' = [pumping EXCEPT ![s] = FALSE]
    /\ waking' = [waking EXCEPT ![s] = FALSE]
    /\ UNCHANGED <<registryVars, modeVars, workVars, jobVars, viewVars>>

\* The first job has its grace period before it.
PumpLater(s) ==
    /\ pumping[s] /\ MayPump(s) /\ Candidates(s) # {}
    /\ queue[s][First(s)].delayed
    /\ pumping' = [pumping EXCEPT ![s] = FALSE]
    /\ waking' = [waking EXCEPT ![s] = TRUE]
    /\ UNCHANGED <<registryVars, modeVars, workVars, jobVars, viewVars>>

\* backgroundWake.
Wake(s) ==
    /\ waking[s]
    /\ waking' = [waking EXCEPT ![s] = FALSE]
    /\ queue' = [queue EXCEPT ![s] =
           [i \in 1..Len(@) |-> IF i \in Candidates(s) /\ i = First(s)
                                THEN [@[i] EXCEPT !.delayed = FALSE] ELSE @[i]]]
    /\ Scheduled(s)
    /\ UNCHANGED <<registryVars, modeVars, workVars, attempted, spent, active, asking, retries,
                   viewVars>>

NoQuarantine(s) == FALSE

QuarantineOf(s) == Blocked(WorkspaceOf[gen[s]], ExecutionOf[gen[s]])

PumpBlocked(s) ==
    /\ Pumping(s) /\ MayPump(s) /\ Candidates(s) # {} /\ QuarantineOf(s)
    /\ pumping' = [pumping EXCEPT ![s] = FALSE]
    /\ queue' = [queue EXCEPT ![s] = <<>>]
    /\ Publishes(s, [u \in {queue[s][i].target : i \in 1..Len(queue[s])} |->
                         Snapshot("blocked")])
    /\ UNCHANGED <<lanes, registry, attempted, spent, active>>

OverBudget(s) == ~queue[s][First(s)].explicit /\ spent[s] >= Budget

PumpOverBudget(s) ==
    /\ Pumping(s) /\ MayPump(s) /\ Candidates(s) # {} /\ ~QuarantineOf(s) /\ OverBudget(s)
    /\ queue' = [queue EXCEPT ![s] = Without(@, First(s))]
    /\ Publish(s, queue[s][First(s)].target, Snapshot("unavailable"))
    /\ UNCHANGED <<lanes, registry, attempted, spent, active, pumping>>

\* The provider is started.
PumpStarts(s) ==
    LET w == WorkspaceOf[gen[s]]
        l == registry[w]
        job == queue[s][First(s)]
    IN /\ Pumping(s) /\ MayPump(s) /\ Candidates(s) # {} /\ ~QuarantineOf(s) /\ ~OverBudget(s)
       /\ pumping' = [pumping EXCEPT ![s] = FALSE]
       /\ queue' = [queue EXCEPT ![s] = Without(@, First(s))]
       /\ spent' = [spent EXCEPT ![s] = IF job.explicit THEN @ ELSE @ + 1]
       /\ attempted' = [attempted EXCEPT ![s] = @ \cup {job.target}]
       /\ lanes' = [lanes EXCEPT ![l].owner = s]
       /\ active' = [active EXCEPT ![s] =
              [target |-> job.target, priority |-> job.priority, explicit |-> job.explicit,
               gen |-> gen[s], aborted |-> FALSE, lane |-> l,
               stage |-> "prepare", awaits |-> 0]]
       /\ UNCHANGED <<registry, viewVars>>

----------------------------------------------------------------------------
(* run                                                                      *)

Stage(s, from) == active[s] # None /\ active[s].stage = from

To(s, stage) == active' = [active EXCEPT ![s].stage = stage, ![s].awaits = 0]

\* await this.pendingUpdate: the promise that is the latest now.
Awaits(s, stage) ==
    active' = [active EXCEPT ![s].stage = stage, ![s].awaits = latest[s].n]

\* How that update has settled.  An overtaken one, or one of a scheduler that
\* is gone, has no effect; it settles at some time, as it likes.
Settled(s) ==
    IF active[s].awaits # latest[s].n \/ (gone[s] /\ latest[s].state = "pending")
    THEN {"done"} \cup (IF "update_failure" \in Events[s] THEN {"failed"} ELSE {})
    ELSE {latest[s].state} \ {"pending"}

AlwaysCurrent(s) == ~gone[s]

Current(s) == ~gone[s] /\ gen[s] = active[s].gen /\ ~active[s].aborted

\* prepare has returned a proposal, the answer that there is none, or
\* something that is neither; or it has thrown.
Prepared(s, what) ==
    /\ Stage(s, "prepare")
    /\ Awaits(s, what)
    /\ UNCHANGED <<registryVars, modeVars, workVars, queue, attempted, spent, asking, retries,
                   timerVars, viewVars>>

\* prepare has thrown CLEANUP_UNCONFIRMED.
Unconfirmed(s) ==
    /\ "unconfirmed" \in Outcomes /\ Stage(s, "prepare")
    /\ LET job == active[s]
           e == ExecutionOf[job.gen]
       IN /\ loose' = loose \cup {<<WorkspaceOf[job.gen], e>>}
          /\ lanes' = [lanes EXCEPT ![job.lane].blocked = @ \cup {e}]
          /\ IF ~gone[s] /\ gen[s] = job.gen
             THEN Publish(s, job.target, Snapshot("blocked"))
             ELSE UNCHANGED viewVars
    /\ To(s, "over")
    /\ UNCHANGED <<registry, modeVars, workVars, queue, attempted, spent, asking, retries,
                   timerVars>>

\* After the await: an invalid result and a rejected update are thrown.
Examine(s) ==
    /\ Stage(s, "proposal") \/ Stage(s, "nothing") \/ Stage(s, "nonsense")
    /\ \E how \in Settled(s) :
        CASE how = "failed" \/ (Current(s) /\ Stage(s, "nonsense")) ->
                 Awaits(s, "error") /\ UNCHANGED viewVars
          [] how = "done" /\ ~Current(s) -> To(s, "over") /\ UNCHANGED viewVars
          [] how = "done" /\ Current(s) /\ Stage(s, "proposal") ->
                 To(s, "put") /\ UNCHANGED viewVars
          [] how = "done" /\ Current(s) /\ Stage(s, "nothing") ->
                 To(s, "over") /\ Publish(s, active[s].target, Snapshot("unavailable"))
    /\ UNCHANGED <<registryVars, modeVars, workVars, queue, attempted, spent, asking, retries,
                   timerVars>>

\* cache.put returns true.
Stored(s) ==
    /\ Stage(s, "put")
    /\ To(s, "over")
    /\ IF Current(s) THEN Publish(s, active[s].target, Ready(active[s].gen))
       ELSE UNCHANGED viewVars
    /\ UNCHANGED <<registryVars, modeVars, workVars, queue, attempted, spent, asking, retries,
                   timerVars>>

NotStored(s) ==
    /\ Stage(s, "put")
    /\ Awaits(s, "error")
    /\ UNCHANGED <<registryVars, modeVars, workVars, queue, attempted, spent, asking, retries,
                   timerVars, viewVars>>

\* The handler awaits the update again; when that is rejected, run() is, and
\* nothing is said of the KPI.
Failed(s) ==
    /\ Stage(s, "error") /\ To(s, "over")
    /\ \E how \in Settled(s) :
        CASE how = "done" /\ Current(s) ->
                 Publish(s, active[s].target, Snapshot("unavailable"))
          [] how = "done" /\ ~Current(s) -> UNCHANGED viewVars
          [] how = "failed" ->
                 lost' = [lost EXCEPT ![s] = @ \cup {active[s].target}] /\ UNCHANGED <<shot, shown>>
    /\ UNCHANGED <<registryVars, modeVars, workVars, queue, attempted, spent, asking, retries,
                   timerVars>>

\* done.finally
Release(s) ==
    /\ Stage(s, "over")
    /\ LET l == active[s].lane IN
        /\ lanes' = [lanes EXCEPT ![l].owner = IF @ = s THEN None ELSE @]
        /\ registry' = Dropped(lanes', WorkspaceOf[active[s].gen], l)
        /\ pumping' = Notified(lanes[l], s)
    /\ active' = [active EXCEPT ![s] = None]
    /\ UNCHANGED <<loose, modeVars, workVars, queue, attempted, spent, asking, retries, waking,
                   viewVars>>

----------------------------------------------------------------------------
(* Control                                                                  *)

\* setFullAgentActive, and a change of visibility.
Background(s) ==
    /\ "background" \in Events[s] /\ ~gone[s]
    /\ off' = [off EXCEPT ![s] = ~@]
    /\ Scheduled(s)
    /\ UNCHANGED <<registryVars, gone, stopped, workVars, jobVars, waking, viewVars>>

Stop(s) ==
    /\ "stop" \in Events[s] /\ ~gone[s] /\ ~stopped[s]
    /\ stopped' = [stopped EXCEPT ![s] = TRUE]
    /\ waking' = [waking EXCEPT ![s] = FALSE]
    /\ queue' = [queue EXCEPT ![s] = <<>>]
    /\ active' = Aborted(s)
    /\ LET ran == IF active[s] = None THEN {} ELSE {active[s].target}
           queued == {queue[s][i].target : i \in 1..Len(queue[s])}
       IN Publishes(s, [u \in ran \cup queued |->
                            Snapshot(IF u \in ran THEN "stale" ELSE "unavailable")])
    /\ UNCHANGED <<registryVars, gone, off, workVars, attempted, spent, asking, retries, pumping>>

Resume(s) ==
    /\ ~gone[s] /\ stopped[s]
    /\ stopped' = [stopped EXCEPT ![s] = FALSE]
    /\ Scheduled(s)
    /\ UNCHANGED <<registryVars, gone, off, workVars, jobVars, waking, viewVars>>

Dispose(s) ==
    /\ "dispose" \in Events[s] /\ ~gone[s]
    /\ gone' = [gone EXCEPT ![s] = TRUE]
    /\ waking' = [waking EXCEPT ![s] = FALSE]
    /\ queue' = [queue EXCEPT ![s] = <<>>]
    /\ active' = Aborted(s)
    /\ IF attached[s] = None THEN UNCHANGED <<lanes, registry, attached>>
       ELSE /\ lanes' = [lanes EXCEPT ![attached[s].lane].members = @ \ {s}]
            /\ registry' = Dropped(lanes', attached[s].workspace, attached[s].lane)
            /\ attached' = [attached EXCEPT ![s] = None]
    /\ AllStale(s)
    /\ UNCHANGED <<loose, stopped, off, latest, gen, attempted, spent, asking, retries, pumping>>

----------------------------------------------------------------------------

Answer(s) ==
    \/ AskedInVain(s) \/ NoContext(s) \/ Deduplicated(s) \/ KnownAlready(s) \/ Refused(s)
    \/ Enqueued(s)

Pump(s) ==
    \/ PumpNothing(s) \/ PumpLater(s) \/ PumpBlocked(s) \/ PumpOverBudget(s) \/ PumpStarts(s)

Run(s) ==
    \/ \E what \in Outcomes \ {"unconfirmed"} : Prepared(s, what)
    \/ Unconfirmed(s) \/ Examine(s) \/ Stored(s) \/ NotStored(s) \/ Failed(s) \/ Release(s)

Update(s) ==
    UpdateFails(s) \/ Updated(s)

\* What a user, the page and the host do.
Demand(s) ==
    \/ \E g \in Setting : SetWorkspace(s, g)
    \/ \E t \in Target : \E p \in Priorities[t], explicit \in BOOLEAN : Ask(s, t, p, explicit)
    \/ \E t \in Target : Freeze(s, t) \/ ReleaseDisplay(s, t) \/ RefreshDisplay(s, t)
                            \/ Expire(s, t)
    \/ Background(s) \/ Stop(s) \/ Resume(s) \/ Dispose(s)

Next ==
    \/ \E s \in Scheduler : Demand(s) \/ Update(s) \/ Answer(s) \/ Pump(s) \/ Wake(s) \/ Run(s)
    \/ \E w \in Workspace, e \in Execution : ConfirmCleanup(w, e)

\* Promises settle, microtasks run and timers fire; nobody has to ask.
Fairness ==
    \A s \in Scheduler :
        WF_vars(Update(s)) /\ WF_vars(Answer(s)) /\ WF_vars(Pump(s)) /\ WF_vars(Wake(s))
            /\ WF_vars(Run(s))

Spec == Init /\ [][Next]_vars /\ Fairness

----------------------------------------------------------------------------
(* Properties                                                               *)

Statuses == {"idle", "preparing", "ready", "unavailable", "blocked", "stale"}
Shots == [status : Statuses, of : Setting \cup {None}]
Jobs == [target : Target, priority : 0..3, explicit : BOOLEAN, delayed : BOOLEAN]
Stages == {"prepare", "proposal", "nothing", "nonsense", "error", "put", "over"}
ActiveJobs ==
    [target : Target, priority : 0..3, explicit : BOOLEAN, gen : Setting, aborted : BOOLEAN,
     lane : LaneId, stage : Stages, awaits : Nat]

\* None is no record.
ASSUME RecordAssumption ==
    None \notin ActiveJobs \cup [workspace : Workspace, lane : LaneId]

\* The types; the queue and the budget keep to their limits, and a KPI is
\* queued at most once.
TypeOK ==
    /\ lanes \in [LaneId -> [owner : Scheduler \cup {None}, blocked : SUBSET Execution,
                             members : SUBSET Scheduler]]
    /\ registry \in [Workspace -> LaneId \cup {None}]
    /\ loose \subseteq Workspace \X Execution
    /\ \A f \in {gone, stopped, off, pumping, waking} : f \in [Scheduler -> BOOLEAN]
    /\ latest \in [Scheduler -> [n : Nat, to : Setting \cup {None},
                               state : {"pending", "done", "failed"}]]
    /\ gen \in [Scheduler -> Setting \cup {None}]
    /\ attached \in [Scheduler -> [workspace : Workspace, lane : LaneId] \cup {None}]
    /\ attempted \in [Scheduler -> SUBSET Target]
    /\ spent \in [Scheduler -> 0..Budget]
    /\ active \in [Scheduler -> ActiveJobs \cup {None}]
    /\ retries \in [Scheduler -> 0..MaxRetries]
    /\ shot \in [Scheduler -> [Target -> Shots]]
    /\ shown \in [Scheduler -> [Target -> Shots \cup {None}]]
    /\ \A s \in Scheduler :
        /\ Len(queue[s]) <= QueueLimit
        /\ \A i \in 1..Len(queue[s]) : queue[s][i] \in Jobs
        /\ \A t \in Target : Cardinality(QueuedFor(s, t)) <= 1

\* A provider may be at work for this scheduler's job.
Busy(s) == active[s] # None /\ active[s].stage = "prepare"

\* In one workspace one provider is at work at a time, whichever canvases
\* began it and however they were disposed of, switched or preempted.
OneProvider ==
    \A s, x \in Scheduler :
        Busy(s) /\ Busy(x) /\ s # x => WorkspaceOf[active[s].gen] # WorkspaceOf[active[x].gen]

\* No provider is started while an earlier process of the same execution may
\* still live: only the host's confirmation lifts the quarantine.
NotOverLoose ==
    \A s \in Scheduler :
        Busy(s) => <<WorkspaceOf[active[s].gen], ExecutionOf[active[s].gen]>> \notin loose

\* A provider that works is the only one of its workspace, and follows none
\* that may still live.
ProviderAlone == OneProvider /\ NotOverLoose

\* What a user may apply was prepared for the setting in force, also after the
\* settings went away and came back, and in a list that is frozen on display.
AppliesToCurrent ==
    \A s \in Scheduler, t \in Target :
        \A x \in {shot[s][t], shown[s][t]} \ {None} :
            x.status = "ready" => x.of = gen[s] /\ ~gone[s]

\* A KPI that is shown as being prepared has a job that will say how it ends:
\* no eviction, preemption, stop or late result loses one.  A rejected update
\* does: run() awaits it again in its own error handler.
PreparingHasJob ==
    \A s \in Scheduler, t \in Target :
        shot[s][t].status = "preparing" =>
            \/ QueuedFor(s, t) # {}
            \/ active[s] # None /\ active[s].target = t /\ active[s].stage # "over"
            \/ t \in lost[s]

\* In one generation a KPI is prepared at most once without having been asked
\* for explicitly, and not after an attempt that was.
OneAttempt ==
    [][\A s \in Scheduler :
          active[s] = None /\ active'[s] # None /\ ~active'[s].explicit
              => active'[s].target \notin attempted[s]]_vars

\* Every KPI in preparation has its job, and gets no second one unasked.
JobsKept == []PreparingHasJob /\ OneAttempt

\* A KPI does not stay in preparation, unless background work is off, the
\* scheduler is stopped or an update was rejected: that rejects run() too, and
\* setWorkspace has cleared the timer that a delayed job waits for.
PreparedEventually ==
    \A s \in Scheduler, t \in Target :
        shot[s][t].status = "preparing" ~>
            \/ shot[s][t].status # "preparing"
            \/ off[s] \/ stopped[s]
            \/ latest[s].state = "failed" \/ t \in lost[s]

=============================================================================
