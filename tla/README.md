# A verification project for VDT Studio

VDT Studio is a local-first editor of value-driver trees (VDTs). A person or an
agent builds a tree of KPIs; every version is a revision stored on disk and
indexed in SQLite; agents run under a supervisor that records, before each
effect, that the effect is about to happen, so that a restarted process can tell
what was done. This directory holds TLA+ modules of the parts whose correctness
depends on the order of steps of several processes, callbacks or restarts, the
TLC runs that check them, and TLAPS proofs about them.

## The system

| part | state it keeps | operations | interacts with |
|---|---|---|---|
| Atomic revision store, `packages/vdt-storage/src/atomic-revisions.ts` | rows of `revision_commit_attempts`, `revision_commit_records`, `vdt_revision_heads`, `idempotency_records`, `vdt_storage_lifecycles`, `vdt_revisions`; a stage and a final file per attempt | commit a revision, create a VDT with its first revision, recover | every process that opens the database; the web app opens it per request |
| Database and projects, `packages/vdt-storage/src/sqlite.ts`, `project-*.ts`, `skill-*.ts` | projects, VDTs, skills, their directories | create, rename, delete project/VDT, skill library | file system, revision store, agent history |
| Schema migrations, `packages/vdt-storage/src/migrations.ts`, `sequence-3-*` | migration attempts, journal file, backups, lease | migrate, take over, verify | all processes at start |
| Event outbox, `packages/vdt-agent-runtime/src/agent-event-outbox.ts` | an in-memory hash chain of a run's events, an append queue | append, hydrate, read after a cursor | supervisor, gateway, durable store, SSE readers |
| Supervisor persistence, `agent-supervisor-persistence.ts`, and its SQLite form in `apps/web/app/api/agent/runs` | binding, checkpoint, session epoch, exchange/tool/finish receipts, durable events | create binding, save checkpoint, append receipts and events, reserve a tool operation, finalize a recovered finish | supervisor, gateway |
| Tool gateway, `tool-gateway.ts`, `tool-gateway-persistence.ts` | a queue of calls, the acknowledged project revision, a stop flag, the sealed finish | execute a tool call, execute a control operation, acknowledge a revision, seal a finish | engine, tools, receipts, outbox |
| Run supervisor, `run-supervisor.ts` | run status, session, checkpoint, question, final | start, recover, submit, cancel, close, consume engine events | engine, gateway, persistence, outbox |
| In-product engine session, `in-product-model-agent-engine.ts` | the pending delta, queued inputs, the exchange under way, a turn counter | events (a stream), submit, checkpoint, cancel | run supervisor, provider, gateway |
| Orchestrator and run store, `orchestrator.ts`, `run-store.ts`, `mutation-pipeline.ts`, `finish-verifier.ts`, `tools/*` | legacy run state, plan steps, project drafts | advance plan, apply change set, verify finish | supervisor, VDT core |
| Supervisor hosting, `apps/web/app/api/agent/runs/supervisor-runtime.ts` | the map of active runs, subscribers | create, message, cancel, watch, release | HTTP routes, supervisor |
| Suggested KPI, `apps/web/lib/smart-kpi-*.ts` | a lane per workspace, a queue, a budget, a cache, an operation journal | hover, prepare, apply, undo, reconcile | AI execution client, revision store |
| AI execution client, `apps/web/lib/ai-execution-client.ts`, `execution-mode-resolver.ts` | bindings, credential epochs | resolve a mode, run a task | model bridge, local runner |
| Editor, `apps/web/components/vdt/vdt-store.ts` | the open tree, its save state | edit, save, load | revision API |
| Model bridge, `packages/model-bridge` | child processes, sessions, checkpoint turns | open, prompt, cancel, close | provider CLIs |
| Local runner, `packages/local-runner`, `apps/desktop` | sidecar processes, job directories, a lease | start, stop, execute, transcribe | operating system |
| Data ingestion, `packages/data-harness`, `apps/web/app/api/data` | uploaded tables, profiles, discovery runs | upload, profile, discover, bind | agent tools, editor |
| VDT core, `packages/vdt-core` | none (pure) or an immutable tree | formulas, graph, change sets, scenarios, suggestions | editor, agent tools |
| Skills, harness evaluation, CLI, UI kit, scripts, release, docs, e2e | files | | |

How they interact: an HTTP request reaches a Next.js route, which opens the
storage database (and with it runs the recovery of revision commits) or finds the
supervisor of a run in a process-local map. The supervisor owns one engine
session; the engine's events come back on an async stream, tool calls go through
the gateway, and everything durable goes through one persistence port. Several
server processes may share one data directory.

## What makes each part correct, and what is hard about it

| part | it is correct when | what is hard |
|---|---|---|
| Atomic revision store | the revisions of a VDT are one chain; a request gets one final answer, and that answer is what became of its revision; what the database shows is on the disk; a late owner changes nothing; every request is answered | five durable states and two files per attempt, driven on by whoever opens the database; owners whose lease expired but who still run; deaths and power losses between any two file operations |
| Event outbox | an outbox's memory is a beginning of the durable log; one final event; only the owner of the epoch writes; a client misses nothing across reconnections | the commit and the push to memory are two steps; a failing second write between them; two recoveries of one run; a client that reconnects while a run is taken over |
| Supervisor persistence | an epoch is entered once; a receipt only moves forward and only in its epoch | compare-and-set rows whose comparison happens in another transaction than the load |
| Tool gateway | a repeated call takes effect once and is told one answer, which is true; an edit by the user is reported; no effect after a successor or a durable finish | at least eight awaits per call, each a place for a crash, a cancellation, an edit, a lost acknowledgement or another session |
| Run supervisor and engine session | a process ends its run one way, as it says; every accepted input is read before the final and is sent once; a run nobody drives says so; a recovery resumes only what is settled | input, cancellation and the final meet at a dozen awaits of one loop; a turn whose answer is lost; a recovery from a checkpoint that lists what may have been sent |
| Suggested KPI, scheduling | one provider at a time in a workspace, none over a process that may still live; only suggestions for the setting in force can be applied; no KPI stays in preparation | promises that outlive the canvas, the workspace and the generation they belong to; a queue, a budget and a lane shared by canvases |
| Suggested KPI, saving | an operation changes nothing but its own KPIs; other writers' work survives; an operation whose save is unknown ends | answers lost, late or replayed; a reload, a load, a refresh or an edit between any two awaits |
| Projects and deletion | what is deleted from the database is deleted from the directory, and nothing else is | the directory is removed after the transaction, while a writer may still hold a revision in progress |
| Schema migrations | every applied sequence has a durable backup of what it was applied to; a latch means an undecided check and nothing else; a blocked database stays as it is; every opening leads on or to a state that is left to a person | the process dies or the power fails between any two file operations, inside or outside a transaction; the lease expires under a process that is slow |
| Model bridge | a late answer of the provider is not taken for the answer of the next request | timeouts and cancellation on a stream of lines |
| Local runner | a job ends in one state; its directory belongs to one runner | a process that exits while it is being stopped |
| VDT core | the order of calculation respects the formulas; a change set applies completely or not at all | sequential: cycles, empty sets, missing inputs |

The remaining parts (skills, evaluation harness, CLI, UI kit, scripts, release)
keep no state that two steps share. `PROJECT.json` lists every part with its
sources and, under `hazards`, each hazard at its line with the properties that
would catch it, or the reason why none does yet.

## Modules

| module | what it is |
|---|---|
| `RevisionCas` | what the revision store promises: a compare-and-set register with one final answer per request |
| `AtomicRevisions` | `atomic-revisions.ts`: one VDT, any number of requests and processes |
| `AtomicRevisionsProofs` | theorems about it |
| `EventLog` | what the outbox promises: an append-only log written by one epoch at a time, with one final event and readers that hold nothing but the log |
| `EventOutbox` | `agent-event-outbox.ts` with everybody who appends (`run-supervisor.ts`, `supervisor-runtime.ts`), the durable store (`sqlite-supervisor-persistence.ts`) and the SSE route |
| `EventOutboxProofs` | theorems about it |
| `CallOnce` | what the gateway promises an engine that repeats calls |
| `ToolGateway` | `tool-gateway.ts`, `tool-gateway-persistence.ts`, `tool-registry.ts`, and what of `run-supervisor.ts` reads or writes receipts: the finish request and the recovery |
| `ToolGatewayProofs` | theorems about it |
| `RunConversation` | `run-supervisor.ts` together with `in-product-model-agent-engine.ts`: one run, its turns, its input, its end, its recoveries |
| `RunConversationProofs` | theorems about it |
| `KpiLanes` | `smart-kpi-scheduler.ts`: any number of canvases, workspaces and KPIs |
| `KpiTransaction` | `smart-kpi-transaction.ts`, `smart-kpi-journal.ts` and what of `vdt-store.ts` touches the same graph, head and journal |
| `StorageMigration` | `migrations.ts`: the openings of one database until it is at the last sequence |
| `KpiLanesProofs`, `KpiTransactionProofs`, `StorageMigrationProofs` | theorems about them |
| `MC...` | for each detailed module: model values, symmetry, clocks and instances for TLC |

Each detailed module composes several components of the system, because its
hazards lie between them. The first three implement an abstract module by a
refinement mapping (`ImplementsCas`, `ImplementsLog`, `ImplementsOnce`).
`PROJECT.json` maps every definition to its lines.

### AtomicRevisions

A variable is a column or a file, one function of the idempotency key; `pc`,
`my` and `todo` are what a process holds in memory. Each transaction is one
action and so is each file operation, since another process may run, this one may
die and the machine may lose power between any two.

| actions | code |
|---|---|
| `Compose`, `Call`, `Reserve` | a client builds a command from a head it read; `commitRevision` / `createVdtWithInitialRevision` up to the reserved attempt |
| `InspectReserved`, `CreateStage`, `FillStage`, `SyncStage`, `ToStaged` | `runReservedAttempt`: look at the stage file, write it, fsync it, move the row |
| `InspectStaged`, `ReserveHead`, `UnlinkStage` | `reserveHead`: compare the head and the project, take the pending slot, or reject |
| `InspectHeadReserved`, `CreateFinal`, `FillFinal`, `SyncFinal`, `ToPublished` | copy the stage to the final file |
| `InspectPublished`, `Finalize` | make the revision the head |
| `Quarantine`, `Reject` | the two other ends |
| `Open`, `RecoverNext`, `TakeOver` | `recoverRevisionCommits`, run at every opening of the database |
| `ExpireLease`, `Crash`, `PowerLoss`, `ChangeProject` | the world |

What is abstract: the bytes of a payload (a file is missing, partial, written or
durable), hashes, the JSON of an answer, and time (a lease expires when the owner
is idle, or, `MaxSlow` times, while it runs). Owner tokens and lease generations
change together and are compared only for equality, so they are one number.

### EventOutbox

An event carries the hash of its predecessor, so two events are equal exactly
when they and everything before them are: an event is its kind and its timestamp,
and the history it claims is the memory of the outbox that sends it. `Write` is
the transaction of `appendEvent`; `Refuse` is every way it is refused;
`Publish`, `V1WriteFails` and `Push` are what happens between that transaction and
the memory. `Start`, `Report`, `Interrupt`, `Cancel`, `SaveCheckpoint`, `Release`
are the life of a supervisor, `RecoverLoad`, `RecoverReread`, `RecoverAcquire`,
`RecoverConflict`, `RecoverBind` the steps of `recover()`, `Repair` and
`RepairDone` the repair of a cancellation that stopped half-way. A reader
connects, is given the past and follows the present.

An SSE request awaits nothing but synchronous database calls, so reading the log
and subscribing is one step; that is what the code relies on (route.ts:75).
`recover()` is library code: the web routes deliberately do not resume a run at
this commit (supervisor-runtime.ts:463-465), its tests do. The
appends of a supervisor's first outbox are settled before `Repair` builds another.
Cancelling a run that is in `recovery_required` is not modelled. There is one
run: nothing in these files relates two.

### ToolGateway

A session is a supervisor with its gateway, in a process of its own; `pc` is
where `executeSerialized` stands.

| actions | code |
|---|---|
| `Start`, `Begin`, `Replay` | a session opens; a call is reserved; a repeat is answered from its receipt |
| `Decide`, `Refuse`, `Mark`, `Announce` | cancelled, sealed or stale; the in-flight receipt; `tool_call` and the checkpoint |
| `Land`, `Succeed`, `Fail`, `Throw` | the tool through `ToolRegistry.run` |
| `Verify`, `SealFinish`, `KeepFinish`, `CheckFinish` | `handleFinishRequest`: verify, seal, write the finish receipt, look once more |
| `Persist`, `Stop`, `Report` | the terminal receipt, or ambiguous and stop; `tool_result` |
| `ManualEdit`, `Cancel`, `Crash` | the user and the operating system |
| `RecoverLoad`, `RecoverRefuse`, `Reconcile`, `Acquire`, `Resume`, `RecoverFail` | `recover()` as far as it reads receipts |

What is simplified, and why it changes nothing that the properties tell apart:
the FIFO queue of the gateway is the rule that a session executes one call;
looking a receipt up and reserving it are one step (a reservation that is not
acquired is handled exactly as a receipt that was found); the arguments of a call are left out (a
repeat with other arguments is refused and changes nothing); the event log is
reduced to whether it has an event that a session's outbox does not know
(`behind`), which is all that decides whether its next append is refused; the two
reads of a recovery are one, since the outbox refuses to be hydrated unless they
agree; publishing and checkpointing are one; a result is its code. A write may
fail before or after its commit. A recovery runs on a fresh supervisor object.
Two recoveries of the very same checkpoint conflict in the code unless they read the
same millisecond; here they need not, which only adds behaviours. Exchange
receipts and the event that `waiting_approval` adds are left out. The append in
`GiveUp` is not fenced by the epoch, which again adds behaviours.
`acknowledgeTrustedProjectRevision` has no caller at this commit and is left out.
A write in recovery of any ambiguous receipt but the verified finish does not
exist in the code either.

Two things a reader should know of what is *not* promised. An edit made while a
tool runs is acknowledged with the tool's own change when the tool succeeds: the
property `EditsReported` is about edits between calls. And the error event of a
recovery that failed makes the live session's outbox fall behind, which ends that
session at its next append.

### RunConversation

The supervisor reads the engine's events in a `for await` loop, so engine,
gateway handler and supervisor are one thread of control: `pc` is the await it
stands at (of `start()` or `recover()` before there is a consumer) and `act` the action
of the turn it carries out. HTTP requests (`Submit`, `Cancel`) run while it waits.

| actions | code |
|---|---|
| `Start`, `Opened` | `start()` |
| `RecoverBegins`, `Hydrated`, `RecoverFinal`, `Recover`, `RecoveryFails` | `recover()`, cut at its awaits: `load`, `getEvents`, `getFinishReceipt`, the commit of the next epoch |
| `Crash` | the process ends |
| `SendTurn`, `TurnCompleted`, `TurnLost`, `TurnsExhausted`, `GiveUp` | one exchange with the provider |
| `CallTool`, `ToolResult`, `ToolPauses`, `EnginePauses`, `QuestionAsked` | tools, approvals and questions |
| `FinishAccepted`, `FinishReturned`, `Breach` | `vdt_finish_run` and its verification |
| `FinalSuperseded`, `FinalYielded`, `FinalRefused`, `FinalCancelled`, `FinalAccepted`, `FinishPersisted`, `Succeeded` | the final message, in the order of its durable writes |
| `Submit`, `SubmitSaved`, `SubmitStarts`, `Cancel` | what people do |

The variable `yields` says whether the store lets others run between a write
and what follows it. The stores of this repository commit before they return, so the
in-product engine is `yields = FALSE`; a store that awaits, or an `openSession` that
takes time as that of an external engine does, is `yields = TRUE`. The
properties say which of the two they are about. Abstract: the text of turns, the
order of inputs, the event log (it is `EventOutbox`), the receipts of tool calls
(`ToolGateway`), and the two retry limits (the engine may give up when it could).

### KpiLanes

`SetWorkspace`, `Ask`, the display (`Freeze`, `ReleaseDisplay`, `RefreshDisplay`),
`Background`, `Stop`, `Resume`, `Dispose` are what a canvas does; `Updated`,
`Answer`, `Pump`, `Wake`, `Run` are the asynchronous halves of `setWorkspace`,
`request`, `pump`, the timer and `run`; each is cut where the code awaits.
`active[s].stage` is the await at which `run` stands. A lane is an object with an
identity, since holders of a dropped lane and of its replacement must not meet. A
setting is all that the generation string depends on. Left out: the contents of
contexts and proposals, the cache's expiry by size, and the instant between the
look-up of a library proposal and its `cache.put`.

### KpiTransaction

A graph is the set of changes in it and a head its commit generation, so "who
overwrote whose work" is a comparison of sets. `flow` is the await of the one
mutation that is under way (`Save`, `Apply`, `Undo`, `Reconcile`), `call` its
request, `orphans` the requests whose connection is gone and that the server may
still take, `disk` the browser storage. `Refresh`, `Load`, `Leave`, `Reload`,
`EditGraph`, `OtherWrites` and `Quota` come in between. The route and the
revision store behind it are modelled as `AtomicRevisions` leaves them: a key is
committed once and a repeat gets its answer; the error of a quarantined attempt is an
answer too (`failed` holds the keys, `ServerFails` and `OrphanTaken` add to them). The
answers are told apart as the client tells them apart: a conflict, another 400 to 499
(`ServerRefuses`), a permanent or passing error of 500 or more (`ServerFails`), and no
answer or a retryable one (`Lost`). One editor per browser storage: two
tabs that share a journal are not modelled.

### StorageMigration

`BEGIN EXCLUSIVE` under `locking_mode=EXCLUSIVE` admits one process (in WAL mode
SQLite takes the file lock, and every other open connection makes it busy); the
others change nothing. So one `pc` is enough, and what matters is what a dead
process leaves for the next one.

| actions | code |
|---|---|
| `AdmitBootstrap`, `CopyDatabase`, `SyncCopy`, `MakeJournal`, `FillJournal`, `SyncJournal` | sequences 1 and 2, which have a chain of journal files |
| `AdmitLater`, `Quarantine`, `Refuse`, `TakeOver`, `MakeDirectory`, `WriteOwner`, `CopyForAttempt`, `SyncForAttempt`, `Reserve`, `StartApplying`, `LoseLease` | a later sequence: verify, put away what nobody owns, take over or begin an attempt |
| `MakeLatch` ... `SyncUnlink`, `Commit` | the transaction with its latch |
| `SqlFails`, `BlockAttempt`, `FindViolations`, `MakeEvidence` ... `FinalizeBlocked`, `ReconcileBlocked` | its failures |
| `Use`, `PreflightFails`, `Expire`, `ExpireWhileRunning`, `Crash`, `PowerLoss` | the world |

A file is missing, partial, written, durable or torn. Assumed: what was fsynced in
an fsynced directory survives (the code does not fsync `migrations` after
creating `backups` and `bootstrap-journal` in it). The application gives one plan per
sequence (471-493), so an attempt covers one sequence. The fence token and
generation of a lease are redundant under the lock; only whether it runs is
kept. What a sequence does to the schema, and what may go wrong with it, is
`flaw`.

## Runs

TLC ran every passing model to the end. Deadlock is not checked: a run of the
system may stop (all requests answered, the run ended, the bounds used up).

| run | instance | distinct states, time with 2 workers | what it shows |
|---|---|---|---|
| `revisions_safety` | a create and a commit, 2 processes, 3 owners, one late owner, a crash, a power loss, a project change | 571 thousand, 1 min 20 s | the rows agree, the chain, durability, fencing, the past stays, the refinement of `RevisionCas` |
| `revisions_answers` | 2 commits, 1 process, a crash, a project change, fairness | 9 thousand, 5 s | every request is answered unless a quarantined record holds its number |
| `outbox_supervisors` | 2 supervisors, 3 events, 2 epochs, 2 checkpoints, failing legacy writes | 459 thousand, 35 s | memories are beginnings of the log, one owner and one session in an epoch, the refinement of `EventLog` |
| `outbox_stream` | 1 supervisor that is recovered, 2 clients | 101 thousand, 10 s | no client misses an event, as long as the legacy write does not fail, and no two disagree |
| `gateway_calls` | a tool call and an approval, 2 sessions, 2 epochs, an edit | 697 thousand, 1 min 20 s | at most one effect, one recorded answer, which is true; edits are reported |
| `gateway_finish` | a tool call and a finish, 2 sessions, 3 epochs, or 2 and an edit | 1.6 million, 1 min 40 s | no effect beside a successor or after a durable finish, no finish over an open call, one successor |
| `conversation_run` | an answer, an approval, an instruction, 4 turns, 2 recoveries, both kinds of store | 332 thousand, 1 min 15 s | input is read before the final and once, a process ends a run one way and truly, no run is stranded, a cancelled run stays so, input is heard eventually |
| `kpi_lanes` | 2 canvases, 2 workspaces that share an execution, one KPI; one canvas moves, shows a list, is disposed, the other goes to the background | 782 thousand, 3 min | one provider per workspace, none over an unconfirmed process; only what is current can be applied |
| `kpi_prepared` | 1 canvas, 2 KPIs, a queue of one, a budget of one, every outcome, fairness | 177 thousand, 1 min 30 s | a KPI in preparation has one job, is tried once unasked, and does not stay in preparation |
| `kpi_edit` | 2 operations, an ordinary save, an edit, refresh, loads, a reload, another writer, a lost answer | 2.7 million, 1 min 45 s | edits and other writers' work survive, an undo is exact, a conflict stays unsaved |
| `kpi_journal` | 2 operations, an ordinary save, 2 reloads, another writer, a lost answer, a browser storage that refuses writes, a server that refuses or fails a key for good, fairness | 441 thousand, 1 min | what was sent is found after a reload; reconciling ends every operation whose key has not failed for good |
| `migration_open` | versions 0 and 1 up to 4, a flaw in at most one sequence, 2 deaths, a power loss, a slow process, a damaged installation, a session of an older build, fairness | 1.4 million, 2 min 30 s | backups, latches and blocks mean what the next opening takes them for; every opening leads on or to a person |

Some properties are conjunctions of definitions that stand beside them in the
module and are easier to read one by one (`RowsCoherent`, `PastFrozen`,
`OneOwner`, `FinishHolds`, `ReadOnce`, `OutcomeTrue`, `ProviderAlone`, `JobsKept`,
`SavesOwnWork`, `LatchTrue`). Where a type invariant is a theorem of every
instance it is not checked again by TLC.

### Bounds, and why they are enough

Two requests are the fewest for which a head can be contended, two processes the
fewest for which an owner can be late. `MaxOwners = 3` lets a row be taken over
from the owner that itself took it over. One crash and one power loss reach every
pair of file states, since a power loss may come at any step; `Open` is the only
way on after either. Two events before a final one, in two epochs, are what a
stale writer needs to be behind by one and by two; `MaxCheckpoint = 2`
lets two recoveries start from different
checkpoints, the only way into one epoch without a conflict, and
`MaxWaiting = 2` lets an append be queued behind one that fails. Three epochs in
`gateway_finish` let the successor of a finish itself be recovered; a run with an
edit by the user stops at the second (`EditedRunsAreShorter`, a state constraint), since an
edit is relevant to the finish that is verified and to the one recovery after it.
`ReadCall` is empty in the runs: a reading call differs from a mutating one only by
having no fence and no effect, and the theorems cover it. Four turns let a run ask, be answered, call a tool and finish; two recoveries let
one start from the other's checkpoint. Two canvases are the fewest that share a
lane, and two workspaces the fewest between which a canvas can move (`BackgroundEarly`,
a state constraint: the other one is not in the background while it has moved or is gone); a queue and a
budget of one are the smallest that overflow, and they overflow with two KPIs. Two
operations are the fewest for an undo, or for one operation to follow another whose
answer was lost; the second reload of `kpi_journal` finds what the first has left.
In `kpi_edit` the server neither refuses nor fails: with these and every other event it
has 12 million states, passes, and takes too long to be run each time; what it checks is
proved with them as well. Four sequences are two of the journals and two of the attempts;
two deaths let the process that recovers die as well, and `MaxJournals = 4` is one
more than the deaths and the power loss can leave. All bounds are
constants, and what is proved does not depend on them.

Some cases are beyond these bounds and covered by the proofs alone: two attempts open on
one head (`CreateKeys` has one of the two keys of `revisions_safety`, so `LinearChain` is
checked over a create and a commit that follow each other); settings that went away
and came back while a suggestion was prepared, which take three updates of one canvas
(`AppliesToCurrent`); readers beside a failing legacy write (`ReadersAgree`); calls that
only read; and operations and saves beside a server that refuses or fails a key for good, but
for what `kpi_journal` checks.

### Fairness

Nothing is assumed about crashes and lost answers: they are bounded, not fair.

- `revisions_answers`: a call that a process is in goes on (`WF` of `Advance`: the
  code is synchronous and waits for nothing), a lease runs out (`WF` of
  `ExpireLease`: it is a time in a row), and the database is opened again and again
  (`SF` of `Open`: the web app opens it for every storage request, and each opening
  recovers; strong, because other calls may be under way whenever it could).
- `conversation_run`: awaits end (`WF` of `ConsumerStep` and `SubmitStep`): the
  provider answers or its exchange times out, the store answers. Nobody has to send input
  or to begin a recovery.
- `kpi_prepared`: promises settle, microtasks run and timers fire, for each scheduler
  (`WF` of `Update`, `Answer`, `Pump`, `Wake`, `Run`). Nobody has to ask.
- `kpi_journal`: requests are answered or fail (an error that passes comes at most
  `MaxLosses` times), awaits go on, and the user presses
  "Reconcile save" (smart-kpi-panel.tsx:337), the one thing that the editor offers
  while an operation is pending.
- `migration_open`: a process that migrates goes on or somebody opens the application
  again (`WF` of `Migrate`), and time passes (`WF` of `Expire`).

## Where the code and its text disagree

None of these has a run of its own. Where a definition is named, it stands in the
module beside the properties, and adding it to the module's cfg (with the instance
given here) shows the counterexample.

- **A quarantined record keeps its revision number** (`AnswersEventually`, the
  instance of `revisions_answers` without the project change): the next attempt
  violates `UNIQUE(vdt_id, revision_no)` (002-atomic-revisions.sql:203), nobody handles
  that, and once its lease has expired every opening of the database rethrows it
  (atomic-revisions.ts:270). ADR-004:106: "An idempotency record therefore cannot
  remain permanently in progress."
- **A late owner deletes the new owner's stage file** (`UnlinkFenced`): reserveHead's
  catch block unlinks before the lease is checked (atomic-revisions.ts:632-644).
  ADR-004:106: "Every state change and filesystem phase is fenced".
- **A rejected attempt may leave its stage file** (atomic-revisions.ts:484), although
  ADR-004:108 calls `rejected` "only a typed pre-head semantic/CAS/security result
  with no ambiguous durable bytes".
- **A failing legacy write makes the outbox reuse a sequence number**
  (`NoSequenceReuse`): the sink writes the legacy run state unguarded
  (supervisor-runtime.ts:322) inside the append that has already committed, against
  the comment at sqlite-supervisor-persistence.ts:1089. A connected client is then
  not sent that event but is sent the next one, against ADR-006:133; it has the gap
  until it reconnects, which is why `outbox_stream` sets `V1Fails = FALSE`.
- **A recovery that comes too late writes to the run it did not get** (`ReaderComplete`,
  two supervisors that share no stamp, `V1Fails = FALSE`, a log of four): a checkpoint
  that the live supervisor saved meanwhile makes the recovery fail, but the epoch that it
  loaded is still the one in force, so its `SESSION_RECOVERY_FAILED`
  (run-supervisor.ts:303) is accepted into the log. A cancellation of the live
  supervisor is then refused; its repair reads the log anew (supervisor-runtime.ts:854)
  and publishes its own row alone, so clients of that process are not sent the
  recovery's until they reconnect.
- **A tool that throws after its effect is recorded as failed** (`FailedNotLanded`):
  the registry catches the exception (tool-registry.ts:173) before the gateway can
  look at the revision.
- **A recovery resumes over a call reserved after it looked** (`ResumedSettled`,
  run-supervisor.ts:243 against the comment at 1221); and a supervisor whose recovery
  failed refuses every later `recover()` with `EVENT_LOG_ALREADY_ACTIVE`
  (agent-event-outbox.ts:100), so a new object is needed, as the models have it.
- **A turn that comes back invalid drops the instructions in it** (`AcceptedKept`):
  after `MODEL_TURN_SCHEMA_INVALID` the checkpoint no longer lists them although
  recovery is offered; the recovery test expects "Keep the accepted instruction after
  restart."
- **With a store that yields**, a late `submit` overwrites `cancelled`, `failed` or
  `recovery_required` with `running` (run-supervisor.ts:332) and can start the
  consumer again, so that a lost turn is sent twice; a cancellation while the session
  opens is overwritten by `start()`; input between a tool's `waiting_user` and the
  engine's pause strands the run. The stores of this repository do not yield.
- **A cancelled run can be recovered and succeed** (`NeverBoth`, the instance of
  `conversation_run` with `YieldModes = {FALSE}`): a run whose engine gave up is cancelled,
  its process dies, and `recover` (run-supervisor.ts:197-311) looks at the checkpoint, the
  receipts and the final event but not for `RUN_CANCELLED`, so the run goes on to its
  final. With a store that yields one process is enough: `recover` awaits
  `getFinishReceipt` (625) before it sets `finalCommitStarted` (683), and a cancellation in
  between is recorded although the run then succeeds. The comment at 577-578 says of the
  commit of a final that "cancellation cannot produce a second contradictory terminal
  state". `OneEnding` is what does hold, in the life of one process. Nothing in the
  repository calls `recover` but its tests.
- **A replayed save brings a head without its graph** (`NoOverwrite`):
  `reconcileOrdinary` merges the summary of the answer (smart-kpi-transaction.ts:195),
  which the route builds from the database as it is now, so an addition is committed
  over another writer's revision without its changes; `finish` itself knows the case
  (234-235). In the same way a conflict of an ordinary save takes over the new head
  although vdt-store.ts:608 says "reload or rebase before saving again", and
  `refreshWorkspace` (1693-1790) replaces heads without graphs. `SavesOwnWork`
  exempts revisions saved on such a head: the history variable `adopted` holds from
  there to the next load. A save that was sent so and is answered after the load sets it
  again, since the head it is answered with is not that of the loaded graph.
- **An operation whose key failed for good stays pending** (`AlwaysResolved`, the instance
  of `kpi_journal`): the server stores the error of a quarantined attempt under the key
  (atomic-revisions.ts:1078-1124) and rethrows it at every repeat (1148-1157), as a 503
  that is not retryable (storage-write-adapter.ts:80-94). `finish` gives an operation up
  for an answer of 400 to 499 only (smart-kpi-transaction.ts:284-287), says "The save
  result is unknown", and offers "Reconcile save", which gets the same answer; the journal
  keeps the operation over reloads, and while it is there the graph cannot be edited. An
  ordinary save drops its pending request at the same answer (vdt-store.ts:600-602), but
  an operation that first replays that request is refused until it is saved again.
- **A completing refresh ends the loading state** while another VDT is being loaded;
  the operation then notices that the graph is not the one it began with.
- **A rejected update leaves a KPI in preparation** (smart-kpi-scheduler.ts:397: `run`
  rejects), the exception that `PreparedEventually` states; a quarantine ends only
  with another execution, since nothing in the application calls
  `confirmSmartKpiTerminalCleanup`.
- **A torn journal stops every later opening**: a crash while a bootstrap journal is
  written leaves a file at which `readLatestValidJournal` throws (migrations.ts:6145),
  although ADR-004:120 says that recovery "selects only the highest valid journal
  generation". And a journal that was written but not flushed when its process died is
  accepted without an fsync, so a power loss can still take it from a ready database.
  `Settles` counts both among the states that are left to a person, with the database
  that sequence 2 refuses (a backup and a journal more at each opening), the latch
  left by a crash during a foreign-key check, and the block that a damaged
  installation leaves.

## What is proved

All theorems hold for every value of the constants that satisfies the named
assumptions: any number of requests, processes, supervisors, clients, calls,
sessions and inputs, any bounds. Their backends were Z3, Zenon and LS4.

**AtomicRevisionsProofs**, from `KeysAssumption`, `BoundsAssumption` and
`NoneIsNoRequest`: every invariant and action property of `revisions_safety` and
their parts, and the refinement of `RevisionCas`. `SlotCoherent` and `LinearChain` are not
inductive alone: that `Finalize` extends the chain needs the record that
`ReserveHead` wrote, and that needs the head not to move while the slot is held.
The argument has layers. `RowStep` is the list of what a step may do to the rows,
whoever takes it; `RowInv` (types, slot, answers, chain, creation) is preserved
by every row step, which is the theorem `RowsInductive`. `CallInv` is what a
process in a call may rely on, `FileInv` what it may find of the final files;
under `IInv == RowInv /\ CallInv /\ FileInv /\ OtherTypeOK` every step of `Next` is
a row step or leaves the rows alone. So no action is proved against the whole
invariant.

**EventOutboxProofs**, from `StampsAssumption`, `NoneIsNothing` and
`BoundsAssumption`: `TypeOK`, `WrittenByOwner`, `MemoryIsDurable`, `OneFinal`,
`ReadersAgree` and the refinement of `EventLog`, and under one further hypothesis
each `OneOwner` and `ReaderComplete`. `Base` adds to the types that an
append is under way only for a queued draft (`Book`) and who may hold which epoch
(`EpochInv`: a supervisor writes under its binding's epoch or, while it recovers,
under the next; where the two differ and it is not just acquiring, the expected
epoch is already over, so that no row can be inserted; and nothing durable
belongs to an epoch that has not begun). On it rest `MemoryIsDurable`, whose hard step is an event
that is found stored already because its acknowledgement was lost; `OneFinal`;
and `ReadersAgree`, which needs the memory from which the live stream is fed.

- `OneOwnerCorrect` supposes `DisjointClocks`, that no two processes read the same
  millisecond, as `outbox_supervisors` does; two that do may both open the epoch. Of two
  recoveries that race into one epoch, only one can open a session: a supervisor opens
  after it wrote the first row of its epoch, what it loaded belongs to earlier epochs,
  and no row beyond what it loaded carries a stamp of its own clock, so that its first
  append is never taken for one that is stored already (`FirstIsOwn`).
- `ReaderCompleteCorrect` supposes `Alone`: one process hosts the run, and the legacy
  write does not fail, as in `outbox_stream`; both exclusions are among the disagreements
  above. A working outbox then holds the whole log, but for the event it is about to push
  (`Current`). Where several processes come and go, `CompleteUnlessRepaired` has the
  exact condition: as long as every repair of a cancellation finds in the database what
  its supervisor had in memory, no reader ever misses an event, whatever else fails, the
  legacy writes included (`Follows`: an open reader is never behind what its outbox has
  told).

**ToolGatewayProofs**, from `CallsAssumption`, `BoundsAssumption` and
`NoneIsNothing`: `TypeOK`, `AnswerTrue`, `EditsReported`, `OneSuccessor`,
`NoOverlap`, `SealedHead`, `NothingUnsettled` and the refinement of `CallOnce`.
The invariant is `TypeOK /\ Book /\ Fence /\ Desk`:

- `Book` ties the step a session is in to the receipt of its call: a terminal
  receipt has a result and a result a terminal receipt, only one session executes
  a call, nothing has landed before its step. `AnswerTrue` and the refinement
  follow.
- `Fence` says who still knows the log. Publishing `tool_call` makes everybody
  else's outbox fall behind, and a recovery must append before it resumes: so
  while an effect may come (`Announced`), no possible successor can get past its
  first append (`Waits`), and none is live. A live session is alone in its epoch
  (`Alone`). A durable finish seals whoever may act (`Seals`), nothing is begun
  between the verification and the receipt (`Quiet`), and the call that a recovery
  reconciles is the one that is durable (`Named`).
- `Desk` is about manual edits: the acknowledged revision never exceeds the
  project's and is less while an edit is unseen.

They need each other: `Book`'s part about the reconciliation rests on `Named`,
`Named` on `Seals`, and the fence on `Book`'s part about who executes. Each action
has a lemma `<Action>Step` that it preserves every part it may disturb.

**RunConversationProofs**, from `InputAssumption`, `YieldAssumption` and
`BoundsAssumption`: every safety property of `conversation_run` and its parts, for
both kinds of store. The invariant `IInv` is `Base /\ Ends /\ Synchronous`:

- `Base`: the types; `Placed`, what holds of the session and the status at the await
  where the consumer stands; and `Held`, where every accepted input is: read, spoilt,
  lost, in the turn under way, pending, queued, or in the checkpoint of a dead process.
- `Ends`: a final stands on a receipt, a success on the final and the persisted
  receipt, and a live process has not both been told to cancel and a final to publish
  (`OneEnding`). What forbids the cancellation is that the process whose session is open
  is committing the final once there is one, or, with a store that does not yield, that
  it recovers and stands where nobody else runs (`Decided`). It rests on `Placed`. Nothing
  is claimed of two lives of a run: see `NeverBoth` above.
- `Synchronous`, when the store does not yield: a run without a consumer says so
  (`Told`, `Prompt`), and what a turn carried is in no place from which it could be
  sent again (`Unsent`). That a recovery does not send it again is `Settled`, the
  guard that the code has at run-supervisor.ts:1174.

**KpiLanesProofs**, from `WorkspaceAssumption`, `ExecutionAssumption`,
`PriorityAssumption`, `NoneAssumption`, `LaneAssumption` (a new lane object can always
be made), `LimitAssumption`, `EventAssumption`, `OutcomeAssumption` and
`RecordAssumption` (`None` is no record): `TypeOK`, `ProviderAlone`, `AppliesToCurrent`
and `JobsKept`. What makes a
provider run alone is that all who hold a lane hold the registered one of its workspace
(`LanesHeld`), so that two canvases of one workspace meet in one object and not in two
that look alike; a lane is dropped from the registry only when nobody is left in it.
`JobsQueued` says what a queue holds, and `JobsFollowed` that a KPI in preparation is
queued, or runs under the setting in force, or was cut off by a rejected update; neither
is inductive without the other.

**KpiTransactionProofs**, from `BoundAssumption`, `ChangeAssumption`, `EventAssumption`
and `RecordAssumption`: `TypeOK`, `SavesOwnWork`, `RejectedNotSaved`, `SentIsJournalled`
and `EditsKept`. Three kinds of copies exist at the same time: the editor's state, what
browser storage holds of it (which may be old), and requests that are under way. `Keyed`
says that whatever asks the server to save under a key asks for the same, wherever it is
kept; so what was rejected cannot be saved by another copy, and a committed revision is
known to whoever has its key. `Held` says what is kept of operations and undos, `Placed`
where the flow stands, `Safe` what is in the journal and when a load may drop an
operation. The steps are split into those of the server and other writers, which leave the
editor alone and add one revision at most, and those of the editor, which add none.
`Aware`, a second layer, is for the work of others: in each copy (`Sound`) the graph has
what the head it knows has of it, if that head is the newest; what is sent then takes
nothing away (`RequestsFit`); and a pending save that was committed unseen was based on
the known head. The same statement for the storage is what a reload needs.

**StorageMigrationProofs**, from `TopAssumption`, `FlawsAssumption` and
`BoundsAssumption`: `TypeOK`, `RestorePoint`, `LatchTrue` and `BlockedStays`. The
invariant says for each step at which a process can stand what it has prepared: which
database gets there (`Placed`), what the latch and the evidence hold (`Latched`), what the
attempts say (`Rows`), what is in the backup it is about to rely on (`Copied`), and which
backups of earlier sequences are on the disk (`Kept`). A process that dies leaves its
files as promised; a power loss spares what is durable, and the steps are ordered so that
nothing else is relied upon.

**Only model-checked.** Liveness, since fairness and `ENABLED` are out of the
prover's reach: `AnswersUnlessNumberTaken`, `HeardEventually`, `PreparedEventually`,
`PendingResolved`, `Settles`. Every invariant and every action property that a run checks is
proved, `OneOwner` and `ReaderComplete` under the hypotheses above. Recursive definitions are out of reach as well; these modules have none.

## Plan

In the order in which they matter; all six are checked, and their safety is proved.

1. `AtomicRevisions` over `RevisionCas`.
2. `EventOutbox` over `EventLog`; `OneOwner` and `ReaderComplete` under the hypotheses
   named above.
3. `ToolGateway` over `CallOnce`.
4. `RunConversation`, supervisor and engine session to the end of a run.
5. `KpiLanes` and `KpiTransaction`.
6. `StorageMigration`.

Next: an abstract specification for `KpiTransaction` (an operation is saved once or not at
all, as `CallOnce` has it for tools) and one for `StorageMigration` (a database that goes
up one sequence at a time and can be restored at each), with their refinements; the
converse of `OneOwnerCorrect`, what two processes that read the same millisecond can do at
most; and the deletion of a VDT beside a revision writer, below.

## Not modelled

- **Deletion of a VDT or a project** (`sqlite.ts`): the rows go in a transaction and the
  directory after it, while a revision writer may create the directory again. It needs a
  second VDT and the files of `AtomicRevisions` in one model, whose states do not fit
  beside what is there.
- **The provider processes** (`rpc-session.ts` and the engines of the model bridge):
  timeouts of 250 and 1250 ms around a child process. `RunConversation` takes a
  provider's turn as answered, failed, invalid or lost, which is what its caller sees.
- **The job of the local runner, the desktop shell**: process management of the
  operating system.
- **`vdt-core`**: pure functions over trees (calculation order, change sets,
  formulas), tested as such; nothing there depends on an order of steps.
- **Orchestrator, run store, mutation pipeline**: the legacy state of one run, changed by
  one thread and written as a whole; what of it matters to the others, that a tool lands
  or throws and that the legacy write may fail, is in `ToolGateway` and `EventOutbox`.
- **AI execution client, data ingestion**: one request, or one upload, at a time.
- **User interface, prompts, skills, evaluation, CLI, scripts, release**: no state that
  two steps share.
- Inside the modelled parts: what "partly" stands for in `PROJECT.json` is said there,
  component by component.
