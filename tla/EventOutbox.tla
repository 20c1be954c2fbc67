---------------------------- MODULE EventOutbox ----------------------------
(****************************************************************************)
(* The durable event log of one agent run, and everybody who writes or      *)
(* reads it: the AgentRunEventOutbox of each supervisor, the SQLite         *)
(* persistence it appends through, the recovery that takes the run over to  *)
(* another process, and the SSE connections that follow the run.            *)
(*                                                                          *)
(* An outbox keeps the log in memory and numbers the next event from there. *)
(* It writes the event to the database first and to its memory second; the  *)
(* two are separate steps, and after a failure between them they differ.    *)
(*                                                                          *)
(* The hash chain.  An event carries its sequence number and the hash of    *)
(* its predecessor, so two events are equal iff they and everything before  *)
(* them are.  An event is here only what its draft and the clock gave it,   *)
(* and the history it claims is the sender's memory.                        *)
(*                                                                          *)
(* The database calls are synchronous: building an event, checking it and   *)
(* committing it is one step.  Between that commit and the push to memory   *)
(* the process may die, fail to write the legacy run state, or be overtaken *)
(* by another process.  An SSE request awaits nothing but synchronous       *)
(* database calls: reading the log and subscribing is one step.             *)
(****************************************************************************)
EXTENDS Naturals, Sequences, FiniteSets

CONSTANTS
    Supervisor,   \* supervisor instances, each in a process of its own
    Reader,       \* SSE clients
    Clock,        \* timestamps
    Stamps,       \* Stamps[s]: those that the clock of s may read
    None,
    MaxLog,       \* nobody reports more once the log is this long
    MaxEpoch,     \* bound on session epochs
    MaxCheckpoint,\* bound on checkpoints
    MaxWaiting,   \* bound on appends that wait in one outbox
    V1Fails       \* may the write of the legacy run state throw?

Kinds == {"note", "final", "cancelled"}

Event == [kind : Kinds, at : Clock]

ASSUME StampsAssumption == Stamps \in [Supervisor -> SUBSET Clock]
ASSUME NoneIsNothing == None \notin Event /\ None \notin Supervisor
ASSUME BoundsAssumption == MaxEpoch \in Nat \ {0}

VARIABLES
    \* the database
    log,        \* agent_run_event_outbox_v2, by sequence
    logEpoch,   \* its session_epoch column
    epoch,      \* agent_current_session_epochs_v2.session_epoch, 0 if unbound
    expired,    \* the ownership fence of that epoch has expired
    checkpoint, \* the latest checkpoint, by number; 0 before the first
    recovery,   \* the recovery checkpoints: what they resume, epoch, created_at
    \* a supervisor, its outbox and its persistence instance
    st,         \* what the supervisor is doing
    hosted,     \* activeRuns.get(runId) of its process is this supervisor
    mem,        \* the outbox's events
    waiting,    \* drafts queued on appendTail; the head is being appended
    phase,      \* how far the head has got
    sending,    \* the event built from the head
    own,        \* expectedBinding.sessionEpoch
    base,       \* the checkpoint a recovery started from
    expected,   \* expectedEventEpochs.get(runId), 0 if unset
    \* the readers
    conn,       \* the state of the SSE request
    via,        \* the supervisor whose process serves it
    cursor,     \* deliveredSequence; kept by the client as Last-Event-ID
    seen        \* what the client was given

dbVars == <<log, logEpoch, epoch, expired, checkpoint, recovery>>
outboxVars == <<mem, waiting, phase, sending>>
supVars == <<st, hosted, outboxVars, own, base, expected>>
readerVars == <<conn, via, cursor, seen>>
vars == <<dbVars, supVars, readerVars>>

Init ==
    /\ log = <<>>
    /\ logEpoch = <<>>
    /\ epoch = 0
    /\ expired = FALSE
    /\ checkpoint = 0
    /\ recovery = {}
    /\ st = [s \in Supervisor |-> "off"]
    /\ hosted = [s \in Supervisor |-> FALSE]
    /\ mem = [s \in Supervisor |-> <<>>]
    /\ waiting = [s \in Supervisor |-> <<>>]
    /\ phase = [s \in Supervisor |-> "idle"]
    /\ sending = [s \in Supervisor |-> None]
    /\ own = [s \in Supervisor |-> 0]
    /\ base = [s \in Supervisor |-> 0]
    /\ expected = [s \in Supervisor |-> 0]
    /\ conn = [r \in Reader |-> "closed"]
    /\ via = [r \in Reader |-> None]
    /\ cursor = [r \in Reader |-> 0]
    /\ seen = [r \in Reader |-> {}]

FinalBefore(events) == \E i \in 1..(Len(events) - 1) : events[i].kind = "final"

HasFinal(events) == \E i \in 1..Len(events) : events[i].kind = "final"

EndsCancelled(events) == events # <<>> /\ events[Len(events)].kind = "cancelled"

NewestEpoch(s) == epoch

OneEpochLate(s) == IF expected[s] = 0 THEN epoch + 1 ELSE expected[s]

\* persistence.load: an instance learns the current epoch once and keeps it.
LoadedEpoch(s) == IF expected[s] = 0 THEN epoch ELSE expected[s]

-----------------------------------------------------------------------------
(* Appending.                                                               *)

\* outbox.append: the draft joins the queue behind every earlier append.
Enqueue(s, kind) ==
    /\ Len(waiting[s]) < MaxWaiting
    /\ Len(log) < MaxLog
    /\ waiting' = [waiting EXCEPT ![s] = Append(@, kind)]

\* The chain up to and including event e of a sender whose memory is m is
\* the one in the database.
AlreadyStored(m, e) ==
    /\ Len(m) < Len(log)
    /\ SubSeq(log, 1, Len(m) + 1) = Append(m, e)

InsertAnywhere(s, e) ==
    /\ e.kind = "final" => ~HasFinal(log)
    /\ LoadedEpoch(s) = epoch
    /\ expired => (e.kind = "cancelled" /\ ~HasFinal(log))

InsertUnfenced(s, e) ==
    /\ e.kind = "final" => ~HasFinal(log)
    /\ mem[s] = log

\* appendEvent accepts e as a new row: no second final, the chain extends the
\* head, the caller's epoch is the current one, and its fence has not expired.
\* Only the record of a cancellation outlives the fence.
MayInsert(s, e) ==
    /\ e.kind = "final" => ~HasFinal(log)
    /\ mem[s] = log
    /\ LoadedEpoch(s) = epoch
    /\ expired => (e.kind = "cancelled" /\ ~HasFinal(log))

\* The sink refuses a supervisor that lost the run; the sink of a repair is
\* the persistence itself.
MaySend(s) == hosted[s] \/ st[s] = "repairing"

\* The sink of supervisor-runtime.ts, then appendEvent in one transaction.
Write(s) ==
    \E at \in Stamps[s] :
        LET e == [kind |-> Head(waiting[s]), at |-> at] IN
        /\ phase[s] = "idle" /\ waiting[s] # <<>>
        /\ MaySend(s)
        /\ \/ /\ AlreadyStored(mem[s], e)
              /\ UNCHANGED <<log, logEpoch>>
           \/ /\ MayInsert(s, e)
              /\ log' = Append(log, e)
              /\ logEpoch' = Append(logEpoch, LoadedEpoch(s))
        /\ phase' = [phase EXCEPT ![s] = "committed"]
        /\ sending' = [sending EXCEPT ![s] = e]
        /\ UNCHANGED <<epoch, expired, checkpoint, recovery, st, hosted, mem, waiting,
                       own, base, expected, readerVars>>

\* The append of the head settles without its event in memory; the next one
\* proceeds, because appendTail swallows the rejection.
Dropped(s) ==
    /\ waiting' = [waiting EXCEPT ![s] = Tail(@)]
    /\ UNCHANGED st

\* The rejection ends the supervisor's work: the session is not opened, the
\* consumer of its events stops, or a recovery fails.  One more event says so.
Ended(s) ==
    /\ waiting' = [waiting EXCEPT ![s] = Append(Tail(@), "note")]
    /\ st' = [st EXCEPT ![s] = "failed"]

\* Whoever awaits the append gets the error.  Tool calls and human input give
\* it to their caller and the session goes on; a final comes from the
\* consumer; nobody waits for the append of an error or a cancellation.
Rejected(s) ==
    /\ \/ /\ st[s] = "live" => Head(waiting[s]) # "final"
          /\ st[s] \notin {"opening", "completed"}
          /\ Dropped(s)
       \/ /\ st[s] \in {"opening", "live", "completed"}
          /\ Head(waiting[s]) # "cancelled"
          /\ Ended(s)
    /\ phase' = [phase EXCEPT ![s] = "idle"]
    /\ sending' = [sending EXCEPT ![s] = None]

\* STALE_SUPERVISOR_CALLBACK, EVENT_SEQUENCE_CONFLICT, DUPLICATE_DURABLE_FINAL,
\* EVENT_LOG_CORRUPT, SESSION_EPOCH_MISMATCH or WRITE_FENCE_EXPIRED.
Refuse(s) ==
    \E at \in Stamps[s] :
        LET e == [kind |-> Head(waiting[s]), at |-> at] IN
        /\ phase[s] = "idle" /\ waiting[s] # <<>>
        /\ ~MaySend(s) \/ (~AlreadyStored(mem[s], e) /\ ~MayInsert(s, e))
        /\ Rejected(s)
        /\ UNCHANGED <<dbVars, hosted, mem, own, base, expected, readerVars>>

NumberedFromZero(s, n, e) ==
    LET behind == {r \in Reader : conn[r] = "open" /\ via[r] = s /\ cursor[r] < n} IN
    /\ cursor' = [r \in Reader |-> IF r \in behind THEN n ELSE cursor[r]]
    /\ seen' = [r \in Reader |->
                   IF r \in behind THEN seen[r] \cup {<<n - 1, e>>} ELSE seen[r]]

\* The event goes to the subscribers of this process that are still behind.
Delivered(s, n, e) ==
    LET behind == {r \in Reader : conn[r] = "open" /\ via[r] = s /\ cursor[r] < n} IN
    /\ cursor' = [r \in Reader |-> IF r \in behind THEN n ELSE cursor[r]]
    /\ seen' = [r \in Reader |->
                   IF r \in behind THEN seen[r] \cup {<<n, e>>} ELSE seen[r]]

\* syncDurableEventToLegacyState, then every subscriber.  (A repair tells the
\* subscribers last, and nothing of it can fail in between.)
Publish(s) ==
    /\ phase[s] = "committed"
    /\ Delivered(s, Len(mem[s]) + 1, sending[s])
    /\ phase' = [phase EXCEPT ![s] = "published"]
    /\ UNCHANGED <<dbVars, st, hosted, mem, waiting, sending, own, base, expected,
                   conn, via>>

\* syncDurableEventToLegacyState throws: the row is committed, but the sink
\* fails, so neither the subscribers nor the memory get the event.
V1WriteFails(s) ==
    /\ V1Fails
    /\ phase[s] = "committed" /\ st[s] # "repairing"
    /\ Rejected(s)
    /\ UNCHANGED <<dbVars, hosted, mem, own, base, expected, readerVars>>

\* The sink resolved: the event enters the memory and the append is answered.
\* The first one opens, or resumes, the engine session.
Push(s) ==
    /\ phase[s] = "published"
    /\ mem' = [mem EXCEPT ![s] = Append(@, sending[s])]
    /\ waiting' = [waiting EXCEPT ![s] = Tail(@)]
    /\ st' = [st EXCEPT ![s] = IF @ = "opening" THEN "live" ELSE @]
    /\ phase' = [phase EXCEPT ![s] = "idle"]
    /\ sending' = [sending EXCEPT ![s] = None]
    /\ UNCHANGED <<dbVars, hosted, own, base, expected, readerVars>>

-----------------------------------------------------------------------------
(* The life of a supervisor.                                                *)

\* start(), called once, for a new run: createBinding, which inserts epoch 1,
\* then SESSION_OPENING.
Start(s) ==
    /\ st[s] = "off" /\ epoch = 0
    /\ epoch' = 1
    /\ st' = [st EXCEPT ![s] = "opening"]
    /\ hosted' = [hosted EXCEPT ![s] = TRUE]
    /\ own' = [own EXCEPT ![s] = 1]
    /\ expected' = [expected EXCEPT ![s] = 1]
    /\ Enqueue(s, "note")
    /\ UNCHANGED <<log, logEpoch, expired, checkpoint, recovery, mem, phase, sending, base, readerVars>>

FinalBegun(s) ==
    HasFinal(mem[s]) \/ \E i \in 1..Len(waiting[s]) : waiting[s][i] = "final"

\* The supervisor of an open session reports whatever happens in it; a final
\* once, after a look at its own log.
Report(s, kind) ==
    /\ st[s] = "live" /\ kind \in {"note", "final"}
    /\ kind = "final" => ~FinalBegun(s)
    /\ Enqueue(s, kind)
    /\ UNCHANGED <<dbVars, st, hosted, mem, phase, sending, own, base, expected, readerVars>>

\* The engine's stream fails or ends early.
Interrupt(s) ==
    /\ st[s] = "live"
    /\ st' = [st EXCEPT ![s] = "failed"]
    /\ Enqueue(s, "note")
    /\ UNCHANGED <<dbVars, hosted, mem, phase, sending, own, base, expected, readerVars>>

\* cancel(): RUN_CANCELLED, unless the commit of the final has begun.  While
\* the session is being opened the status is overwritten when it is open.
Cancel(s) ==
    /\ st[s] \in {"opening", "live"}
    /\ ~FinalBegun(s)
    /\ st' = [st EXCEPT ![s] = IF @ = "live" THEN "cancelled" ELSE @]
    /\ Enqueue(s, "cancelled")
    /\ UNCHANGED <<dbVars, hosted, mem, phase, sending, own, base, expected, readerVars>>

\* saveCheckpoint of a running session, fenced like an event; then the event
\* that reports it.
SaveCheckpoint(s) ==
    /\ st[s] = "live" /\ checkpoint < MaxCheckpoint
    /\ own[s] = epoch /\ ~expired
    /\ checkpoint' = checkpoint + 1
    /\ expected' = [expected EXCEPT ![s] = own[s]]
    /\ Enqueue(s, "note")
    /\ UNCHANGED <<log, logEpoch, epoch, expired, recovery, st, hosted, mem, phase, sending,
                   own, base, readerVars>>

\* recover(): load, hydrateDurable; the supplied binding and checkpoint must
\* be the durable ones.
RecoverLoad(s) ==
    /\ st[s] = "off" /\ checkpoint > 0
    /\ st' = [st EXCEPT ![s] = "loaded"]
    /\ hosted' = [hosted EXCEPT ![s] = TRUE]
    /\ mem' = [mem EXCEPT ![s] = log]
    /\ own' = [own EXCEPT ![s] = epoch]
    /\ base' = [base EXCEPT ![s] = checkpoint]
    /\ expected' = [expected EXCEPT ![s] = LoadedEpoch(s)]
    /\ UNCHANGED <<dbVars, waiting, phase, sending, readerVars>>

\* The catch of recover(): recovery_required, and an error event.  The
\* instance cannot recover again: hydrateDurable refuses once appends started.
RecoveryFails(s) ==
    /\ st' = [st EXCEPT ![s] = "failed"]
    /\ Enqueue(s, "note")

\* hydrateFinishRecovery reads the log again and hydrates again: it must be
\* what was loaded.  With a final in it the run is only completed, in the
\* epoch it was loaded in.
RecoverReread(s) ==
    /\ st[s] = "loaded"
    /\ \/ log # mem[s] /\ RecoveryFails(s)
       \/ /\ log = mem[s] /\ HasFinal(log)
          /\ st' = [st EXCEPT ![s] = "completed"]
          /\ Enqueue(s, "note")
       \/ /\ log = mem[s] /\ ~HasFinal(log)
          /\ st' = [st EXCEPT ![s] = "checked"]
          /\ UNCHANGED waiting
    /\ UNCHANGED <<dbVars, hosted, mem, phase, sending, own, base, expected, readerVars>>

\* saveCheckpoint of the recovery checkpoint, in the epoch after the loaded
\* one.  Its identifier names the checkpoint it resumes and that epoch.  The
\* same row again is accepted; a different one opens the epoch if that is
\* still to be opened, and is an ordinary checkpoint of it if it is current.
RecoverAcquire(s, at) ==
    LET row == [base |-> base[s], epoch |-> own[s] + 1, at |-> at] IN
    /\ st[s] = "checked" /\ own[s] < MaxEpoch
    /\ \/ /\ row \in recovery
          /\ UNCHANGED <<epoch, expired, checkpoint, recovery>>
       \/ /\ \A other \in recovery : other.base # row.base \/ other.epoch # row.epoch
          /\ epoch \in {own[s], own[s] + 1}
          /\ epoch = own[s] + 1 => ~expired
          /\ epoch' = own[s] + 1
          /\ expired' = FALSE
          /\ checkpoint' = checkpoint + 1
          /\ recovery' = recovery \cup {row}
    /\ st' = [st EXCEPT ![s] = "acquired"]
    /\ expected' = [expected EXCEPT ![s] = own[s] + 1]
    /\ UNCHANGED <<log, logEpoch, hosted, outboxVars, own, base, readerVars>>

\* CHECKPOINT_CONFLICT, CHECKPOINT_REGRESSION, SESSION_EPOCH_MISMATCH or
\* WRITE_FENCE_EXPIRED: another recovery came first.
RecoverConflict(s) ==
    /\ st[s] = "checked"
    /\ own[s] # epoch \/ base[s] # checkpoint
    /\ RecoveryFails(s)
    /\ UNCHANGED <<dbVars, hosted, mem, phase, sending, own, base, expected, readerVars>>

\* createBinding of the next binding, refused if yet another epoch began; then
\* SESSION_RESUMING, and the engine session once that is recorded.
RecoverBind(s) ==
    /\ st[s] = "acquired"
    /\ IF epoch = own[s] + 1
       THEN /\ own' = [own EXCEPT ![s] = epoch]
            /\ st' = [st EXCEPT ![s] = "opening"]
            /\ Enqueue(s, "note")
       ELSE RecoveryFails(s) /\ UNCHANGED own
    /\ UNCHANGED <<dbVars, hosted, mem, phase, sending, base, expected, readerVars>>

\* releaseActiveSupervisorRun: the run leaves activeRuns.  Appends that are
\* still queued will find that out.
Release(s) ==
    /\ \/ st[s] \in {"failed", "completed", "cancelled", "repairing", "stopped"}
       \/ st[s] = "live" /\ HasFinal(mem[s])
    /\ hosted[s]
    /\ hosted' = [hosted EXCEPT ![s] = FALSE]
    /\ UNCHANGED <<dbVars, st, outboxVars, own, base, expected, readerVars>>

\* The process dies.  Its readers lose their connection.
Crash(s) ==
    /\ st[s] # "off"
    /\ st' = [st EXCEPT ![s] = "off"]
    /\ hosted' = [hosted EXCEPT ![s] = FALSE]
    /\ mem' = [mem EXCEPT ![s] = <<>>]
    /\ waiting' = [waiting EXCEPT ![s] = <<>>]
    /\ phase' = [phase EXCEPT ![s] = "idle"]
    /\ sending' = [sending EXCEPT ![s] = None]
    /\ own' = [own EXCEPT ![s] = 0]
    /\ base' = [base EXCEPT ![s] = 0]
    /\ expected' = [expected EXCEPT ![s] = 0]
    /\ conn' = [r \in Reader |-> IF via[r] = s THEN "closed" ELSE conn[r]]
    /\ via' = [r \in Reader |-> IF via[r] = s THEN None ELSE via[r]]
    /\ UNCHANGED <<dbVars, cursor, seen>>

\* The ownership fence of the epoch runs out; nobody renews it.
FenceExpires ==
    /\ epoch > 0 /\ ~expired
    /\ expired' = TRUE
    /\ UNCHANGED <<log, logEpoch, epoch, checkpoint, recovery, supVars, readerVars>>

\* persistStoppedSupervisorCancellation, for a cancelled controller whose log
\* does not say so: a fresh persistence and a fresh outbox over the durable
\* log, for the same epoch only.  The appends of its own outbox are taken to
\* have settled.
Repair(s) ==
    /\ st[s] \in {"cancelled", "stopped"} /\ hosted[s]
    /\ waiting[s] = <<>> /\ ~EndsCancelled(mem[s])
    /\ own[s] = epoch
    /\ mem' = [mem EXCEPT ![s] = log]
    /\ expected' = [expected EXCEPT ![s] = epoch]
    /\ IF EndsCancelled(log)
       THEN /\ st' = [st EXCEPT ![s] = "stopped"]
            /\ UNCHANGED waiting
       ELSE /\ st' = [st EXCEPT ![s] = "repairing"]
            /\ Enqueue(s, "cancelled")
    /\ UNCHANGED <<dbVars, hosted, phase, sending, own, base, readerVars>>

\* Its one append settled, either way.
RepairDone(s) ==
    /\ st[s] = "repairing" /\ waiting[s] = <<>>
    /\ st' = [st EXCEPT ![s] = "stopped"]
    /\ UNCHANGED <<dbVars, hosted, outboxVars, own, base, expected, readerVars>>

-----------------------------------------------------------------------------
(* Reading: supervisorEventStream.                                          *)

AtHead(r) == Len(log)

\* sequenceFromLastEventId: an id the log does not have replays everything.
ReplayFrom(r) == IF cursor[r] <= Len(log) THEN cursor[r] ELSE 0

\* GET .../events on the process of s: the log, through the persistence of
\* the active run if there is one; subscribeToSupervisorEvents, to nothing if
\* there is none; and the replay after Last-Event-ID.
Open(r, s) ==
    /\ conn[r] = "closed" /\ epoch > 0
    /\ conn' = [conn EXCEPT ![r] = IF hosted[s] THEN "open" ELSE "replayed"]
    /\ via' = [via EXCEPT ![r] = s]
    /\ cursor' = [cursor EXCEPT ![r] = Len(log)]
    /\ seen' = [seen EXCEPT ![r] = @ \cup {<<i, log[i]>> : i \in (ReplayFrom(r) + 1)..Len(log)}]
    /\ expected' = [expected EXCEPT ![s] = IF hosted[s] THEN LoadedEpoch(s) ELSE @]
    /\ UNCHANGED <<dbVars, st, hosted, outboxVars, own, base>>

\* The client leaves or reconnects; it keeps the id of the last event.
Close(r) ==
    /\ conn[r] # "closed"
    /\ conn' = [conn EXCEPT ![r] = "closed"]
    /\ via' = [via EXCEPT ![r] = None]
    /\ UNCHANGED <<dbVars, supVars, cursor, seen>>

-----------------------------------------------------------------------------
SendHead(s) == Write(s) \/ Refuse(s) \/ Publish(s) \/ V1WriteFails(s) \/ Push(s)

Recover(s) ==
    \/ RecoverLoad(s) \/ RecoverReread(s)
    \/ \E at \in Stamps[s] : RecoverAcquire(s, at)
    \/ RecoverConflict(s) \/ RecoverBind(s)

Next ==
    \/ \E s \in Supervisor :
          \/ Start(s) \/ Recover(s) \/ SendHead(s)
          \/ \E kind \in Kinds : Report(s, kind)
          \/ Interrupt(s) \/ Cancel(s) \/ SaveCheckpoint(s) \/ Release(s) \/ Crash(s)
          \/ Repair(s) \/ RepairDone(s)
    \/ FenceExpires
    \/ \E r \in Reader : (\E s \in Supervisor : Open(r, s)) \/ Close(r)

Spec == Init /\ [][Next]_vars

-----------------------------------------------------------------------------
(* Properties.                                                              *)

Status == {"off", "opening", "live", "loaded", "checked", "acquired",
           "completed", "failed", "cancelled", "repairing", "stopped"}

DbTypeOK ==
    /\ log \in Seq(Event)
    /\ logEpoch \in Seq(Nat) /\ Len(logEpoch) = Len(log)
    /\ epoch \in 0..MaxEpoch
    /\ expired \in BOOLEAN
    /\ checkpoint \in Nat
    /\ recovery \subseteq [base : Nat, epoch : 1..MaxEpoch, at : Clock]

SupTypeOK ==
    /\ st \in [Supervisor -> Status]
    /\ hosted \in [Supervisor -> BOOLEAN]
    /\ mem \in [Supervisor -> Seq(Event)]
    /\ waiting \in [Supervisor -> Seq(Kinds)]
    /\ phase \in [Supervisor -> {"idle", "committed", "published"}]
    /\ sending \in [Supervisor -> Event \cup {None}]
    /\ own \in [Supervisor -> 0..MaxEpoch]
    /\ base \in [Supervisor -> Nat]
    /\ expected \in [Supervisor -> 0..MaxEpoch]

ReaderTypeOK ==
    /\ conn \in [Reader -> {"closed", "open", "replayed"}]
    /\ via \in [Reader -> Supervisor \cup {None}]
    /\ cursor \in [Reader -> Nat]
    /\ seen \in [Reader -> SUBSET (Nat \X Event)]

\* Every variable has the type its column or field has.
TypeOK == DbTypeOK /\ SupTypeOK /\ ReaderTypeOK

IsPrefixOf(m, l) == Len(m) <= Len(l) /\ \A i \in 1..Len(m) : m[i] = l[i]

\* What an outbox holds in memory is a beginning of the durable log, and the
\* event between its commit and its push is the one the log has next: through
\* lost acknowledgements, stale owners and recoveries, an outbox may fall
\* behind but never holds an event the log does not.  readAfter, head and the
\* numbering of the next event rely on it.
MemoryIsDurable ==
    \A s \in Supervisor :
        /\ IsPrefixOf(mem[s], log)
        /\ phase[s] # "idle" => IsPrefixOf(Append(mem[s], sending[s]), log)

\* A run ends once: the log never has two final events, whoever wrote them.
OneFinal ==
    \A i, j \in 1..Len(log) :
        log[i].kind = "final" /\ log[j].kind = "final" => i = j

\* An engine session of the run is open and belongs to s.
InSession(s) == st[s] \in {"live", "cancelled"}

\* Two supervisors never have a session open in the same epoch, although
\* saveCheckpoint lets two recoveries into one epoch: the second loses at its
\* first event, because the log has moved on (clocks that never read the same
\* millisecond are assumed).
OneSession ==
    \A s, t \in Supervisor :
        InSession(s) /\ InSession(t) /\ own[s] = own[t] => s = t

\* Nobody writes under an epoch it does not own: a row is inserted only by a
\* supervisor whose own binding is of the current epoch.  So once a recovery
\* has opened its epoch, nothing of the supervisor before it enters the log,
\* although appendEvent is told no epoch, and although every finish check and
\* every SSE request of the old process loads the newer state.
WrittenByOwner ==
    [][\A s \in Supervisor :
          phase'[s] = "committed" /\ log' # log /\ phase[s] = "idle" => own[s] = epoch]_vars

\* One owner at a time: of the sessions in an epoch, and of the rows written.
OneOwner == []OneSession /\ WrittenByOwner

\* What a client was given is in the durable log at that sequence number, so
\* no two clients, and no two connections of one, disagree about an event.
ReadersAgree ==
    \A r \in Reader : \A p \in seen[r] : p[1] \in 1..Len(log) /\ log[p[1]] = p[2]

\* ADR-006:133: "SSE remains at-least-once and resumes by event sequence/ID":
\* a client that was given an event was given every one before it, across
\* reconnections, crashes and recoveries.
ReaderComplete ==
    \A r \in Reader : 1..cursor[r] \subseteq {p[1] : p \in seen[r]}

\* sqlite-supervisor-persistence.ts:1089: "a V1 write failure after a V2 commit
\* cannot make the live outbox reuse an already-durable sequence number": a
\* live supervisor of the current epoch is about to use one that is free.
NoSequenceReuse ==
    \A s \in Supervisor :
        st[s] = "live" /\ own[s] = epoch /\ phase[s] = "idle" /\ waiting[s] # <<>>
        => Len(mem[s]) + 1 \notin 1..Len(log)

\* The abstract log: EventOutbox implements it.
EL == INSTANCE EventLog WITH Final <- {e \in Event : e.kind = "final"}

ImplementsLog == EL!Spec

=============================================================================
