--------------------------- MODULE KpiTransaction ---------------------------
(****************************************************************************)
(* Applying and undoing Suggested KPIs in the editor of a stored VDT        *)
(* (smart-kpi-transaction.ts, smart-kpi-journal.ts), together with what     *)
(* else the editor does to the graph and to its idea of the stored head     *)
(* (vdt-store.ts): edits, ordinary saves, loads, refreshes and reloads.     *)
(*                                                                          *)
(* One editor, the browser storage it writes after every change, the        *)
(* revision store as AtomicRevisions describes it seen through its route,   *)
(* and other writers of the same VDT.  A graph is the set of the changes in *)
(* it: the editor's own edits, the KPIs of an operation, and what others    *)
(* have written.  A head is its commit generation.                          *)
(*                                                                          *)
(* Left out: drafts that are not stored, pendingVdtCreate, agent runs that  *)
(* block an operation, journals that are not consistent, what is done in    *)
(* the other VDT that may be open, and a second editor on the same storage. *)
(****************************************************************************)
EXTENDS Integers, Sequences, FiniteSets

CONSTANTS
    Edit, Other,    \* changes of the user, of other writers
    None,
    Events,         \* what may happen in an instance, of the below
    MaxOps,         \* bound on operations, additions and undos
    MaxSaves,       \* bound on ordinary saves with a new key
    MaxEdits,       \* bound on the user's edits
    MaxLosses,      \* bound on requests whose answer is lost
    MaxReloads      \* bound on reloads of the page

ASSUME BoundAssumption ==
    \A n \in {MaxOps, MaxSaves, MaxEdits, MaxLosses, MaxReloads} : n \in Nat
ASSUME ChangeAssumption == Edit \cap Other = {} /\ (Edit \cup Other) \cap Nat = {}
ASSUME EventAssumption ==
    Events \subseteq {"refresh", "load", "refusal", "failure", "stale_execution", "quota",
                "conflict_fetch", "leave"}

VARIABLES
    revisions,  \* the committed revisions; the last one is the head
    orphans,    \* requests nobody waits for that the server may still take
    failed,     \* keys whose requests fail for good: quarantined, or corrupt
    \* the editor's persisted state
    open,       \* the VDT is the active one; otherwise another one is
    project, rev,
    known,      \* the head in projectSummaries
    rebase,     \* smartKpiRebaseRequired
    op,         \* smartKpiOperation
    undo,       \* smartKpiUndo
    pending,    \* pendingRevisionCommit
    \* and the rest of it
    isLoading, isMutating,
    leaving,    \* the save is made to open another VDT
    flow,       \* where the save or the operation under way stands
    work,       \* its local copy of the operation
    call,       \* its request and the answer
    loading,    \* the VDT that is being loaded: "no", "this", "other"
    refreshing, \* None, 0 while it is asked for, then the head that was read
    \* browser storage
    disk,
    full,       \* setItem throws
    \* history
    adopted,    \* the known head moved without the graph, and no rebase asked for,
                \* or to what was saved on such a head
    rejected,   \* operations given up because of a conflict
    ops, saves, edits, losses, reloads

serverVars == <<revisions, orphans, failed>>
graphVars == <<open, project, rev>>
headVars == <<known, rebase, adopted>>
opVars == <<op, undo>>
busyVars == <<isLoading, isMutating>>
flowVars == <<flow, work, call, leaving>>
flightVars == <<loading, refreshing>>
boundVars == <<ops, saves, edits, losses, reloads>>
vars == <<serverVars, graphVars, headVars, opVars, pending, busyVars, flowVars, flightVars,
          disk, full, rejected, boundVars>>

Operation == 1..MaxOps
Newest == Len(revisions)

Stored(n, p, r, k, rb, a, o, u, pd) ==
    [open |-> n, project |-> p, rev |-> r, known |-> k, rebase |-> rb, adopted |-> a, op |-> o,
     undo |-> u, pending |-> pd]

Init ==
    /\ revisions = <<[content |-> {}, key |-> <<"other", 0>>, blind |-> FALSE]>>
    /\ orphans = {} /\ failed = {}
    /\ open = TRUE /\ project = {} /\ rev = 0
    /\ known = 1 /\ rebase = FALSE /\ adopted = FALSE
    /\ op = None /\ undo = None /\ pending = None
    /\ isLoading = FALSE /\ isMutating = FALSE
    /\ flow = "idle" /\ work = None /\ call = None /\ leaving = FALSE
    /\ loading = "no" /\ refreshing = None
    /\ disk = Stored(TRUE, {}, 0, 1, FALSE, FALSE, None, None, None)
    /\ full = FALSE
    /\ rejected = {}
    /\ ops = 0 /\ saves = 0 /\ edits = 0 /\ losses = 0 /\ reloads = 0

\* The store persists after every set, unless the browser refuses.
Persist ==
    disk' = IF full THEN disk
            ELSE Stored(open', project', rev', known', rebase', adopted', op', undo',
                        pending')

Later(a, b) == IF a > b THEN a ELSE b

----------------------------------------------------------------------------
(* The revision route and other writers                                     *)

Committed(key) == {n \in 1..Newest : revisions[n].key = key}

\* commitVdtRevision: a key is committed once, on the head it expects, unless
\* its attempt was quarantined.
Commits(r) == Committed(r.key) = {} /\ r.expected = Newest /\ r.key \notin failed

Takes(r) ==
    revisions' = IF Commits(r)
                 THEN Append(revisions, [content |-> r.content, key |-> r.key, blind |-> r.blind])
                 ELSE revisions

NotCommitted(outcome) == [outcome |-> outcome, head |-> 0, summary |-> 0]

ConflictFirst(r) ==
    IF Commits(r) THEN [outcome |-> "ok", head |-> Newest + 1, summary |-> Newest + 1]
    ELSE NotCommitted("conflict")

\* head is that of the revision, summary that of the VDT by now.  The error
\* that is stored under a failed key is a 503 that is not retryable.
Answer(r) ==
    CASE r.key \in failed -> NotCommitted("failed")
      [] Commits(r) -> [outcome |-> "ok", head |-> Newest + 1, summary |-> Newest + 1]
      [] r.key \notin failed /\ Committed(r.key) # {} ->
            [outcome |-> "ok", head |-> CHOOSE n \in Committed(r.key) : TRUE, summary |-> Newest]
      [] OTHER -> NotCommitted("conflict")

Waiting == call # None /\ call.reply = None

editorVars == <<graphVars, headVars, opVars, pending, busyVars, flow, work, leaving, flightVars,
                disk, full, rejected, ops, saves, edits, reloads>>

ServerAnswers ==
    /\ Waiting
    /\ Takes(call.req)
    /\ call' = [call EXCEPT !.reply = Answer(call.req)]
    /\ UNCHANGED <<orphans, failed, editorVars, losses>>

\* Another answer of 400 to 499 that is not retryable.
ServerRefuses ==
    /\ "refusal" \in Events /\ Waiting
    /\ call' = [call EXCEPT !.reply = NotCommitted("refused")]
    /\ UNCHANGED <<serverVars, editorVars, losses>>

\* An answer of 500 or more that is not retryable: the attempt is quarantined
\* and the error stored under the key, or an error that another request with
\* the key, or a recovery of the attempt, may overcome.
ServerFails ==
    /\ "failure" \in Events /\ Waiting
    /\ \/ failed' = failed \cup {call.req.key} /\ UNCHANGED <<orphans, losses>>
       \/ /\ losses < MaxLosses
          /\ losses' = losses + 1
          /\ orphans' = orphans \cup {call.req}
          /\ UNCHANGED failed
    /\ call' = [call EXCEPT !.reply = NotCommitted("failed")]
    /\ UNCHANGED <<revisions, editorVars>>

\* No answer arrives, or a retryable error; the request may be taken later.
Lost ==
    /\ call # None /\ losses < MaxLosses
    /\ call.reply # None => call.reply.outcome # "unknown"
    /\ losses' = losses + 1
    /\ orphans' = IF call.reply = None THEN orphans \cup {call.req} ELSE orphans
    /\ call' = [call EXCEPT !.reply = NotCommitted("unknown")]
    /\ UNCHANGED <<revisions, failed, editorVars>>

OrphanTaken(r) ==
    /\ r \in orphans
    /\ orphans' = orphans \ {r}
    /\ \/ Takes(r) /\ UNCHANGED failed
       \/ "failure" \in Events /\ failed' = failed \cup {r.key} /\ UNCHANGED revisions
    /\ UNCHANGED <<call, editorVars, losses>>

OtherWrites(w) ==
    /\ \A n \in 1..Newest : w \notin revisions[n].content
    /\ revisions' = Append(revisions, [content |-> revisions[Newest].content \cup {w},
                                       key |-> <<"other", w>>, blind |-> FALSE])
    /\ UNCHANGED <<orphans, failed, call, editorVars, losses>>

----------------------------------------------------------------------------
(* Edits, loads, refreshes and reloads                                      *)

\* updateNode and the like; guardSmartKpiActions.
EditGraph(e) ==
    /\ open /\ op = None /\ edits < MaxEdits
    /\ edits' = edits + 1
    /\ project' = IF e \in project THEN project \ {e} ELSE project \cup {e}
    /\ rev' = rev + 1
    /\ UNCHANGED <<serverVars, open, headVars, opVars, pending, busyVars, flowVars, flightVars,
                   full, rejected, ops, saves, losses, reloads>>
    /\ Persist

\* refreshWorkspace: the summaries are replaced, the graph stays.
Refresh ==
    /\ "refresh" \in Events /\ op = None /\ refreshing = None
    /\ refreshing' = 0
    /\ isLoading' = TRUE
    /\ UNCHANGED <<serverVars, graphVars, headVars, opVars, pending, isMutating, flowVars,
                   loading, full, rejected, boundVars>>
    /\ Persist

RefreshRead ==
    /\ refreshing = 0
    /\ refreshing' = Newest
    /\ UNCHANGED <<serverVars, graphVars, headVars, opVars, pending, busyVars, flowVars,
                   loading, disk, full, rejected, boundVars>>

RefreshDone ==
    /\ refreshing \notin {None, 0}
    /\ refreshing' = None
    /\ isLoading' = FALSE
    /\ known' = refreshing
    /\ adopted' = (adopted \/ known' # known)
    /\ UNCHANGED <<serverVars, graphVars, rebase, opVars, pending, isMutating, flowVars,
                   loading, full, rejected, boundVars>>
    /\ Persist

\* selectWorkspaceVdt of this VDT: nothing if it is active, unless to rebase.
Load ==
    /\ "load" \in Events /\ op = None /\ (rebase \/ ~open) /\ loading = "no" /\ ~leaving
    /\ loading' = "this"
    /\ isLoading' = TRUE
    /\ UNCHANGED <<serverVars, graphVars, headVars, opVars, pending, isMutating, flowVars,
                   refreshing, full, rejected, boundVars>>
    /\ Persist

Loaded ==
    /\ loading' = "no"
    /\ isLoading' = FALSE
    /\ UNCHANGED <<serverVars, rev, undo, pending, isMutating, flowVars, refreshing, full,
                   rejected, boundVars>>
    /\ Persist

LoadDone ==
    /\ loading = "this"
    /\ open' = TRUE
    /\ project' = revisions[Newest].content
    /\ known' = Newest
    /\ rebase' = FALSE /\ adopted' = FALSE
    /\ op' = IF rebase THEN None ELSE op
    /\ Loaded

OtherLoaded ==
    /\ loading = "other"
    /\ open' = FALSE
    /\ project' = {}
    /\ UNCHANGED <<headVars, op>>
    /\ Loaded

LoadFails ==
    /\ loading # "no"
    /\ UNCHANGED <<open, project, headVars, op>>
    /\ Loaded

Committing(o) == o # None /\ o.phase = "committing"

\* The page is loaded again, and the store merges what browser storage holds.
Reload ==
    /\ reloads < MaxReloads
    /\ reloads' = reloads + 1
    /\ open' = disk.open /\ project' = disk.project /\ rev' = disk.rev
    /\ known' = disk.known /\ rebase' = disk.rebase /\ adopted' = disk.adopted
    /\ op' = IF Committing(disk.op) THEN disk.op ELSE None
    /\ undo' = disk.undo /\ pending' = disk.pending
    /\ isLoading' = FALSE /\ isMutating' = FALSE
    /\ flow' = "idle" /\ work' = None /\ call' = None /\ leaving' = FALSE
    /\ orphans' = IF Waiting THEN orphans \cup {call.req} ELSE orphans
    /\ loading' = "no" /\ refreshing' = None
    /\ UNCHANGED <<revisions, failed, disk, full, rejected, ops, saves, edits, losses>>

Quota ==
    /\ "quota" \in Events
    /\ full' = ~full
    /\ UNCHANGED <<serverVars, graphVars, headVars, opVars, pending, busyVars, flowVars,
                   flightVars, disk, rejected, boundVars>>

----------------------------------------------------------------------------
(* The ordinary save                                                        *)

Request(key, expected, content) ==
    [key |-> key, expected |-> expected, content |-> content, blind |-> adopted]

Sends(r) == call' = [req |-> r, reply |-> None]

EndsUnanswered == flow' = "idle" /\ work' = None /\ UNCHANGED call

Ends == flow' = "idle" /\ work' = None /\ call' = None

\* saveActiveWorkspaceVdt: a pending request is sent as it is.
Saving ==
    /\ open /\ op = None /\ ~rebase /\ flow = "idle"
    /\ IF pending # None THEN UNCHANGED <<pending, saves>>
       ELSE /\ saves < MaxSaves
            /\ saves' = saves + 1
            /\ pending' = Request(<<"save", saves'>>, known, project)
    /\ Sends(pending')
    /\ flow' = "saving"
    /\ isMutating' = TRUE
    /\ UNCHANGED <<serverVars, graphVars, headVars, opVars, work, flightVars, full, rejected,
                   ops, edits, losses, reloads>>
    /\ Persist

Save == Saving /\ UNCHANGED <<isLoading, leaving>>

\* selectWorkspaceVdt of another VDT saves the active one first.
Leave ==
    /\ "leave" \in Events /\ loading = "no"
    /\ isLoading' = TRUE
    /\ leaving' = TRUE
    /\ Saving

Replied(where, outcome) ==
    flow = where /\ call.reply # None /\ call.reply.outcome = outcome

\* The other VDT is loaded if all of the graph was saved.
SaveEnds(all) ==
    /\ Ends
    /\ isMutating' = FALSE
    /\ leaving' = FALSE
    /\ IF leaving
       THEN /\ loading' = IF all THEN "other" ELSE "no"
            /\ isLoading' = IF all THEN isLoading ELSE FALSE
       ELSE UNCHANGED <<loading, isLoading>>
    /\ UNCHANGED <<serverVars, graphVars, rebase, opVars, refreshing, full, rejected,
                   boundVars>>
    /\ Persist

SaveDone ==
    /\ Replied("saving", "ok")
    /\ known' = call.reply.summary
    /\ adopted' = (adopted \/ call.req.blind \/ call.reply.summary # call.reply.head)
    /\ pending' = None
    /\ SaveEnds(project = call.req.content)

\* The head of the other writer is fetched and taken over.
SaveConflict ==
    /\ Replied("saving", "conflict")
    /\ known' \in {known} \cup (IF "conflict_fetch" \in Events THEN {Newest} ELSE {})
    /\ adopted' = (adopted \/ known' # known)
    /\ pending' = None
    /\ SaveEnds(FALSE)

\* Only what is retryable is kept (shouldRetainPendingStorageOperation).
SaveFails ==
    /\ \E outcome \in {"refused", "failed", "unknown"} : Replied("saving", outcome)
    /\ pending' = IF call.reply.outcome = "unknown" THEN pending ELSE None
    /\ UNCHANGED <<known, adopted>>
    /\ SaveEnds(FALSE)

----------------------------------------------------------------------------
(* Operations                                                               *)

\* smartKpiBlockedReason, without the operation itself.
Blocked == (rebase /\ open) \/ isLoading \/ isMutating

OwnsAnything(o) == TRUE

OwnsBase(o) == open /\ rev = o.rev /\ project = o.before

AuthorityMatches(o) == known = o.authority

KeyOf(o) == <<o.kind, o.id>>

Input(o) == Request(KeyOf(o), o.authority, o.candidate)

JournalAssumed(o) == TRUE

\* smartKpiJournalPersisted: o has just been set, or was read from the journal.
JournalPersisted(o) == ~full \/ disk.op = o

\* finish, up to its first await.
Finishes(o) ==
    IF JournalPersisted(o)
    THEN op' = o /\ work' = o /\ flow' = "sending" /\ Sends(Input(o))
    ELSE op' = None /\ Ends

\* applySmartKpiSuggestion: the reservation, and what follows in the same turn.
Apply ==
    /\ open /\ op = None /\ ~Blocked /\ flow = "idle" /\ ops < MaxOps
    /\ ops' = ops + 1
    /\ undo' = None
    /\ LET o == [id |-> ops', kind |-> "add", of |-> ops', phase |-> "preparing",
                 before |-> project, rev |-> rev, authority |-> known,
                 candidate |-> project \cup {ops'}, head |-> 0, summary |-> 0]
       IN IF ~JournalPersisted(o) THEN op' = None /\ Ends
          ELSE /\ op' = o /\ work' = o
               /\ IF pending = None THEN flow' = "preparing" /\ call' = None
                  ELSE flow' = "replaying" /\ Sends(pending)
    /\ UNCHANGED <<serverVars, graphVars, headVars, pending, busyVars, leaving, flightVars, full,
                   rejected, saves, edits, losses, reloads>>
    /\ Persist

\* A step of the operation that leaves the graph as it is.
OperationStep ==
    /\ UNCHANGED <<serverVars, graphVars, busyVars, leaving, flightVars, full, boundVars>>
    /\ Persist

\* reconcileOrdinary, and the authority that the operation captures then.
Replayed ==
    /\ Replied("replaying", "ok")
    /\ known' = Later(known, call.reply.summary)
    /\ adopted' = (adopted \/ call.req.blind \/ call.reply.summary # call.reply.head)
    /\ pending' = None
    /\ IF OwnsBase(work)
       THEN flow' = "preparing" /\ work' = [work EXCEPT !.authority = known'] /\ call' = None
                /\ UNCHANGED op
       ELSE op' = None /\ Ends
    /\ UNCHANGED <<rebase, undo, rejected>>
    /\ OperationStep

ReplayFails ==
    /\ flow = "replaying" /\ call.reply # None /\ call.reply.outcome # "ok"
    /\ op' = None /\ Ends
    /\ UNCHANGED <<headVars, undo, pending, rejected>>
    /\ OperationStep

\* The skill, the execution, the context or the formula is refused.
PrepareFails ==
    /\ flow = "preparing"
    /\ op' = None /\ Ends
    /\ UNCHANGED <<headVars, undo, pending, rejected>>
    /\ OperationStep

Prepared ==
    /\ flow = "preparing"
    /\ IF OwnsBase(work) /\ ~Blocked /\ AuthorityMatches(work)
       THEN Finishes([work EXCEPT !.phase = "committing"])
       ELSE op' = None /\ Ends
    /\ UNCHANGED <<headVars, undo, pending, rejected>>
    /\ OperationStep

\* undoSmartKpiSuggestion
CanUndo ==
    /\ open /\ undo # None /\ op = None /\ ~Blocked
    /\ rev = undo.rev /\ project = undo.applied /\ known = undo.authority

Undo ==
    /\ CanUndo /\ flow = "idle" /\ ops < MaxOps
    /\ ops' = ops + 1
    /\ Finishes([id |-> ops', kind |-> "undo", of |-> undo.of, phase |-> "committing",
                 before |-> project, rev |-> rev, authority |-> undo.authority,
                 candidate |-> undo.before, head |-> 0, summary |-> 0])
    /\ UNCHANGED <<serverVars, graphVars, headVars, undo, pending, busyVars, leaving, flightVars,
                   full, rejected, saves, edits, losses, reloads>>
    /\ Persist

\* reconcilePendingSmartKpiCommit
Reconcile ==
    /\ Committing(op) /\ flow = "idle"
    /\ Finishes(op)
    /\ UNCHANGED <<headVars, undo, pending, rejected>>
    /\ OperationStep

\* The save is answered; the head is read again.
Saved ==
    /\ Replied("sending", "ok")
    /\ flow' = "confirming"
    /\ work' = [work EXCEPT !.head = call.reply.head, !.summary = call.reply.summary]
    /\ call' = None
    /\ UNCHANGED <<serverVars, graphVars, headVars, opVars, pending, busyVars, leaving, flightVars,
                   disk, full, rejected, boundVars>>

AnyHead(latest) == Later(work.head, latest)

\* head becomes 0 when the head that was read is not that of the operation.
Confirmed(latest) == IF latest = work.head THEN work.head ELSE 0

Confirm ==
    /\ flow = "confirming"
    /\ \E latest \in {0, Newest} :
          work' = [work EXCEPT !.head = Confirmed(latest), !.summary = Later(@, latest)]
    /\ flow' = "publishing"
    /\ UNCHANGED <<serverVars, graphVars, headVars, opVars, pending, busyVars, call, leaving,
                   flightVars, disk, full, rejected, boundVars>>

MayPublish ==
    work.head # 0 /\ OwnsBase(work) /\ ~Blocked /\ AuthorityMatches(work)

\* The candidate becomes the graph.
Published ==
    /\ flow = "publishing" /\ MayPublish
    /\ project' = work.candidate
    /\ rev' = rev + 1
    /\ undo' = IF work.kind = "undo" THEN None
               ELSE [of |-> work.of, before |-> work.before, applied |-> work.candidate,
                     rev |-> rev', authority |-> work.head]
    /\ known' = Later(known, work.summary)
    /\ op' = None /\ Ends
    /\ UNCHANGED <<serverVars, open, rebase, adopted, pending, busyVars, leaving, flightVars, full,
                   rejected, boundVars>>
    /\ Persist

NoRebase == rebase

Rebase == TRUE

\* It was saved, but the editor has moved on, or the execution has.
NotPublished ==
    /\ flow = "publishing"
    /\ ~MayPublish \/ "stale_execution" \in Events
    /\ known' = Later(known, work.summary)
    /\ rebase' = Rebase
    /\ undo' = None
    /\ op' = None /\ Ends
    /\ UNCHANGED <<adopted, pending, rejected>>
    /\ OperationStep

Conflict ==
    /\ Replied("sending", "conflict")
    /\ known' \in {known, Later(known, Newest)}
    /\ rebase' = Rebase
    /\ rejected' = rejected \cup {KeyOf(work)}
    /\ op' = None /\ Ends
    /\ UNCHANGED <<adopted, undo, pending>>
    /\ OperationStep

KeptAlways == TRUE

KeptUnknown == call.reply.outcome # "refused"

\* Refused (400 to 499): the operation is dropped.  Anything else, an error
\* that is not retryable too: it is kept as it is.
NotSaved ==
    /\ \E outcome \in {"refused", "failed", "unknown"} : Replied("sending", outcome)
    /\ op' = IF KeptUnknown THEN work ELSE None
    /\ Ends
    /\ UNCHANGED <<headVars, undo, pending, rejected>>
    /\ OperationStep

----------------------------------------------------------------------------

Server == ServerAnswers \/ ServerRefuses \/ ServerFails \/ Lost

FlowStep ==
    \/ SaveDone \/ SaveConflict \/ SaveFails
    \/ Replayed \/ ReplayFails \/ PrepareFails \/ Prepared
    \/ Saved \/ Confirm \/ Published \/ NotPublished \/ Conflict \/ NotSaved

User ==
    \/ \E e \in Edit : EditGraph(e)
    \/ Refresh \/ Load \/ Leave \/ Reload \/ Save \/ Apply \/ Undo

Next ==
    \/ User \/ Reconcile \/ FlowStep \/ Server
    \/ RefreshRead \/ RefreshDone \/ LoadDone \/ OtherLoaded \/ LoadFails \/ Quota
    \/ \E r \in orphans : OrphanTaken(r)
    \/ \E w \in Other : OtherWrites(w)

\* Requests are answered, awaits go on, and the user presses "Reconcile save",
\* the one thing that is left to do while an operation is pending.
Fairness == WF_vars(Server) /\ WF_vars(FlowStep) /\ WF_vars(Reconcile)

Spec == Init /\ [][Next]_vars /\ Fairness

----------------------------------------------------------------------------
(* Properties                                                               *)

Change == Edit \cup Other \cup Operation
Operations ==
    [id : Operation, kind : {"add", "undo"}, of : Operation, phase : {"preparing", "committing"},
     before : SUBSET Change, rev : Nat, authority : Nat, candidate : SUBSET Change,
     head : Nat, summary : Nat]
Commands ==
    [key : {"save", "add", "undo"} \X Nat, expected : Nat, content : SUBSET Change,
     blind : BOOLEAN]
Answers == [outcome : {"ok", "conflict", "refused", "failed", "unknown"}, head : Nat, summary : Nat]

ASSUME RecordAssumption ==
    None \notin Operations \cup Commands \cup [req : Commands, reply : {None} \cup Answers]

\* The types; the operation under way is the one that is reserved, and it is
\* alone.
TypeOK ==
    /\ project \subseteq Change /\ rev \in Nat /\ known \in 1..Newest
    /\ {open, rebase, adopted, isLoading, isMutating, leaving, full} \subseteq BOOLEAN
    /\ op \in Operations \cup {None} /\ work \in Operations \cup {None}
    /\ flow \in {"idle", "saving", "replaying", "preparing", "sending", "confirming",
                 "publishing"}
    /\ (call # None) = (flow \in {"saving", "replaying", "sending"})
    /\ flow \notin {"idle", "saving"} => op # None /\ op.id = work.id
    /\ flow = "saving" => isMutating /\ pending # None
    /\ leaving => flow = "saving" /\ loading = "no"
    /\ loading \in {"no", "this", "other"}
    /\ refreshing \in {None} \cup 0..Newest

Keeps(n) == revisions[n].content \cap Other \subseteq revisions[n + 1].content

\* Nothing that the editor saves takes away what another writer has saved and
\* the editor has not loaded, unless it took over a head without the graph: in
\* refreshWorkspace, after a conflict of an ordinary save, or when an ordinary
\* save is replayed.
KeepsOthers == \A n \in 1..(Newest - 1) : revisions[n + 1].blind \/ Keeps(n)

\* The same, whatever the editor took over.
NoOverwrite == \A n \in 1..(Newest - 1) : Keeps(n)

\* An undo takes away the KPIs it is of from the revision that added them, and
\* nothing else, whatever was saved, refreshed or reloaded in between.
UndoIsExact ==
    \A n \in 1..(Newest - 1) :
        revisions[n + 1].key[1] = "undo" =>
            \E id \in Operation :
                /\ revisions[n].key = <<"add", id>>
                /\ revisions[n + 1].content = revisions[n].content \ {id}

\* A saved revision differs from the one before it by what its writer did.
SavesOwnWork == KeepsOthers /\ UndoIsExact

\* What the user was told was not saved because of a conflict is not saved, and
\* no copy of the request that is still under way will save it.
RejectedNotSaved == \A key \in rejected : Committed(key) = {}

\* What has been sent, or may be, can be found in the journal after a reload,
\* with the same key, head and graph.
SentIsJournalled == Committing(op) => disk.op = op

\* An operation that ends changes nothing in the graph but its own KPIs: edits
\* and loads that came in between are not undone.
EditsKept ==
    [][op # None /\ op' = None /\ reloads' = reloads
          => project' \ {op.of} = project \ {op.of}]_vars

\* While requests are answered and the user presses "Reconcile save", an
\* operation ends saved or given up, whatever was lost, refused or reloaded on
\* the way.  Only one whose key the server has failed for good does not: the
\* editor keeps what may have been saved, and every further request with the
\* key gets the stored error again.
PendingResolved == op # None ~> op = None \/ KeyOf(op) \in failed

\* What the panel promises of "Reconcile save".
AlwaysResolved == op # None ~> op = None

=============================================================================
