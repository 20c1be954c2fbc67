--------------------------- MODULE AtomicRevisions ---------------------------
(****************************************************************************)
(* AtomicRevisionStore: how a revision of one VDT is committed to a SQLite  *)
(* database and a data directory by processes that may stop at any point.   *)
(*                                                                          *)
(* Every commit is a durable attempt (a row) that walks                     *)
(*   reserved -> staged -> head_reserved -> published -> completed          *)
(* or ends rejected or quarantined.  The payload is written to a stage file,*)
(* then copied to the final file.  Each transaction and each file operation *)
(* is one step here; between two of them other processes run, the process   *)
(* may die, or the machine may lose power.                                  *)
(*                                                                          *)
(* The code of one process is synchronous, so interleaving is between       *)
(* processes that share the data directory; a row that is not finished is   *)
(* driven on by whoever takes over its expired lease: a retry of the same   *)
(* request, or the recovery that every opening of the database runs.        *)
(****************************************************************************)
EXTENDS Naturals, FiniteSets

CONSTANTS
    Keys,          \* idempotency keys; each names one attempt and its revision
    CreateKeys,    \* keys of vdt.create_with_initial; the rest revision.commit
    Procs,         \* processes that opened the database
    None,          \* no revision, no key
    MaxOwners,     \* owner tokens 1..MaxOwners of an attempt; see Fresh
    MaxSlow,       \* bound on leases that expire under a running owner
    MaxCrash,      \* bound on process deaths
    MaxPowerLoss,  \* bound on power losses
    MaxProject     \* bound on changes of the project's write state

ASSUME KeysAssumption == None \notin Keys /\ CreateKeys \subseteq Keys
ASSUME BoundsAssumption ==
    /\ MaxOwners \in Nat /\ MaxSlow \in Nat /\ MaxCrash \in Nat
    /\ MaxPowerLoss \in Nat /\ MaxProject \in Nat

ASSUME NoneIsNoRequest ==
    /\ None \notin [active : Keys \cup {None}, generation : Nat]
    /\ None \notin [active : Keys \cup {None}, generation : Nat, version : Nat]

VARIABLES
    \* the database
    request,     \* request[k]: the CAS a client put in its command, or None
    idem,        \* idempotency_records.status
    state,       \* revision_commit_attempts.state
    owner,       \* owner_token and lease_generation, which change together and
                 \*   are only ever compared for equality
    leaseLive,   \* lease_expires_at is still in the future
    record,      \* revision_commit_records: [state, no, parent]
    active,      \* vdt_revision_heads.active_revision_id (and its content)
    pending,     \* vdt_revision_heads.pending_revision_id
    commitGen,   \* vdt_revision_heads.commit_generation
    lifecycle,   \* vdt_storage_lifecycles.state, "absent" without a row
    creator,     \* vdt_storage_lifecycles.initial_attempt_id
    revisions,   \* rows of vdt_revisions: [id, no, parent]
    project,     \* project_runtime_states: [version, writable]
    \* the data directory
    stage,       \* stage[k]: the staged payload file
    final,       \* final[k]: the published payload file
    \* the processes
    pc,          \* what the process does next
    my,          \* the attempt row it holds in memory: [key, state, owner]
    todo,        \* rows recoverRevisionCommits has read and not yet handled
    \* what is bounded
    crashes, powerLosses, slow, projectChanges

db == <<request, idem, state, owner, leaseLive, record, active, pending,
        commitGen, lifecycle, creator, revisions, project>>
files == <<stage, final>>
procs == <<pc, my, todo>>
bounds == <<crashes, powerLosses, slow, projectChanges>>
vars == <<db, files, procs, bounds>>

AttemptStates == {"none", "reserved", "staged", "head_reserved", "published",
                  "completed", "rejected", "quarantined"}
OpenStates == {"reserved", "staged", "head_reserved", "published"}
\* A file is absent, torn, complete in the page cache, or complete on disk.
FileStates == {"missing", "partial", "written", "durable"}
RecordStates == {"none", "pending", "committed", "quarantined"}

NoRow == [key |-> None, state |-> "none", owner |-> 0]
NoRecord == [state |-> "none", no |-> 0, parent |-> None]

\* What inspectFile answers: absent, or the bytes have the expected hash or not.
Evidence(f) == IF f = "missing" THEN "missing"
               ELSE IF f = "partial" THEN "mismatch" ELSE "match"

\* readAndFsyncVerifiedFile: a file that matches is on the disk afterwards.
ReadWithoutFsync(f) == f
ReadAndFsync(f) == IF Evidence(f) = "match" THEN "durable" ELSE f

Writable(k) == project.writable /\ project.version = request[k].version

\* The WHERE clause on (attempt_id, owner_token, lease_generation).
OwnsByKey(p) == owner[my[p].key] > 0
Owns(p) == owner[my[p].key] = my[p].owner

\* The WHERE clause on the attempt's state in take-over and quarantine.
Started(k) == state[k] # "none"
Unfinished(k) == state[k] \in OpenStates

\* idempotency_records gets its one answer in the attempt's last transaction.
AnswerLater(k, answer) == IF answer = "succeeded" THEN [idem EXCEPT ![k] = answer] ELSE idem
Answer(k, answer) == [idem EXCEPT ![k] = answer]

KeepSlot(k) == pending
ClearSlot(k) == IF pending = k THEN None ELSE pending

RevisionNoOfParent(k) == commitGen
RevisionNo(k) == commitGen + 1

HeadMatches(k) ==
    /\ active = request[k].active
    /\ commitGen = request[k].generation

\* Control passes to the branch of advanceAttempt for an attempt state.
Branch(s) == CASE s = "reserved" -> "inspect_reserved"
               [] s = "staged" -> "inspect_staged"
               [] s = "head_reserved" -> "inspect_head_reserved"
               [] s = "published" -> "inspect_published"

Init ==
    /\ request = [k \in Keys |-> None]
    /\ idem = [k \in Keys |-> "none"]
    /\ state = [k \in Keys |-> "none"]
    /\ owner = [k \in Keys |-> 0]
    /\ leaseLive = [k \in Keys |-> FALSE]
    /\ record = [k \in Keys |-> NoRecord]
    /\ active = None /\ pending = None /\ commitGen = 0
    /\ lifecycle = IF CreateKeys = {} THEN "ready" ELSE "absent"
    /\ creator = None
    /\ revisions = {}
    /\ project = [version |-> 1, writable |-> TRUE]
    /\ stage = [k \in Keys |-> "missing"]
    /\ final = [k \in Keys |-> "missing"]
    /\ pc = [p \in Procs |-> "idle"]
    /\ my = [p \in Procs |-> NoRow]
    /\ todo = [p \in Procs |-> {}]
    /\ crashes = 0 /\ powerLosses = 0 /\ slow = 0 /\ projectChanges = 0
-----------------------------------------------------------------------------
(* How a process's synchronous call ends.                                    *)

\* The call returns or throws a non-retryable error: recovery goes on with its
\* next row.
Finish(p) ==
    /\ pc' = [pc EXCEPT ![p] = "idle"]
    /\ my' = [my EXCEPT ![p] = NoRow]
    /\ UNCHANGED todo

\* A retryable or foreign error: a recovery that meets it is abandoned, and
\* openVdtDatabase closes the database.
Abort(p) ==
    /\ pc' = [pc EXCEPT ![p] = "idle"]
    /\ my' = [my EXCEPT ![p] = NoRow]
    /\ todo' = [todo EXCEPT ![p] = {}]

Go(p, label) == pc' = [pc EXCEPT ![p] = label] /\ UNCHANGED <<my, todo>>
-----------------------------------------------------------------------------
(* Requests.                                                                 *)

\* A client fixes its command: the head it read and the project generation.
\* The initial snapshot of a VDT expects the empty head.
Compose(k) ==
    /\ request[k] = None
    /\ request' = [request EXCEPT ![k] =
         [active |-> IF k \in CreateKeys THEN None ELSE active,
          generation |-> IF k \in CreateKeys THEN 0 ELSE commitGen,
          version |-> project.version]]
    /\ UNCHANGED <<idem, state, owner, leaseLive, record, active, pending,
                   commitGen, lifecycle, creator, revisions, project,
                   files, procs, bounds>>

\* resumeExisting: a finished key is replayed (no state changes), a live lease
\* is reported as in progress, an expired one may be taken over.
Resume(p, k) ==
    IF idem[k] = "in_progress" /\ ~leaseLive[k]
    THEN /\ pc' = [pc EXCEPT ![p] = "take_over"]
         /\ my' = [my EXCEPT ![p] =
                     [key |-> k, state |-> state[k], owner |-> owner[k]]]
         /\ UNCHANGED todo
    ELSE Finish(p)

\* commitVdtRevision / createVdtWithInitialSnapshot up to findIdempotency.
Call(p, k) ==
    /\ pc[p] = "idle" /\ todo[p] = {}
    /\ request[k] # None
    /\ IF idem[k] = "none"
       THEN /\ pc' = [pc EXCEPT ![p] = "reserve"]
            /\ my' = [my EXCEPT ![p] = [NoRow EXCEPT !.key = k]]
            /\ UNCHANGED todo
       ELSE Resume(p, k)
    /\ UNCHANGED <<db, files, bounds>>

\* assertProjectAndHeadPreflight for a commit; for a create, "no such VDT".
Preflight(k) ==
    /\ Writable(k)
    /\ IF k \in CreateKeys
       THEN lifecycle = "absent"
       ELSE lifecycle = "ready" /\ pending = None /\ HeadMatches(k)

\* The reserving transaction.  If it fails because the key was inserted by
\* another process meanwhile, that one is resumed.
Reserve(p) ==
    /\ pc[p] = "reserve"
    /\ LET k == my[p].key IN
       IF idem[k] # "none"
       THEN Resume(p, k) /\ UNCHANGED db
       ELSE IF ~Preflight(k)
       THEN Finish(p) /\ UNCHANGED db
       ELSE /\ idem' = [idem EXCEPT ![k] = "in_progress"]
            /\ state' = [state EXCEPT ![k] = "reserved"]
            /\ owner' = [owner EXCEPT ![k] = 1]
            /\ leaseLive' = [leaseLive EXCEPT ![k] = TRUE]
            /\ lifecycle' = IF k \in CreateKeys THEN "creating" ELSE lifecycle
            /\ creator' = IF k \in CreateKeys THEN k ELSE creator
            /\ my' = [my EXCEPT ![p] =
                        [key |-> k, state |-> "reserved", owner |-> 1]]
            /\ pc' = [pc EXCEPT ![p] = "inspect_reserved"]
            /\ UNCHANGED <<request, record, active, pending, commitGen,
                           revisions, project, todo>>
    /\ UNCHANGED <<files, bounds>>

OpenExpired(p) ==
    /\ pc[p] = "idle" /\ todo[p] = {}
    /\ todo' = [todo EXCEPT ![p] =
         {[key |-> k, state |-> state[k], owner |-> owner[k]] :
            k \in {j \in Keys : ~leaseLive[j]}}]
    /\ todo'[p] # {}
    /\ UNCHANGED <<db, files, pc, my, bounds>>

OpenPublished(p) ==
    /\ pc[p] = "idle" /\ todo[p] = {}
    /\ todo' = [todo EXCEPT ![p] =
         {[key |-> k, state |-> state[k], owner |-> owner[k]] :
            k \in {j \in Keys : state[j] = "published" /\ ~leaseLive[j]}}]
    /\ todo'[p] # {}
    /\ UNCHANGED <<db, files, pc, my, bounds>>

\* recoverRevisionCommits reads the expired unfinished rows when the database
\* is opened, and then handles them one by one from what it has read.
Open(p) ==
    /\ pc[p] = "idle" /\ todo[p] = {}
    /\ todo' = [todo EXCEPT ![p] =
         {[key |-> k, state |-> state[k], owner |-> owner[k]] :
            k \in {j \in Keys : state[j] \in OpenStates /\ ~leaseLive[j]}}]
    /\ todo'[p] # {}
    /\ UNCHANGED <<db, files, pc, my, bounds>>

RecoverNext(p) ==
    /\ pc[p] = "idle"
    /\ \E row \in todo[p] :
         /\ my' = [my EXCEPT ![p] = row]
         /\ todo' = [todo EXCEPT ![p] = @ \ {row}]
    /\ pc' = [pc EXCEPT ![p] = "take_over"]
    /\ UNCHANGED <<db, files, bounds>>

\* A new owner token: one no process still holds for this attempt.  Tokens are
\* UUIDs and generations only grow, so the code never reuses one; the smallest
\* free number keeps the model finite and any Cardinality(Procs) + 1 suffice.
Free(k) == {t \in 1..MaxOwners : t # owner[k] /\ \A p \in Procs :
              /\ ~(my[p].key = k /\ my[p].owner = t)
              /\ \A row \in todo[p] : ~(row.key = k /\ row.owner = t)}

\* takeOverAttempt: a CAS on the generation that was read, once the lease has
\* expired.  The caller goes on with the STATE it read, under a new owner.
TakeOver(p) ==
    /\ pc[p] = "take_over"
    /\ LET k == my[p].key IN
       IF Owns(p) /\ ~leaseLive[k] /\ Unfinished(k)
       THEN /\ \E t \in Free(k) :
                 /\ \A u \in Free(k) : t <= u
                 /\ owner' = [owner EXCEPT ![k] = t]
                 /\ my' = [my EXCEPT ![p].owner = t]
            /\ leaseLive' = [leaseLive EXCEPT ![k] = TRUE]
            /\ pc' = [pc EXCEPT ![p] = Branch(my[p].state)]
            /\ UNCHANGED <<request, idem, state, record, active, pending,
                           commitGen, lifecycle, creator, revisions, project,
                           todo>>
       ELSE Finish(p) /\ UNCHANGED db
    /\ UNCHANGED <<files, bounds>>
-----------------------------------------------------------------------------
(* Fenced endings of an attempt.                                             *)

LeaveCreating(k) == UNCHANGED <<lifecycle, creator, commitGen>>

\* The VDT of a failed create is removed while it is still hidden and empty.
RemoveCreating(k) ==
    IF /\ k \in CreateKeys /\ lifecycle = "creating" /\ creator = k
       /\ active = None /\ pending' = None
    THEN lifecycle' = "absent" /\ creator' = None /\ commitGen' = 0
    ELSE UNCHANGED <<lifecycle, creator, commitGen>>

\* quarantineInTransaction: all of it, or nothing when the owner is stale.
QuarantineTx(p) ==
    LET k == my[p].key IN
    IF Owns(p) /\ Unfinished(k)
    THEN /\ state' = [state EXCEPT ![k] = "quarantined"]
         /\ idem' = Answer(k, "rejected")
         /\ leaseLive' = [leaseLive EXCEPT ![k] = FALSE]
         /\ record' = IF record[k].state = "pending"
                      THEN [record EXCEPT ![k].state = "quarantined"]
                      ELSE record
         /\ pending' = ClearSlot(k)
         /\ RemoveCreating(k)
         /\ Finish(p)
         /\ UNCHANGED <<request, owner, active, revisions, project>>
    ELSE Abort(p) /\ UNCHANGED db

Quarantine(p) ==
    /\ pc[p] = "quarantine"
    /\ QuarantineTx(p)
    /\ UNCHANGED <<files, bounds>>

\* reject: only before the head was reserved.
Reject(p) ==
    /\ pc[p] = "reject"
    /\ LET k == my[p].key IN
       IF Owns(p) /\ state[k] \in {"reserved", "staged"}
       THEN /\ state' = [state EXCEPT ![k] = "rejected"]
            /\ idem' = Answer(k, "rejected")
            /\ leaseLive' = [leaseLive EXCEPT ![k] = FALSE]
            /\ pending' = pending
            /\ RemoveCreating(k)
            /\ Finish(p)
            /\ UNCHANGED <<request, owner, record, active, revisions, project>>
       ELSE Abort(p) /\ UNCHANGED db
    /\ UNCHANGED <<files, bounds>>

\* transition: from one state to the next, fenced, with a renewed lease.
Transition(p, from, to) ==
    LET k == my[p].key IN
    IF Owns(p) /\ state[k] = from
    THEN /\ state' = [state EXCEPT ![k] = to]
         /\ leaseLive' = [leaseLive EXCEPT ![k] = TRUE]
         /\ my' = [my EXCEPT ![p].state = to]
         /\ pc' = [pc EXCEPT ![p] = Branch(to)]
         /\ UNCHANGED <<request, idem, owner, record, active, pending,
                        commitGen, lifecycle, creator, revisions, project,
                        todo>>
    ELSE Abort(p) /\ UNCHANGED db
-----------------------------------------------------------------------------
(* advanceAttempt, state reserved: write the stage file durably.             *)

InspectReserved(p) ==
    /\ pc[p] = "inspect_reserved"
    /\ LET k == my[p].key IN
       Go(p, IF \/ Evidence(final[k]) # "missing"
                \/ Evidence(stage[k]) = "mismatch" THEN "quarantine"
             ELSE IF Evidence(stage[k]) = "missing" THEN "create_stage"
             ELSE "to_staged")
    /\ UNCHANGED <<db, files, bounds>>

\* writeExclusiveDurable: O_EXCL, so a file that appeared meanwhile is an error.
CreateStage(p) ==
    /\ pc[p] = "create_stage"
    /\ LET k == my[p].key IN
       IF stage[k] = "missing"
       THEN stage' = [stage EXCEPT ![k] = "partial"] /\ Go(p, "fill_stage")
       ELSE Abort(p) /\ UNCHANGED stage
    /\ UNCHANGED <<db, final, bounds>>

\* If the file was unlinked meanwhile its descriptor is filled to no effect.
FillStage(p) ==
    /\ pc[p] = "fill_stage"
    /\ stage' = [stage EXCEPT ![my[p].key] = IF @ = "partial" THEN "written" ELSE @]
    /\ Go(p, "sync_stage")
    /\ UNCHANGED <<db, final, bounds>>

SyncStage(p) ==
    /\ pc[p] = "sync_stage"
    /\ stage' = [stage EXCEPT ![my[p].key] = IF @ = "written" THEN "durable" ELSE @]
    /\ Go(p, "to_staged")
    /\ UNCHANGED <<db, final, bounds>>

ToStaged(p) ==
    /\ pc[p] = "to_staged"
    /\ Transition(p, "reserved", "staged")
    /\ UNCHANGED <<files, bounds>>
-----------------------------------------------------------------------------
(* State staged: reserve the pending slot of the head.                       *)

InspectStaged(p) ==
    /\ pc[p] = "inspect_staged"
    /\ Go(p, IF Evidence(stage[my[p].key]) = "match"
             THEN "reserve_head" ELSE "quarantine")
    /\ UNCHANGED <<db, files, bounds>>

\* PRIMARY KEY(attempt_id) and UNIQUE(vdt_id, revision_no).
RecordInsertable(k) ==
    /\ record[k].state = "none"
    /\ \A j \in Keys : record[j].state # "none" => record[j].no # RevisionNo(k)

\* reserveHead: project, head, unique constraints and ownership, in that order.
\* A conflict is found before ownership is checked, and sends even a stale
\* owner to the unlinking of the stage file.
ReserveHead(p) ==
    /\ pc[p] = "reserve_head"
    /\ LET k == my[p].key IN
       IF ~Writable(k)
       THEN Go(p, "unlink_stage") /\ UNCHANGED db
       ELSE IF lifecycle = "absent"
       THEN Finish(p) /\ UNCHANGED db
       ELSE IF pending # None \/ ~HeadMatches(k)
       THEN Go(p, "unlink_stage") /\ UNCHANGED db
       ELSE IF ~RecordInsertable(k) \/ ~Owns(p) \/ state[k] # "staged"
       THEN Abort(p) /\ UNCHANGED db
       ELSE /\ record' = [record EXCEPT ![k] =
                 [state |-> "pending", no |-> RevisionNo(k),
                  parent |-> request[k].active]]
            /\ pending' = k
            /\ state' = [state EXCEPT ![k] = "head_reserved"]
            /\ leaseLive' = [leaseLive EXCEPT ![k] = TRUE]
            /\ my' = [my EXCEPT ![p].state = "head_reserved"]
            /\ pc' = [pc EXCEPT ![p] = "inspect_head_reserved"]
            /\ UNCHANGED <<request, idem, owner, active, commitGen, lifecycle,
                           creator, revisions, project, todo>>
    /\ UNCHANGED <<files, bounds>>

\* The catch block: removeDurable, then reject, or quarantine if it failed.
UnlinkStage(p) ==
    /\ pc[p] = "unlink_stage"
    /\ LET k == my[p].key IN
       /\ stage' = [stage EXCEPT ![k] = "missing"]
       /\ Go(p, IF stage[k] = "missing" THEN "quarantine" ELSE "reject")
    /\ UNCHANGED <<db, final, bounds>>
-----------------------------------------------------------------------------
(* State head_reserved: publish the final file exactly once.                 *)

\* A matching final file is not published again: it is read and fsynced.
InspectHeadReserved(p) ==
    /\ pc[p] = "inspect_head_reserved"
    /\ LET k == my[p].key IN
       \/ /\ Evidence(final[k]) = "mismatch"
          /\ Go(p, "quarantine") /\ UNCHANGED final
       \/ /\ Evidence(final[k]) = "missing"
          /\ Go(p, IF Evidence(stage[k]) = "match" THEN "create_final" ELSE "quarantine")
          /\ UNCHANGED final
       \/ /\ Evidence(final[k]) = "match"
          /\ final' = [final EXCEPT ![k] = ReadAndFsync(@)]
          /\ Go(p, "to_published")
    /\ UNCHANGED <<db, stage, bounds>>

OverwriteFinal(p) ==
    /\ pc[p] = "create_final"
    /\ LET k == my[p].key IN
       IF stage[k] # "missing"
       THEN final' = [final EXCEPT ![k] = "partial"] /\ Go(p, "fill_final")
       ELSE Abort(p) /\ UNCHANGED final
    /\ UNCHANGED <<db, stage, bounds>>

\* publishExclusive opens the stage (ENOENT is an error), then the final path
\* with O_EXCL (EEXIST is an error), copies, and fsyncs file and directory.
CreateFinal(p) ==
    /\ pc[p] = "create_final"
    /\ LET k == my[p].key IN
       IF stage[k] # "missing" /\ final[k] = "missing"
       THEN final' = [final EXCEPT ![k] = "partial"] /\ Go(p, "fill_final")
       ELSE Abort(p) /\ UNCHANGED final
    /\ UNCHANGED <<db, stage, bounds>>

FillFinal(p) ==
    /\ pc[p] = "fill_final"
    /\ final' = [final EXCEPT ![my[p].key] = "written"]
    /\ Go(p, "sync_final")
    /\ UNCHANGED <<db, stage, bounds>>

SyncFinal(p) ==
    /\ pc[p] = "sync_final"
    /\ final' = [final EXCEPT ![my[p].key] = "durable"]
    /\ Go(p, "to_published")
    /\ UNCHANGED <<db, stage, bounds>>

ToPublished(p) ==
    /\ pc[p] = "to_published"
    /\ Transition(p, "head_reserved", "published")
    /\ UNCHANGED <<files, bounds>>
-----------------------------------------------------------------------------
(* State published: make it the head.                                        *)

InspectPublished(p) ==
    /\ pc[p] = "inspect_published"
    /\ Go(p, IF Evidence(final[my[p].key]) = "match" THEN "finalize" ELSE "quarantine")
    /\ UNCHANGED <<db, files, bounds>>

\* finalize checks, in its transaction, the project, the pending record, the
\* slot and the parent, and the bytes, which it reads and fsyncs.
Finalizable(k) ==
    /\ Writable(k)
    /\ record[k].state = "pending"
    /\ pending = k
    /\ active = request[k].active
    /\ Evidence(final[k]) = "match"

Finalize(p) ==
    /\ pc[p] = "finalize"
    /\ LET k == my[p].key IN
       IF ~Owns(p) \/ state[k] # "published"
       THEN Abort(p) /\ UNCHANGED <<db, final>>
       ELSE IF ~Finalizable(k)
       THEN QuarantineTx(p) /\ UNCHANGED final
       ELSE IF k \in CreateKeys /\ ~(lifecycle = "creating" /\ creator = k)
       THEN Finish(p) /\ UNCHANGED <<db, final>>
       ELSE /\ state' = [state EXCEPT ![k] = "completed"]
            /\ idem' = Answer(k, "succeeded")
            /\ leaseLive' = [leaseLive EXCEPT ![k] = FALSE]
            /\ record' = [record EXCEPT ![k].state = "committed"]
            /\ revisions' = revisions \cup
                 {[id |-> k, no |-> record[k].no, parent |-> request[k].active]}
            /\ active' = k
            /\ pending' = None
            /\ commitGen' = commitGen + 1
            /\ lifecycle' = IF k \in CreateKeys THEN "ready" ELSE lifecycle
            /\ final' = [final EXCEPT ![k] = ReadAndFsync(@)]
            /\ Finish(p)
            /\ UNCHANGED <<request, owner, creator, project>>
    /\ UNCHANGED <<stage, bounds>>
-----------------------------------------------------------------------------
(* Time, the project's operator, and failures.                               *)

Running(k) == \E p \in Procs : /\ pc[p] \notin {"idle", "take_over"}
                               /\ my[p].key = k /\ Owns(p)

\* Thirty seconds pass without a transition.  That it happens to an owner which
\* is still running (a suspended process) is bounded.
ExpireLease(k) ==
    /\ leaseLive[k] /\ state[k] \in OpenStates
    /\ IF Running(k) THEN slow < MaxSlow /\ slow' = slow + 1 ELSE UNCHANGED slow
    /\ leaseLive' = [leaseLive EXCEPT ![k] = FALSE]
    /\ UNCHANGED <<request, idem, state, owner, record, active, pending,
                   commitGen, lifecycle, creator, revisions, project, files,
                   procs, crashes, powerLosses, projectChanges>>

\* Someone disables or enables writes, or moves the runtime generation.
ChangeProject ==
    /\ projectChanges < MaxProject
    /\ projectChanges' = projectChanges + 1
    /\ \/ \E w \in BOOLEAN : project' = [project EXCEPT !.writable = w]
       \/ project' = [project EXCEPT !.version = @ + 1]
    /\ UNCHANGED <<request, idem, state, owner, leaseLive, record, active,
                   pending, commitGen, lifecycle, creator, revisions, files,
                   procs, crashes, powerLosses, slow>>

\* A process dies, or SQLite refuses it a lock (SQLITE_BUSY) or a file system
\* call fails: the transaction is rolled back, files stay as they are.
Crash(p) ==
    /\ pc[p] # "idle" \/ todo[p] # {}
    /\ crashes < MaxCrash
    /\ crashes' = crashes + 1
    /\ Abort(p)
    /\ UNCHANGED <<db, files, powerLosses, slow, projectChanges>>

\* What may be found of a file after a power loss.
Survivors(f) == CASE f = "missing" -> {"missing"}
                  [] f = "partial" -> {"missing", "partial"}
                  [] f = "written" -> {"missing", "partial", "durable"}
                  [] f = "durable" -> {"durable"}

PowerLoss ==
    /\ powerLosses < MaxPowerLoss
    /\ powerLosses' = powerLosses + 1
    /\ stage' \in [Keys -> FileStates] /\ final' \in [Keys -> FileStates]
    /\ \A k \in Keys : /\ stage'[k] \in Survivors(stage[k])
                       /\ final'[k] \in Survivors(final[k])
    /\ pc' = [p \in Procs |-> "idle"]
    /\ my' = [p \in Procs |-> NoRow]
    /\ todo' = [p \in Procs |-> {}]
    /\ UNCHANGED <<db, crashes, slow, projectChanges>>
-----------------------------------------------------------------------------
\* What a process does by itself once it is in a call.
Advance(p) ==
    \/ Reserve(p) \/ RecoverNext(p) \/ TakeOver(p)
    \/ Quarantine(p) \/ Reject(p)
    \/ InspectReserved(p) \/ CreateStage(p) \/ FillStage(p) \/ SyncStage(p)
    \/ ToStaged(p)
    \/ InspectStaged(p) \/ ReserveHead(p) \/ UnlinkStage(p)
    \/ InspectHeadReserved(p) \/ CreateFinal(p) \/ FillFinal(p) \/ SyncFinal(p)
    \/ ToPublished(p)
    \/ InspectPublished(p) \/ Finalize(p)

Next ==
    \/ \E p \in Procs : Advance(p) \/ Open(p) \/ Crash(p)
    \/ \E p \in Procs, k \in Keys : Call(p, k)
    \/ \E k \in Keys : Compose(k) \/ ExpireLease(k)
    \/ ChangeProject
    \/ PowerLoss

Spec == Init /\ [][Next]_vars

\* A call runs to its end unless it dies; a lease runs out; and the database is
\* opened again and again, since every storage request of the web app opens it
\* (strong, because other calls may always be under way when it could be).
Fairness ==
    /\ \A p \in Procs : WF_vars(Advance(p)) /\ SF_vars(Open(p))
    /\ \A k \in Keys : WF_vars(ExpireLease(k))

FairSpec == Spec /\ Fairness
-----------------------------------------------------------------------------
(* Properties.                                                               *)

RequestType == [active : Keys \cup {None}, generation : Nat, version : Nat]
RecordType == [state : RecordStates, no : Nat, parent : Keys \cup {None}]
RowType == [key : Keys \cup {None}, state : AttemptStates, owner : Nat]
Labels == {"idle", "reserve", "take_over", "quarantine", "reject",
           "inspect_reserved", "create_stage", "fill_stage", "sync_stage",
           "to_staged", "inspect_staged", "reserve_head", "unlink_stage",
           "inspect_head_reserved", "create_final", "fill_final", "sync_final",
           "to_published", "inspect_published", "finalize"}

DbTypeOK ==
    /\ request \in [Keys -> RequestType \cup {None}]
    /\ idem \in [Keys -> {"none", "in_progress", "succeeded", "rejected"}]
    /\ state \in [Keys -> AttemptStates]
    /\ owner \in [Keys -> Nat]
    /\ leaseLive \in [Keys -> BOOLEAN]
    /\ record \in [Keys -> RecordType]
    /\ active \in Keys \cup {None}
    /\ pending \in Keys \cup {None}
    /\ commitGen \in Nat
    /\ lifecycle \in {"absent", "creating", "ready"}
    /\ creator \in Keys \cup {None}
    /\ revisions \subseteq [id : Keys, no : Nat, parent : Keys \cup {None}]
    /\ project \in [version : Nat, writable : BOOLEAN]

FilesTypeOK ==
    /\ stage \in [Keys -> FileStates]
    /\ final \in [Keys -> FileStates]

ProcsTypeOK ==
    /\ pc \in [Procs -> Labels]
    /\ my \in [Procs -> RowType]
    /\ todo \in [Procs -> SUBSET [key : Keys, state : OpenStates, owner : Nat]]

\* Every variable holds a value of the column, file or process state it models;
\* a recovery only has rows to work on that were unfinished when it read them.
TypeOK ==
    /\ DbTypeOK /\ FilesTypeOK /\ ProcsTypeOK
    /\ crashes \in Nat /\ powerLosses \in Nat
    /\ slow \in Nat /\ projectChanges \in Nat

\* The pending slot of the head, the pending commit record and the attempt
\* change hands together, in reserveHead, finalize and quarantine: the slot is
\* held by exactly the attempt whose record is pending, that attempt is between
\* head_reserved and completed, and the head it was built on has not moved.
SlotCoherent ==
    \A k \in Keys :
      /\ pending = k <=> record[k].state = "pending"
      /\ pending = k <=> state[k] \in {"head_reserved", "published"}
      /\ pending = k => HeadMatches(k) /\ record[k].no = commitGen + 1

\* What a retry with the same key is told (idempotency_records) is what became
\* of the attempt and of the revision: a key that replays success has its
\* revision row, one that replays a rejection has none and never gets one.
AnswerCoherent ==
    \A k \in Keys :
      /\ idem[k] = "none" <=> state[k] = "none"
      /\ idem[k] = "in_progress" <=> state[k] \in OpenStates
      /\ idem[k] = "succeeded" <=> state[k] = "completed"
      /\ state[k] = "completed" <=> \E r \in revisions : r.id = k
      /\ state[k] = "completed" <=> record[k].state = "committed"

\* vdt_revisions is one chain without forks or gaps, and the head is its end:
\* no two writers ever committed on the same parent.
LinearChain ==
    /\ Cardinality(revisions) = commitGen
    /\ \A n \in 1..commitGen : \E r \in revisions :
         /\ r.no = n
         /\ IF n = 1 THEN r.parent = None
            ELSE \E q \in revisions : q.no = n - 1 /\ r.parent = q.id
    /\ IF commitGen = 0 THEN active = None
       ELSE \E r \in revisions : r.no = commitGen /\ r.id = active

\* The bytes of every revision the database shows are on the disk, so that no
\* crash or power loss after the commit can take them away.
CommittedDurable == \A r \in revisions : final[r.id] = "durable"

\* A VDT that is being created belongs to an attempt that is still open, and
\* shows no revision; a create that failed leaves no VDT behind.
CreatingIsOwned ==
    /\ lifecycle = "creating" =>
          creator \in CreateKeys /\ state[creator] \in OpenStates /\ active = None
    /\ lifecycle = "absent" => active = None /\ pending = None /\ commitGen = 0
    /\ \A k \in CreateKeys : state[k] \in OpenStates =>
         lifecycle = "creating" /\ creator = k

\* The rows of three tables speak of one attempt in one way, in every committed
\* state: the head's slot, the answer for a retry, and the VDT in creation.
RowsCoherent == SlotCoherent /\ AnswerCoherent /\ CreatingIsOwned

\* "completed|rejected|quarantined --X--> any other state": no retry, recovery
\* or late owner changes a final answer.
TerminalFrozen ==
    [][\A k \in Keys : state[k] \in {"completed", "rejected", "quarantined"} =>
         state'[k] = state[k] /\ idem'[k] = idem[k]]_vars

\* An open attempt's row, and the head on its behalf, are changed only by a
\* process that holds the attempt's current lease.
Fenced ==
    [][\A k \in Keys : state[k] \in OpenStates /\ state'[k] # state[k] =>
         \E p \in Procs :
           my[p].key = k /\ my[p].owner = owner[k] /\ pc'[p] # pc[p]]_vars

\* The published bytes of a committed revision are never overwritten, torn or
\* deleted, whichever process wakes up late.
CommittedBytesFrozen ==
    [][\A k \in Keys : state[k] = "completed" => final'[k] = final[k]]_vars

\* The past is not rewritten: neither an answer nor the bytes of a revision.
PastFrozen == TerminalFrozen /\ CommittedBytesFrozen

\* The store implements the compare-and-set register.
Cas == INSTANCE RevisionCas WITH
    basis <- [k \in Keys |-> IF request[k] = None THEN None
                ELSE [active |-> request[k].active,
                      generation |-> request[k].generation]],
    outcome <- [k \in Keys |-> CASE idem[k] = "succeeded" -> "committed"
                                 [] idem[k] = "rejected" -> "refused"
                                 [] OTHER -> "open"],
    active <- active,
    generation <- commitGen

ImplementsCas == Cas!Spec

\* "An idempotency record therefore cannot remain permanently in progress."
AnswersEventually == \A k \in Keys : idem[k] = "in_progress" ~> idem[k] # "in_progress"

\* What holds of it: only an attempt whose revision number is taken, by the
\* record of an earlier attempt that was quarantined, stays in progress.
NumberTaken(k) == \E j \in Keys \ {k} :
    record[j].state = "quarantined" /\ record[j].no = request[k].generation + 1
AnswersUnlessNumberTaken ==
    \A k \in Keys : idem[k] = "in_progress" ~>
                      idem[k] # "in_progress" \/ NumberTaken(k)

\* "Every state change and filesystem phase is fenced by (attemptId, ownerToken,
\* leaseGeneration)": the stage of an open attempt is removed only by its owner.
UnlinkFenced ==
    [][\A k \in Keys :
         (/\ state[k] \in OpenStates /\ powerLosses' = powerLosses
          /\ stage[k] # "missing" /\ stage'[k] = "missing")
         => \E p \in Procs : /\ my[p].key = k /\ my[p].owner = owner[k]
                            /\ pc[p] = "unlink_stage"]_vars
=============================================================================
