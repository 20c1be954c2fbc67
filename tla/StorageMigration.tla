-------------------------- MODULE StorageMigration --------------------------
(****************************************************************************)
(* How an opening of the database brings its schema from version 0 or 1 to  *)
(* Top, one sequence at a time, and what is left when the process dies or   *)
(* the machine loses power between any two of its steps.                    *)
(*                                                                          *)
(* Sequences 1 and 2 are recorded in a chain of journal files, since the    *)
(* audit tables do not exist yet; each later sequence has an attempt, a row *)
(* with a lease, and a backup in a directory that names its owner.  Every   *)
(* sequence is applied in one transaction, with a file (the latch) written  *)
(* before the foreign-key check and removed after it: whoever finds a latch *)
(* knows that a check was begun and does not know how it ended.             *)
(*                                                                          *)
(* BEGIN EXCLUSIVE under locking_mode EXCLUSIVE lets one process migrate at *)
(* a time; the others fail as busy and change nothing.  So there is one     *)
(* control state, `pc', of the process that has the lock ("off": nobody),   *)
(* and the difficulty is in what the next one finds.                        *)
(****************************************************************************)
EXTENDS Integers, Sequences

CONSTANTS
    Top,           \* the last sequence of the manifest (5 in the code)
    Flaws,         \* what may go wrong when each sequence is applied
    MaxWrites,     \* bound on sessions of older builds that change the data
    MaxJournals,   \* bound on bootstrap journals, which a database that
                   \*   sequence 2 refuses gets at every opening
    MaxBroken,     \* bound on starts of an installation with damaged assets
    MaxSlow,       \* bound on leases that expire under a running process
    MaxCrash,      \* bound on process deaths
    MaxPowerLoss   \* bound on power losses

Sequence == 1 .. Top
Later == 3 .. Top

ASSUME TopAssumption == Top \in Nat /\ Top >= 2
ASSUME FlawsAssumption ==
    Flaws \subseteq [Sequence -> {"none", "foreign_key", "sql"}]
ASSUME BoundsAssumption ==
    /\ MaxWrites \in Nat /\ MaxJournals \in Nat /\ MaxBroken \in Nat
    /\ MaxSlow \in Nat /\ MaxCrash \in Nat /\ MaxPowerLoss \in Nat

VARIABLES
    \* the database
    version,     \* PRAGMA user_version, the length of applied_migrations
    status,      \* migration_state.status, "none" before sequence 2
    attempt,     \* attempt[n]: migration_attempts.status of a later sequence
    bound,       \* bound[n]: the directory its backup evidence names, or 0
    leased,      \* the lease of the last journal or the open attempt is running
    data,        \* what users wrote, as the number of changes
    \* the data directory
    journals,    \* migrations/bootstrap-journal: [file, backup, holds]
    dirs,        \* .later-owned-*: [for, owner, backup, holds, place]
    latch,       \* *.pending.json: [file, for]
    unsynced,    \* the sequence whose latch was removed without an fsync, or 0
    evidence,    \* *.evidence.json
    \* the process that has the lock
    pc,
    copy,        \* the backup it has made and no journal names: [file, holds]
    \* what is wrong, and what happened
    flaw,        \* flaw[n]: what applying sequence n meets in this database
    base,        \* base[n]: the data that sequence n was applied to, or -1
    found,       \* the sequence that a check found violations in, or 0
    writes, broken, slow, crashes, powerLosses

database == <<version, status, attempt, bound, leased, data>>
sidecars == <<latch, unsynced, evidence>>
files == <<journals, dirs, sidecars>>
bounds == <<writes, broken, slow, crashes, powerLosses>>
vars == <<database, files, pc, copy, flaw, base, found, bounds>>

\* A file is absent; begun; complete but only in the page cache; or on the
\* disk, complete or not.
FileStates == {"missing", "partial", "written", "torn", "durable"}
Present(f) == f # "missing"
Readable(f) == f \in {"written", "durable"}

\* What a power loss may leave of it.
AfterPowerLoss(f) ==
    CASE f = "partial" -> {"missing", "torn"}
      [] f = "written" -> {"missing", "torn", "durable"}
      [] OTHER -> {f}

\* fsync of the file and of its directory.
Synced(f) == IF f = "written" THEN "durable" ELSE f

NoCopy == [file |-> "missing", holds |-> 0]
NoLatch == [file |-> "missing", for |-> 0]

Steps == {"off", "copying", "copied", "saved", "journal_made", "journal_filled",
          "reconcile", "dir_made", "owned", "later_copied", "later_saved",
          "claimed", "apply", "failed", "latch_made", "latch_filled", "checking",
          "unlinked", "clean", "violated", "evidence_made", "evidence_filled",
          "finalize"}

TypeOK ==
    /\ version \in 0 .. Top
    /\ status \in {"none", "ready", "blocked"}
    /\ status = "none" <=> version < 2
    /\ attempt \in [Later -> {"none", "backed_up", "applying", "completed", "blocked"}]
    /\ bound \in [Later -> 0 .. Len(dirs)]
    /\ leased \in BOOLEAN
    /\ data \in 0 .. MaxWrites
    /\ journals \in Seq([file : FileStates, backup : FileStates, holds : 0 .. MaxWrites])
    /\ dirs \in Seq([for : Later, owner : FileStates, backup : FileStates,
                     holds : 0 .. MaxWrites, place : {"backups", "orphaned"}])
    /\ latch \in [file : FileStates, for : 0 .. Top]
    /\ unsynced \in 0 .. Top
    /\ evidence \in FileStates
    /\ pc \in Steps
    /\ copy \in [file : FileStates, holds : 0 .. MaxWrites]
    /\ flaw \in Flaws
    /\ base \in [Sequence -> -1 .. MaxWrites]
    /\ found \in 0 .. Top
    /\ writes <= MaxWrites /\ broken <= MaxBroken /\ slow <= MaxSlow
    /\ crashes <= MaxCrash /\ powerLosses <= MaxPowerLoss

\* A fresh database, or one of the build that knew version 1 only.
Init ==
    /\ version \in {0, 1}
    /\ status = "none"
    /\ attempt = [n \in Later |-> "none"]
    /\ bound = [n \in Later |-> 0]
    /\ leased = FALSE /\ data = 0
    /\ journals = <<>> /\ dirs = <<>>
    /\ latch = NoLatch /\ unsynced = 0 /\ evidence = "missing"
    /\ pc = "off" /\ copy = NoCopy
    /\ flaw \in Flaws
    /\ base = [n \in Sequence |-> -1]
    /\ found = 0
    /\ writes = 0 /\ broken = 0 /\ slow = 0 /\ crashes = 0 /\ powerLosses = 0

-----------------------------------------------------------------------------
(* What an opening looks at.                                                *)

Target == version + 1
Begun(n) == attempt[n] = "applying"
Open(n) == attempt[n] \in {"backed_up", "applying"}

\* inspectMigrationBlockSidecars: anything in the directory stops the opening.
SidecarsFound == Present(latch.file) \/ Present(evidence)

\* readLatestValidJournal: every journal must parse and its backup be there.
ChainValid == \A i \in DOMAIN journals :
                 Readable(journals[i].file) /\ Readable(journals[i].backup)

StateKnown == status # "none"
StateReady == status = "ready"

\* verifyDatabaseForPlan, of a database at version 2 or later: the state row,
\* the journals, every attempt with its backup, and the exact prefix.
Verified ==
    /\ StateReady
    /\ ChainValid /\ journals # <<>>
    /\ \A n \in Later :
         /\ attempt[n] # "blocked"
         /\ attempt[n] = "completed" <=> n <= version
         /\ Open(n) => n = Target
         /\ attempt[n] # "none" =>
              /\ Readable(dirs[bound[n]].backup)
              /\ dirs[bound[n]].place = "backups"

\* verifyJournalBackup, verifyLaterBackupEvidence: a backup that is read is
\* flushed first.
JournalsRead == [i \in DOMAIN journals |->
                   [journals[i] EXCEPT !.backup = Synced(@)]]
DirsRead == [i \in DOMAIN dirs |->
               IF \E n \in Later : bound[n] = i
               THEN [dirs[i] EXCEPT !.backup = Synced(@)] ELSE dirs[i]]

\* reconcileOwnedLaterBackupDirectories: an owner file that is complete, and
\* no evidence row that names the directory.
Owned(i) == dirs[i].place = "backups" /\ Readable(dirs[i].owner)
Orphan(i) == Owned(i) /\ (\A n \in Later : bound[n] # i)
Orphans == {i \in DOMAIN dirs : Orphan(i)}

Become(step) == pc = "off" /\ pc' = step
Go(from, to) == pc = from /\ pc' = to

-----------------------------------------------------------------------------
(* Sequences 1 and 2: a backup and a journal that names it.                 *)

\* The last journal's lease must have expired.
AdmitBootstrap ==
    /\ Become("copying")
    /\ version \in {0, 1} /\ ~SidecarsFound /\ ChainValid /\ ~leased
    /\ Len(journals) < MaxJournals
    /\ journals' = JournalsRead
    /\ UNCHANGED <<database, dirs, sidecars, copy, flaw, base, found, bounds>>

CopyDatabase ==
    /\ Go("copying", "copied")
    /\ copy' = [file |-> "written", holds |-> data]
    /\ UNCHANGED <<database, files, flaw, base, found, bounds>>

SyncCopy ==
    /\ Go("copied", "saved")
    /\ copy' = [copy EXCEPT !.file = Synced(@)]
    /\ UNCHANGED <<database, files, flaw, base, found, bounds>>

MakeJournal ==
    /\ Go("saved", "journal_made")
    /\ journals' = Append(journals, [file |-> "partial", backup |-> copy.file,
                                     holds |-> copy.holds])
    /\ copy' = NoCopy
    /\ UNCHANGED <<database, dirs, sidecars, flaw, base, found, bounds>>

FillJournal ==
    /\ Go("journal_made", "journal_filled")
    /\ journals' = [journals EXCEPT ![Len(journals)].file = "written"]
    /\ leased' = TRUE
    /\ UNCHANGED <<version, status, attempt, bound, data, dirs, sidecars, copy, flaw,
                   base, found, bounds>>

SyncJournal ==
    /\ Go("journal_filled", "apply")
    /\ journals' = [i \in DOMAIN journals |->
                      IF i = Len(journals)
                      THEN [JournalsRead[i] EXCEPT !.file = Synced(@)] ELSE journals[i]]
    /\ UNCHANGED <<database, dirs, sidecars, copy, flaw, base, found, bounds>>

-----------------------------------------------------------------------------
(* Later sequences: an attempt, its lease, and a directory with its backup. *)

AdmitLater ==
    /\ Become("reconcile")
    /\ version \in 2 .. Top - 1 /\ ~SidecarsFound /\ Verified
    /\ journals' = JournalsRead /\ dirs' = DirsRead
    /\ UNCHANGED <<database, sidecars, copy, flaw, base, found, bounds>>

\* quarantineOwnedLaterBackupDirectory
Quarantine ==
    /\ pc = "reconcile"
    /\ \E i \in Orphans : dirs' = [dirs EXCEPT ![i].place = "orphaned"]
    /\ UNCHANGED <<database, journals, sidecars, pc, copy, flaw, base, found, bounds>>

\* MIGRATION_IN_PROGRESS: the owner of the lease may be gone, but has time left.
Refuse ==
    /\ Go("reconcile", "off")
    /\ Orphans = {} /\ Open(Target) /\ leased
    /\ UNCHANGED <<database, files, copy, flaw, base, found, bounds>>

TakeOver ==
    /\ Go("reconcile", "claimed")
    /\ Orphans = {} /\ Open(Target) /\ ~leased
    /\ leased' = TRUE
    /\ UNCHANGED <<version, status, attempt, bound, data, files, copy, flaw, base,
                   found, bounds>>

MakeDirectory ==
    /\ Go("reconcile", "dir_made")
    /\ Orphans = {} /\ attempt[Target] = "none"
    /\ dirs' = Append(dirs, [for |-> Target, owner |-> "partial", backup |-> "missing",
                             holds |-> 0, place |-> "backups"])
    /\ UNCHANGED <<database, journals, sidecars, copy, flaw, base, found, bounds>>

WriteOwner ==
    /\ Go("dir_made", "owned")
    /\ dirs' = [dirs EXCEPT ![Len(dirs)].owner = "durable"]
    /\ UNCHANGED <<database, journals, sidecars, copy, flaw, base, found, bounds>>

CopyForAttempt ==
    /\ Go("owned", "later_copied")
    /\ dirs' = [dirs EXCEPT ![Len(dirs)].backup = "written", ![Len(dirs)].holds = data]
    /\ UNCHANGED <<database, journals, sidecars, copy, flaw, base, found, bounds>>

SyncForAttempt ==
    /\ Go("later_copied", "later_saved")
    /\ dirs' = [dirs EXCEPT ![Len(dirs)].backup = Synced(@)]
    /\ UNCHANGED <<database, journals, sidecars, copy, flaw, base, found, bounds>>

\* One transaction for the evidence row and the attempt row.
Reserve ==
    /\ Go("later_saved", "claimed")
    /\ attempt' = [attempt EXCEPT ![Target] = "backed_up"]
    /\ bound' = [bound EXCEPT ![Target] = Len(dirs)]
    /\ leased' = TRUE
    /\ UNCHANGED <<version, status, data, files, copy, flaw, base, found, bounds>>

\* The lease is renewed, or taken over once more when it has just expired.
StartApplying ==
    /\ Go("claimed", "apply")
    /\ attempt' = [attempt EXCEPT ![Target] = "applying"]
    /\ leased' = TRUE
    /\ UNCHANGED <<version, status, bound, data, files, copy, flaw, base, found, bounds>>

MustHoldLease == Target \in Later => leased

LoseLease ==
    /\ Go("apply", "off")
    /\ ~MustHoldLease
    /\ UNCHANGED <<database, files, copy, flaw, base, found, bounds>>

-----------------------------------------------------------------------------
(* migrationApplicationTransaction: the SQL, the latch, the check, COMMIT.  *)

SqlFails ==
    /\ Go("apply", IF Target \in Later THEN "failed" ELSE "off")
    /\ MustHoldLease /\ flaw[Target] = "sql"
    /\ UNCHANGED <<database, files, copy, flaw, base, found, bounds>>

MakeLatch ==
    /\ Go("apply", "latch_made")
    /\ MustHoldLease /\ flaw[Target] # "sql"
    /\ latch' = [file |-> "partial", for |-> Target]
    /\ UNCHANGED <<database, journals, dirs, unsynced, evidence, copy, flaw, base,
                   found, bounds>>

FillLatch ==
    /\ Go("latch_made", "latch_filled")
    /\ latch' = [latch EXCEPT !.file = "written"]
    /\ UNCHANGED <<database, journals, dirs, unsynced, evidence, copy, flaw, base,
                   found, bounds>>

\* The fsync of the directory makes an earlier removal durable as well.
SyncLatch ==
    /\ Go("latch_filled", "checking")
    /\ latch' = [latch EXCEPT !.file = Synced(@)]
    /\ unsynced' = 0
    /\ UNCHANGED <<database, journals, dirs, evidence, copy, flaw, base, found, bounds>>

UnlinkLatch ==
    /\ Go("checking", "unlinked")
    /\ flaw[Target] # "foreign_key"
    /\ latch' = NoLatch /\ unsynced' = Target
    /\ UNCHANGED <<database, journals, dirs, evidence, copy, flaw, base, found, bounds>>

RemovalInCache(n) == n
RemovalSynced(n) == 0

SyncUnlink ==
    /\ Go("unlinked", "clean")
    /\ unsynced' = RemovalSynced(unsynced)
    /\ UNCHANGED <<database, journals, dirs, latch, evidence, copy, flaw, base, found,
                   bounds>>

\* Sequence 2 follows sequence 1 under the same lock and the same journal.
Commit ==
    /\ Go("clean", IF Target = 1 THEN "apply" ELSE "off")
    /\ version' = Target
    /\ status' = IF Target = 1 THEN status ELSE "ready"
    /\ attempt' = [n \in Later |-> IF n = Target THEN "completed" ELSE attempt[n]]
    /\ leased' = (Target = 1 /\ leased)
    /\ base' = [base EXCEPT ![Target] = data]
    /\ UNCHANGED <<bound, data, files, copy, flaw, found, bounds>>

DropLatch(l) == NoLatch
KeepLatch(l) == l

\* The journal of sequences 1 and 2 has no row that could be blocked.
AlwaysFinalize == "finalize"
AfterEvidence == IF Target \in Later THEN "finalize" ELSE "off"

\* The transaction is rolled back; the latch stays and evidence joins it.
FindViolations ==
    /\ Go("checking", "violated")
    /\ flaw[Target] = "foreign_key"
    /\ found' = Target
    /\ latch' = KeepLatch(latch)
    /\ UNCHANGED <<database, journals, dirs, unsynced, evidence, copy, flaw, base,
                   bounds>>

MakeEvidence ==
    /\ Go("violated", "evidence_made")
    /\ evidence' = "partial"
    /\ UNCHANGED <<database, journals, dirs, latch, unsynced, copy, flaw, base, found,
                   bounds>>

FillEvidence ==
    /\ Go("evidence_made", "evidence_filled")
    /\ evidence' = "written"
    /\ UNCHANGED <<database, journals, dirs, latch, unsynced, copy, flaw, base, found,
                   bounds>>

SyncEvidence ==
    /\ Go("evidence_filled", AfterEvidence)
    /\ evidence' = Synced(evidence)
    /\ UNCHANGED <<database, journals, dirs, latch, unsynced, copy, flaw, base, found,
                   bounds>>

\* One transaction for the attempt and the state row.
MarkBlocked ==
    /\ attempt' = [attempt EXCEPT ![Target] = "blocked"]
    /\ status' = "blocked"
    /\ leased' = FALSE
    /\ UNCHANGED <<version, bound, data, files, copy, flaw, base, found, bounds>>

FinalizeBlocked == Go("finalize", "off") /\ MarkBlocked

BlockAttempt == Go("failed", "off") /\ MarkBlocked

\* An opening that finds the latch with its evidence does what the process that
\* found the violations could not, and fails.
ReconcileBlocked ==
    /\ pc = "off" /\ pc' = pc
    /\ version >= 2 /\ Target \in Later
    /\ Readable(latch.file) /\ Readable(evidence) /\ latch.for = Target
    /\ Verified /\ attempt[Target] = "applying"
    /\ MarkBlocked

-----------------------------------------------------------------------------
(* What else happens to the database.                                       *)

\* A session of the build whose last sequence is `version'.  Version 1 was
\* written by a build that knew neither journals nor latches.
Use ==
    /\ pc = "off" /\ version >= 1 /\ writes < MaxWrites
    /\ version >= 2 => /\ Verified /\ ~SidecarsFound
                       /\ \A n \in Later : n > version => attempt[n] = "none"
    /\ data' = data + 1 /\ writes' = writes + 1
    /\ UNCHANGED <<version, status, attempt, bound, leased, files, pc, copy, flaw, base,
                   found, broken, slow, crashes, powerLosses>>

\* An installation whose assets do not have their checksums leaves a mark in
\* a database that is ready and has no unfinished attempt.
PreflightFails ==
    /\ pc = "off" /\ version >= 2 /\ broken < MaxBroken
    /\ status = "ready"
    /\ version = 2 => Verified
    /\ \A n \in Later : ~Open(n) /\ attempt[n] # "blocked"
    /\ status' = "blocked" /\ broken' = broken + 1
    /\ UNCHANGED <<version, attempt, bound, leased, data, files, pc, copy, flaw, base,
                   found, writes, slow, crashes, powerLosses>>

Expire ==
    /\ leased /\ pc \in {"off", "reconcile"}
    /\ leased' = FALSE
    /\ UNCHANGED <<version, status, attempt, bound, data, files, pc, copy, flaw, base,
                   found, bounds>>

ExpireWhileRunning ==
    /\ leased /\ pc \notin {"off", "reconcile"} /\ slow < MaxSlow
    /\ leased' = FALSE /\ slow' = slow + 1
    /\ UNCHANGED <<version, status, attempt, bound, data, files, pc, copy, flaw, base,
                   found, writes, broken, crashes, powerLosses>>

\* An open transaction is rolled back; files stay as far as they were written.
Crash ==
    /\ pc # "off" /\ crashes < MaxCrash
    /\ pc' = "off" /\ copy' = NoCopy /\ crashes' = crashes + 1
    /\ UNCHANGED <<database, files, flaw, base, found, writes, broken, slow,
                   powerLosses>>

\* The last journals may be gone; one that is missing further down leaves a gap.
TrimMissing(js) ==
    LET kept == {i \in DOMAIN js : \E k \in DOMAIN js : k >= i /\ Present(js[k].file)}
    IN [i \in kept |-> js[i]]

\* What may become of the files, named by their columns, that the rows of s
\* speak of and that are not on the disk.
Fates(s, columns) ==
    LET volatile == {f \in (DOMAIN s) \X columns : s[f[1]][f[2]] \in {"partial", "written"}}
    IN {fate \in [volatile -> {"missing", "torn", "durable"}] :
          \A f \in volatile : fate[f] \in AfterPowerLoss(s[f[1]][f[2]])}
Fate(s, fate, i, column) ==
    IF <<i, column>> \in DOMAIN fate THEN fate[<<i, column>>] ELSE s[i][column]

PowerLoss ==
    /\ powerLosses < MaxPowerLoss
    /\ powerLosses' = powerLosses + 1
    /\ pc' = "off" /\ copy' = NoCopy
    /\ \E fate \in Fates(journals, {"file", "backup"}) :
         journals' = TrimMissing([i \in DOMAIN journals |->
            [journals[i] EXCEPT !.file = Fate(journals, fate, i, "file"),
                                !.backup = Fate(journals, fate, i, "backup")]])
    /\ leased' = (leased /\ (version < 2 => Len(journals') = Len(journals)))
    /\ \E fate \in Fates(dirs, {"owner", "backup"}) :
         dirs' = [i \in DOMAIN dirs |->
            [dirs[i] EXCEPT !.owner = Fate(dirs, fate, i, "owner"),
                            !.backup = Fate(dirs, fate, i, "backup")]]
    /\ \/ \E f \in AfterPowerLoss(latch.file) :
            latch' = IF Present(f) THEN [latch EXCEPT !.file = f] ELSE NoLatch
       \/ /\ unsynced # 0 /\ ~Present(latch.file)
          /\ latch' = [file |-> "durable", for |-> unsynced]
    /\ unsynced' = 0
    /\ evidence' \in AfterPowerLoss(evidence)
    /\ UNCHANGED <<version, status, attempt, bound, data, flaw, base, found, writes,
                   broken, slow, crashes>>

-----------------------------------------------------------------------------
Bootstrap == \/ AdmitBootstrap \/ CopyDatabase \/ SyncCopy
             \/ MakeJournal \/ FillJournal \/ SyncJournal

Claim == \/ AdmitLater \/ Quarantine \/ Refuse \/ TakeOver
         \/ MakeDirectory \/ WriteOwner \/ CopyForAttempt \/ SyncForAttempt
         \/ Reserve \/ StartApplying \/ LoseLease

Apply == \/ SqlFails \/ BlockAttempt
         \/ MakeLatch \/ FillLatch \/ SyncLatch
         \/ UnlinkLatch \/ SyncUnlink \/ Commit
         \/ FindViolations \/ MakeEvidence \/ FillEvidence \/ SyncEvidence
         \/ FinalizeBlocked \/ ReconcileBlocked

Migrate == Bootstrap \/ Claim \/ Apply

Next == \/ Migrate
        \/ Use \/ PreflightFails \/ Expire \/ ExpireWhileRunning
        \/ Crash \/ PowerLoss

Spec == Init /\ [][Next]_vars

\* Somebody opens the application again, a process that runs goes on, and
\* time passes.
FairSpec == Spec /\ WF_vars(Migrate) /\ WF_vars(Expire)

-----------------------------------------------------------------------------
(* Properties.                                                              *)

\* A sequence that was applied, or is about to be, can be taken back: there is
\* a backup on the disk, where the row or the journal says, of exactly the data
\* the sequence was applied to (verifyJournalBackup, verifyLaterBackupEvidence).
RestorePoint ==
    /\ \A n \in Later : attempt[n] # "none" =>
         LET d == dirs[bound[n]] IN
         /\ d.for = n /\ d.place = "backups" /\ d.backup = "durable"
         /\ d.holds = IF n <= version THEN base[n] ELSE data
    /\ \A n \in {1, 2} : base[n] >= 0 =>
         \E i \in DOMAIN journals :
            journals[i].backup = "durable" /\ journals[i].holds = base[n]

\* Once a check has found violations nothing applies the sequence after all,
\* and the latch says so to every later opening, also after a power loss.
ViolationHeld ==
    found # 0 => version < found /\ Present(latch.file) /\ latch.for = found

\* A sequence that was applied leaves no latch behind, and none that comes back
\* when the power fails: it would lock a database that is in order.
NoFalseAlarm ==
    /\ Present(latch.file) => latch.for > version
    /\ unsynced # 0 => unsynced > version

\* The latch means what the next opening takes it for, in both directions.
LatchTrue == ViolationHeld /\ NoFalseAlarm

\* A blocked database stays as it is: no opening, of this build or of an older
\* one, changes its data, its schema or its attempts.
BlockedStays ==
    [][status = "blocked" =>
         UNCHANGED <<version, status, attempt, bound, data>>]_vars

\* Every database ends up at the last sequence, or in a state that is left to
\* a person: blocked, under a latch, with a journal that cannot be read, or
\* refused by sequence 2.
LeftToPerson == \/ status = "blocked" \/ SidecarsFound \/ ~ChainValid
                \/ flaw[2] = "sql"
Settles == <>[]((version = Top /\ status = "ready") \/ LeftToPerson)
=============================================================================
