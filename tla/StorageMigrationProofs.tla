------------------------ MODULE StorageMigrationProofs ------------------------
(***************************************************************************)
(* Proofs about StorageMigration, for any last sequence, any flaws and any *)
(* number of deaths, power losses, slow processes and older builds.        *)
(*                                                                         *)
(* The inductive invariant says, for each step at which a process can      *)
(* stand, what it has prepared: Placed which databases get there, Latched  *)
(* what is in the latch, Rows what the attempts say, Copied what is in the *)
(* backup that it is about to rely on, Kept which backups of the past are  *)
(* on the disk.  A process that dies leaves its step, and so its promises; *)
(* a power loss spares what is durable.                                    *)
(***************************************************************************)
EXTENDS StorageMigration, TLAPS, SequenceTheorems, WellFoundedInduction

-----------------------------------------------------------------------------
(* The invariant.                                                           *)

Journalling == {"copying", "copied", "saved", "journal_made", "journal_filled"}
MakingDirectory == {"dir_made", "owned", "later_copied", "later_saved"}
Claiming == MakingDirectory \cup {"reconcile", "claimed"}
Applying == {"apply", "latch_made", "latch_filled", "checking", "unlinked", "clean"}
Blocking == {"violated", "evidence_made", "evidence_filled", "finalize"}

\* Every change of the data was counted.
Counted ==
    /\ data = writes
    /\ \A n \in {writes, broken, slow, crashes, powerLosses} : n \in Nat

\* The database that a process works on is not blocked and not at the top.
Placed ==
    /\ pc # "off" => version < Top /\ status # "blocked"
    /\ pc \in Journalling => version < 2
    /\ pc \in Claiming \cup {"failed", "finalize"} => version >= 2

\* The latch is there from before the check to its end, and on the disk while
\* the check runs; what it has found is never forgotten.
Latched ==
    /\ pc \in Journalling \cup Claiming \cup {"apply", "failed", "unlinked", "clean"}
         => latch.file = "missing" /\ evidence = "missing"
    /\ pc = "latch_made" => latch = [file |-> "partial", for |-> Target]
    /\ pc = "latch_filled" => latch = [file |-> "written", for |-> Target]
    /\ pc \in {"checking"} \cup Blocking => latch = [file |-> "durable", for |-> Target]
    /\ pc \in {"latch_made", "latch_filled", "checking"} => evidence = "missing"
    /\ pc \in {"checking", "clean"} => unsynced = 0
    /\ pc \in Applying => found = 0
    /\ found # 0 => latch.file = "durable"
    /\ LatchTrue

\* The attempts are those of the sequences up to the next one, and the next
\* one's is as far as the process that works on it.
Rows ==
    /\ \A n \in Later :
         /\ attempt[n] = "completed" <=> n <= version
         /\ attempt[n] # "none" => n <= Target /\ bound[n] # 0
    /\ pc \in MakingDirectory => attempt[Target] = "none"
    /\ pc = "claimed" => Open(Target)
    /\ pc \in Applying \cup Blocking \cup {"failed"} /\ Target \in Later
         => attempt[Target] = "applying"

\* A journal names the backup that sequence 1 or 2 will need.
Journalled ==
    \/ pc \in {"journal_made", "journal_filled"}
    \/ pc \in Applying /\ version < 2

\* The backup that the process makes is of the data as they are.
Copied ==
    /\ pc = "copied" => copy = [file |-> "written", holds |-> data]
    /\ pc = "saved" => copy = [file |-> "durable", holds |-> data]
    /\ Journalled =>
         /\ journals # <<>>
         /\ journals[Len(journals)].backup = "durable"
         /\ journals[Len(journals)].holds = data
    /\ pc = "journal_made" => journals[Len(journals)].file = "partial"
    /\ pc = "journal_filled" => journals[Len(journals)].file = "written"
    /\ pc \in Applying /\ version < 2 => journals[Len(journals)].file = "durable"
    /\ pc \in MakingDirectory =>
         /\ dirs # <<>>
         /\ dirs[Len(dirs)].for = Target /\ dirs[Len(dirs)].place = "backups"
         /\ \A n \in Later : bound[n] # Len(dirs)
    /\ pc = "later_copied" => dirs[Len(dirs)].backup = "written"
    /\ pc = "later_saved" => dirs[Len(dirs)].backup = "durable"
    /\ pc \in {"later_copied", "later_saved"} => dirs[Len(dirs)].holds = data

\* The backups of the past are on the disk, and a journal that is on the disk
\* names those of sequences 1 and 2.
Kept ==
    /\ RestorePoint
    /\ \A n \in {1, 2} : base[n] >= 0 =>
         \E i \in DOMAIN journals :
            /\ journals[i].file = "durable"
            /\ journals[i].backup = "durable" /\ journals[i].holds = base[n]

IInv == TypeOK /\ Counted /\ Placed /\ Latched /\ Rows /\ Copied /\ Kept

-----------------------------------------------------------------------------
(* Sequences.                                                               *)

\* A function on an initial segment of the numbers is a sequence.
LEMMA SegmentIsSeq ==
    ASSUME NEW S, NEW n \in Nat, NEW f \in [1 .. n -> S]
    PROVE  f \in Seq(S) /\ Len(f) = n /\ DOMAIN f = 1 .. n
<1>1. f \in Seq(S)
  BY SeqDef
<1> QED  BY <1>1, LenProperties

\* A set of indices has a last one.
LEMMA LastOfSet ==
    ASSUME NEW n \in Nat, NEW S \in SUBSET (1 .. n), S # {}
    PROVE  \E m \in S : \A k \in S : k <= m
<1> DEFINE T == {n - k : k \in S}
<1>1. T \subseteq Nat
  <2> SUFFICES ASSUME NEW k \in S  PROVE n - k \in Nat
    OBVIOUS
  <2> QED  OBVIOUS
<1>2. T # {}
  OBVIOUS
<1>3. PICK x \in T : \A y \in T : ~ (<<y, x>> \in OpToRel(<, Nat))
  <2> HIDE DEF T
  <2> QED  BY <1>1, <1>2, NatLessThanWellFounded, WFMin, Zenon
<1>4. \A y \in T : ~ (y < x)
  <2> HIDE DEF T
  <2> QED  BY <1>1, <1>3 DEF OpToRel
<1>5. PICK m \in S : x = n - m
  OBVIOUS
<1>6. ASSUME NEW k \in S  PROVE k <= m
  <2>1. ~ (n - k < n - m)
    BY <1>4, <1>5
  <2> QED  BY <2>1
<1> QED  BY <1>6

-----------------------------------------------------------------------------
(* What a step does to the files: what is on the disk stays there.          *)

Journal == [file : FileStates, backup : FileStates, holds : 0 .. MaxWrites]
Directory == [for : Later, owner : FileStates, backup : FileStates,
              holds : 0 .. MaxWrites, place : {"backups", "orphaned"}]

OnDisk(j) == j.file = "durable" /\ j.backup = "durable"
SameBackup(d, e) ==
    d.for = e.for /\ d.backup = e.backup /\ d.holds = e.holds /\ d.place = e.place

JournalsStay ==
    /\ journals' \in Seq(Journal)
    /\ \A i \in DOMAIN journals :
         OnDisk(journals[i]) => i \in DOMAIN journals' /\ journals'[i] = journals[i]

DirsStay ==
    /\ dirs' \in Seq(Directory)
    /\ Len(dirs) <= Len(dirs')
    /\ \A n \in Later : attempt[n] # "none" => SameBackup(dirs[bound[n]], dirs'[bound[n]])

LEMMA FilesTyped ==
    ASSUME TypeOK
    PROVE  /\ journals \in Seq(Journal) /\ journals \in [1 .. Len(journals) -> Journal]
           /\ Len(journals) \in Nat /\ DOMAIN journals = 1 .. Len(journals)
           /\ dirs \in Seq(Directory) /\ dirs \in [1 .. Len(dirs) -> Directory]
           /\ Len(dirs) \in Nat /\ DOMAIN dirs = 1 .. Len(dirs)
<1>1. journals \in Seq(Journal) /\ dirs \in Seq(Directory)
  BY DEF TypeOK, Journal, Directory
<1> QED  BY <1>1, LenProperties

\* The directory of an attempt is one of the directories.
LEMMA BoundIsDirectory ==
    ASSUME TypeOK, Rows, NEW n \in Later, attempt[n] # "none"
    PROVE  bound[n] \in DOMAIN dirs
BY FilesTyped DEF TypeOK, Rows

LEMMA SameFiles ==
    ASSUME TypeOK, UNCHANGED <<journals, dirs>>
    PROVE  JournalsStay /\ DirsStay
BY FilesTyped DEF JournalsStay, DirsStay, SameBackup

\* A journal is rewritten.
LEMMA JournalRewritten ==
    ASSUME TypeOK, NEW f \in [DOMAIN journals -> Journal], journals' = f,
           \A i \in DOMAIN journals : OnDisk(journals[i]) => f[i] = journals[i]
    PROVE  JournalsStay /\ Len(journals') = Len(journals)
<1>1. f \in Seq(Journal) /\ Len(f) = Len(journals) /\ DOMAIN f = DOMAIN journals
  BY FilesTyped, SegmentIsSeq
<1> QED  BY <1>1, FilesTyped DEF JournalsStay

LEMMA DirectoryRewritten ==
    ASSUME TypeOK, Rows, NEW f \in [DOMAIN dirs -> Directory], dirs' = f,
           \A n \in Later : attempt[n] # "none" => SameBackup(dirs[bound[n]], f[bound[n]])
    PROVE  DirsStay /\ Len(dirs') = Len(dirs)
<1>1. f \in Seq(Directory) /\ Len(f) = Len(dirs)
  BY FilesTyped, SegmentIsSeq
<1> QED  BY <1>1, FilesTyped DEF DirsStay

LEMMA SyncedType ==
    ASSUME NEW f \in FileStates
    PROVE  Synced(f) \in FileStates /\ (f = "durable" => Synced(f) = f)
BY DEF Synced, FileStates

\* verifyJournalBackup and verifyLaterBackupEvidence.
LEMMA BackupsRead ==
    ASSUME TypeOK, Rows, Kept
    PROVE  /\ journals' = JournalsRead => JournalsStay
           /\ dirs' = DirsRead => DirsStay
<1>1. JournalsRead \in [DOMAIN journals -> Journal]
  BY FilesTyped, SyncedType DEF JournalsRead, Journal
<1>2. \A i \in DOMAIN journals : OnDisk(journals[i]) => JournalsRead[i] = journals[i]
  <2> SUFFICES ASSUME NEW i \in DOMAIN journals, OnDisk(journals[i])
               PROVE  JournalsRead[i] = journals[i]
    OBVIOUS
  <2>1. journals[i] \in Journal
    BY FilesTyped
  <2>2. JournalsRead[i] = [journals[i] EXCEPT !.backup = Synced(@)]
    BY DEF JournalsRead
  <2> QED  BY <2>1, <2>2 DEF OnDisk, Synced, Journal
<1>3. DirsRead \in [DOMAIN dirs -> Directory]
  BY FilesTyped, SyncedType DEF DirsRead, Directory
<1>4. ASSUME NEW n \in Later, attempt[n] # "none"
      PROVE  SameBackup(dirs[bound[n]], DirsRead[bound[n]])
  <2>1. bound[n] \in DOMAIN dirs /\ dirs[bound[n]].backup = "durable"
    BY <1>4, BoundIsDirectory DEF Kept, RestorePoint
  <2>2. dirs[bound[n]] \in Directory
    BY <2>1, FilesTyped
  <2>3. DirsRead[bound[n]] = [dirs[bound[n]] EXCEPT !.backup = Synced(@)]
    BY <1>4, <2>1 DEF DirsRead
  <2> QED  BY <2>1, <2>2, <2>3 DEF SameBackup, Synced, Directory
<1> QED  BY <1>1, <1>2, <1>3, <1>4, JournalRewritten, DirectoryRewritten

LEMMA MakeJournalFiles ==
    ASSUME IInv, MakeJournal
    PROVE  /\ JournalsStay /\ DirsStay
           /\ Len(journals') = Len(journals) + 1
           /\ journals'[Len(journals')] = [file |-> "partial", backup |-> "durable",
                                           holds |-> data]
<1> DEFINE j == [file |-> "partial", backup |-> "durable", holds |-> data]
<1>1. journals' = Append(journals, j)
  BY DEF IInv, Copied, MakeJournal, Go
<1>2. j \in Journal
  BY DEF IInv, TypeOK, Journal, FileStates
<1>3. JournalsStay /\ Len(journals') = Len(journals) + 1 /\ journals'[Len(journals')] = j
  <2> HIDE DEF j
  <2> QED  BY <1>1, <1>2, FilesTyped, AppendProperties DEF IInv, JournalsStay
<1> QED  BY <1>3, FilesTyped DEF IInv, MakeJournal, DirsStay, SameBackup

LEMMA FillJournalFiles ==
    ASSUME IInv, FillJournal
    PROVE  /\ JournalsStay /\ DirsStay
           /\ Len(journals') = Len(journals)
           /\ journals'[Len(journals)] = [journals[Len(journals)] EXCEPT !.file = "written"]
<1> DEFINE last == Len(journals)
           j == [journals[last] EXCEPT !.file = "written"]
<1>1. last \in DOMAIN journals /\ journals[last].file # "durable"
  BY FilesTyped, EmptySeq DEF IInv, Copied, Journalled, FillJournal, Go
<1>2. journals[last] \in Journal
  BY <1>1, FilesTyped DEF IInv
<1>3. j \in Journal
  BY <1>2 DEF Journal, FileStates
<1>4. journals' = [journals EXCEPT ![last] = j]
  BY DEF FillJournal
<1>5. journals' \in [DOMAIN journals -> Journal]
  <2> HIDE DEF j, last
  <2> QED  BY <1>3, <1>4, FilesTyped DEF IInv
<1>6. \A i \in DOMAIN journals : OnDisk(journals[i]) => journals'[i] = journals[i]
  <2> HIDE DEF j
  <2> QED  BY <1>1, <1>4 DEF OnDisk
<1>7. JournalsStay /\ Len(journals') = Len(journals)
  BY <1>5, <1>6, JournalRewritten DEF IInv
<1> QED  BY <1>1, <1>4, <1>7, FilesTyped DEF IInv, FillJournal, DirsStay, SameBackup

LEMMA SyncJournalFiles ==
    ASSUME IInv, SyncJournal
    PROVE  /\ JournalsStay /\ DirsStay
           /\ Len(journals') = Len(journals)
           /\ journals'[Len(journals)] = [file |-> "durable", backup |-> "durable",
                                          holds |-> data]
<1> DEFINE last == Len(journals)
           j == [file |-> "durable", backup |-> "durable", holds |-> data]
<1>1. /\ last \in DOMAIN journals
      /\ journals[last] = [file |-> "written", backup |-> "durable", holds |-> data]
  <2>1. last \in DOMAIN journals /\ journals[last] \in Journal
    BY FilesTyped, EmptySeq DEF IInv, Copied, Journalled, SyncJournal, Go
  <2>2. /\ journals[last].file = "written" /\ journals[last].backup = "durable"
        /\ journals[last].holds = data
    BY DEF IInv, Copied, Journalled, SyncJournal, Go
  <2> QED  BY <2>1, <2>2 DEF Journal
<1>2. journals' = [i \in DOMAIN journals |-> IF i = last THEN j ELSE journals[i]]
  <2>1. JournalsRead[last] = journals[last]
    BY <1>1 DEF JournalsRead, Synced
  <2>2. [JournalsRead[last] EXCEPT !.file = Synced(@)] = j
    BY <1>1, <2>1 DEF Synced
  <2> QED  BY <2>2 DEF SyncJournal
<1>3. j \in Journal
  BY DEF IInv, TypeOK, Journal, FileStates
<1>4. journals' \in [DOMAIN journals -> Journal]
  <2> HIDE DEF j
  <2> QED  BY <1>2, <1>3, FilesTyped DEF IInv
<1>5. \A i \in DOMAIN journals : OnDisk(journals[i]) => journals'[i] = journals[i]
  <2> HIDE DEF j
  <2> QED  BY <1>1, <1>2 DEF OnDisk
<1>6. JournalsStay /\ Len(journals') = Len(journals)
  BY <1>4, <1>5, JournalRewritten DEF IInv
<1>7. journals'[last] = j
  <2> HIDE DEF j
  <2> QED  BY <1>1, <1>2
<1> QED  BY <1>6, <1>7, FilesTyped DEF IInv, SyncJournal, DirsStay, SameBackup

LEMMA QuarantineFiles ==
    ASSUME IInv, Quarantine
    PROVE  JournalsStay /\ DirsStay
<1>1. PICK i \in Orphans : dirs' = [dirs EXCEPT ![i].place = "orphaned"]
  BY DEF Quarantine
<1> DEFINE d == [dirs[i] EXCEPT !.place = "orphaned"]
<1>2. i \in DOMAIN dirs /\ (\A n \in Later : bound[n] # i)
  BY DEF Orphans, Orphan
<1>3. d \in Directory
  <2>1. dirs[i] \in Directory
    BY <1>2, FilesTyped DEF IInv
  <2> QED  BY <2>1 DEF Directory
<1>4. dirs' = [dirs EXCEPT ![i] = d]
  BY <1>1
<1>5. dirs' \in [DOMAIN dirs -> Directory]
  <2> HIDE DEF d
  <2> QED  BY <1>3, <1>4, FilesTyped DEF IInv
<1>6. \A n \in Later : attempt[n] # "none" => SameBackup(dirs[bound[n]], dirs'[bound[n]])
  <2> HIDE DEF d
  <2> QED  BY <1>2, <1>4, BoundIsDirectory DEF IInv, SameBackup
<1> QED  BY <1>5, <1>6, DirectoryRewritten, FilesTyped DEF IInv, Quarantine, JournalsStay

LEMMA MakeDirectoryFiles ==
    ASSUME IInv, MakeDirectory
    PROVE  /\ JournalsStay /\ DirsStay
           /\ Len(dirs') = Len(dirs) + 1
           /\ dirs'[Len(dirs')].for = Target /\ dirs'[Len(dirs')].place = "backups"
<1> DEFINE d == [for |-> Target, owner |-> "partial", backup |-> "missing",
                 holds |-> 0, place |-> "backups"]
<1>1. dirs' = Append(dirs, d)
  BY DEF MakeDirectory
<1>2. d \in Directory
  BY TopAssumption, BoundsAssumption
     DEF IInv, TypeOK, Placed, Claiming, Directory, FileStates, Later, Target, MakeDirectory, Go
<1>3. /\ dirs' \in Seq(Directory) /\ Len(dirs') = Len(dirs) + 1
      /\ \A i \in DOMAIN dirs : dirs'[i] = dirs[i]
      /\ dirs'[Len(dirs')] = d
  <2> HIDE DEF d
  <2> QED  BY <1>1, <1>2, FilesTyped, AppendProperties DEF IInv
<1>4. DirsStay
  BY <1>3, FilesTyped, BoundIsDirectory DEF IInv, DirsStay, SameBackup
<1> QED  BY <1>3, <1>4, FilesTyped DEF IInv, MakeDirectory, JournalsStay

\* Until it is reserved, a directory is nobody's: WriteOwner, CopyForAttempt
\* and SyncForAttempt change nothing that an attempt relies on.
LEMMA NewDirectory ==
    ASSUME IInv, pc \in MakingDirectory, NEW d \in Directory,
           dirs' = [dirs EXCEPT ![Len(dirs)] = d], UNCHANGED journals
    PROVE  JournalsStay /\ DirsStay /\ Len(dirs') = Len(dirs) /\ dirs'[Len(dirs)] = d
<1>1. Len(dirs) \in DOMAIN dirs /\ (\A n \in Later : bound[n] # Len(dirs))
  BY FilesTyped, EmptySeq DEF IInv, Copied
<1>2. dirs' \in [DOMAIN dirs -> Directory]
  BY FilesTyped DEF IInv
<1>3. \A n \in Later : attempt[n] # "none" => SameBackup(dirs[bound[n]], dirs'[bound[n]])
  BY <1>1, BoundIsDirectory DEF IInv, SameBackup
<1> QED  BY <1>1, <1>2, <1>3, DirectoryRewritten, FilesTyped DEF IInv, JournalsStay

LEMMA LastDirectory ==
    ASSUME IInv, pc \in MakingDirectory
    PROVE  dirs[Len(dirs)] \in Directory
BY FilesTyped, EmptySeq DEF IInv, Copied

LEMMA WriteOwnerFiles ==
    ASSUME IInv, WriteOwner
    PROVE  /\ JournalsStay /\ DirsStay /\ Len(dirs') = Len(dirs)
           /\ dirs'[Len(dirs)] = [dirs[Len(dirs)] EXCEPT !.owner = "durable"]
<1> DEFINE d == [dirs[Len(dirs)] EXCEPT !.owner = "durable"]
<1>1. pc \in MakingDirectory
  BY DEF WriteOwner, Go, MakingDirectory
<1>2. d \in Directory
  BY <1>1, LastDirectory DEF Directory, FileStates
<1>3. dirs' = [dirs EXCEPT ![Len(dirs)] = d]
  BY DEF WriteOwner
<1> HIDE DEF d
<1>4. JournalsStay /\ DirsStay /\ Len(dirs') = Len(dirs) /\ dirs'[Len(dirs)] = d
  BY <1>1, <1>2, <1>3, NewDirectory DEF WriteOwner
<1> QED  BY <1>4 DEF d

LEMMA CopyForAttemptFiles ==
    ASSUME IInv, CopyForAttempt
    PROVE  /\ JournalsStay /\ DirsStay /\ Len(dirs') = Len(dirs)
           /\ dirs'[Len(dirs)] = [dirs[Len(dirs)] EXCEPT !.backup = "written", !.holds = data]
<1> DEFINE d == [dirs[Len(dirs)] EXCEPT !.backup = "written", !.holds = data]
<1>1. pc \in MakingDirectory
  BY DEF CopyForAttempt, Go, MakingDirectory
<1>2. d \in Directory
  BY <1>1, LastDirectory DEF Directory, FileStates, IInv, TypeOK
<1>3. dirs' = [dirs EXCEPT ![Len(dirs)] = d]
  BY <1>1, LastDirectory DEF CopyForAttempt, Directory
<1> HIDE DEF d
<1>4. JournalsStay /\ DirsStay /\ Len(dirs') = Len(dirs) /\ dirs'[Len(dirs)] = d
  BY <1>1, <1>2, <1>3, NewDirectory DEF CopyForAttempt
<1> QED  BY <1>4 DEF d

LEMMA SyncForAttemptFiles ==
    ASSUME IInv, SyncForAttempt
    PROVE  /\ JournalsStay /\ DirsStay /\ Len(dirs') = Len(dirs)
           /\ dirs'[Len(dirs)] = [dirs[Len(dirs)] EXCEPT !.backup = "durable"]
<1> DEFINE d == [dirs[Len(dirs)] EXCEPT !.backup = "durable"]
<1>1. pc \in MakingDirectory
  BY DEF SyncForAttempt, Go, MakingDirectory
<1>2. d \in Directory
  BY <1>1, LastDirectory DEF Directory, FileStates
<1>3. dirs' = [dirs EXCEPT ![Len(dirs)] = d]
  BY DEF SyncForAttempt, Synced, IInv, Copied, Go
<1> HIDE DEF d
<1>4. JournalsStay /\ DirsStay /\ Len(dirs') = Len(dirs) /\ dirs'[Len(dirs)] = d
  BY <1>1, <1>2, <1>3, NewDirectory DEF SyncForAttempt
<1> QED  BY <1>4 DEF d

\* A power loss spares what is durable.
LEMMA FateOf ==
    ASSUME NEW s, NEW columns, NEW fate \in Fates(s, columns),
           NEW i \in DOMAIN s, NEW column \in columns, s[i][column] \in FileStates
    PROVE  /\ Fate(s, fate, i, column) \in FileStates
           /\ s[i][column] = "durable" => Fate(s, fate, i, column) = "durable"
<1> DEFINE volatile == {f \in (DOMAIN s) \X columns :
                          s[f[1]][f[2]] \in {"partial", "written"}}
<1>1. fate \in [volatile -> {"missing", "torn", "durable"}]
  BY DEF Fates
<1>2. <<i, column>> \in volatile <=> s[i][column] \in {"partial", "written"}
  OBVIOUS
<1> HIDE DEF volatile
<1>3. CASE <<i, column>> \in volatile
  <2>1. Fate(s, fate, i, column) = fate[<<i, column>>]
    BY <1>1, <1>3 DEF Fate
  <2> QED  BY <1>1, <1>2, <1>3, <2>1 DEF FileStates
<1>4. CASE <<i, column>> \notin volatile
  <2>1. Fate(s, fate, i, column) = s[i][column]
    BY <1>1, <1>4 DEF Fate
  <2> QED  BY <2>1
<1> QED  BY <1>3, <1>4

\* The journals that are left are the first ones.
LEMMA Trimmed ==
    ASSUME NEW js \in Seq(Journal)
    PROVE  /\ TrimMissing(js) \in Seq(Journal)
           /\ \A i \in DOMAIN js : Present(js[i].file)
                => i \in DOMAIN TrimMissing(js) /\ TrimMissing(js)[i] = js[i]
<1> DEFINE present == {k \in DOMAIN js : Present(js[k].file)}
           kept == {i \in DOMAIN js : \E k \in DOMAIN js : k >= i /\ Present(js[k].file)}
<1>1. Len(js) \in Nat /\ DOMAIN js = 1 .. Len(js) /\ js \in [1 .. Len(js) -> Journal]
  BY LenProperties
<1>2. TrimMissing(js) = [i \in kept |-> js[i]]
  BY DEF TrimMissing
<1>3. PICK m \in 0 .. Len(js) : kept = 1 .. m
  <2>1. CASE present = {}
    <3>1. kept = {}
      BY <2>1
    <3>2. kept = 1 .. 0
      BY <3>1
    <3> QED  BY <1>1, <3>2
  <2>2. CASE present # {}
    <3>1. present \in SUBSET (1 .. Len(js))
      BY <1>1
    <3>2. PICK m \in present : \A k \in present : k <= m
      <4> HIDE DEF present
      <4> QED  BY <1>1, <2>2, <3>1, LastOfSet
    <3>3. m \in 1 .. Len(js)
      BY <3>1, <3>2
    <3>4. ASSUME NEW i \in kept  PROVE i \in 1 .. m
      <4>1. PICK k \in present : k >= i
        OBVIOUS
      <4>2. k <= m /\ k \in 1 .. Len(js) /\ i \in 1 .. Len(js)
        BY <1>1, <3>2, <4>1
      <4> QED  BY <1>1, <3>3, <4>1, <4>2
    <3>5. ASSUME NEW i \in 1 .. m  PROVE i \in kept
      <4>1. i \in DOMAIN js /\ m >= i
        BY <1>1, <3>3
      <4>2. m \in DOMAIN js /\ Present(js[m].file)
        BY <3>2
      <4> QED  BY <4>1, <4>2
    <3>6. kept = 1 .. m
      <4> HIDE DEF kept
      <4> QED  BY <3>4, <3>5
    <3> QED  BY <3>3, <3>6
  <2> QED  BY <2>1, <2>2
<1>4. TrimMissing(js) \in [1 .. m -> Journal]
  <2> HIDE DEF kept
  <2> QED  BY <1>1, <1>2, <1>3
<1>5. TrimMissing(js) \in Seq(Journal) /\ DOMAIN TrimMissing(js) = 1 .. m
  BY <1>4, SegmentIsSeq
<1>6. ASSUME NEW i \in DOMAIN js, Present(js[i].file)  PROVE i \in kept
  BY <1>1, <1>6
<1> QED
  <2> HIDE DEF kept
  <2> QED  BY <1>2, <1>3, <1>5, <1>6

LEMMA PowerLossFiles ==
    ASSUME IInv, PowerLoss
    PROVE  JournalsStay /\ DirsStay
<1>1. JournalsStay
  <2>1. PICK fate \in Fates(journals, {"file", "backup"}) :
          journals' = TrimMissing([i \in DOMAIN journals |->
            [journals[i] EXCEPT !.file = Fate(journals, fate, i, "file"),
                                !.backup = Fate(journals, fate, i, "backup")]])
    BY DEF PowerLoss
  <2> DEFINE left(i) == [journals[i] EXCEPT !.file = Fate(journals, fate, i, "file"),
                                            !.backup = Fate(journals, fate, i, "backup")]
             js == [i \in DOMAIN journals |-> left(i)]
  <2>2. ASSUME NEW i \in DOMAIN journals
        PROVE  left(i) \in Journal /\ (OnDisk(journals[i]) => left(i) = journals[i])
    <3>1. journals[i] \in Journal
      BY FilesTyped DEF IInv
    <3>2. journals[i].file \in FileStates /\ journals[i].backup \in FileStates
      BY <3>1 DEF Journal
    <3>3. /\ Fate(journals, fate, i, "file") \in FileStates
          /\ journals[i].file = "durable" => Fate(journals, fate, i, "file") = "durable"
      BY <3>2, FateOf
    <3>4. /\ Fate(journals, fate, i, "backup") \in FileStates
          /\ journals[i].backup = "durable" => Fate(journals, fate, i, "backup") = "durable"
      BY <3>2, FateOf
    <3> QED  BY <3>1, <3>3, <3>4 DEF Journal, OnDisk
  <2> HIDE DEF left
  <2>3. js \in Seq(Journal) /\ DOMAIN js = DOMAIN journals
    <3>1. js \in [1 .. Len(journals) -> Journal]
      BY <2>2, FilesTyped DEF IInv
    <3> QED  BY <3>1, SegmentIsSeq, FilesTyped DEF IInv
  <2>4. journals' = TrimMissing(js)
    BY <2>1 DEF left
  <2>5. \A i \in DOMAIN journals : OnDisk(journals[i]) =>
           js[i] = journals[i] /\ Present(js[i].file)
    BY <2>2 DEF OnDisk, Present
  <2> HIDE DEF js
  <2> QED  BY <2>3, <2>4, <2>5, Trimmed DEF JournalsStay
<1>2. DirsStay
  <2>1. PICK fate \in Fates(dirs, {"owner", "backup"}) :
          dirs' = [i \in DOMAIN dirs |->
            [dirs[i] EXCEPT !.owner = Fate(dirs, fate, i, "owner"),
                            !.backup = Fate(dirs, fate, i, "backup")]]
    BY DEF PowerLoss
  <2> DEFINE left(i) == [dirs[i] EXCEPT !.owner = Fate(dirs, fate, i, "owner"),
                                        !.backup = Fate(dirs, fate, i, "backup")]
  <2>2. ASSUME NEW i \in DOMAIN dirs
        PROVE  /\ left(i) \in Directory
               /\ dirs[i].backup = "durable" => SameBackup(dirs[i], left(i))
    <3>1. dirs[i] \in Directory
      BY FilesTyped DEF IInv
    <3>2. dirs[i].owner \in FileStates /\ dirs[i].backup \in FileStates
      BY <3>1 DEF Directory
    <3>3. Fate(dirs, fate, i, "owner") \in FileStates
      BY <3>2, FateOf
    <3>4. /\ Fate(dirs, fate, i, "backup") \in FileStates
          /\ dirs[i].backup = "durable" => Fate(dirs, fate, i, "backup") = "durable"
      BY <3>2, FateOf
    <3> QED  BY <3>1, <3>3, <3>4 DEF Directory, SameBackup
  <2>3. dirs' = [i \in DOMAIN dirs |-> left(i)]
    BY <2>1
  <2> HIDE DEF left
  <2>4. dirs' \in [DOMAIN dirs -> Directory]
    BY <2>2, <2>3
  <2>5. \A n \in Later : attempt[n] # "none" => SameBackup(dirs[bound[n]], dirs'[bound[n]])
    BY <2>2, <2>3, BoundIsDirectory DEF IInv, Kept, RestorePoint
  <2> QED  BY <2>4, <2>5, DirectoryRewritten DEF IInv
<1> QED  BY <1>1, <1>2

LEMMA FilesStay ==
    ASSUME IInv, [Next]_vars
    PROVE  JournalsStay /\ DirsStay
<1>1. CASE AdmitBootstrap \/ AdmitLater
  <2>1. JournalsStay
    BY <1>1, BackupsRead DEF IInv, AdmitBootstrap, AdmitLater
  <2>2. CASE UNCHANGED dirs
    BY <2>1, <2>2, FilesTyped DEF IInv, DirsStay, SameBackup
  <2>3. CASE dirs' = DirsRead
    BY <2>1, <2>3, BackupsRead DEF IInv
  <2> QED  BY <1>1, <2>1, <2>2, <2>3 DEF AdmitBootstrap, AdmitLater
<1>2. CASE MakeJournal \/ FillJournal \/ SyncJournal
  BY <1>2, MakeJournalFiles, FillJournalFiles, SyncJournalFiles
<1>3. CASE MakeDirectory \/ WriteOwner \/ CopyForAttempt \/ SyncForAttempt
  BY <1>3, MakeDirectoryFiles, WriteOwnerFiles, CopyForAttemptFiles, SyncForAttemptFiles
<1>4. CASE Quarantine
  BY <1>4, QuarantineFiles
<1>5. CASE PowerLoss
  BY <1>5, PowerLossFiles
<1>6. CASE UNCHANGED <<journals, dirs>>
  BY <1>6, SameFiles DEF IInv
<1> QED
  BY <1>1, <1>2, <1>3, <1>4, <1>5, <1>6
     DEF Next, Migrate, Bootstrap, Claim, Apply, vars, files, sidecars,
         CopyDatabase, SyncCopy, Refuse, TakeOver, Reserve, StartApplying, LoseLease,
         SqlFails, BlockAttempt, MakeLatch, FillLatch, SyncLatch, UnlinkLatch, SyncUnlink,
         Commit, FindViolations, MakeEvidence, FillEvidence, SyncEvidence, FinalizeBlocked,
         ReconcileBlocked, MarkBlocked, Use, PreflightFails, Expire, ExpireWhileRunning, Crash

-----------------------------------------------------------------------------
(* The types.                                                               *)

RowTypes ==
    /\ version \in 0 .. Top
    /\ status \in {"none", "ready", "blocked"}
    /\ status = "none" <=> version < 2
    /\ attempt \in [Later -> {"none", "backed_up", "applying", "completed", "blocked"}]
    /\ bound \in [Later -> 0 .. Len(dirs)]
    /\ leased \in BOOLEAN
    /\ data \in 0 .. MaxWrites
    /\ base \in [Sequence -> -1 .. MaxWrites]

ProcessTypes ==
    /\ latch \in [file : FileStates, for : 0 .. Top]
    /\ unsynced \in 0 .. Top
    /\ evidence \in FileStates
    /\ pc \in Steps
    /\ copy \in [file : FileStates, holds : 0 .. MaxWrites]
    /\ flaw \in Flaws
    /\ found \in 0 .. Top

BoundTypes ==
    /\ writes <= MaxWrites /\ broken <= MaxBroken /\ slow <= MaxSlow
    /\ crashes <= MaxCrash /\ powerLosses <= MaxPowerLoss

LEMMA TypesSplit ==
    TypeOK <=> /\ RowTypes /\ ProcessTypes /\ BoundTypes
               /\ journals \in Seq(Journal) /\ dirs \in Seq(Directory)
BY DEF TypeOK, RowTypes, ProcessTypes, BoundTypes, Journal, Directory

LEMMA RowTypesStep ==
    ASSUME IInv, [Next]_vars
    PROVE  RowTypes'
<1> USE TopAssumption, BoundsAssumption
<1>1. Len(dirs) \in Nat /\ Len(dirs') \in Nat /\ Len(dirs) <= Len(dirs')
  BY FilesStay, FilesTyped, LenProperties DEF IInv, DirsStay
<1>2. RowTypes
  BY TypesSplit DEF IInv
<1>3. CASE UNCHANGED <<version, status, attempt, bound, leased, data, base>>
  BY <1>1, <1>2, <1>3 DEF RowTypes
<1>4. CASE UNCHANGED <<version, status, attempt, bound, data, base>> /\ leased' \in BOOLEAN
  BY <1>1, <1>2, <1>4 DEF RowTypes
<1>5. CASE Reserve
  <2>1. Target \in Later /\ UNCHANGED dirs
    BY <1>2, <1>5 DEF IInv, Placed, Claiming, MakingDirectory, Reserve, Go, files, Later, Target,
                      RowTypes
  <2> QED  BY <1>1, <1>2, <1>5, <2>1 DEF Reserve, RowTypes
<1>6. CASE StartApplying
  <2>1. Target \in Later
    BY <1>2, <1>6 DEF IInv, Placed, Claiming, StartApplying, Go, Later, Target, RowTypes
  <2> QED  BY <1>1, <1>2, <1>6, <2>1 DEF StartApplying, RowTypes
<1>7. CASE Commit
  <2>1. version' \in 0 .. Top /\ Target \in Sequence
    BY <1>2, <1>7 DEF IInv, Placed, Commit, Go, Target, RowTypes, Sequence
  <2>2. version' < 2 <=> Target = 1
    BY <1>2, <1>7 DEF Commit, Target, RowTypes
  <2> QED  BY <1>1, <1>2, <1>7, <2>1, <2>2 DEF Commit, RowTypes, Target
<1>8. CASE MarkBlocked /\ version >= 2
  <2>1. attempt' \in [Later -> {"none", "backed_up", "applying", "completed", "blocked"}]
    BY <1>2, <1>8 DEF MarkBlocked, RowTypes
  <2>2. bound' \in [Later -> 0 .. Len(dirs')]
    BY <1>1, <1>2, <1>8 DEF MarkBlocked, RowTypes
  <2>3. /\ version' \in 0 .. Top /\ status' = "blocked" /\ version' >= 2
        /\ leased' \in BOOLEAN /\ data' \in 0 .. MaxWrites
        /\ base' \in [Sequence -> -1 .. MaxWrites]
    BY <1>2, <1>8 DEF MarkBlocked, RowTypes
  <2>4. status' = "none" <=> version' < 2
    BY <1>2, <2>3 DEF RowTypes
  <2> QED  BY <2>1, <2>2, <2>3, <2>4 DEF RowTypes
<1>9. CASE Use
  BY <1>1, <1>2, <1>9 DEF Use, RowTypes, IInv, Counted
<1>10. CASE PreflightFails
  BY <1>1, <1>2, <1>10 DEF PreflightFails, RowTypes
<1>11. FinalizeBlocked \/ BlockAttempt \/ ReconcileBlocked => MarkBlocked /\ version >= 2
  BY DEF FinalizeBlocked, BlockAttempt, ReconcileBlocked, IInv, Placed, Go
<1> QED
  BY <1>2, <1>3, <1>4, <1>5, <1>6, <1>7, <1>8, <1>9, <1>10, <1>11
     DEF Next, Migrate, Bootstrap, Claim, Apply, vars, database, files, sidecars,
         AdmitBootstrap, CopyDatabase, SyncCopy, MakeJournal, FillJournal, SyncJournal,
         AdmitLater, Quarantine, Refuse, TakeOver, MakeDirectory, WriteOwner, CopyForAttempt,
         SyncForAttempt, LoseLease, SqlFails, MakeLatch, FillLatch, SyncLatch, UnlinkLatch,
         SyncUnlink, FindViolations, MakeEvidence, FillEvidence, SyncEvidence,
         Expire, ExpireWhileRunning, Crash, PowerLoss, RowTypes

LEMMA ProcessTypesStep ==
    ASSUME IInv, [Next]_vars
    PROVE  ProcessTypes'
<1> USE TopAssumption, BoundsAssumption
<1>1. ProcessTypes /\ data \in 0 .. MaxWrites /\ version \in 0 .. Top
  BY TypesSplit DEF IInv, RowTypes
<1>2. CASE Bootstrap
  <2>1. CASE CopyDatabase \/ SyncCopy
    BY <1>1, <2>1 DEF ProcessTypes, CopyDatabase, SyncCopy, Go, files, sidecars, Synced,
          FileStates, Steps
  <2>2. CASE AdmitBootstrap \/ MakeJournal \/ FillJournal \/ SyncJournal
    BY <1>1, <2>2 DEF ProcessTypes, AdmitBootstrap, MakeJournal, FillJournal, SyncJournal, Go,
          Become, sidecars, NoCopy, FileStates, Steps
  <2> QED  BY <1>2, <2>1, <2>2 DEF Bootstrap
<1>3. CASE Claim
  BY <1>1, <1>3 DEF ProcessTypes, Claim, AdmitLater, Quarantine, Refuse, TakeOver, MakeDirectory,
        WriteOwner, CopyForAttempt, SyncForAttempt, Reserve, StartApplying, LoseLease,
        Go, Become, database, sidecars, files, Steps
<1>4. CASE Apply
  <2>1. pc # "off" => Target \in 0 .. Top
    BY <1>1 DEF IInv, Placed, Target
  <2>2. CASE MakeLatch
    BY <1>1, <2>1, <2>2 DEF ProcessTypes, MakeLatch, Go, FileStates, Steps
  <2>3. CASE FillLatch \/ SyncLatch
    BY <1>1, <2>1, <2>3 DEF ProcessTypes, FillLatch, SyncLatch, Go, FileStates, Steps, Synced
  <2>4. CASE UnlinkLatch \/ SyncUnlink
    BY <1>1, <2>1, <2>4 DEF ProcessTypes, UnlinkLatch, SyncUnlink, NoLatch, RemovalSynced, Go,
          FileStates, Steps
  <2>5. CASE FindViolations \/ MakeEvidence \/ FillEvidence \/ SyncEvidence
    BY <1>1, <2>1, <2>5 DEF ProcessTypes, FindViolations, MakeEvidence, FillEvidence,
          SyncEvidence, KeepLatch, AfterEvidence, Synced, Go, FileStates, Steps
  <2>6. CASE SqlFails \/ BlockAttempt \/ Commit \/ FinalizeBlocked \/ ReconcileBlocked
    BY <1>1, <2>6 DEF ProcessTypes, SqlFails, BlockAttempt, Commit, FinalizeBlocked,
          ReconcileBlocked, MarkBlocked, files, sidecars, Go, Steps
  <2> QED  BY <1>4, <2>2, <2>3, <2>4, <2>5, <2>6 DEF Apply
<1>5. CASE Use \/ PreflightFails \/ Expire \/ ExpireWhileRunning \/ Crash
  BY <1>1, <1>5 DEF ProcessTypes, Use, PreflightFails, Expire, ExpireWhileRunning, Crash, files,
        sidecars, NoCopy, FileStates, Steps
<1>6. CASE PowerLoss
  <2>1. \A f \in FileStates : AfterPowerLoss(f) \subseteq FileStates
    BY DEF AfterPowerLoss, FileStates
  <2>2. latch' \in [file : FileStates, for : 0 .. Top]
    <3>1. CASE latch' = [file |-> "durable", for |-> unsynced]
      BY <1>1, <3>1 DEF ProcessTypes, FileStates
    <3>2. ASSUME NEW f \in AfterPowerLoss(latch.file),
                 latch' = IF Present(f) THEN [latch EXCEPT !.file = f] ELSE NoLatch
          PROVE  latch' \in [file : FileStates, for : 0 .. Top]
      <4>1. f \in FileStates
        BY <1>1, <2>1, <3>2 DEF ProcessTypes
      <4> QED  BY <1>1, <3>2, <4>1 DEF ProcessTypes, NoLatch, FileStates
    <3> QED  BY <1>6, <3>1, <3>2 DEF PowerLoss
  <2>3. evidence' \in FileStates
    BY <1>1, <1>6, <2>1 DEF PowerLoss, ProcessTypes
  <2>4. pc' = "off" /\ unsynced' = 0 /\ copy' = NoCopy /\ UNCHANGED <<flaw, found>>
    BY <1>6 DEF PowerLoss
  <2>5. NoCopy \in [file : FileStates, holds : 0 .. MaxWrites] /\ "off" \in Steps
    BY DEF NoCopy, FileStates, Steps
  <2> QED  BY <1>1, <2>2, <2>3, <2>4, <2>5 DEF ProcessTypes
<1>7. CASE UNCHANGED vars
  BY <1>1, <1>7 DEF ProcessTypes, vars, files, sidecars
<1> QED  BY <1>2, <1>3, <1>4, <1>5, <1>6, <1>7 DEF Next, Migrate

LEMMA BoundTypesStep ==
    ASSUME IInv, [Next]_vars
    PROVE  BoundTypes' /\ Counted'
<1> USE BoundsAssumption
<1>1. BoundTypes /\ Counted
  BY TypesSplit DEF IInv
<1>2. CASE UNCHANGED <<bounds, data>>
  BY <1>1, <1>2 DEF BoundTypes, Counted, bounds
<1>3. CASE Use \/ PreflightFails \/ ExpireWhileRunning \/ Crash \/ PowerLoss
  <2>1. CASE Use
    BY <1>1, <2>1 DEF BoundTypes, Counted, Use
  <2>2. CASE PreflightFails \/ ExpireWhileRunning
    BY <1>1, <2>2 DEF BoundTypes, Counted, PreflightFails, ExpireWhileRunning
  <2>3. CASE Crash
    BY <1>1, <2>3 DEF BoundTypes, Counted, Crash, database
  <2>4. CASE PowerLoss
    <3>1. /\ powerLosses < MaxPowerLoss /\ powerLosses' = powerLosses + 1
          /\ UNCHANGED <<data, writes, broken, slow, crashes>>
      BY <2>4 DEF PowerLoss
    <3> QED  BY <1>1, <3>1 DEF BoundTypes, Counted
  <2> QED  BY <1>3, <2>1, <2>2, <2>3, <2>4
<1> QED
  BY <1>2, <1>3
     DEF Next, Migrate, Bootstrap, Claim, Apply, vars, database,
         AdmitBootstrap, CopyDatabase, SyncCopy, MakeJournal, FillJournal, SyncJournal,
         AdmitLater, Quarantine, Refuse, TakeOver, MakeDirectory, WriteOwner, CopyForAttempt,
         SyncForAttempt, Reserve, StartApplying, LoseLease, SqlFails, BlockAttempt, MakeLatch,
         FillLatch, SyncLatch, UnlinkLatch, SyncUnlink, Commit, FindViolations, MakeEvidence,
         FillEvidence, SyncEvidence, FinalizeBlocked, ReconcileBlocked, MarkBlocked, Expire

LEMMA TypesStep ==
    ASSUME IInv, [Next]_vars
    PROVE  TypeOK'
<1>1. journals' \in Seq(Journal) /\ dirs' \in Seq(Directory)
  BY FilesStay DEF JournalsStay, DirsStay
<1>2. RowTypes' /\ ProcessTypes' /\ BoundTypes'
  BY RowTypesStep, ProcessTypesStep, BoundTypesStep
<1>3. TypeOK' <=> /\ RowTypes' /\ ProcessTypes' /\ BoundTypes'
                  /\ journals' \in Seq(Journal) /\ dirs' \in Seq(Directory)
  BY DEF TypeOK, RowTypes, ProcessTypes, BoundTypes, Journal, Directory
<1> QED  BY <1>1, <1>2, <1>3


-----------------------------------------------------------------------------
(* What each step has prepared.                                             *)

LEMMA PlacedStep ==
    ASSUME IInv, [Next]_vars
    PROVE  Placed'
<1> USE TopAssumption DEF Placed, Journalling, MakingDirectory, Claiming
<1>1. Placed /\ version \in 0 .. Top
  BY DEF IInv, TypeOK
<1>2. CASE Bootstrap
  BY <1>1, <1>2 DEF IInv, TypeOK, Bootstrap, AdmitBootstrap, CopyDatabase, SyncCopy, MakeJournal,
        FillJournal, SyncJournal, Go, Become, database
<1>3. CASE Claim
  BY <1>1, <1>3 DEF Claim, AdmitLater, Quarantine, Refuse, TakeOver, MakeDirectory,
        WriteOwner, CopyForAttempt, SyncForAttempt, Reserve, StartApplying, LoseLease,
        Go, Become, database, Verified, StateReady
<1>4. CASE Apply
  <2>1. CASE SqlFails
    BY <1>1, <2>1 DEF SqlFails, Go, database, Target, Later
  <2>2. CASE BlockAttempt \/ FinalizeBlocked \/ ReconcileBlocked
    BY <2>2 DEF BlockAttempt, FinalizeBlocked, ReconcileBlocked, Go
  <2>3. CASE MakeLatch \/ FillLatch \/ SyncLatch \/ UnlinkLatch \/ SyncUnlink
    BY <1>1, <2>3 DEF MakeLatch, FillLatch, SyncLatch, UnlinkLatch, SyncUnlink, Go, database
  <2>4. CASE Commit
    BY <1>1, <2>4 DEF Commit, Go, Target, IInv, TypeOK
  <2>5. CASE FindViolations \/ MakeEvidence \/ FillEvidence \/ SyncEvidence
    BY <1>1, <2>5 DEF FindViolations, MakeEvidence, FillEvidence, SyncEvidence, AfterEvidence,
          Go, database, Target, Later
  <2> QED  BY <1>4, <2>1, <2>2, <2>3, <2>4, <2>5 DEF Apply
<1>5. CASE Use \/ PreflightFails \/ Expire \/ ExpireWhileRunning \/ Crash \/ PowerLoss
  BY <1>1, <1>5 DEF Use, PreflightFails, Expire, ExpireWhileRunning, Crash, PowerLoss, database
<1>6. CASE UNCHANGED vars
  BY <1>1, <1>6 DEF vars, database
<1> QED  BY <1>2, <1>3, <1>4, <1>5, <1>6 DEF Next, Migrate

\* The rest of Latched speaks of the same latch, or of no process.
LatchKept == UNCHANGED <<version, latch, unsynced, evidence, found>>

LEMMA LatchedStep ==
    ASSUME IInv, [Next]_vars
    PROVE  Latched'
<1> USE DEF LatchTrue, ViolationHeld, NoFalseAlarm
<1>1. Latched /\ Placed /\ version \in 0 .. Top /\ pc \in Steps
  BY DEF IInv, TypeOK
<1>2. latch \in [file : FileStates, for : 0 .. Top]
  BY DEF IInv, TypeOK
<1>3. CASE LatchKept /\ pc' = "off"
  BY <1>1, <1>3 DEF LatchKept, Latched, Journalling, MakingDirectory, Claiming, Applying, Blocking,
        Target
<1>4. CASE LatchKept /\ pc' = pc
  BY <1>1, <1>4 DEF LatchKept, Latched, Target
<1>5. CASE Bootstrap
  <2>1. LatchKept
    BY <1>5 DEF Bootstrap, AdmitBootstrap, CopyDatabase, SyncCopy, MakeJournal,
        FillJournal, SyncJournal, LatchKept, database, files, sidecars
  <2>2. CASE AdmitBootstrap
    BY <1>1, <2>1, <2>2 DEF LatchKept, AdmitBootstrap, Become, Latched, Journalling,
          MakingDirectory, Claiming, Applying, Blocking, Target, SidecarsFound, Present
  <2>3. CASE CopyDatabase \/ SyncCopy \/ MakeJournal \/ FillJournal \/ SyncJournal
    BY <1>1, <2>1, <2>3 DEF LatchKept, CopyDatabase, SyncCopy, MakeJournal,
        FillJournal, SyncJournal, Go, Latched, Journalling,
          MakingDirectory, Claiming, Applying, Blocking, Target
  <2> QED  BY <1>5, <2>2, <2>3 DEF Bootstrap
<1>6. CASE Claim
  <2>1. LatchKept
    BY <1>6 DEF Claim, AdmitLater, Quarantine, Refuse, TakeOver, MakeDirectory,
        WriteOwner, CopyForAttempt, SyncForAttempt, Reserve, StartApplying, LoseLease,
        LatchKept, database, files, sidecars
  <2>2. CASE AdmitLater
    BY <1>1, <2>1, <2>2 DEF LatchKept, AdmitLater, Become, Latched, Journalling,
          MakingDirectory, Claiming, Applying, Blocking, Target, SidecarsFound, Present
  <2>3. CASE Quarantine \/ Refuse \/ LoseLease
    BY <1>3, <1>4, <2>1, <2>3 DEF Quarantine, Refuse, LoseLease, Go
  <2>4. CASE TakeOver \/ MakeDirectory \/ WriteOwner \/ CopyForAttempt \/ SyncForAttempt
          \/ Reserve \/ StartApplying
    BY <1>1, <2>1, <2>4 DEF LatchKept, TakeOver, MakeDirectory, WriteOwner, CopyForAttempt,
        SyncForAttempt, Reserve, StartApplying, Go, Latched, Journalling,
          MakingDirectory, Claiming, Applying, Blocking, Target
  <2> QED  BY <1>6, <2>2, <2>3, <2>4 DEF Claim
<1>7. CASE MakeLatch \/ FillLatch \/ SyncLatch
  <2>1. UNCHANGED <<version, evidence, found>> /\ version < Top
    BY <1>1, <1>7 DEF MakeLatch, FillLatch, SyncLatch, database, Placed, Go
  <2>2. CASE MakeLatch
    BY <1>1, <2>1, <2>2 DEF MakeLatch, Go, Latched, Journalling,
          MakingDirectory, Claiming, Applying, Blocking, Target, Present
  <2>3. CASE FillLatch
    <3>1. latch' = [file |-> "written", for |-> Target] /\ UNCHANGED unsynced
      BY <1>1, <2>3 DEF FillLatch, Go, Latched
    <3> QED  BY <1>1, <2>1, <2>3, <3>1 DEF FillLatch, Go, Latched, Journalling,
          MakingDirectory, Claiming, Applying, Blocking, Target, Present
  <2>4. CASE SyncLatch
    <3>1. latch' = [file |-> "durable", for |-> Target] /\ unsynced' = 0
      BY <1>1, <2>4 DEF SyncLatch, Go, Latched, Synced
    <3> QED  BY <1>1, <2>1, <2>4, <3>1 DEF SyncLatch, Go, Latched, Journalling,
          MakingDirectory, Claiming, Applying, Blocking, Target, Present
  <2> QED  BY <1>7, <2>2, <2>3, <2>4
<1>8. CASE UnlinkLatch \/ SyncUnlink
  BY <1>1, <1>8 DEF UnlinkLatch, SyncUnlink, RemovalSynced, NoLatch, Go, database, Latched,
     Journalling, MakingDirectory, Claiming, Applying, Blocking, Target, Present
<1>9. CASE Commit
  BY <1>1, <1>9 DEF Commit, Go, files, sidecars, Latched,
     Journalling, MakingDirectory, Claiming, Applying, Blocking, Target, Present
<1>10. CASE FindViolations \/ MakeEvidence \/ FillEvidence \/ SyncEvidence
  <2>1. UNCHANGED <<version, latch, unsynced>>
    BY <1>10 DEF FindViolations, MakeEvidence, FillEvidence, SyncEvidence, KeepLatch, database
  <2>2. /\ pc \in {"checking"} \cup Blocking /\ pc' \in Blocking \cup {"off"}
        /\ found' \in {found, Target}
    BY <1>10 DEF FindViolations, MakeEvidence, FillEvidence, SyncEvidence, AfterEvidence, Go,
       Blocking
  <2> QED
    BY <1>1, <2>1, <2>2 DEF Latched, Journalling, MakingDirectory, Claiming, Applying, Blocking,
       Target, Present
<1>11. CASE SqlFails
  BY <1>1, <1>11 DEF SqlFails, Go, database, files, sidecars, Latched,
     Journalling, MakingDirectory, Claiming, Applying, Blocking, Target
<1>12. CASE \/ BlockAttempt \/ FinalizeBlocked \/ ReconcileBlocked
            \/ Use \/ PreflightFails \/ Expire \/ ExpireWhileRunning \/ Crash
  <2>1. LatchKept /\ pc' \in {"off", pc}
    BY <1>12 DEF BlockAttempt, FinalizeBlocked, ReconcileBlocked, MarkBlocked, Use, PreflightFails,
       Expire, ExpireWhileRunning, Crash, Go, LatchKept, database, files, sidecars
  <2> QED  BY <1>3, <1>4, <2>1
<1>13. CASE PowerLoss
  <2>1. UNCHANGED <<version, found>> /\ pc' = "off" /\ unsynced' = 0
    BY <1>13 DEF PowerLoss
  <2>2. CASE latch' = [file |-> "durable", for |-> unsynced] /\ unsynced # 0 /\ ~Present(latch.file)
    BY <1>1, <2>1, <2>2 DEF Latched, Present,
       Journalling, MakingDirectory, Claiming, Applying, Blocking
  <2>3. ASSUME NEW f \in AfterPowerLoss(latch.file),
               latch' = IF Present(f) THEN [latch EXCEPT !.file = f] ELSE NoLatch
        PROVE  Latched'
    <3>1. latch.file = "durable" => f = "durable"
      BY <2>3 DEF AfterPowerLoss
    <3>2. Present(f) => Present(latch.file)
      BY <2>3 DEF AfterPowerLoss, Present
    <3>3. /\ Present(latch'.file) => Present(latch.file) /\ latch'.for = latch.for
          /\ latch.file = "durable" => latch'.file = "durable" /\ latch'.for = latch.for
      BY <1>2, <2>3, <3>1, <3>2 DEF Present, NoLatch
    <3> QED
      BY <1>1, <2>1, <3>3 DEF Latched, Present,
         Journalling, MakingDirectory, Claiming, Applying, Blocking
  <2> QED  BY <1>13, <2>2, <2>3 DEF PowerLoss
<1>14. CASE UNCHANGED vars
  BY <1>4, <1>14 DEF vars, LatchKept, database, files, sidecars
<1> QED
  BY <1>5, <1>6, <1>7, <1>8, <1>9, <1>10, <1>11, <1>12, <1>13, <1>14 DEF Next, Migrate, Apply

\* The rest of Rows speaks of the same attempts.
AttemptsKept == UNCHANGED <<version, attempt, bound>>

LEMMA RowsStep ==
    ASSUME IInv, [Next]_vars
    PROVE  Rows'
<1>1. /\ Rows /\ Placed /\ version \in 0 .. Top
      /\ attempt \in [Later -> {"none", "backed_up", "applying", "completed", "blocked"}]
      /\ bound \in [Later -> 0 .. Len(dirs)]
  BY DEF IInv, TypeOK
<1>2. CASE AttemptsKept /\ pc' \in {"off", pc}
  BY <1>1, <1>2 DEF AttemptsKept, Rows, MakingDirectory, Applying, Blocking, Target, Open
<1>3. CASE Bootstrap
  <2>1. AttemptsKept
    BY <1>3 DEF Bootstrap, AdmitBootstrap, CopyDatabase, SyncCopy, MakeJournal,
        FillJournal, SyncJournal, AttemptsKept, database
  <2>2. pc' \in Journalling \/ (pc' = "apply" /\ version < 2)
    BY <1>1, <1>3 DEF Bootstrap, AdmitBootstrap, CopyDatabase, SyncCopy, MakeJournal,
        FillJournal, SyncJournal, Go, Become, Placed, Journalling
  <2> QED  BY <1>1, <2>1, <2>2 DEF AttemptsKept, Rows, Journalling, MakingDirectory, Applying,
        Blocking, Target, Later
<1>4. CASE Claim
  <2>1. CASE Quarantine \/ Refuse \/ LoseLease
    BY <1>2, <2>1 DEF Quarantine, Refuse, LoseLease, Go, AttemptsKept, database
  <2>2. CASE AdmitLater \/ TakeOver \/ MakeDirectory \/ WriteOwner \/ CopyForAttempt
             \/ SyncForAttempt
    BY <1>1, <2>2 DEF AdmitLater, TakeOver, MakeDirectory, WriteOwner, CopyForAttempt,
       SyncForAttempt, Go, Become, database, Rows, MakingDirectory, Applying, Blocking, Target, Open
  <2>3. CASE Reserve
    <3>1. Target \in Later
      BY <1>1, <2>3, TopAssumption DEF Reserve, Go, MakingDirectory, Placed, Claiming, Target, Later
    <3>2. dirs # <<>> /\ dirs \in Seq(Directory)
      BY <2>3, FilesTyped DEF IInv, Copied, Reserve, Go, MakingDirectory
    <3>3. Len(dirs) # 0
      BY <3>2, EmptySeq
    <3> QED  BY <1>1, <2>3, <3>1, <3>3 DEF Reserve, Go, Rows, MakingDirectory, Applying,
        Blocking, Target, Open
  <2>4. CASE StartApplying
    BY <1>1, <2>4 DEF StartApplying, Go, Rows, MakingDirectory, Applying, Blocking, Target, Open
  <2> QED  BY <1>4, <2>1, <2>2, <2>3, <2>4 DEF Claim
<1>5. CASE Apply
  <2>1. CASE SqlFails
    BY <1>1, <2>1 DEF SqlFails, Go, database, Rows, MakingDirectory, Applying, Blocking, Target, Open
  <2>2. CASE Commit
    <3>1. /\ version' = Target /\ pc' \in {"apply", "off"} /\ (pc' = "apply" => Target = 1)
          /\ attempt' = [n \in Later |-> IF n = Target THEN "completed" ELSE attempt[n]]
          /\ bound' = bound /\ pc \in Applying
      BY <2>2 DEF Commit, Go, Applying
    <3>2. \A n \in Later : /\ attempt'[n] = "completed" <=> n <= version'
                           /\ attempt'[n] # "none" => n <= Target' /\ bound'[n] # 0
      BY <1>1, <3>1 DEF Rows, Target, Later
    <3> QED  BY <1>1, <3>1, <3>2 DEF Rows, MakingDirectory, Applying, Blocking, Target, Later
  <2>3. CASE MakeLatch \/ FillLatch \/ SyncLatch \/ UnlinkLatch \/ SyncUnlink
             \/ FindViolations \/ MakeEvidence \/ FillEvidence \/ SyncEvidence
    <3>1. AttemptsKept /\ pc \in Applying \cup Blocking
      BY <2>3 DEF MakeLatch, FillLatch, SyncLatch, UnlinkLatch, SyncUnlink, FindViolations,
         MakeEvidence, FillEvidence, SyncEvidence, Go, Applying, Blocking, AttemptsKept, database
    <3>2. pc' \in Applying \cup Blocking \cup {"off"}
      BY <2>3 DEF MakeLatch, FillLatch, SyncLatch, UnlinkLatch, SyncUnlink, FindViolations,
         MakeEvidence, FillEvidence, SyncEvidence, AfterEvidence, Go, Applying, Blocking
    <3> QED  BY <1>1, <3>1, <3>2 DEF AttemptsKept, Rows, MakingDirectory, Applying, Blocking,
         Target, Open
  <2>4. CASE BlockAttempt \/ FinalizeBlocked \/ ReconcileBlocked
    <3>1. MarkBlocked /\ pc' = "off" /\ (Target \in Later => attempt[Target] = "applying")
      BY <1>1, <2>4 DEF BlockAttempt, FinalizeBlocked, ReconcileBlocked, Go, Rows, Blocking
    <3> QED  BY <1>1, <3>1 DEF MarkBlocked, Rows, MakingDirectory, Applying, Blocking, Target
  <2> QED  BY <1>5, <2>1, <2>2, <2>3, <2>4 DEF Apply
<1>6. CASE Use \/ PreflightFails \/ Expire \/ ExpireWhileRunning \/ Crash \/ PowerLoss
  BY <1>2, <1>6 DEF Use, PreflightFails, Expire, ExpireWhileRunning, Crash, PowerLoss, database,
     AttemptsKept
<1>7. CASE UNCHANGED vars
  BY <1>2, <1>7 DEF vars, database, AttemptsKept
<1> QED  BY <1>3, <1>4, <1>5, <1>6, <1>7 DEF Next, Migrate

LEMMA CopiedStep ==
    ASSUME IInv, [Next]_vars
    PROVE  Copied'
<1>1. /\ Copied /\ Rows /\ Placed /\ version \in 0 .. Top
      /\ bound \in [Later -> 0 .. Len(dirs)]
  BY DEF IInv, TypeOK
<1>2. /\ Len(dirs) \in Nat /\ Len(journals) \in Nat
      /\ journals \in Seq(Journal) /\ dirs \in Seq(Directory)
  BY FilesTyped DEF IInv
<1>3. CASE pc' = "off"
  BY <1>3 DEF Copied, Journalled, MakingDirectory, Applying
<1>4. CASE UNCHANGED <<version, data, journals, dirs, bound, copy, pc>>
  BY <1>1, <1>4 DEF Copied, Journalled, MakingDirectory, Applying, Target
<1>5. CASE Bootstrap
  <2>1. CASE AdmitBootstrap \/ CopyDatabase \/ SyncCopy
    BY <1>1, <2>1 DEF AdmitBootstrap, CopyDatabase, SyncCopy, Become, Go, database, Copied,
       Journalled, MakingDirectory, Applying, Synced
  <2>2. CASE MakeJournal
    <3>1. journals' # <<>>
      BY <1>2, <2>2, MakeJournalFiles, EmptySeq
    <3> QED  BY <2>2, <3>1, MakeJournalFiles DEF MakeJournal, Go, database, Copied, Journalled,
         MakingDirectory, Applying
  <2>3. CASE FillJournal
    <3>1. Len(journals) # 0 /\ journals' # <<>>
      BY <1>1, <1>2, <2>3, FillJournalFiles, EmptySeq DEF FillJournal, Go, Copied, Journalled
    <3>2. journals[Len(journals)] \in Journal
      BY <1>2, <3>1, FilesTyped DEF IInv
    <3>3. /\ Len(journals') = Len(journals)
          /\ journals'[Len(journals)] = [journals[Len(journals)] EXCEPT !.file = "written"]
      BY <2>3, FillJournalFiles
    <3>4. /\ journals[Len(journals)].backup = "durable"
          /\ journals[Len(journals)].holds = data
          /\ pc' = "journal_filled" /\ data' = data
      BY <1>1, <2>3 DEF FillJournal, Go, Copied, Journalled
    <3> QED  BY <3>1, <3>2, <3>3, <3>4 DEF Copied, Journalled, MakingDirectory, Applying, Journal
  <2>4. CASE SyncJournal
    <3>1. journals' # <<>>
      BY <1>1, <1>2, <2>4, SyncJournalFiles, EmptySeq DEF SyncJournal, Go, Copied, Journalled
    <3> QED  BY <2>4, <3>1, SyncJournalFiles DEF SyncJournal, Go, database, Copied, Journalled,
         MakingDirectory, Applying
  <2> QED  BY <1>5, <2>1, <2>2, <2>3, <2>4 DEF Bootstrap
<1>6. CASE Claim
  <2>1. CASE AdmitLater \/ Quarantine \/ TakeOver
    BY <1>1, <2>1 DEF AdmitLater, Quarantine, TakeOver, Become, Go, database, Copied,
       Journalled, MakingDirectory, Applying
  <2>2. CASE Refuse \/ LoseLease
    BY <1>3, <2>2 DEF Refuse, LoseLease, Go
  <2>3. CASE MakeDirectory
    <3>1. dirs' # <<>> /\ (\A n \in Later : bound[n] # Len(dirs'))
      BY <1>1, <1>2, <2>3, MakeDirectoryFiles, EmptySeq
    <3> QED  BY <1>1, <2>3, <3>1, MakeDirectoryFiles DEF MakeDirectory, Go, database, Copied,
         Journalled, MakingDirectory, Applying, Target
  <2>4. CASE WriteOwner \/ CopyForAttempt \/ SyncForAttempt
    <3>1. pc \in MakingDirectory /\ UNCHANGED <<version, data, bound>>
      BY <2>4 DEF WriteOwner, CopyForAttempt, SyncForAttempt, Go, MakingDirectory, database
    <3>2. /\ dirs # <<>> /\ dirs[Len(dirs)].for = Target /\ dirs[Len(dirs)].place = "backups"
          /\ \A n \in Later : bound[n] # Len(dirs)
          /\ dirs[Len(dirs)] \in Directory
      BY <1>1, <3>1, LastDirectory DEF Copied
    <3>3. Len(dirs') = Len(dirs) /\ dirs' # <<>>
      BY <1>2, <2>4, <3>2, WriteOwnerFiles, CopyForAttemptFiles, SyncForAttemptFiles, EmptySeq
    <3>4. CASE WriteOwner
      BY <3>1, <3>2, <3>3, <3>4, WriteOwnerFiles DEF WriteOwner, Go, Copied,
         Journalled, MakingDirectory, Applying, Target, Directory
    <3>5. CASE CopyForAttempt
      BY <3>1, <3>2, <3>3, <3>5, CopyForAttemptFiles DEF CopyForAttempt, Go, Copied,
         Journalled, MakingDirectory, Applying, Target, Directory
    <3>6. CASE SyncForAttempt
      BY <1>1, <3>1, <3>2, <3>3, <3>6, SyncForAttemptFiles DEF SyncForAttempt, Go, Copied,
         Journalled, MakingDirectory, Applying, Target, Directory
    <3> QED  BY <2>4, <3>4, <3>5, <3>6
  <2>5. CASE Reserve \/ StartApplying
    <3>1. version >= 2 /\ version' = version /\ pc' \in {"claimed", "apply"}
      BY <1>1, <2>5 DEF Reserve, StartApplying, Go, Placed, Claiming, MakingDirectory
    <3> QED  BY <1>1, <3>1 DEF Copied, Journalled, MakingDirectory, Applying
  <2> QED  BY <1>6, <2>1, <2>2, <2>3, <2>4, <2>5 DEF Claim
<1>7. CASE Apply
  <2>1. CASE MakeLatch \/ FillLatch \/ SyncLatch \/ UnlinkLatch \/ SyncUnlink
    <3>1. UNCHANGED <<version, data, journals>> /\ pc \in Applying /\ pc' \in Applying
      BY <2>1 DEF MakeLatch, FillLatch, SyncLatch, UnlinkLatch, SyncUnlink, Go, Applying, database
    <3> QED  BY <1>1, <3>1 DEF Copied, Journalled, MakingDirectory, Applying
  <2>2. CASE Commit
    <3>1. /\ UNCHANGED <<data, journals>> /\ pc = "clean"
          /\ pc' = "off" \/ (pc' = "apply" /\ version < 2)
      BY <1>1, <2>2 DEF Commit, Go, files, Target
    <3> QED  BY <1>1, <1>3, <3>1 DEF Copied, Journalled, MakingDirectory, Applying
  <2>3. CASE FindViolations \/ MakeEvidence \/ FillEvidence \/ SyncEvidence \/ SqlFails
    BY <2>3 DEF FindViolations, MakeEvidence, FillEvidence, SyncEvidence, AfterEvidence, SqlFails,
       Go, Copied, Journalled, MakingDirectory, Applying
  <2>4. CASE BlockAttempt \/ FinalizeBlocked \/ ReconcileBlocked
    BY <1>3, <2>4 DEF BlockAttempt, FinalizeBlocked, ReconcileBlocked, Go
  <2> QED  BY <1>7, <2>1, <2>2, <2>3, <2>4 DEF Apply
<1>8. CASE Use \/ PreflightFails \/ Crash \/ PowerLoss
  BY <1>3, <1>8 DEF Use, PreflightFails, Crash, PowerLoss
<1>9. CASE Expire \/ ExpireWhileRunning \/ UNCHANGED vars
  BY <1>4, <1>9 DEF Expire, ExpireWhileRunning, vars, database, files
<1> QED  BY <1>5, <1>6, <1>7, <1>8, <1>9 DEF Next, Migrate

\* What a sequence was applied to, or will be.
AppliedTo(n) == IF n <= version THEN base[n] ELSE data

\* Reserve gives one attempt the directory that was just made; no other step
\* gives an attempt a directory, or one that exists another meaning.
LEMMA SameBinding ==
    ASSUME IInv, [Next]_vars, NEW n \in Later, attempt'[n] # "none"
    PROVE  \/ Reserve /\ n = Target
           \/ attempt[n] # "none" /\ bound'[n] = bound[n] /\ AppliedTo(n)' = AppliedTo(n)
<1> USE DEF AppliedTo
<1>1. /\ Rows /\ Placed /\ version \in 0 .. Top
      /\ attempt \in [Later -> {"none", "backed_up", "applying", "completed", "blocked"}]
      /\ bound \in [Later -> 0 .. Len(dirs)] /\ base \in [Sequence -> -1 .. MaxWrites]
  BY DEF IInv, TypeOK
<1>2. CASE UNCHANGED <<version, attempt, bound, data, base>>
  BY <1>2
<1>3. CASE Reserve
  BY <1>1, <1>3 DEF Reserve
<1>4. CASE StartApplying
  <2>1. attempt[Target] # "none"
    BY <1>1, <1>4 DEF StartApplying, Go, Rows, Open
  <2> QED  BY <1>1, <1>4, <2>1 DEF StartApplying
<1>5. CASE Commit
  <2>1. /\ version' = Target /\ pc \in Applying /\ UNCHANGED <<bound, data>>
        /\ attempt' = [k \in Later |-> IF k = Target THEN "completed" ELSE attempt[k]]
        /\ base' = [base EXCEPT ![Target] = data]
    BY <1>5 DEF Commit, Go, Applying
  <2>2. attempt[n] # "none" /\ n <= Target /\ n \in Sequence
    BY <1>1, <2>1 DEF Rows, Later, Sequence, Target
  <2>3. CASE n = Target
    BY <1>1, <2>1, <2>2, <2>3 DEF Target, Sequence
  <2>4. CASE n # Target
    BY <1>1, <2>1, <2>2, <2>4 DEF Target, Sequence, Later
  <2> QED  BY <2>3, <2>4
<1>6. CASE BlockAttempt \/ FinalizeBlocked \/ ReconcileBlocked
  <2>1. MarkBlocked /\ (Target \in Later => attempt[Target] = "applying")
    BY <1>1, <1>6 DEF BlockAttempt, FinalizeBlocked, ReconcileBlocked, Go, Rows, Blocking
  <2> QED  BY <1>1, <2>1 DEF MarkBlocked
<1>7. CASE Use
  <2>1. UNCHANGED <<version, attempt, bound, base>> /\ attempt[n] # "none"
    BY <1>7 DEF Use
  <2>2. n <= version
    BY <1>1, <1>7, <2>1 DEF Use, Rows, Later, Target
  <2> QED  BY <2>1, <2>2
<1> QED
  BY <1>2, <1>3, <1>4, <1>5, <1>6, <1>7
     DEF Next, Migrate, Bootstrap, Claim, Apply, vars, database,
         AdmitBootstrap, CopyDatabase, SyncCopy, MakeJournal, FillJournal, SyncJournal,
         AdmitLater, Quarantine, Refuse, TakeOver, MakeDirectory, WriteOwner, CopyForAttempt,
         SyncForAttempt, LoseLease, SqlFails, MakeLatch, FillLatch, SyncLatch, UnlinkLatch,
         SyncUnlink, FindViolations, MakeEvidence, FillEvidence, SyncEvidence, PreflightFails,
         Expire, ExpireWhileRunning, Crash, PowerLoss

LEMMA SameBase ==
    ASSUME IInv, [Next]_vars, NEW n \in {1, 2}, base'[n] >= 0
    PROVE  \/ Commit /\ n = Target /\ base'[n] = data
           \/ base'[n] = base[n]
<1>1. base \in [Sequence -> -1 .. MaxWrites]
  BY DEF IInv, TypeOK
<1>2. CASE Commit
  BY <1>1, <1>2, TopAssumption DEF Commit, Sequence
<1>3. CASE UNCHANGED base
  BY <1>3
<1> QED
  BY <1>2, <1>3
     DEF Next, Migrate, Bootstrap, Claim, Apply, vars,
         AdmitBootstrap, CopyDatabase, SyncCopy, MakeJournal, FillJournal, SyncJournal,
         AdmitLater, Quarantine, Refuse, TakeOver, MakeDirectory, WriteOwner, CopyForAttempt,
         SyncForAttempt, Reserve, StartApplying, LoseLease, SqlFails, BlockAttempt,
         FinalizeBlocked, ReconcileBlocked, MarkBlocked, MakeLatch, FillLatch, SyncLatch,
         UnlinkLatch, SyncUnlink, FindViolations, MakeEvidence, FillEvidence, SyncEvidence,
         Use, PreflightFails, Expire, ExpireWhileRunning, Crash, PowerLoss

LEMMA KeptStep ==
    ASSUME IInv, [Next]_vars
    PROVE  Kept'
<1>1. JournalsStay /\ DirsStay
  BY FilesStay
<1>2. Kept /\ Copied
  BY DEF IInv
<1>3. ASSUME NEW n \in Later, attempt'[n] # "none"
      PROVE  LET d == dirs'[bound'[n]] IN
             /\ d.for = n /\ d.place = "backups" /\ d.backup = "durable"
             /\ d.holds = AppliedTo(n)'
  <2>1. CASE Reserve /\ n = Target
    <3>1. /\ bound'[n] = Len(dirs) /\ UNCHANGED <<version, data, dirs>> /\ pc = "later_saved"
      BY <2>1 DEF Reserve, Go, files, IInv, TypeOK
    <3>2. ~(n <= version)
      BY <2>1 DEF Target, IInv, TypeOK
    <3> QED  BY <1>2, <2>1, <3>1, <3>2 DEF Copied, MakingDirectory, AppliedTo
  <2>2. CASE attempt[n] # "none" /\ bound'[n] = bound[n] /\ AppliedTo(n)' = AppliedTo(n)
    BY <1>1, <1>2, <2>2 DEF DirsStay, SameBackup, Kept, RestorePoint, AppliedTo
  <2> QED  BY <1>3, <2>1, <2>2, SameBinding
<1>4. ASSUME NEW n \in {1, 2}, base'[n] >= 0
      PROVE  \E i \in DOMAIN journals' :
               OnDisk(journals'[i]) /\ journals'[i].holds = base'[n]
  <2>1. CASE Commit /\ n = Target /\ base'[n] = data
    <3>1. journals # <<>> /\ OnDisk(journals[Len(journals)]) /\ journals[Len(journals)].holds = data
      BY <1>2, <2>1 DEF Commit, Go, Copied, Journalled, Applying, Target, OnDisk, IInv, TypeOK
    <3>2. Len(journals) \in DOMAIN journals
      BY <3>1, FilesTyped, EmptySeq DEF IInv
    <3> QED  BY <1>1, <2>1, <3>1, <3>2 DEF JournalsStay
  <2>2. CASE base'[n] = base[n]
    <3>1. PICK i \in DOMAIN journals : OnDisk(journals[i]) /\ journals[i].holds = base[n]
      BY <1>2, <1>4, <2>2 DEF Kept, OnDisk
    <3> QED  BY <1>1, <2>2, <3>1 DEF JournalsStay
  <2> QED  BY <1>4, <2>1, <2>2, SameBase
<1> QED  BY <1>3, <1>4 DEF Kept, RestorePoint, AppliedTo, OnDisk

-----------------------------------------------------------------------------
(* The theorems.                                                            *)

LEMMA InvInit == Init => IInv
<1> SUFFICES ASSUME Init  PROVE IInv
  OBVIOUS
<1> USE TopAssumption, BoundsAssumption
<1>1. TypeOK
  <2>1. RowTypes
    <3>1. attempt \in [Later -> {"none", "backed_up", "applying", "completed", "blocked"}]
      BY DEF Init
    <3>2. status \in {"none", "ready", "blocked"} /\ (status = "none" <=> version < 2)
      BY DEF Init
    <3>3. leased \in BOOLEAN
      BY DEF Init
    <3>4. version \in 0 .. Top /\ data \in 0 .. MaxWrites
      BY DEF Init
    <3>5. bound \in [Later -> 0 .. Len(dirs)]
      BY EmptySeq DEF Init
    <3>6. base \in [Sequence -> -1 .. MaxWrites]
      BY DEF Init
    <3> QED  BY <3>1, <3>2, <3>3, <3>4, <3>5, <3>6 DEF RowTypes
  <2>2. ProcessTypes
    BY DEF Init, ProcessTypes, FileStates, Steps, NoLatch, NoCopy
  <2>3. BoundTypes /\ journals \in Seq(Journal) /\ dirs \in Seq(Directory)
    BY EmptySeq DEF Init, BoundTypes
  <2> QED  BY <2>1, <2>2, <2>3, TypesSplit
<1>2. Counted /\ Placed
  BY DEF Init, Counted, Placed, Journalling, Claiming, MakingDirectory
<1>3. Latched
  BY DEF Init, Latched, LatchTrue, ViolationHeld, NoFalseAlarm, NoLatch, Present, Journalling,
     Claiming, MakingDirectory, Applying, Blocking
<1>4. Rows
  BY DEF Init, Rows, Later, MakingDirectory, Applying, Blocking
<1>5. Copied
  BY DEF Init, Copied, Journalled, MakingDirectory, Applying
<1>6. Kept
  BY DEF Init, Kept, RestorePoint, Later, Sequence
<1> QED  BY <1>1, <1>2, <1>3, <1>4, <1>5, <1>6 DEF IInv

LEMMA InvStep == IInv /\ [Next]_vars => IInv'
BY TypesStep, BoundTypesStep, PlacedStep, LatchedStep, RowsStep, CopiedStep, KeptStep DEF IInv

\* Every step of an opening leaves the invariant behind, whatever the process
\* and the power have done before it.
THEOREM Invariant == Spec => []IInv
BY InvInit, InvStep, PTL DEF Spec

\* Database, files and process have the types that the module declares.
THEOREM TypeCorrect == Spec => []TypeOK
<1>1. IInv => TypeOK
  BY DEF IInv
<1> QED  BY <1>1, Invariant, PTL

\* A sequence that was applied, or is about to be, can be taken back to exactly
\* the data that it was applied to, after any deaths and power losses.
THEOREM RestorePointCorrect == Spec => []RestorePoint
<1>1. IInv => RestorePoint
  BY DEF IInv, Kept
<1> QED  BY <1>1, Invariant, PTL

\* The latch means what the next opening takes it for: violations that a check
\* found are never applied after all, and no database in order is locked.
THEOREM LatchTrueCorrect == Spec => []LatchTrue
<1>1. IInv => LatchTrue
  BY DEF IInv, Latched
<1> QED  BY <1>1, Invariant, PTL

\* No step touches the data, the schema or the attempts of a blocked database.
LEMMA BlockedStep ==
    IInv /\ [Next]_vars
      => (status = "blocked" => UNCHANGED <<version, status, attempt, bound, data>>)
<1> SUFFICES ASSUME IInv, [Next]_vars, status = "blocked"
             PROVE  UNCHANGED <<version, status, attempt, bound, data>>
  OBVIOUS
<1>1. pc = "off" /\ version >= 2 /\ ~StateReady
  BY DEF IInv, Placed, StateReady, TypeOK
<1>2. ~Verified
  BY <1>1 DEF Verified
<1> QED
  BY <1>1, <1>2
     DEF Next, Migrate, Bootstrap, Claim, Apply, vars, database, Go, Become,
         AdmitBootstrap, CopyDatabase, SyncCopy, MakeJournal, FillJournal, SyncJournal,
         AdmitLater, Quarantine, Refuse, TakeOver, MakeDirectory, WriteOwner, CopyForAttempt,
         SyncForAttempt, Reserve, StartApplying, LoseLease, SqlFails, BlockAttempt,
         FinalizeBlocked, ReconcileBlocked, MakeLatch, FillLatch, SyncLatch,
         UnlinkLatch, SyncUnlink, Commit, FindViolations, MakeEvidence, FillEvidence,
         SyncEvidence, Use, PreflightFails, Expire, ExpireWhileRunning, Crash, PowerLoss

\* A blocked database stays as it is until a person restores it.
THEOREM BlockedStaysCorrect == Spec => BlockedStays
BY Invariant, BlockedStep, PTL DEF Spec, BlockedStays
=============================================================================
