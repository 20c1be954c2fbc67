------------------------- MODULE EventOutboxProofs -------------------------
(****************************************************************************)
(* Proofs about EventOutbox, for any number of supervisors and readers, any *)
(* clocks and any bounds.                                                   *)
(****************************************************************************)
EXTENDS EventOutbox, TLAPS, SequenceTheorems

\* An append is under way only for a draft at the head of the queue, and its
\* event is built.  Nothing is queued before a session opens or a recovery
\* fails.  A supervisor that is off has nothing.
Book ==
    \A s \in Supervisor :
        /\ phase[s] # "idle" => waiting[s] # <<>> /\ sending[s] \in Event
        /\ st[s] \in {"off", "loaded", "checked", "acquired"} => waiting[s] = <<>>
        /\ st[s] = "off" => ~hosted[s] /\ expected[s] = 0 /\ mem[s] = <<>>

LEMMA InitType == Init => TypeOK /\ Book
<1> SUFFICES ASSUME Init PROVE TypeOK /\ Book
  OBVIOUS
<1>1. DbTypeOK
  <2>1. log \in Seq(Event) /\ logEpoch \in Seq(Nat) /\ Len(logEpoch) = Len(log)
    BY DEF Init
  <2>2. recovery \subseteq [base : Nat, epoch : 1..MaxEpoch, at : Clock]
    BY DEF Init
  <2>3. epoch \in 0..MaxEpoch /\ checkpoint \in Nat
    BY BoundsAssumption DEF Init
  <2>4. expired \in BOOLEAN
    BY DEF Init
  <2> QED
    BY <2>1, <2>2, <2>3, <2>4 DEF DbTypeOK
<1>2. SupTypeOK
  BY BoundsAssumption DEF Init, SupTypeOK, Status
<1>3. ReaderTypeOK
  BY DEF Init, ReaderTypeOK
<1>4. Book
  BY DEF Init, Book
<1> QED
  BY <1>1, <1>2, <1>3, <1>4 DEF TypeOK

\* What a queue is after an append settled.
LEMMA QueueTypes ==
    \A w \in Seq(Kinds) : w # <<>> =>
        /\ Head(w) \in Kinds /\ Tail(w) \in Seq(Kinds)
        /\ Append(Tail(w), "note") \in Seq(Kinds)
        /\ Append(Tail(w), "note") # <<>>
<1> SUFFICES ASSUME NEW w \in Seq(Kinds), w # <<>>
             PROVE  /\ Head(w) \in Kinds /\ Tail(w) \in Seq(Kinds)
                    /\ Append(Tail(w), "note") \in Seq(Kinds)
                    /\ Append(Tail(w), "note") # <<>>
  OBVIOUS
<1>1. Head(w) \in Kinds /\ Tail(w) \in Seq(Kinds)
  OBVIOUS
<1>2. "note" \in Kinds
  BY DEF Kinds
<1>3. \A t \in Seq(Kinds) : Append(t, "note") \in Seq(Kinds) /\ Append(t, "note") # <<>>
  BY <1>2, AppendProperties
<1> QED
  BY <1>1, <1>3

LEMMA KindsAre == "note" \in Kinds /\ "final" \in Kinds /\ "cancelled" \in Kinds
  BY DEF Kinds

\* What queueing a draft does to the queues.
Queued(s) ==
    /\ waiting' \in [Supervisor -> Seq(Kinds)]
    /\ waiting'[s] # <<>>
    /\ \A t \in Supervisor : t # s => waiting'[t] = waiting[t]

LEMMA EnqueueQueues ==
    ASSUME TypeOK, NEW s \in Supervisor, NEW kind \in Kinds, Enqueue(s, kind)
    PROVE  Queued(s)
<1>1. waiting[s] \in Seq(Kinds)
  BY DEF TypeOK, SupTypeOK
<1>2. Append(waiting[s], kind) \in Seq(Kinds) /\ Append(waiting[s], kind) # <<>>
  BY <1>1, AppendProperties
<1>3. waiting' = [waiting EXCEPT ![s] = Append(waiting[s], kind)]
  BY DEF Enqueue
<1> QED
  BY <1>2, <1>3 DEF TypeOK, SupTypeOK, Queued

\* What the rejection of an append does.
Settled(s) ==
    /\ waiting' \in [Supervisor -> Seq(Kinds)]
    /\ st' \in [Supervisor -> Status]
    /\ phase' = [phase EXCEPT ![s] = "idle"]
    /\ sending' = [sending EXCEPT ![s] = None]
    /\ \/ st'[s] = st[s] /\ st[s] \notin {"opening", "off", "loaded", "checked", "acquired"}
       \/ st'[s] = "failed"
    /\ \A t \in Supervisor : t # s => waiting'[t] = waiting[t] /\ st'[t] = st[t]

LEMMA RejectedSettles ==
    ASSUME TypeOK, Book, NEW s \in Supervisor, Rejected(s), waiting[s] # <<>>
    PROVE  Settled(s)
<1>1. waiting[s] \in Seq(Kinds)
  BY DEF TypeOK, SupTypeOK
<1>2. /\ Tail(waiting[s]) \in Seq(Kinds)
      /\ Append(Tail(waiting[s]), "note") \in Seq(Kinds)
  BY <1>1, QueueTypes
<1>3. waiting \in [Supervisor -> Seq(Kinds)] /\ st \in [Supervisor -> Status]
  BY DEF TypeOK, SupTypeOK
<1>4. st[s] \notin {"off", "loaded", "checked", "acquired"}
  BY DEF Book
<1>5. "failed" \in Status
  BY DEF Status
<1>6. phase' = [phase EXCEPT ![s] = "idle"] /\ sending' = [sending EXCEPT ![s] = None]
  BY DEF Rejected
<1>7. \/ st[s] # "opening" /\ Dropped(s)
      \/ Ended(s)
  BY DEF Rejected
<1>8. CASE st[s] # "opening" /\ Dropped(s)
  BY <1>2, <1>3, <1>4, <1>6, <1>8 DEF Dropped, Settled
<1>9. CASE Ended(s)
  BY <1>2, <1>3, <1>5, <1>6, <1>9 DEF Ended, Settled
<1> QED
  BY <1>7, <1>8, <1>9

LEMMA TypeWrite ==
    ASSUME TypeOK, Book, NEW s \in Supervisor, Write(s)
    PROVE  TypeOK' /\ Book'
<1>1. PICK at \in Stamps[s] :
        LET e == [kind |-> Head(waiting[s]), at |-> at] IN
        /\ waiting[s] # <<>>
        /\ \/ UNCHANGED <<log, logEpoch>>
           \/ log' = Append(log, e) /\ logEpoch' = Append(logEpoch, LoadedEpoch(s))
        /\ phase' = [phase EXCEPT ![s] = "committed"]
        /\ sending' = [sending EXCEPT ![s] = e]
  BY DEF Write
<1> DEFINE e == [kind |-> Head(waiting[s]), at |-> at]
<1>2. UNCHANGED <<epoch, expired, checkpoint, recovery, st, hosted, mem, waiting,
                  own, base, expected, readerVars>>
  BY DEF Write
<1>3. e \in Event
  <2>1. waiting[s] \in Seq(Kinds)
    BY DEF TypeOK, SupTypeOK
  <2>2. Head(waiting[s]) \in Kinds
    BY <1>1, <2>1, QueueTypes
  <2>3. at \in Clock
    BY StampsAssumption
  <2> QED
    BY <2>2, <2>3 DEF Event
<1>4. log' \in Seq(Event) /\ logEpoch' \in Seq(Nat) /\ Len(logEpoch') = Len(log')
  <2>1. log \in Seq(Event) /\ logEpoch \in Seq(Nat) /\ Len(logEpoch) = Len(log)
    BY DEF TypeOK, DbTypeOK
  <2>2. LoadedEpoch(s) \in Nat
    BY DEF TypeOK, DbTypeOK, SupTypeOK, LoadedEpoch
  <2>3. /\ Append(log, e) \in Seq(Event) /\ Len(Append(log, e)) = Len(log) + 1
        /\ Append(logEpoch, LoadedEpoch(s)) \in Seq(Nat)
        /\ Len(Append(logEpoch, LoadedEpoch(s))) = Len(logEpoch) + 1
    BY <1>3, <2>1, <2>2, AppendProperties
  <2> QED
    BY <1>1, <2>1, <2>3
<1>5. DbTypeOK'
  BY <1>2, <1>4 DEF TypeOK, DbTypeOK
<1>6. SupTypeOK'
  BY <1>1, <1>2, <1>3 DEF TypeOK, SupTypeOK
<1>7. ReaderTypeOK'
  BY <1>2 DEF TypeOK, ReaderTypeOK, readerVars
<1>8. Book'
  BY <1>1, <1>2, <1>3 DEF TypeOK, SupTypeOK, Book
<1> QED
  BY <1>5, <1>6, <1>7, <1>8 DEF TypeOK

LEMMA TypeRefuse ==
    ASSUME TypeOK, Book, NEW s \in Supervisor, Refuse(s)
    PROVE  TypeOK' /\ Book'
<1>0. Rejected(s) /\ waiting[s] # <<>>
  BY DEF Refuse, Book
<1>9. Settled(s)
  BY <1>0, RejectedSettles
<1>1. DbTypeOK'
  BY BoundsAssumption DEF TypeOK, DbTypeOK, SupTypeOK, Refuse, dbVars
<1>2. SupTypeOK'
  BY <1>9 DEF TypeOK, SupTypeOK, Settled, Refuse
<1>3. ReaderTypeOK'
  BY DEF TypeOK, ReaderTypeOK, Refuse, readerVars
<1>4. Book'
  BY <1>9 DEF TypeOK, SupTypeOK, Book, Settled, Refuse
<1> QED
  BY <1>1, <1>2, <1>3, <1>4 DEF TypeOK

LEMMA TypePublish ==
    ASSUME TypeOK, Book, NEW s \in Supervisor, Publish(s)
    PROVE  TypeOK' /\ Book'
<1>1. DbTypeOK'
  BY BoundsAssumption DEF TypeOK, DbTypeOK, SupTypeOK, Publish, dbVars
<1>2. SupTypeOK'
  BY QueueTypes, BoundsAssumption DEF TypeOK, DbTypeOK, SupTypeOK, Book, Status, Publish, supVars, outboxVars
<1>3. ReaderTypeOK'
  <2> DEFINE n == Len(mem[s]) + 1
             behind == {r \in Reader : conn[r] = "open" /\ via[r] = s /\ cursor[r] < n}
  <2>1. n \in Nat /\ sending[s] \in Event
    BY DEF TypeOK, SupTypeOK, Book, Publish
  <2>2. cursor' = [r \in Reader |-> IF r \in behind THEN n ELSE cursor[r]]
    BY DEF Publish, Delivered
  <2>3. seen' = [r \in Reader |->
                    IF r \in behind THEN seen[r] \cup {<<n, sending[s]>>} ELSE seen[r]]
    BY DEF Publish, Delivered
  <2>4. cursor' \in [Reader -> Nat]
    BY <2>1, <2>2 DEF TypeOK, ReaderTypeOK
  <2>5. seen' \in [Reader -> SUBSET (Nat \X Event)]
    BY <2>1, <2>3 DEF TypeOK, ReaderTypeOK
  <2> QED
    BY <2>4, <2>5 DEF TypeOK, ReaderTypeOK, Publish
<1>4. Book'
  BY QueueTypes DEF TypeOK, SupTypeOK, Book, Publish, supVars, outboxVars
<1> QED
  BY <1>1, <1>2, <1>3, <1>4 DEF TypeOK

LEMMA TypeV1WriteFails ==
    ASSUME TypeOK, Book, NEW s \in Supervisor, V1WriteFails(s)
    PROVE  TypeOK' /\ Book'
<1>0. Rejected(s) /\ waiting[s] # <<>>
  BY DEF V1WriteFails, Book
<1>9. Settled(s)
  BY <1>0, RejectedSettles
<1>1. DbTypeOK'
  BY BoundsAssumption DEF TypeOK, DbTypeOK, SupTypeOK, V1WriteFails, dbVars
<1>2. SupTypeOK'
  BY <1>9 DEF TypeOK, SupTypeOK, Settled, V1WriteFails
<1>3. ReaderTypeOK'
  BY DEF TypeOK, ReaderTypeOK, V1WriteFails, readerVars
<1>4. Book'
  BY <1>9 DEF TypeOK, SupTypeOK, Book, Settled, V1WriteFails
<1> QED
  BY <1>1, <1>2, <1>3, <1>4 DEF TypeOK

LEMMA TypePush ==
    ASSUME TypeOK, Book, NEW s \in Supervisor, Push(s)
    PROVE  TypeOK' /\ Book'
<1>1. DbTypeOK'
  BY BoundsAssumption DEF TypeOK, DbTypeOK, SupTypeOK, Push, dbVars
<1>2. SupTypeOK'
  BY QueueTypes, BoundsAssumption DEF TypeOK, DbTypeOK, SupTypeOK, Book, Status, Push, supVars, outboxVars
<1>3. ReaderTypeOK'
  BY DEF TypeOK, ReaderTypeOK, Push, readerVars
<1>4. Book'
  BY QueueTypes DEF TypeOK, SupTypeOK, Book, Push, supVars, outboxVars
<1> QED
  BY <1>1, <1>2, <1>3, <1>4 DEF TypeOK

LEMMA TypeStart ==
    ASSUME TypeOK, Book, NEW s \in Supervisor, Start(s)
    PROVE  TypeOK' /\ Book'
<1>9. Queued(s)
  BY KindsAre, EnqueueQueues DEF Start
<1>8. waiting' \in [Supervisor -> Seq(Kinds)]
  BY <1>9 DEF Queued, TypeOK, SupTypeOK
<1>1. DbTypeOK'
  BY BoundsAssumption DEF TypeOK, DbTypeOK, SupTypeOK, Start, dbVars
<1>2. SupTypeOK'
  <2>1. 1 \in 0..MaxEpoch /\ "opening" \in Status
    BY BoundsAssumption DEF Status
  <2> QED
    BY <1>8, <2>1 DEF TypeOK, SupTypeOK, Start
<1>3. ReaderTypeOK'
  BY DEF TypeOK, ReaderTypeOK, Start, readerVars
<1>4. Book'
  BY <1>9 DEF TypeOK, SupTypeOK, Book, Queued, Start, outboxVars
<1> QED
  BY <1>1, <1>2, <1>3, <1>4 DEF TypeOK

LEMMA TypeReport ==
    ASSUME TypeOK, Book, NEW s \in Supervisor, NEW kind \in Kinds, Report(s, kind)
    PROVE  TypeOK' /\ Book'
<1>9. Queued(s)
  BY KindsAre, EnqueueQueues DEF Report
<1>8. waiting' \in [Supervisor -> Seq(Kinds)]
  BY <1>9 DEF Queued, TypeOK, SupTypeOK
<1>1. DbTypeOK'
  BY BoundsAssumption DEF TypeOK, DbTypeOK, SupTypeOK, Report, dbVars
<1>2. SupTypeOK'
  BY <1>8, BoundsAssumption DEF TypeOK, DbTypeOK, SupTypeOK, Status, Report, outboxVars
<1>3. ReaderTypeOK'
  BY DEF TypeOK, ReaderTypeOK, Report, readerVars
<1>4. Book'
  BY <1>9 DEF TypeOK, SupTypeOK, Book, Queued, Report, outboxVars
<1> QED
  BY <1>1, <1>2, <1>3, <1>4 DEF TypeOK

LEMMA TypeInterrupt ==
    ASSUME TypeOK, Book, NEW s \in Supervisor, Interrupt(s)
    PROVE  TypeOK' /\ Book'
<1>9. Queued(s)
  BY KindsAre, EnqueueQueues DEF Interrupt
<1>8. waiting' \in [Supervisor -> Seq(Kinds)]
  BY <1>9 DEF Queued, TypeOK, SupTypeOK
<1>1. DbTypeOK'
  BY BoundsAssumption DEF TypeOK, DbTypeOK, SupTypeOK, Interrupt, dbVars
<1>2. SupTypeOK'
  BY <1>8, BoundsAssumption DEF TypeOK, DbTypeOK, SupTypeOK, Status, Interrupt, outboxVars
<1>3. ReaderTypeOK'
  BY DEF TypeOK, ReaderTypeOK, Interrupt, readerVars
<1>4. Book'
  BY <1>9 DEF TypeOK, SupTypeOK, Book, Queued, Interrupt, outboxVars
<1> QED
  BY <1>1, <1>2, <1>3, <1>4 DEF TypeOK

LEMMA TypeCancel ==
    ASSUME TypeOK, Book, NEW s \in Supervisor, Cancel(s)
    PROVE  TypeOK' /\ Book'
<1>9. Queued(s)
  BY KindsAre, EnqueueQueues DEF Cancel
<1>8. waiting' \in [Supervisor -> Seq(Kinds)]
  BY <1>9 DEF Queued, TypeOK, SupTypeOK
<1>1. DbTypeOK'
  BY BoundsAssumption DEF TypeOK, DbTypeOK, SupTypeOK, Cancel, dbVars
<1>2. SupTypeOK'
  BY <1>8, BoundsAssumption DEF TypeOK, DbTypeOK, SupTypeOK, Status, Cancel, outboxVars
<1>3. ReaderTypeOK'
  BY DEF TypeOK, ReaderTypeOK, Cancel, readerVars
<1>4. Book'
  BY <1>9 DEF TypeOK, SupTypeOK, Book, Queued, Cancel, outboxVars
<1> QED
  BY <1>1, <1>2, <1>3, <1>4 DEF TypeOK

LEMMA TypeSaveCheckpoint ==
    ASSUME TypeOK, Book, NEW s \in Supervisor, SaveCheckpoint(s)
    PROVE  TypeOK' /\ Book'
<1>9. Queued(s)
  BY KindsAre, EnqueueQueues DEF SaveCheckpoint
<1>8. waiting' \in [Supervisor -> Seq(Kinds)]
  BY <1>9 DEF Queued, TypeOK, SupTypeOK
<1>1. DbTypeOK'
  BY BoundsAssumption DEF TypeOK, DbTypeOK, SupTypeOK, SaveCheckpoint, dbVars
<1>2. SupTypeOK'
  BY <1>8, BoundsAssumption DEF TypeOK, DbTypeOK, SupTypeOK, Status, SaveCheckpoint, outboxVars
<1>3. ReaderTypeOK'
  BY DEF TypeOK, ReaderTypeOK, SaveCheckpoint, readerVars
<1>4. Book'
  BY <1>9 DEF TypeOK, SupTypeOK, Book, Queued, SaveCheckpoint, outboxVars
<1> QED
  BY <1>1, <1>2, <1>3, <1>4 DEF TypeOK

LEMMA TypeRecoverLoad ==
    ASSUME TypeOK, Book, NEW s \in Supervisor, RecoverLoad(s)
    PROVE  TypeOK' /\ Book'
<1>1. DbTypeOK'
  BY BoundsAssumption DEF TypeOK, DbTypeOK, SupTypeOK, RecoverLoad, dbVars
<1>2. SupTypeOK'
  BY QueueTypes, BoundsAssumption DEF TypeOK, DbTypeOK, SupTypeOK, Book, Status, RecoverLoad, LoadedEpoch, supVars, outboxVars
<1>3. ReaderTypeOK'
  BY DEF TypeOK, ReaderTypeOK, RecoverLoad, readerVars
<1>4. Book'
  BY QueueTypes DEF TypeOK, SupTypeOK, Book, RecoverLoad, LoadedEpoch, supVars, outboxVars
<1> QED
  BY <1>1, <1>2, <1>3, <1>4 DEF TypeOK

LEMMA TypeRecoverReread ==
    ASSUME TypeOK, Book, NEW s \in Supervisor, RecoverReread(s)
    PROVE  TypeOK' /\ Book'
<1>9. Queued(s) \/ UNCHANGED waiting
  BY KindsAre, EnqueueQueues DEF RecoverReread, RecoveryFails
<1>8. waiting' \in [Supervisor -> Seq(Kinds)]
  BY <1>9 DEF Queued, TypeOK, SupTypeOK
<1>1. DbTypeOK'
  BY BoundsAssumption DEF TypeOK, DbTypeOK, SupTypeOK, RecoverReread, dbVars
<1>2. SupTypeOK'
  BY <1>8, BoundsAssumption DEF TypeOK, DbTypeOK, SupTypeOK, Status, RecoverReread, RecoveryFails, outboxVars
<1>3. ReaderTypeOK'
  BY DEF TypeOK, ReaderTypeOK, RecoverReread, readerVars
<1>4. Book'
  BY <1>9 DEF TypeOK, SupTypeOK, Book, Queued, RecoverReread, RecoveryFails, outboxVars
<1> QED
  BY <1>1, <1>2, <1>3, <1>4 DEF TypeOK

LEMMA TypeRecoverAcquire ==
    ASSUME TypeOK, Book, NEW s \in Supervisor, NEW at \in Stamps[s], RecoverAcquire(s, at)
    PROVE  TypeOK' /\ Book'
<1>1. DbTypeOK'
  <2> DEFINE row == [base |-> base[s], epoch |-> own[s] + 1, at |-> at]
  <2>1. own[s] + 1 \in 1..MaxEpoch
    BY BoundsAssumption DEF TypeOK, SupTypeOK, RecoverAcquire
  <2>2. row \in [base : Nat, epoch : 1..MaxEpoch, at : Clock]
    BY <2>1, StampsAssumption DEF TypeOK, SupTypeOK
  <2>3. \/ UNCHANGED <<epoch, expired, checkpoint, recovery>>
        \/ /\ epoch' = own[s] + 1 /\ expired' = FALSE /\ checkpoint' = checkpoint + 1
           /\ recovery' = recovery \cup {row}
    BY DEF RecoverAcquire
  <2>4. /\ epoch \in 0..MaxEpoch /\ expired \in BOOLEAN /\ checkpoint \in Nat
        /\ recovery \subseteq [base : Nat, epoch : 1..MaxEpoch, at : Clock]
    BY DEF TypeOK, DbTypeOK
  <2>5. epoch' \in 0..MaxEpoch /\ checkpoint' \in Nat
    BY <2>1, <2>3, <2>4, BoundsAssumption
  <2>6. expired' \in BOOLEAN
    BY <2>3, <2>4
  <2>7. recovery' \subseteq [base : Nat, epoch : 1..MaxEpoch, at : Clock]
    BY <2>2, <2>3, <2>4
  <2> QED
    BY <2>5, <2>6, <2>7 DEF TypeOK, DbTypeOK, RecoverAcquire
<1>2. SupTypeOK'
  BY QueueTypes, BoundsAssumption DEF TypeOK, DbTypeOK, SupTypeOK, Book, Status, RecoverAcquire, supVars, outboxVars
<1>3. ReaderTypeOK'
  BY DEF TypeOK, ReaderTypeOK, RecoverAcquire, readerVars
<1>4. Book'
  BY QueueTypes DEF TypeOK, SupTypeOK, Book, RecoverAcquire, supVars, outboxVars
<1> QED
  BY <1>1, <1>2, <1>3, <1>4 DEF TypeOK

LEMMA TypeRecoverConflict ==
    ASSUME TypeOK, Book, NEW s \in Supervisor, RecoverConflict(s)
    PROVE  TypeOK' /\ Book'
<1>9. Queued(s)
  BY KindsAre, EnqueueQueues DEF RecoverConflict, RecoveryFails
<1>8. waiting' \in [Supervisor -> Seq(Kinds)]
  BY <1>9 DEF Queued, TypeOK, SupTypeOK
<1>1. DbTypeOK'
  BY BoundsAssumption DEF TypeOK, DbTypeOK, SupTypeOK, RecoverConflict, dbVars
<1>2. SupTypeOK'
  BY <1>8, BoundsAssumption DEF TypeOK, DbTypeOK, SupTypeOK, Status, RecoverConflict, RecoveryFails, outboxVars
<1>3. ReaderTypeOK'
  BY DEF TypeOK, ReaderTypeOK, RecoverConflict, readerVars
<1>4. Book'
  BY <1>9 DEF TypeOK, SupTypeOK, Book, Queued, RecoverConflict, RecoveryFails, outboxVars
<1> QED
  BY <1>1, <1>2, <1>3, <1>4 DEF TypeOK

LEMMA TypeRecoverBind ==
    ASSUME TypeOK, Book, NEW s \in Supervisor, RecoverBind(s)
    PROVE  TypeOK' /\ Book'
<1>9. Queued(s)
  BY KindsAre, EnqueueQueues DEF RecoverBind, RecoveryFails
<1>8. waiting' \in [Supervisor -> Seq(Kinds)]
  BY <1>9 DEF Queued, TypeOK, SupTypeOK
<1>1. DbTypeOK'
  BY BoundsAssumption DEF TypeOK, DbTypeOK, SupTypeOK, RecoverBind, dbVars
<1>2. SupTypeOK'
  <2>1. own' \in [Supervisor -> 0..MaxEpoch]
    BY DEF TypeOK, DbTypeOK, SupTypeOK, RecoverBind
  <2>2. st' \in [Supervisor -> Status]
    <3>1. \/ st' = [st EXCEPT ![s] = "opening"]
          \/ st' = [st EXCEPT ![s] = "failed"]
      BY DEF RecoverBind, RecoveryFails
    <3> QED
      BY <3>1 DEF TypeOK, SupTypeOK, Status
  <2> QED
    BY <1>8, <2>1, <2>2 DEF TypeOK, SupTypeOK, RecoverBind
<1>3. ReaderTypeOK'
  BY DEF TypeOK, ReaderTypeOK, RecoverBind, readerVars
<1>4. Book'
  BY <1>9 DEF TypeOK, SupTypeOK, Book, Queued, RecoverBind, RecoveryFails, outboxVars
<1> QED
  BY <1>1, <1>2, <1>3, <1>4 DEF TypeOK

LEMMA TypeRelease ==
    ASSUME TypeOK, Book, NEW s \in Supervisor, Release(s)
    PROVE  TypeOK' /\ Book'
<1>1. DbTypeOK'
  BY BoundsAssumption DEF TypeOK, DbTypeOK, SupTypeOK, Release, dbVars
<1>2. SupTypeOK'
  BY QueueTypes, BoundsAssumption DEF TypeOK, DbTypeOK, SupTypeOK, Book, Status, Release, supVars, outboxVars
<1>3. ReaderTypeOK'
  BY DEF TypeOK, ReaderTypeOK, Release, readerVars
<1>4. Book'
  BY QueueTypes DEF TypeOK, SupTypeOK, Book, Release, supVars, outboxVars
<1> QED
  BY <1>1, <1>2, <1>3, <1>4 DEF TypeOK

LEMMA TypeCrash ==
    ASSUME TypeOK, Book, NEW s \in Supervisor, Crash(s)
    PROVE  TypeOK' /\ Book'
<1>1. DbTypeOK'
  BY BoundsAssumption DEF TypeOK, DbTypeOK, SupTypeOK, Crash, dbVars
<1>2. SupTypeOK'
  BY QueueTypes, BoundsAssumption DEF TypeOK, DbTypeOK, SupTypeOK, Book, Status, Crash, supVars, outboxVars
<1>3. ReaderTypeOK'
  BY DEF TypeOK, ReaderTypeOK, Crash, readerVars
<1>4. Book'
  BY QueueTypes DEF TypeOK, SupTypeOK, Book, Crash, supVars, outboxVars
<1> QED
  BY <1>1, <1>2, <1>3, <1>4 DEF TypeOK

LEMMA TypeRepair ==
    ASSUME TypeOK, Book, NEW s \in Supervisor, Repair(s)
    PROVE  TypeOK' /\ Book'
<1>9. Queued(s) \/ UNCHANGED waiting
  BY KindsAre, EnqueueQueues DEF Repair
<1>8. waiting' \in [Supervisor -> Seq(Kinds)]
  BY <1>9 DEF Queued, TypeOK, SupTypeOK
<1>1. DbTypeOK'
  BY BoundsAssumption DEF TypeOK, DbTypeOK, SupTypeOK, Repair, dbVars
<1>2. SupTypeOK'
  BY <1>8, BoundsAssumption DEF TypeOK, DbTypeOK, SupTypeOK, Status, Repair, outboxVars
<1>3. ReaderTypeOK'
  BY DEF TypeOK, ReaderTypeOK, Repair, readerVars
<1>4. Book'
  BY <1>9 DEF TypeOK, SupTypeOK, Book, Queued, Repair, outboxVars
<1> QED
  BY <1>1, <1>2, <1>3, <1>4 DEF TypeOK

LEMMA TypeRepairDone ==
    ASSUME TypeOK, Book, NEW s \in Supervisor, RepairDone(s)
    PROVE  TypeOK' /\ Book'
<1>1. DbTypeOK'
  BY BoundsAssumption DEF TypeOK, DbTypeOK, SupTypeOK, RepairDone, dbVars
<1>2. SupTypeOK'
  BY QueueTypes, BoundsAssumption DEF TypeOK, DbTypeOK, SupTypeOK, Book, Status, RepairDone, supVars, outboxVars
<1>3. ReaderTypeOK'
  BY DEF TypeOK, ReaderTypeOK, RepairDone, readerVars
<1>4. Book'
  BY QueueTypes DEF TypeOK, SupTypeOK, Book, RepairDone, supVars, outboxVars
<1> QED
  BY <1>1, <1>2, <1>3, <1>4 DEF TypeOK

LEMMA TypeReader ==
    ASSUME TypeOK, Book,
           FenceExpires \/ \E r \in Reader : Close(r) \/ \E s \in Supervisor : Open(r, s)
    PROVE  TypeOK' /\ Book'
<1>1. ASSUME FenceExpires PROVE TypeOK' /\ Book'
  BY <1>1 DEF FenceExpires, TypeOK, DbTypeOK, SupTypeOK, ReaderTypeOK, Book, supVars,
              outboxVars, readerVars
<1>2. ASSUME NEW r \in Reader, Close(r) PROVE TypeOK' /\ Book'
  BY <1>2 DEF Close, TypeOK, DbTypeOK, SupTypeOK, ReaderTypeOK, Book, dbVars, supVars, outboxVars
<1>3. ASSUME NEW r \in Reader, NEW s \in Supervisor, Open(r, s) PROVE TypeOK' /\ Book'
  <2>1. {<<i, log[i]>> : i \in (ReplayFrom(r) + 1)..Len(log)} \subseteq Nat \X Event
    <3>1. ReplayFrom(r) \in Nat
      BY DEF ReplayFrom, TypeOK, ReaderTypeOK
    <3>2. \A i \in (ReplayFrom(r) + 1)..Len(log) : i \in Nat /\ log[i] \in Event
      BY <3>1 DEF TypeOK, DbTypeOK
    <3> QED
      BY <3>2
  <2>2. ReaderTypeOK'
    <3>1. seen' \in [Reader -> SUBSET (Nat \X Event)]
      BY <1>3, <2>1 DEF Open, TypeOK, ReaderTypeOK
    <3>2. cursor' \in [Reader -> Nat]
      BY <1>3 DEF Open, TypeOK, DbTypeOK, ReaderTypeOK
    <3> QED
      BY <1>3, <3>1, <3>2 DEF Open, TypeOK, ReaderTypeOK
  <2>3. DbTypeOK'
    BY <1>3 DEF Open, TypeOK, DbTypeOK, dbVars
  <2>4. SupTypeOK'
    BY <1>3 DEF Open, TypeOK, DbTypeOK, SupTypeOK, LoadedEpoch, outboxVars
  <2>5. Book'
    BY <1>3 DEF Open, TypeOK, SupTypeOK, Book, LoadedEpoch, outboxVars
  <2> QED
    BY <2>2, <2>3, <2>4, <2>5 DEF TypeOK
<1> QED
  BY <1>1, <1>2, <1>3

LEMMA TypeStep == TypeOK /\ Book /\ [Next]_vars => TypeOK' /\ Book'
<1> SUFFICES ASSUME TypeOK, Book, [Next]_vars PROVE TypeOK' /\ Book'
  OBVIOUS
<1>1. CASE Next
  BY <1>1, TypeWrite, TypeRefuse, TypePublish, TypeV1WriteFails, TypePush, TypeStart,
     TypeReport, TypeInterrupt, TypeCancel, TypeSaveCheckpoint, TypeRecoverLoad,
     TypeRecoverReread, TypeRecoverAcquire, TypeRecoverConflict, TypeRecoverBind,
     TypeRelease, TypeCrash, TypeRepair, TypeRepairDone, TypeReader
     DEF Next, SendHead, Recover
<1>2. CASE UNCHANGED vars
  BY <1>2 DEF vars, dbVars, supVars, outboxVars, readerVars, TypeOK, DbTypeOK, SupTypeOK,
              ReaderTypeOK, Book
<1> QED
  BY <1>1, <1>2

\* Every variable keeps its type, from the start and across every failure.
THEOREM TypeCorrect == Spec => []TypeOK
<1>1. Init => TypeOK /\ Book
  BY InitType
<1>2. (TypeOK /\ Book) /\ [Next]_vars => (TypeOK /\ Book)'
  BY TypeStep
<1>3. TypeOK /\ Book => TypeOK
  OBVIOUS
<1> QED
  BY <1>1, <1>2, <1>3, PTL DEF Spec

-----------------------------------------------------------------------------
(* Epochs.                                                                  *)

\* A supervisor writes under its own epoch, or under one that is over; only
\* between the two halves of a recovery is it ahead of its own binding.
OwnsExpected(s) ==
    st[s] # "off" =>
        /\ own[s] \in 1..epoch /\ expected[s] \in 1..epoch
        /\ \/ st[s] # "acquired" /\ expected[s] = own[s]
           \/ /\ expected[s] = own[s] + 1
              /\ st[s] = "acquired" \/ expected[s] < epoch

\* Nothing durable belongs to an epoch that has not begun.
DbEpochs ==
    /\ \A i \in 1..Len(logEpoch) : logEpoch[i] \in 1..epoch
    /\ checkpoint > 0 => epoch > 0
    /\ \A row \in recovery : row.epoch <= epoch

EpochInv == DbEpochs /\ \A s \in Supervisor : OwnsExpected(s)

\* A row is inserted in the current epoch, by a supervisor that owns it.
LEMMA InsertIsOwned ==
    ASSUME TypeOK, Book, EpochInv, NEW s \in Supervisor, waiting[s] # <<>>, LoadedEpoch(s) = epoch
    PROVE  own[s] = epoch /\ epoch > 0
  BY DEF TypeOK, DbTypeOK, SupTypeOK, Book, EpochInv, OwnsExpected, LoadedEpoch

LEMMA EpochInit == Init => EpochInv
  BY DEF Init, EpochInv, DbEpochs, OwnsExpected

\* Only Write changes the log, and few actions change the epochs.
LEMMA LogStep ==
    ASSUME [Next]_vars
    PROVE  UNCHANGED <<log, logEpoch>> \/ \E s \in Supervisor : Write(s)
<1>1. ASSUME NEW s \in Supervisor, SendHead(s) PROVE UNCHANGED <<log, logEpoch>> \/ Write(s)
  BY <1>1 DEF SendHead, Refuse, Publish, V1WriteFails, Push, dbVars
<1>2. ASSUME NEW s \in Supervisor, Recover(s) PROVE UNCHANGED <<log, logEpoch>>
  BY <1>2 DEF Recover, RecoverLoad, RecoverReread, RecoverAcquire, RecoverConflict,
              RecoverBind, dbVars
<1>3. ASSUME NEW s \in Supervisor,
             \/ Start(s) \/ \E kind \in Kinds : Report(s, kind)
             \/ Interrupt(s) \/ Cancel(s) \/ SaveCheckpoint(s) \/ Release(s) \/ Crash(s)
             \/ Repair(s) \/ RepairDone(s)
      PROVE  UNCHANGED <<log, logEpoch>>
  BY <1>3 DEF Start, Report, Interrupt, Cancel, SaveCheckpoint, Release, Crash, Repair,
              RepairDone, dbVars
<1>4. ASSUME \/ FenceExpires \/ UNCHANGED vars
             \/ \E r \in Reader : Close(r) \/ \E s \in Supervisor : Open(r, s)
      PROVE  UNCHANGED <<log, logEpoch>>
  BY <1>4 DEF FenceExpires, Open, Close, vars, dbVars
<1> QED
  BY <1>1, <1>2, <1>3, <1>4 DEF Next

LEMMA NextKeepsEpochs ==
    ASSUME [Next]_vars
    PROVE  \/ UNCHANGED <<logEpoch, epoch, checkpoint, recovery>>
           \/ \E s \in Supervisor : Write(s) \/ Start(s) \/ SaveCheckpoint(s)
                                    \/ \E at \in Stamps[s] : RecoverAcquire(s, at)
<1> DEFINE Same == UNCHANGED <<logEpoch, epoch, checkpoint, recovery>>
<1>1. ASSUME NEW s \in Supervisor, SendHead(s) PROVE Same \/ Write(s)
  BY <1>1 DEF SendHead, Refuse, Publish, V1WriteFails, Push, dbVars
<1>2. ASSUME NEW s \in Supervisor, Recover(s)
      PROVE  Same \/ \E at \in Stamps[s] : RecoverAcquire(s, at)
  BY <1>2 DEF Recover, RecoverLoad, RecoverReread, RecoverConflict, RecoverBind, dbVars
<1>3. ASSUME NEW s \in Supervisor,
             \/ Start(s) \/ \E kind \in Kinds : Report(s, kind)
             \/ Interrupt(s) \/ Cancel(s) \/ SaveCheckpoint(s) \/ Release(s) \/ Crash(s)
             \/ Repair(s) \/ RepairDone(s)
      PROVE  Same \/ Start(s) \/ SaveCheckpoint(s)
  BY <1>3 DEF Report, Interrupt, Cancel, Release, Crash, Repair, RepairDone, dbVars
<1>4. ASSUME \/ FenceExpires \/ UNCHANGED vars
             \/ \E r \in Reader : Close(r) \/ \E s \in Supervisor : Open(r, s)
      PROVE  Same
  BY <1>4 DEF FenceExpires, Open, Close, vars, dbVars
<1> QED
  BY <1>1, <1>2, <1>3, <1>4 DEF Next

LEMMA DbEpochsStep ==
    ASSUME TypeOK, Book, EpochInv, [Next]_vars
    PROVE  epoch' \in Nat /\ epoch <= epoch' /\ DbEpochs'
<1> DEFINE Goal == epoch' \in Nat /\ epoch <= epoch' /\ DbEpochs'
<1>1. ASSUME NEW s \in Supervisor, Write(s)
      PROVE  Goal
  <2>1. epoch' = epoch /\ checkpoint' = checkpoint /\ recovery' = recovery
    BY <1>1 DEF Write
  <2>2. CASE logEpoch' = logEpoch
    BY <2>1, <2>2 DEF TypeOK, DbTypeOK, EpochInv, DbEpochs
  <2>3. CASE logEpoch' # logEpoch
    <3>1. waiting[s] # <<>> /\ LoadedEpoch(s) = epoch /\ logEpoch' = Append(logEpoch, LoadedEpoch(s))
      BY <1>1, <2>3 DEF Write, MayInsert
    <3>2. epoch \in Nat /\ epoch > 0
      BY <3>1, InsertIsOwned DEF TypeOK, DbTypeOK
    <3>3. logEpoch \in Seq(Nat)
      BY DEF TypeOK, DbTypeOK
    <3>4. /\ Len(logEpoch') = Len(logEpoch) + 1 /\ Len(logEpoch) \in Nat
          /\ \A i \in 1..Len(logEpoch) : logEpoch'[i] = logEpoch[i]
          /\ logEpoch'[Len(logEpoch) + 1] = epoch
      BY <3>1, <3>2, <3>3, AppendProperties, LenProperties
    <3>5. \A i \in 1..Len(logEpoch') : logEpoch'[i] \in 1..epoch
      BY <3>2, <3>4 DEF EpochInv, DbEpochs
    <3> QED
      BY <2>1, <3>2, <3>5 DEF EpochInv, DbEpochs
  <2> QED
    BY <2>2, <2>3
<1>2. ASSUME NEW s \in Supervisor, NEW at \in Stamps[s], RecoverAcquire(s, at)
      PROVE  Goal
  <2> DEFINE row == [base |-> base[s], epoch |-> own[s] + 1, at |-> at]
  <2>1. logEpoch' = logEpoch
    BY <1>2 DEF RecoverAcquire
  <2>2. CASE UNCHANGED <<epoch, expired, checkpoint, recovery>>
    BY <2>1, <2>2 DEF TypeOK, DbTypeOK, EpochInv, DbEpochs
  <2>3. CASE /\ epoch \in {own[s], own[s] + 1} /\ epoch' = own[s] + 1
             /\ checkpoint' = checkpoint + 1 /\ recovery' = recovery \cup {row}
    <3>1. own[s] \in Nat /\ epoch \in Nat /\ logEpoch \in Seq(Nat)
      BY DEF TypeOK, DbTypeOK, SupTypeOK
    <3>2. epoch' \in Nat /\ epoch <= epoch' /\ epoch' > 0
      BY <2>3, <3>1
    <3>3. \A i \in 1..Len(logEpoch') : logEpoch'[i] \in 1..epoch'
      BY <2>1, <3>1, <3>2 DEF EpochInv, DbEpochs
    <3>4. \A other \in recovery' : other.epoch <= epoch'
      <4>1. row.epoch <= epoch'
        BY <2>3, <3>1
      <4>2. \A other \in recovery : other.epoch \in Nat /\ other.epoch <= epoch
        BY DEF TypeOK, DbTypeOK, EpochInv, DbEpochs
      <4> QED
        BY <2>3, <3>1, <3>2, <4>1, <4>2
    <3> QED
      BY <3>2, <3>3, <3>4 DEF DbEpochs
  <2> QED
    BY <1>2, <2>2, <2>3 DEF RecoverAcquire
<1>3. ASSUME NEW s \in Supervisor, Start(s)
      PROVE  Goal
  BY <1>3 DEF Start, TypeOK, DbTypeOK, EpochInv, DbEpochs
<1>4. ASSUME NEW s \in Supervisor, SaveCheckpoint(s)
      PROVE  Goal
  <2>1. epoch > 0
    BY <1>4 DEF SaveCheckpoint, TypeOK, DbTypeOK, EpochInv, OwnsExpected
  <2> QED
    BY <1>4, <2>1 DEF SaveCheckpoint, TypeOK, DbTypeOK, EpochInv, DbEpochs
<1>5. CASE UNCHANGED <<logEpoch, epoch, checkpoint, recovery>>
  BY <1>5 DEF TypeOK, DbTypeOK, EpochInv, DbEpochs
<1>6. \/ UNCHANGED <<logEpoch, epoch, checkpoint, recovery>>
      \/ \E s \in Supervisor : Write(s) \/ Start(s) \/ SaveCheckpoint(s)
                               \/ \E at \in Stamps[s] : RecoverAcquire(s, at)
  BY NextKeepsEpochs
<1> QED
  BY <1>1, <1>2, <1>3, <1>4, <1>5, <1>6

LEMMA OwnWrite ==
    ASSUME TypeOK, TypeOK', Book, EpochInv, NEW s \in Supervisor, Write(s)
    PROVE  \A t \in Supervisor : OwnsExpected(t)'
  BY DEF TypeOK, DbTypeOK, SupTypeOK, Book, EpochInv, DbEpochs, OwnsExpected, Write, dbVars, supVars, outboxVars

LEMMA OwnRefuse ==
    ASSUME TypeOK, TypeOK', Book, EpochInv, NEW s \in Supervisor, Refuse(s)
    PROVE  \A t \in Supervisor : OwnsExpected(t)'
<1>1. Settled(s)
  BY RejectedSettles DEF Refuse, Book
<1> QED
  BY <1>1 DEF TypeOK, DbTypeOK, SupTypeOK, Book, EpochInv, DbEpochs, OwnsExpected, Refuse, Settled, dbVars, supVars, outboxVars

LEMMA OwnPublish ==
    ASSUME TypeOK, TypeOK', Book, EpochInv, NEW s \in Supervisor, Publish(s)
    PROVE  \A t \in Supervisor : OwnsExpected(t)'
  BY DEF TypeOK, DbTypeOK, SupTypeOK, Book, EpochInv, DbEpochs, OwnsExpected, Publish, dbVars, supVars, outboxVars

LEMMA OwnV1WriteFails ==
    ASSUME TypeOK, TypeOK', Book, EpochInv, NEW s \in Supervisor, V1WriteFails(s)
    PROVE  \A t \in Supervisor : OwnsExpected(t)'
<1>1. Settled(s)
  BY RejectedSettles DEF V1WriteFails, Book
<1> QED
  BY <1>1 DEF TypeOK, DbTypeOK, SupTypeOK, Book, EpochInv, DbEpochs, OwnsExpected, V1WriteFails, Settled, dbVars, supVars, outboxVars

LEMMA OwnPush ==
    ASSUME TypeOK, TypeOK', Book, EpochInv, NEW s \in Supervisor, Push(s)
    PROVE  \A t \in Supervisor : OwnsExpected(t)'
  BY DEF TypeOK, DbTypeOK, SupTypeOK, Book, EpochInv, DbEpochs, OwnsExpected, Push, dbVars, supVars, outboxVars

LEMMA OwnStart ==
    ASSUME TypeOK, TypeOK', Book, EpochInv, NEW s \in Supervisor, Start(s)
    PROVE  \A t \in Supervisor : OwnsExpected(t)'
  BY DEF TypeOK, DbTypeOK, SupTypeOK, Book, EpochInv, DbEpochs, OwnsExpected, Start, dbVars, supVars, outboxVars

LEMMA OwnReport ==
    ASSUME TypeOK, TypeOK', Book, EpochInv, NEW s \in Supervisor, NEW kind \in Kinds, Report(s, kind)
    PROVE  \A t \in Supervisor : OwnsExpected(t)'
  BY DEF TypeOK, DbTypeOK, SupTypeOK, Book, EpochInv, DbEpochs, OwnsExpected, Report, dbVars, supVars, outboxVars

LEMMA OwnInterrupt ==
    ASSUME TypeOK, TypeOK', Book, EpochInv, NEW s \in Supervisor, Interrupt(s)
    PROVE  \A t \in Supervisor : OwnsExpected(t)'
  BY DEF TypeOK, DbTypeOK, SupTypeOK, Book, EpochInv, DbEpochs, OwnsExpected, Interrupt, dbVars, supVars, outboxVars

LEMMA OwnCancel ==
    ASSUME TypeOK, TypeOK', Book, EpochInv, NEW s \in Supervisor, Cancel(s)
    PROVE  \A t \in Supervisor : OwnsExpected(t)'
  BY DEF TypeOK, DbTypeOK, SupTypeOK, Book, EpochInv, DbEpochs, OwnsExpected, Cancel, dbVars, supVars, outboxVars

LEMMA OwnSaveCheckpoint ==
    ASSUME TypeOK, TypeOK', Book, EpochInv, NEW s \in Supervisor, SaveCheckpoint(s)
    PROVE  \A t \in Supervisor : OwnsExpected(t)'
  BY DEF TypeOK, DbTypeOK, SupTypeOK, Book, EpochInv, DbEpochs, OwnsExpected, SaveCheckpoint, dbVars, supVars, outboxVars

LEMMA OwnRecoverLoad ==
    ASSUME TypeOK, TypeOK', Book, EpochInv, NEW s \in Supervisor, RecoverLoad(s)
    PROVE  \A t \in Supervisor : OwnsExpected(t)'
  BY DEF TypeOK, DbTypeOK, SupTypeOK, Book, EpochInv, DbEpochs, OwnsExpected, RecoverLoad, LoadedEpoch, dbVars, supVars, outboxVars

LEMMA OwnRecoverReread ==
    ASSUME TypeOK, TypeOK', Book, EpochInv, NEW s \in Supervisor, RecoverReread(s)
    PROVE  \A t \in Supervisor : OwnsExpected(t)'
  BY DEF TypeOK, DbTypeOK, SupTypeOK, Book, EpochInv, DbEpochs, OwnsExpected, RecoverReread, RecoveryFails, dbVars, supVars, outboxVars

LEMMA OwnRecoverAcquire ==
    ASSUME TypeOK, TypeOK', Book, EpochInv, NEW s \in Supervisor, NEW at \in Stamps[s], RecoverAcquire(s, at)
    PROVE  \A t \in Supervisor : OwnsExpected(t)'
<1>1. epoch \in Nat /\ epoch' \in Nat /\ own[s] \in Nat
  BY DEF TypeOK, DbTypeOK, SupTypeOK
<1>2. own[s] + 1 <= epoch' /\ epoch <= epoch'
  <2> DEFINE row == [base |-> base[s], epoch |-> own[s] + 1, at |-> at]
  <2>1. CASE row \in recovery /\ epoch' = epoch
    <3>1. row.epoch <= epoch
      BY <2>1 DEF EpochInv, DbEpochs
    <3> QED
      BY <1>1, <2>1, <3>1
  <2>2. CASE epoch \in {own[s], own[s] + 1} /\ epoch' = own[s] + 1
    BY <1>1, <2>2
  <2> QED
    BY <2>1, <2>2 DEF RecoverAcquire
<1>3. /\ st' = [st EXCEPT ![s] = "acquired"] /\ expected' = [expected EXCEPT ![s] = own[s] + 1]
      /\ own' = own /\ st[s] = "checked"
  BY DEF RecoverAcquire
<1>4. own[s] \in 1..epoch
  BY <1>3 DEF EpochInv, OwnsExpected
<1>5. OwnsExpected(s)'
  BY <1>1, <1>2, <1>3, <1>4 DEF TypeOK, SupTypeOK, OwnsExpected
<1>6. ASSUME NEW t \in Supervisor, t # s PROVE OwnsExpected(t)'
  <2>1. st'[t] = st[t] /\ own'[t] = own[t] /\ expected'[t] = expected[t]
    BY <1>3, <1>6 DEF TypeOK, SupTypeOK
  <2>2. OwnsExpected(t) /\ own[t] \in Nat /\ expected[t] \in Nat
    BY DEF TypeOK, SupTypeOK, EpochInv
  <2> QED
    BY <1>1, <1>2, <2>1, <2>2 DEF OwnsExpected
<1> QED
  BY <1>5, <1>6

LEMMA OwnRecoverConflict ==
    ASSUME TypeOK, TypeOK', Book, EpochInv, NEW s \in Supervisor, RecoverConflict(s)
    PROVE  \A t \in Supervisor : OwnsExpected(t)'
  BY DEF TypeOK, DbTypeOK, SupTypeOK, Book, EpochInv, DbEpochs, OwnsExpected, RecoverConflict, RecoveryFails, dbVars, supVars, outboxVars

LEMMA OwnRecoverBind ==
    ASSUME TypeOK, TypeOK', Book, EpochInv, NEW s \in Supervisor, RecoverBind(s)
    PROVE  \A t \in Supervisor : OwnsExpected(t)'
  BY DEF TypeOK, DbTypeOK, SupTypeOK, Book, EpochInv, DbEpochs, OwnsExpected, RecoverBind, RecoveryFails, dbVars, supVars, outboxVars

LEMMA OwnRelease ==
    ASSUME TypeOK, TypeOK', Book, EpochInv, NEW s \in Supervisor, Release(s)
    PROVE  \A t \in Supervisor : OwnsExpected(t)'
  BY DEF TypeOK, DbTypeOK, SupTypeOK, Book, EpochInv, DbEpochs, OwnsExpected, Release, dbVars, supVars, outboxVars

LEMMA OwnCrash ==
    ASSUME TypeOK, TypeOK', Book, EpochInv, NEW s \in Supervisor, Crash(s)
    PROVE  \A t \in Supervisor : OwnsExpected(t)'
  BY DEF TypeOK, DbTypeOK, SupTypeOK, Book, EpochInv, DbEpochs, OwnsExpected, Crash, dbVars, supVars, outboxVars

LEMMA OwnRepair ==
    ASSUME TypeOK, TypeOK', Book, EpochInv, NEW s \in Supervisor, Repair(s)
    PROVE  \A t \in Supervisor : OwnsExpected(t)'
  BY DEF TypeOK, DbTypeOK, SupTypeOK, Book, EpochInv, DbEpochs, OwnsExpected, Repair, LoadedEpoch, dbVars, supVars, outboxVars

LEMMA OwnRepairDone ==
    ASSUME TypeOK, TypeOK', Book, EpochInv, NEW s \in Supervisor, RepairDone(s)
    PROVE  \A t \in Supervisor : OwnsExpected(t)'
  BY DEF TypeOK, DbTypeOK, SupTypeOK, Book, EpochInv, DbEpochs, OwnsExpected, RepairDone, dbVars, supVars, outboxVars


LEMMA EpochStep ==
    ASSUME TypeOK, TypeOK', Book, EpochInv, [Next]_vars
    PROVE  EpochInv'
<1>1. DbEpochs'
  BY DbEpochsStep
<1>2. ASSUME NEW r \in Reader, NEW s \in Supervisor, Open(r, s)
      PROVE  \A t \in Supervisor : OwnsExpected(t)'
  BY <1>2 DEF Open, TypeOK, DbTypeOK, SupTypeOK, Book, EpochInv, OwnsExpected, LoadedEpoch, dbVars
<1>3. ASSUME \/ FenceExpires \/ UNCHANGED vars \/ \E r \in Reader : Close(r)
      PROVE  \A t \in Supervisor : OwnsExpected(t)'
  <2>1. UNCHANGED <<st, own, expected, epoch>>
    BY <1>3 DEF Close, FenceExpires, vars, dbVars, supVars
  <2> QED
    BY <2>1 DEF EpochInv, OwnsExpected
<1>4. ASSUME NEW s \in Supervisor, SendHead(s) PROVE \A t \in Supervisor : OwnsExpected(t)'
  BY <1>4, OwnWrite, OwnRefuse, OwnPublish, OwnV1WriteFails, OwnPush DEF SendHead
<1>5. ASSUME NEW s \in Supervisor, Recover(s) PROVE \A t \in Supervisor : OwnsExpected(t)'
  BY <1>5, OwnRecoverLoad, OwnRecoverReread, OwnRecoverAcquire, OwnRecoverConflict,
     OwnRecoverBind DEF Recover
<1>6. ASSUME NEW s \in Supervisor,
             \/ Start(s) \/ \E kind \in Kinds : Report(s, kind)
             \/ Interrupt(s) \/ Cancel(s) \/ SaveCheckpoint(s) \/ Release(s) \/ Crash(s)
             \/ Repair(s) \/ RepairDone(s)
      PROVE  \A t \in Supervisor : OwnsExpected(t)'
  BY <1>6, OwnStart, OwnReport, OwnInterrupt, OwnCancel, OwnSaveCheckpoint, OwnRelease,
     OwnCrash, OwnRepair, OwnRepairDone
<1>7. \A t \in Supervisor : OwnsExpected(t)'
  BY <1>2, <1>3, <1>4, <1>5, <1>6 DEF Next
<1> QED
  BY <1>1, <1>7 DEF EpochInv

LEMMA OwnedWrite ==
    TypeOK /\ Book /\ EpochInv /\ [Next]_vars =>
    \A s \in Supervisor :
        phase'[s] = "committed" /\ log' # log /\ phase[s] = "idle" => own[s] = epoch
<1> SUFFICES ASSUME TypeOK, Book, EpochInv, [Next]_vars, NEW s \in Supervisor,
                    phase'[s] = "committed", log' # log, phase[s] = "idle"
             PROVE  own[s] = epoch
  OBVIOUS
<1>1. PICK t \in Supervisor : Write(t)
  BY LogStep
<1>2. t = s
  BY <1>1 DEF Write, TypeOK, SupTypeOK
<1>3. waiting[s] # <<>> /\ LoadedEpoch(s) = epoch
  BY <1>1, <1>2 DEF Write, MayInsert
<1> QED
  BY <1>3, InsertIsOwned

\* What holds from step to step: types, the bookkeeping of the queues, and
\* the ownership of epochs.
Base == TypeOK /\ Book /\ EpochInv

LEMMA BaseInit == Init => Base
  BY InitType, EpochInit DEF Base

LEMMA BaseStep == Base /\ [Next]_vars => Base'
  BY TypeStep, EpochStep DEF Base

\* Every row is written by a supervisor whose own epoch is the current one.
THEOREM OwnerCorrect == Spec => WrittenByOwner
<1>1. Base /\ [Next]_vars =>
        [\A s \in Supervisor :
            phase'[s] = "committed" /\ log' # log /\ phase[s] = "idle" => own[s] = epoch]_vars
  BY OwnedWrite DEF Base
<1> QED
  BY <1>1, BaseInit, BaseStep, PTL DEF Spec, WrittenByOwner

-----------------------------------------------------------------------------
(* Memory and log.                                                          *)

LEMMA PrefixTransitive ==
    ASSUME NEW m \in Seq(Event), NEW k \in Seq(Event), NEW l \in Seq(Event),
           IsPrefixOf(m, k), IsPrefixOf(k, l)
    PROVE  IsPrefixOf(m, l)
<1>1. Len(m) \in Nat /\ Len(k) \in Nat /\ Len(l) \in Nat
  BY LenProperties
<1> QED
  BY <1>1 DEF IsPrefixOf

LEMMA PrefixReflexive ==
    ASSUME NEW l \in Seq(Event)
    PROVE  IsPrefixOf(l, l) /\ IsPrefixOf(<<>>, l)
<1>1. Len(l) \in Nat /\ Len(<<>>) = 0
  BY LenProperties
<1> QED
  BY <1>1 DEF IsPrefixOf

LEMMA PrefixOfAppend ==
    ASSUME NEW l \in Seq(Event), NEW e \in Event
    PROVE  IsPrefixOf(l, Append(l, e))
<1>1. /\ Len(l) \in Nat /\ Len(Append(l, e)) = Len(l) + 1
      /\ \A i \in 1..Len(l) : Append(l, e)[i] = l[i]
  BY AppendProperties, LenProperties
<1> QED
  BY <1>1 DEF IsPrefixOf

\* An event that is already stored is the next one of the log.
LEMMA StoredIsNext ==
    ASSUME TypeOK, NEW m \in Seq(Event), NEW e \in Event, AlreadyStored(m, e)
    PROVE  IsPrefixOf(Append(m, e), log)
<1>1. log \in Seq(Event) /\ Len(m) \in Nat /\ Len(log) \in Nat
  BY LenProperties DEF TypeOK, DbTypeOK
<1>2. Len(m) + 1 <= Len(log) /\ SubSeq(log, 1, Len(m) + 1) = Append(m, e)
  BY <1>1 DEF AlreadyStored
<1>3. Len(Append(m, e)) = Len(m) + 1
  BY AppendProperties
<1>4. \A i \in 1..Len(m) + 1 : log[i] \in Event
  BY <1>1, <1>2, ElementOfSeq
<1>5. \A i \in 1..(Len(m) + 1) - 1 + 1 : SubSeq(log, 1, Len(m) + 1)[i] = log[1 + i - 1]
  BY <1>1, <1>4, SubSeqProperties
<1>6. \A i \in 1..Len(m) + 1 : Append(m, e)[i] = log[i]
  BY <1>1, <1>2, <1>5
<1> QED
  BY <1>2, <1>3, <1>6 DEF IsPrefixOf

\* The memory of s as a step leaves it: as it was, with no append begun...
Quiet(s) ==
    /\ mem'[s] = mem[s]
    /\ phase'[s] = "idle" \/ (phase[s] # "idle" /\ sending'[s] = sending[s])

\* ...or emptied by a crash, or filled from the database.
Filled(s) == phase'[s] = "idle" /\ mem'[s] \in {<<>>, log}

\* What a step of a supervisor does to its memory, and to another's.
LEMMA MemoryOfSender ==
    ASSUME Base, NEW s \in Supervisor, SendHead(s), NEW t \in Supervisor
    PROVE  Quiet(t) \/ (t = s /\ (Write(t) \/ Push(t)))
<1> USE DEF Base, TypeOK, SupTypeOK, Quiet
<1>1. CASE Write(s)
  BY <1>1 DEF Write
<1>2. CASE Refuse(s)
  BY <1>2 DEF Refuse, Rejected
<1>3. CASE Publish(s)
  BY <1>3 DEF Publish
<1>4. CASE V1WriteFails(s)
  BY <1>4 DEF V1WriteFails, Rejected
<1>5. CASE Push(s)
  BY <1>5 DEF Push
<1> QED
  BY <1>1, <1>2, <1>3, <1>4, <1>5 DEF SendHead

LEMMA MemoryOfRecovery ==
    ASSUME Base, NEW s \in Supervisor, Recover(s), NEW t \in Supervisor
    PROVE  Quiet(t) \/ Filled(t)
<1> USE DEF Base, TypeOK, SupTypeOK, Quiet
<1>1. CASE RecoverLoad(s)
  <2>1. phase[s] = "idle"
    BY <1>1 DEF Book, RecoverLoad
  <2> QED
    BY <1>1, <2>1 DEF RecoverLoad, Filled
<1>2. CASE RecoverReread(s)
  BY <1>2 DEF RecoverReread
<1>3. CASE \E at \in Stamps[s] : RecoverAcquire(s, at)
  BY <1>3 DEF RecoverAcquire, outboxVars
<1>4. CASE RecoverConflict(s)
  BY <1>4 DEF RecoverConflict
<1>5. CASE RecoverBind(s)
  BY <1>5 DEF RecoverBind
<1> QED
  BY <1>1, <1>2, <1>3, <1>4, <1>5 DEF Recover

LEMMA MemoryOfOthers ==
    ASSUME Base, NEW s \in Supervisor, NEW t \in Supervisor,
           \/ Start(s) \/ \E kind \in Kinds : Report(s, kind)
           \/ Interrupt(s) \/ Cancel(s) \/ SaveCheckpoint(s) \/ Release(s) \/ Crash(s)
           \/ Repair(s) \/ RepairDone(s)
    PROVE  Quiet(t) \/ Filled(t)
<1> USE DEF Base, TypeOK, SupTypeOK, Quiet
<1>1. CASE Crash(s)
  BY <1>1 DEF Crash, Filled
<1>2. CASE Repair(s)
  <2>1. phase[s] = "idle"
    BY <1>2 DEF Book, Repair
  <2> QED
    BY <1>2, <2>1 DEF Repair, Filled
<1>3. CASE \/ Start(s) \/ \E kind \in Kinds : Report(s, kind)
           \/ Interrupt(s) \/ Cancel(s) \/ SaveCheckpoint(s) \/ Release(s) \/ RepairDone(s)
  <2>1. UNCHANGED <<mem, phase, sending>>
    BY <1>3 DEF Start, Report, Interrupt, Cancel, SaveCheckpoint, Release, RepairDone,
                outboxVars
  <2> QED
    BY <2>1
<1> QED
  BY <1>1, <1>2, <1>3

LEMMA MemoryStep ==
    ASSUME Base, [Next]_vars, NEW t \in Supervisor
    PROVE  Quiet(t) \/ Filled(t) \/ Write(t) \/ Push(t)
<1>1. ASSUME NEW s \in Supervisor, SendHead(s) PROVE Quiet(t) \/ Write(t) \/ Push(t)
  BY <1>1, MemoryOfSender
<1>2. ASSUME NEW s \in Supervisor, Recover(s) PROVE Quiet(t) \/ Filled(t)
  BY <1>2, MemoryOfRecovery
<1>3. ASSUME NEW s \in Supervisor,
             \/ Start(s) \/ \E kind \in Kinds : Report(s, kind)
             \/ Interrupt(s) \/ Cancel(s) \/ SaveCheckpoint(s) \/ Release(s) \/ Crash(s)
             \/ Repair(s) \/ RepairDone(s)
      PROVE  Quiet(t) \/ Filled(t)
  BY <1>3, MemoryOfOthers
<1>4. ASSUME \/ FenceExpires \/ UNCHANGED vars
             \/ \E r \in Reader : Close(r) \/ \E s \in Supervisor : Open(r, s)
      PROVE  Quiet(t)
  <2>1. UNCHANGED <<mem, phase, sending>>
    BY <1>4 DEF FenceExpires, Open, Close, vars, supVars, outboxVars
  <2> QED
    BY <2>1 DEF Base, TypeOK, SupTypeOK, Quiet
<1> QED
  BY <1>1, <1>2, <1>3, <1>4 DEF Next

\* The log only grows, at its end.
LEMMA LogGrows ==
    ASSUME Base, [Next]_vars
    PROVE  IsPrefixOf(log, log')
<1>1. log \in Seq(Event)
  BY DEF Base, TypeOK, DbTypeOK
<1>2. CASE log' = log
  BY <1>1, <1>2, PrefixReflexive
<1>3. ASSUME NEW s \in Supervisor, Write(s), log' # log
      PROVE  IsPrefixOf(log, log')
  <2>1. PICK at \in Stamps[s] :
          waiting[s] # <<>> /\ log' = Append(log, [kind |-> Head(waiting[s]), at |-> at])
    BY <1>3 DEF Write
  <2>2. [kind |-> Head(waiting[s]), at |-> at] \in Event
    BY <2>1, QueueTypes, StampsAssumption DEF Base, TypeOK, SupTypeOK, Event
  <2> QED
    BY <1>1, <2>1, <2>2, PrefixOfAppend
<1> QED
  BY <1>2, <1>3, LogStep

\* Write finds the event as the next of the log, or makes it so.
LEMMA WriteIsNext ==
    ASSUME Base, NEW s \in Supervisor, Write(s)
    PROVE  mem'[s] = mem[s] /\ IsPrefixOf(Append(mem[s], sending'[s]), log')
<1>1. PICK at \in Stamps[s] :
        LET e == [kind |-> Head(waiting[s]), at |-> at] IN
        /\ waiting[s] # <<>>
        /\ \/ AlreadyStored(mem[s], e) /\ log' = log
           \/ MayInsert(s, e) /\ log' = Append(log, e)
        /\ sending' = [sending EXCEPT ![s] = e]
        /\ mem' = mem
  BY DEF Write
<1> DEFINE e == [kind |-> Head(waiting[s]), at |-> at]
<1>2. e \in Event
  BY <1>1, QueueTypes, StampsAssumption DEF Base, TypeOK, SupTypeOK, Event
<1>3. sending'[s] = e /\ mem[s] \in Seq(Event) /\ log \in Seq(Event)
  BY <1>1 DEF Base, TypeOK, DbTypeOK, SupTypeOK
<1>4. CASE AlreadyStored(mem[s], e) /\ log' = log
  BY <1>1, <1>2, <1>3, <1>4, StoredIsNext DEF Base
<1>5. CASE MayInsert(s, e) /\ log' = Append(log, e)
  <2>1. log' = Append(mem[s], e) /\ log' \in Seq(Event)
    BY <1>2, <1>3, <1>5, AppendProperties DEF MayInsert
  <2> QED
    BY <1>1, <1>3, <2>1, PrefixReflexive
<1> QED
  BY <1>1, <1>4, <1>5

LEMMA MemoryInit == Init => MemoryIsDurable
<1> SUFFICES ASSUME Init, NEW s \in Supervisor
             PROVE  IsPrefixOf(mem[s], log) /\ phase[s] = "idle"
  BY DEF MemoryIsDurable
<1>1. mem[s] = <<>> /\ log = <<>> /\ phase[s] = "idle"
  BY DEF Init
<1> QED
  BY <1>1, PrefixReflexive, EmptySeq

LEMMA MemoryKept ==
    ASSUME Base, Base', MemoryIsDurable, [Next]_vars
    PROVE  MemoryIsDurable'
<1> SUFFICES ASSUME NEW s \in Supervisor
             PROVE  /\ IsPrefixOf(mem'[s], log')
                    /\ phase'[s] # "idle" => IsPrefixOf(Append(mem'[s], sending'[s]), log')
  BY DEF MemoryIsDurable
<1>1. log \in Seq(Event) /\ log' \in Seq(Event) /\ mem[s] \in Seq(Event) /\ mem'[s] \in Seq(Event)
  BY DEF Base, TypeOK, DbTypeOK, SupTypeOK
<1>2. phase[s] # "idle" => sending[s] \in Event
  BY DEF Base, Book
<1>3. IsPrefixOf(log, log') /\ IsPrefixOf(mem[s], log') /\ IsPrefixOf(<<>>, log')
  BY <1>1, LogGrows, PrefixTransitive, PrefixReflexive DEF MemoryIsDurable
<1>4. phase[s] # "idle" => IsPrefixOf(Append(mem[s], sending[s]), log')
  <2> SUFFICES ASSUME phase[s] # "idle" PROVE IsPrefixOf(Append(mem[s], sending[s]), log')
    OBVIOUS
  <2>1. Append(mem[s], sending[s]) \in Seq(Event) /\ IsPrefixOf(Append(mem[s], sending[s]), log)
    BY <1>1, <1>2, AppendProperties DEF MemoryIsDurable
  <2> QED
    BY <1>1, <1>3, <2>1, PrefixTransitive
<1>5. CASE Quiet(s)
  BY <1>3, <1>4, <1>5 DEF Quiet
<1>6. CASE Filled(s)
  BY <1>3, <1>6 DEF Filled
<1>7. CASE Write(s)
  BY <1>3, <1>7, WriteIsNext
<1>8. CASE Push(s)
  <2>1. phase[s] # "idle" /\ phase'[s] = "idle" /\ mem'[s] = Append(mem[s], sending[s])
    BY <1>8 DEF Push, Base, TypeOK, SupTypeOK
  <2> QED
    BY <1>4, <2>1
<1> QED
  BY <1>5, <1>6, <1>7, <1>8, MemoryStep

\* No outbox ever holds, or has committed without holding it, an event that is
\* not in the database at its place.
THEOREM MemoryCorrect == Spec => []MemoryIsDurable
<1>1. Base /\ MemoryIsDurable /\ [Next]_vars => Base' /\ MemoryIsDurable'
  BY BaseStep, MemoryKept
<1> QED
  BY <1>1, BaseInit, MemoryInit, PTL DEF Spec

-----------------------------------------------------------------------------
(* The log, its readers, and the abstract log.                              *)

\* What Write does to the log, if it does anything.
Inserts(s, e) ==
    /\ mem[s] = log /\ own[s] = epoch /\ epoch > 0
    /\ e.kind = "final" => ~HasFinal(log)
    /\ log' = Append(log, e)
    /\ logEpoch' = Append(logEpoch, epoch)
    /\ UNCHANGED <<epoch, st, own, mem, seen>>

LEMMA WriteInserts ==
    ASSUME Base, NEW s \in Supervisor, Write(s)
    PROVE  \/ UNCHANGED <<log, logEpoch, epoch, seen>>
           \/ \E e \in Event : e.at \in Stamps[s] /\ sending'[s] = e /\ Inserts(s, e)
<1>1. PICK at \in Stamps[s] :
        LET e == [kind |-> Head(waiting[s]), at |-> at] IN
        /\ waiting[s] # <<>>
        /\ \/ UNCHANGED <<log, logEpoch>>
           \/ /\ MayInsert(s, e)
              /\ log' = Append(log, e) /\ logEpoch' = Append(logEpoch, LoadedEpoch(s))
        /\ sending' = [sending EXCEPT ![s] = e]
  BY DEF Write
<1> DEFINE e == [kind |-> Head(waiting[s]), at |-> at]
<1>2. UNCHANGED <<epoch, st, own, mem, seen>>
  BY DEF Write, readerVars
<1>3. e \in Event /\ e.at \in Stamps[s]
  BY <1>1, QueueTypes, StampsAssumption DEF Base, TypeOK, SupTypeOK, Event
<1>4. sending'[s] = e
  BY <1>1 DEF Base, TypeOK, SupTypeOK
<1>5. CASE UNCHANGED <<log, logEpoch>>
  BY <1>2, <1>5
<1>6. CASE /\ MayInsert(s, e)
           /\ log' = Append(log, e) /\ logEpoch' = Append(logEpoch, LoadedEpoch(s))
  <2>1. LoadedEpoch(s) = epoch /\ mem[s] = log /\ (e.kind = "final" => ~HasFinal(log))
    BY <1>6 DEF MayInsert
  <2>2. own[s] = epoch /\ epoch > 0
    BY <1>1, <2>1, InsertIsOwned DEF Base
  <2>3. Inserts(s, e)
    BY <1>2, <1>6, <2>1, <2>2 DEF Inserts
  <2> QED
    BY <1>3, <1>4, <2>3
<1> QED
  BY <1>1, <1>5, <1>6

LEMMA OneFinalKept ==
    ASSUME Base, OneFinal, [Next]_vars
    PROVE  OneFinal'
<1>1. CASE log' = log
  BY <1>1 DEF OneFinal
<1>2. ASSUME NEW s \in Supervisor, NEW e \in Event, Inserts(s, e)
      PROVE  OneFinal'
  <2>1. log \in Seq(Event) /\ Len(log) \in Nat
    BY LenProperties DEF Base, TypeOK, DbTypeOK
  <2>2. /\ Len(log') = Len(log) + 1
        /\ \A i \in 1..Len(log) : log'[i] = log[i]
        /\ log'[Len(log) + 1] = e
    BY <1>2, <2>1, AppendProperties DEF Inserts
  <2>3. e.kind = "final" => \A i \in 1..Len(log) : log[i].kind # "final"
    BY <1>2 DEF Inserts, HasFinal
  <2>4. ASSUME NEW i \in 1..Len(log'), NEW j \in 1..Len(log'),
               log'[i].kind = "final", log'[j].kind = "final"
        PROVE  i = j
    <3>1. CASE i \in 1..Len(log) /\ j \in 1..Len(log)
      BY <2>2, <2>4, <3>1 DEF OneFinal
    <3>2. CASE i = Len(log) + 1 \/ j = Len(log) + 1
      BY <2>1, <2>2, <2>3, <2>4, <3>2
    <3> QED
      BY <2>1, <2>2, <3>1, <3>2
  <2> QED
    BY <2>4 DEF OneFinal
<1> QED
  BY <1>1, <1>2, LogStep, WriteInserts

\* The log never holds two final events.
THEOREM OneFinalCorrect == Spec => []OneFinal
<1>1. Init => OneFinal
  BY DEF Init, OneFinal
<1>2. Base /\ OneFinal /\ [Next]_vars => Base' /\ OneFinal'
  BY BaseStep, OneFinalKept
<1> QED
  BY <1>1, <1>2, BaseInit, PTL DEF Spec

\* The pairs a reader may be given.
LogPairs == {<<i, log[i]>> : i \in 1..Len(log)}

\* Readers are given events by Publish and Open only, and these come from the
\* log.
Gives ==
    /\ seen' \in [Reader -> SUBSET (Nat \X Event)]
    /\ \A r \in Reader : seen[r] \subseteq seen'[r] /\ seen'[r] \subseteq seen[r] \cup LogPairs
    /\ UNCHANGED <<log, logEpoch, epoch>>

LEMMA PublishGives ==
    ASSUME Base, Base', MemoryIsDurable, NEW s \in Supervisor, Publish(s)
    PROVE  Gives
<1> DEFINE n == Len(mem[s]) + 1
           behind == {r \in Reader : conn[r] = "open" /\ via[r] = s /\ cursor[r] < n}
<1>1. sending[s] \in Event /\ mem[s] \in Seq(Event) /\ log \in Seq(Event)
  BY DEF Base, Book, TypeOK, DbTypeOK, SupTypeOK, Publish
<1>2. IsPrefixOf(Append(mem[s], sending[s]), log)
  BY DEF MemoryIsDurable, Publish
<1>3. /\ Len(Append(mem[s], sending[s])) = n /\ n \in Nat /\ n >= 1 /\ Len(log) \in Nat
      /\ Append(mem[s], sending[s])[n] = sending[s]
  BY <1>1, AppendProperties, LenProperties
<1>4. n \in 1..Len(log) /\ log[n] = sending[s]
  BY <1>2, <1>3 DEF IsPrefixOf
<1>5. <<n, sending[s]>> \in LogPairs
  BY <1>4 DEF LogPairs
<1>6. seen' = [r \in Reader |->
                  IF r \in behind THEN seen[r] \cup {<<n, sending[s]>>} ELSE seen[r]]
  BY DEF Publish, Delivered
<1>7. seen' \in [Reader -> SUBSET (Nat \X Event)]
  BY DEF Base, TypeOK, ReaderTypeOK
<1>8. UNCHANGED <<log, logEpoch, epoch>>
  BY DEF Publish, dbVars
<1> QED
  BY <1>5, <1>6, <1>7, <1>8 DEF Gives

LEMMA OpenGives ==
    ASSUME Base, Base', NEW r \in Reader, NEW s \in Supervisor, Open(r, s)
    PROVE  Gives
<1> DEFINE Replay == {<<i, log[i]>> : i \in (ReplayFrom(r) + 1)..Len(log)}
<1>1. ReplayFrom(r) \in Nat /\ Len(log) \in Nat
  BY LenProperties DEF Base, TypeOK, DbTypeOK, ReaderTypeOK, ReplayFrom
<1>2. Replay \subseteq LogPairs
  BY <1>1 DEF LogPairs
<1>3. seen' = [seen EXCEPT ![r] = @ \cup Replay]
  BY DEF Open
<1>4. seen' \in [Reader -> SUBSET (Nat \X Event)] /\ seen \in [Reader -> SUBSET (Nat \X Event)]
  BY DEF Base, TypeOK, ReaderTypeOK
<1>5. UNCHANGED <<log, logEpoch, epoch>>
  BY DEF Open, dbVars
<1>6. \A q \in Reader : seen[q] \subseteq seen'[q] /\ seen'[q] \subseteq seen[q] \cup LogPairs
  BY <1>2, <1>3, <1>4
<1> QED
  BY <1>4, <1>5, <1>6 DEF Gives

\* Every step is one of the abstract log, or does not show there.
AbstractStep ==
    \/ \E s \in Supervisor, e \in Event : Inserts(s, e)
    \/ epoch' = epoch + 1 /\ UNCHANGED <<log, logEpoch, seen>>
    \/ Gives
    \/ UNCHANGED <<log, logEpoch, epoch, seen>>

LEMMA Abstracts ==
    ASSUME Base, Base', MemoryIsDurable, [Next]_vars
    PROVE  AbstractStep
<1>1. ASSUME NEW s \in Supervisor, SendHead(s) PROVE AbstractStep
  <2>1. CASE Write(s)
    BY <2>1, WriteInserts DEF AbstractStep
  <2>2. CASE Publish(s)
    BY <2>2, PublishGives DEF AbstractStep
  <2>3. CASE Refuse(s) \/ V1WriteFails(s) \/ Push(s)
    BY <2>3 DEF Refuse, V1WriteFails, Push, AbstractStep, dbVars, readerVars
  <2> QED
    BY <1>1, <2>1, <2>2, <2>3 DEF SendHead
<1>2. ASSUME NEW s \in Supervisor, Recover(s) PROVE AbstractStep
  <2>1. ASSUME NEW at \in Stamps[s], RecoverAcquire(s, at) PROVE AbstractStep
    <3>1. UNCHANGED <<log, logEpoch, seen>>
      BY <2>1 DEF RecoverAcquire, readerVars
    <3>2. epoch' = epoch \/ (epoch \in {own[s], own[s] + 1} /\ epoch' = own[s] + 1)
      BY <2>1 DEF RecoverAcquire
    <3>3. epoch' = epoch \/ epoch' = epoch + 1
      BY <3>2
    <3> QED
      BY <3>1, <3>3 DEF AbstractStep
  <2>2. CASE RecoverLoad(s) \/ RecoverReread(s) \/ RecoverConflict(s) \/ RecoverBind(s)
    BY <2>2 DEF RecoverLoad, RecoverReread, RecoverConflict, RecoverBind, AbstractStep,
                dbVars, readerVars
  <2> QED
    BY <1>2, <2>1, <2>2 DEF Recover
<1>3. ASSUME NEW s \in Supervisor, Start(s) PROVE AbstractStep
  BY <1>3 DEF Start, AbstractStep, readerVars
<1>4. ASSUME NEW s \in Supervisor,
             \/ \E kind \in Kinds : Report(s, kind)
             \/ Interrupt(s) \/ Cancel(s) \/ SaveCheckpoint(s) \/ Release(s) \/ Crash(s)
             \/ Repair(s) \/ RepairDone(s)
      PROVE  AbstractStep
  BY <1>4 DEF Report, Interrupt, Cancel, SaveCheckpoint, Release, Crash, Repair,
              RepairDone, AbstractStep, dbVars, readerVars
<1>5. ASSUME NEW r \in Reader, NEW s \in Supervisor, Open(r, s) PROVE AbstractStep
  BY <1>5, OpenGives DEF AbstractStep
<1>6. ASSUME FenceExpires \/ UNCHANGED vars \/ \E r \in Reader : Close(r)
      PROVE  AbstractStep
  BY <1>6 DEF FenceExpires, Close, vars, dbVars, readerVars, AbstractStep
<1> QED
  BY <1>1, <1>2, <1>3, <1>4, <1>5, <1>6 DEF Next

LEMMA ReadersKept ==
    ASSUME Base, Base', MemoryIsDurable, ReadersAgree, [Next]_vars
    PROVE  ReadersAgree'
<1> SUFFICES ASSUME NEW r \in Reader, NEW p \in seen'[r]
             PROVE  p[1] \in 1..Len(log') /\ log'[p[1]] = p[2]
  BY DEF ReadersAgree
<1>1. Len(log) \in Nat /\ Len(log') \in Nat /\ IsPrefixOf(log, log')
  BY LogGrows, LenProperties DEF Base, TypeOK, DbTypeOK
<1>2. p \in seen[r] \/ p \in LogPairs
  BY Abstracts DEF AbstractStep, Inserts, Gives
<1>3. p[1] \in 1..Len(log) /\ log[p[1]] = p[2]
  BY <1>2 DEF ReadersAgree, LogPairs
<1> QED
  BY <1>1, <1>3 DEF IsPrefixOf

LEMMA ReadersInit == Init => ReadersAgree
  BY DEF Init, ReadersAgree

\* Clients are only ever given what the log has, at the number it has it.
THEOREM ReadersCorrect == Spec => []ReadersAgree
<1>1. Base /\ MemoryIsDurable /\ ReadersAgree /\ [Next]_vars
        => Base' /\ MemoryIsDurable' /\ ReadersAgree'
  BY BaseStep, MemoryKept, ReadersKept
<1> QED
  BY <1>1, BaseInit, MemoryInit, ReadersInit, PTL DEF Spec

\* The outbox, its supervisors, their crashes and recoveries implement the
\* abstract log of EventLog.
THEOREM Refinement == Spec => ImplementsLog
<1>1. Init => EL!Init
  BY DEF Init, EL!Init
<1>2. ASSUME Base, Base', MemoryIsDurable, ReadersAgree, [Next]_vars
      PROVE  [EL!Next]_(EL!vars)
  <2>1. ASSUME NEW s \in Supervisor, NEW e \in Event, Inserts(s, e)
        PROVE  EL!Append1(e)
    <3>1. e.kind = "final" => ~EL!HasFinal
      BY <2>1 DEF Inserts, HasFinal, EL!HasFinal
    <3> QED
      BY <2>1, <3>1 DEF Inserts, EL!Append1
  <2>2. ASSUME Gives
        PROVE  EL!Deliver
    <3>1. \A r \in Reader : seen[r] \subseteq LogPairs
      <4> SUFFICES ASSUME NEW r \in Reader, NEW p \in seen[r] PROVE p \in LogPairs
        OBVIOUS
      <4>1. p[1] \in 1..Len(log) /\ log[p[1]] = p[2]
        BY <1>2 DEF ReadersAgree
      <4>2. p \in Nat \X Event
        BY <1>2 DEF Base, TypeOK, ReaderTypeOK
      <4> QED
        BY <4>1, <4>2 DEF LogPairs
    <3>2. seen' \in [Reader -> SUBSET LogPairs]
      BY <2>2, <3>1 DEF Gives
    <3> QED
      BY <2>2, <3>2 DEF Gives, LogPairs, EL!Deliver
  <2>3. CASE epoch' = epoch + 1 /\ UNCHANGED <<log, logEpoch, seen>>
    BY <2>3 DEF EL!Next, EL!NextEpoch
  <2>4. CASE UNCHANGED <<log, logEpoch, epoch, seen>>
    BY <2>4 DEF EL!vars
  <2> QED
    BY <1>2, <2>1, <2>2, <2>3, <2>4, Abstracts DEF AbstractStep, EL!Next
<1>3. Base /\ MemoryIsDurable /\ ReadersAgree /\ [Next]_vars
        => Base' /\ MemoryIsDurable' /\ ReadersAgree'
  BY BaseStep, MemoryKept, ReadersKept
<1> QED
  BY <1>1, <1>2, <1>3, BaseInit, MemoryInit, ReadersInit, PTL DEF Spec, ImplementsLog, EL!Spec

-----------------------------------------------------------------------------
(* One session in an epoch.                                                 *)

\* No two processes ever read the same millisecond.
DisjointClocks ==
    \A s, t \in Supervisor : s # t => Stamps[s] \cap Stamps[t] = {}

Recovering(s) == st[s] \in {"loaded", "checked", "acquired"}

\* Row i was written by s, and it is the first of the epoch of s.
Opener(s, i) ==
    /\ logEpoch[i] = own[s] /\ log[i].at \in Stamps[s]
    /\ \A j \in 1..(i - 1) : logEpoch[j] < own[s]

\* A session is open only after its supervisor wrote the first row of the
\* epoch...
Opened(s) == InSession(s) => \E i \in 1..Len(log) : Opener(s, i)

\* ...because what a recovery loads belongs to the epochs before, and its
\* first append has to continue exactly that...
LoadedBefore(s) ==
    /\ Recovering(s) => \A i \in 1..Len(mem[s]) : logEpoch[i] <= own[s]
    /\ st[s] = "opening" => \A i \in 1..Len(mem[s]) : logEpoch[i] < own[s]

Opening(s) ==
    st[s] = "opening" /\ phase[s] # "idle" =>
        logEpoch[Len(mem[s]) + 1] = own[s] /\ log[Len(mem[s]) + 1].at \in Stamps[s]

\* ...which no row of another supervisor can be mistaken for.
Unwritten(s) ==
    Recovering(s) \/ (st[s] = "opening" /\ phase[s] = "idle") =>
        \A i \in (Len(mem[s]) + 1)..Len(log) : log[i].at \notin Stamps[s]

FirstIsOwn(s) == Opened(s) /\ LoadedBefore(s) /\ Opening(s) /\ Unwritten(s)

\* How a step moves a supervisor along, seen from these facts.
Same(s) ==
    /\ st'[s] = st[s] /\ own'[s] = own[s] /\ mem'[s] = mem[s]
    /\ phase[s] = "idle" <=> phase'[s] = "idle"

Out(s) == st'[s] \notin {"opening", "live", "cancelled", "loaded", "checked", "acquired"}

Stays(s) == InSession(s) /\ InSession(s)' /\ own'[s] = own[s]

Advances(s) ==
    /\ Recovering(s) /\ Recovering(s)'
    /\ own'[s] = own[s] /\ mem'[s] = mem[s]

Binds(s) ==
    /\ st[s] = "acquired" /\ st'[s] = "opening"
    /\ own'[s] = own[s] + 1 /\ mem'[s] = mem[s] /\ phase'[s] = "idle"

Moves(s) == Same(s) \/ Out(s) \/ Stays(s)

\* An append moves only its own supervisor, and one that fails in the opening
\* of a session ends it.
LEMMA MovesOfSender ==
    ASSUME Base, NEW s \in Supervisor, SendHead(s), NEW t \in Supervisor
    PROVE  Moves(t) \/ (t = s /\ (Write(t) \/ Push(t)))
<1> USE DEF Base, TypeOK, SupTypeOK, Moves, Same
<1>1. CASE Write(s)
  BY <1>1 DEF Write
<1>2. ASSUME Settled(s), own' = own, mem' = mem
      PROVE  Moves(t)
  <2>1. CASE t # s
    BY <1>2, <2>1 DEF Settled
  <2>2. CASE t = s
    <3>1. \/ st'[s] = st[s] /\ st[s] \notin {"opening", "off", "loaded", "checked", "acquired"}
          \/ st'[s] = "failed"
      BY <1>2 DEF Settled
    <3>2. CASE st'[s] = st[s] /\ st[s] \in {"live", "cancelled"}
      BY <1>2, <2>2, <3>2 DEF Stays, InSession
    <3>3. CASE st'[s] = st[s] /\ st[s] \notin {"live", "cancelled", "opening", "off", "loaded", "checked", "acquired"}
      BY <2>2, <3>3 DEF Out
    <3>4. CASE st'[s] = "failed"
      BY <2>2, <3>4 DEF Out
    <3> QED
      BY <3>1, <3>2, <3>3, <3>4
  <2> QED
    BY <2>1, <2>2
<1>3. CASE Refuse(s)
  BY <1>2, <1>3, RejectedSettles DEF Refuse
<1>4. CASE Publish(s)
  BY <1>4 DEF Publish
<1>5. CASE V1WriteFails(s)
  BY <1>2, <1>5, RejectedSettles DEF V1WriteFails, Book
<1>6. CASE Push(s)
  BY <1>6 DEF Push
<1> QED
  BY <1>1, <1>3, <1>4, <1>5, <1>6 DEF SendHead

\* A recovery moves only its own supervisor, one stage at a time.
LEMMA MovesOfRecovery ==
    ASSUME Base, NEW s \in Supervisor, Recover(s), NEW t \in Supervisor
    PROVE  Moves(t) \/ (t = s /\ (RecoverLoad(t) \/ Advances(t) \/ Binds(t)))
<1> USE DEF Base, TypeOK, SupTypeOK, Moves, Same
<1>1. CASE RecoverLoad(s)
  BY <1>1 DEF RecoverLoad
<1>2. CASE RecoverReread(s)
  BY <1>2 DEF RecoverReread, RecoveryFails, Out, Advances, Recovering
<1>3. ASSUME NEW at \in Stamps[s], RecoverAcquire(s, at)
      PROVE  Moves(t) \/ (t = s /\ Advances(t))
  BY <1>3 DEF RecoverAcquire, outboxVars, Advances, Recovering
<1>4. CASE RecoverConflict(s)
  BY <1>4 DEF RecoverConflict, RecoveryFails, Out
<1>5. CASE RecoverBind(s)
  <2>1. phase[s] = "idle" /\ st[s] = "acquired"
    BY <1>5 DEF Book, RecoverBind
  <2>2. CASE epoch = own[s] + 1
    BY <1>5, <2>1, <2>2 DEF RecoverBind, Binds
  <2>3. CASE epoch # own[s] + 1
    BY <1>5, <2>3 DEF RecoverBind, RecoveryFails, Out
  <2> QED
    BY <2>2, <2>3
<1> QED
  BY <1>1, <1>2, <1>3, <1>4, <1>5 DEF Recover

\* The rest of a supervisor's life.
LEMMA MovesOfOthers ==
    ASSUME Base, NEW s \in Supervisor, NEW t \in Supervisor,
           \/ Start(s) \/ \E kind \in Kinds : Report(s, kind)
           \/ Interrupt(s) \/ Cancel(s) \/ SaveCheckpoint(s) \/ Release(s) \/ Crash(s)
           \/ Repair(s) \/ RepairDone(s)
    PROVE  Moves(t) \/ (t = s /\ Start(t))
<1> USE DEF Base, TypeOK, SupTypeOK, Moves, Same
<1>1. CASE Start(s)
  BY <1>1 DEF Start
<1>2. CASE (\E kind \in Kinds : Report(s, kind)) \/ SaveCheckpoint(s) \/ Release(s)
  BY <1>2 DEF Report, SaveCheckpoint, Release, outboxVars
<1>3. CASE Interrupt(s)
  BY <1>3 DEF Interrupt, Out
<1>4. CASE Cancel(s)
  BY <1>4 DEF Cancel, Stays, InSession
<1>5. CASE Crash(s)
  BY <1>5 DEF Crash, Out
<1>6. CASE Repair(s)
  BY <1>6 DEF Repair, Out
<1>7. CASE RepairDone(s)
  BY <1>7 DEF RepairDone, outboxVars, Out
<1> QED
  BY <1>1, <1>2, <1>3, <1>4, <1>5, <1>6, <1>7

\* Every step, seen from any supervisor.
LEMMA MovesStep ==
    ASSUME Base, [Next]_vars, NEW t \in Supervisor
    PROVE  \/ Moves(t) \/ Write(t) \/ Push(t) \/ Start(t)
           \/ RecoverLoad(t) \/ Advances(t) \/ Binds(t)
<1>1. ASSUME NEW s \in Supervisor, SendHead(s) PROVE Moves(t) \/ Write(t) \/ Push(t)
  BY <1>1, MovesOfSender
<1>2. ASSUME NEW s \in Supervisor, Recover(s)
      PROVE  Moves(t) \/ RecoverLoad(t) \/ Advances(t) \/ Binds(t)
  BY <1>2, MovesOfRecovery
<1>3. ASSUME NEW s \in Supervisor,
             \/ Start(s) \/ \E kind \in Kinds : Report(s, kind)
             \/ Interrupt(s) \/ Cancel(s) \/ SaveCheckpoint(s) \/ Release(s) \/ Crash(s)
             \/ Repair(s) \/ RepairDone(s)
      PROVE  Moves(t) \/ Start(t)
  BY <1>3, MovesOfOthers
<1>4. ASSUME \/ FenceExpires \/ UNCHANGED vars
             \/ \E r \in Reader : Close(r) \/ \E s \in Supervisor : Open(r, s)
      PROVE  Moves(t)
  <2>1. UNCHANGED <<st, own, mem, phase>>
    BY <1>4 DEF FenceExpires, Open, Close, vars, supVars, outboxVars
  <2> QED
    BY <2>1 DEF Moves, Same
<1> QED
  BY <1>1, <1>2, <1>3, <1>4 DEF Next

\* What a step does to the rows: it keeps them, and adds at most one, which
\* some supervisor writes.
Rows ==
    /\ Len(log) <= Len(log') /\ Len(logEpoch') = Len(log')
    /\ \A i \in 1..Len(log) : log'[i] = log[i] /\ logEpoch'[i] = logEpoch[i]
    /\ \/ Len(log') = Len(log)
       \/ \E s \in Supervisor :
             /\ Write(s) /\ mem[s] = log /\ own[s] = epoch
             /\ Len(log') = Len(log) + 1
             /\ log'[Len(log) + 1].at \in Stamps[s] /\ logEpoch'[Len(log) + 1] = epoch

LEMMA RowsStep ==
    ASSUME Base, [Next]_vars
    PROVE  Rows
<1>1. /\ log \in Seq(Event) /\ logEpoch \in Seq(Nat) /\ Len(log) \in Nat
      /\ Len(logEpoch) = Len(log) /\ epoch \in Nat
  BY LenProperties DEF Base, TypeOK, DbTypeOK
<1>2. CASE UNCHANGED <<log, logEpoch>>
  BY <1>1, <1>2 DEF Rows
<1>3. ASSUME NEW s \in Supervisor, NEW e \in Event, Write(s), e.at \in Stamps[s], Inserts(s, e)
      PROVE  Rows
  <2>1. /\ Len(log') = Len(log) + 1 /\ log'[Len(log) + 1] = e
        /\ \A i \in 1..Len(log) : log'[i] = log[i]
    BY <1>1, <1>3, AppendProperties DEF Inserts
  <2>2. /\ Len(logEpoch') = Len(log) + 1 /\ logEpoch'[Len(log) + 1] = epoch
        /\ \A i \in 1..Len(log) : logEpoch'[i] = logEpoch[i]
    BY <1>1, <1>3, AppendProperties DEF Inserts
  <2>3. mem[s] = log /\ own[s] = epoch
    BY <1>3 DEF Inserts
  <2> QED
    BY <1>1, <1>3, <2>1, <2>2, <2>3 DEF Rows
<1> QED
  BY <1>2, <1>3, LogStep, WriteInserts

\* The step of a supervisor that does not write: the rows it knew are there,
\* and one of another supervisor may be new.
LEMMA FirstElsewhere ==
    ASSUME Base, Base', MemoryIsDurable, DisjointClocks, Rows, NEW t \in Supervisor,
           FirstIsOwn(t), ~Write(t), Same(t) \/ Advances(t)
    PROVE  FirstIsOwn(t)'
<1>1. /\ Len(log) \in Nat /\ Len(log') \in Nat /\ Len(mem[t]) \in Nat
      /\ mem[t] \in Seq(Event) /\ own[t] \in Nat
  BY LenProperties DEF Base, TypeOK, DbTypeOK, SupTypeOK
<1>2. /\ Len(mem[t]) <= Len(log) /\ mem'[t] = mem[t] /\ own'[t] = own[t]
  BY DEF MemoryIsDurable, IsPrefixOf, Same, Advances
<1>3. phase[t] # "idle" => Len(mem[t]) + 1 <= Len(log)
  <2> SUFFICES ASSUME phase[t] # "idle" PROVE Len(mem[t]) + 1 <= Len(log)
    OBVIOUS
  <2>1. sending[t] \in Event /\ IsPrefixOf(Append(mem[t], sending[t]), log)
    BY DEF Base, Book, MemoryIsDurable
  <2> QED
    BY <1>1, <2>1, AppendProperties DEF IsPrefixOf
<1>4. \A i \in 1..Len(log) : log'[i] = log[i] /\ logEpoch'[i] = logEpoch[i]
  BY DEF Rows
<1>5. \A i \in (Len(log) + 1)..Len(log') : log'[i].at \notin Stamps[t]
  BY <1>1 DEF Rows, DisjointClocks
<1>6. Opened(t)'
  <2> SUFFICES ASSUME InSession(t)' PROVE \E i \in 1..Len(log') : Opener(t, i)'
    BY DEF Opened
  <2>1. InSession(t)
    BY DEF InSession, Same, Advances, Recovering
  <2>2. PICK i \in 1..Len(log) : Opener(t, i)
    BY <2>1 DEF FirstIsOwn, Opened
  <2>3. i \in 1..Len(log')
    BY <1>1 DEF Rows
  <2>4. log'[i] = log[i] /\ logEpoch'[i] = logEpoch[i]
        /\ \A j \in 1..(i - 1) : logEpoch'[j] = logEpoch[j]
    BY <1>1, <1>4
  <2>5. ASSUME NEW k, k = i PROVE Opener(t, k)'
    BY <1>2, <2>2, <2>4, <2>5 DEF Opener
  <2> QED
    BY <2>3, <2>5
<1>7. LoadedBefore(t)'
  <2>1. \A i \in 1..Len(mem[t]) : logEpoch'[i] = logEpoch[i]
    BY <1>1, <1>2, <1>4
  <2> QED
    BY <1>2, <2>1 DEF FirstIsOwn, LoadedBefore, Same, Advances, Recovering
<1>8. Opening(t)'
  <2> SUFFICES ASSUME st'[t] = "opening", phase'[t] # "idle"
               PROVE  /\ logEpoch'[Len(mem'[t]) + 1] = own'[t]
                      /\ log'[Len(mem'[t]) + 1].at \in Stamps[t]
    BY DEF Opening
  <2>1. st[t] = "opening" /\ phase[t] # "idle"
    BY DEF Same, Advances, Recovering
  <2>2. logEpoch[Len(mem[t]) + 1] = own[t] /\ log[Len(mem[t]) + 1].at \in Stamps[t]
    BY <2>1 DEF FirstIsOwn, Opening
  <2>3. Len(mem[t]) + 1 \in 1..Len(log)
    BY <1>1, <1>3, <2>1
  <2> QED
    BY <1>2, <1>4, <2>2, <2>3
<1>9. Unwritten(t)'
  <2> SUFFICES ASSUME Recovering(t)' \/ (st'[t] = "opening" /\ phase'[t] = "idle"),
                      NEW i \in (Len(mem'[t]) + 1)..Len(log')
               PROVE  log'[i].at \notin Stamps[t]
    BY DEF Unwritten
  <2>1. Recovering(t) \/ (st[t] = "opening" /\ phase[t] = "idle")
    BY DEF Recovering, Same, Advances
  <2>2. i \in (Len(mem[t]) + 1)..Len(log) => log[i].at \notin Stamps[t]
    BY <2>1 DEF FirstIsOwn, Unwritten
  <2>3. i \in (Len(mem[t]) + 1)..Len(log) => i \in 1..Len(log)
    BY <1>1
  <2>4. i \in (Len(mem[t]) + 1)..Len(log) \/ i \in (Len(log) + 1)..Len(log')
    BY <1>1, <1>2
  <2> QED
    BY <1>4, <1>5, <2>2, <2>3, <2>4
<1> QED
  BY <1>6, <1>7, <1>8, <1>9 DEF FirstIsOwn

\* An open session stays the one that opened its epoch.
LEMMA FirstInSession ==
    ASSUME Base, Rows, NEW t \in Supervisor, FirstIsOwn(t), Stays(t)
    PROVE  FirstIsOwn(t)'
<1>1. Len(log) \in Nat /\ Len(log') \in Nat
  BY LenProperties DEF Base, TypeOK, DbTypeOK, Rows
<1>2. PICK i \in 1..Len(log) : Opener(t, i)
  BY DEF Stays, FirstIsOwn, Opened
<1>3. i \in 1..Len(log')
  BY <1>1 DEF Rows
<1>4. \A j \in 1..i : log'[j] = log[j] /\ logEpoch'[j] = logEpoch[j]
  BY <1>1 DEF Rows
<1>5. ASSUME NEW k, k = i PROVE Opener(t, k)'
  BY <1>1, <1>2, <1>4, <1>5 DEF Opener, Stays
<1>6. \E k \in 1..Len(log') : Opener(t, k)'
  BY <1>3, <1>5
<1> QED
  BY <1>6 DEF FirstIsOwn, Stays, InSession, Opened, LoadedBefore, Opening, Unwritten, Recovering

\* Nothing is claimed of a supervisor that is out.
LEMMA FirstGone ==
    ASSUME NEW t \in Supervisor, Out(t)
    PROVE  FirstIsOwn(t)'
  BY DEF Out, FirstIsOwn, InSession, Opened, LoadedBefore, Opening, Unwritten, Recovering

\* The first append of a session cannot be taken for one that is stored, so
\* it is a new row, right after what was loaded.
LEMMA FirstWrite ==
    ASSUME Base, Base', MemoryIsDurable, Rows, NEW t \in Supervisor,
           FirstIsOwn(t), Write(t)
    PROVE  FirstIsOwn(t)'
<1>1. /\ Len(log) \in Nat /\ Len(mem[t]) \in Nat /\ mem[t] \in Seq(Event) /\ log \in Seq(Event)
  BY LenProperties DEF Base, TypeOK, DbTypeOK, SupTypeOK
<1>2. /\ phase[t] = "idle" /\ phase'[t] = "committed" /\ waiting[t] # <<>>
      /\ st' = st /\ own' = own /\ mem' = mem
  BY DEF Write, Base, TypeOK, SupTypeOK
<1>3. ~Recovering(t)
  BY <1>2 DEF Base, Book, Recovering
<1>4. CASE InSession(t)
  BY <1>2, <1>4, FirstInSession DEF Stays, InSession
<1>5. CASE st[t] = "opening"
  <2>1. PICK at \in Stamps[t] :
          LET e == [kind |-> Head(waiting[t]), at |-> at] IN
          \/ AlreadyStored(mem[t], e)
          \/ MayInsert(t, e) /\ log' = Append(log, e)
             /\ logEpoch' = Append(logEpoch, LoadedEpoch(t))
    BY DEF Write
  <2> DEFINE e == [kind |-> Head(waiting[t]), at |-> at]
  <2>2. e \in Event /\ e.at \in Stamps[t]
    BY <1>2, QueueTypes, StampsAssumption DEF Base, TypeOK, SupTypeOK, Event
  <2>3. ~AlreadyStored(mem[t], e)
    <3> SUFFICES ASSUME AlreadyStored(mem[t], e) PROVE FALSE
      OBVIOUS
    <3>1. IsPrefixOf(Append(mem[t], e), log)
      BY <1>1, <2>2, StoredIsNext DEF Base
    <3>2. /\ Len(Append(mem[t], e)) = Len(mem[t]) + 1
          /\ Append(mem[t], e)[Len(mem[t]) + 1] = e
      BY <1>1, <2>2, AppendProperties
    <3>3. Len(mem[t]) + 1 \in (Len(mem[t]) + 1)..Len(log) /\ log[Len(mem[t]) + 1] = e
      BY <1>1, <3>1, <3>2 DEF IsPrefixOf
    <3> QED
      BY <1>2, <1>5, <2>2, <3>3 DEF FirstIsOwn, Unwritten
  <2>4. MayInsert(t, e) /\ log' = Append(log, e) /\ logEpoch' = Append(logEpoch, LoadedEpoch(t))
    BY <2>1, <2>3
  <2>5. mem[t] = log /\ LoadedEpoch(t) = epoch /\ own[t] = epoch
    BY <1>2, <2>4, InsertIsOwned DEF MayInsert, Base
  <2>6. /\ Len(log') = Len(log) + 1 /\ log'[Len(log) + 1] = e
    BY <1>1, <2>2, <2>4, AppendProperties
  <2>7. logEpoch \in Seq(Nat) /\ Len(logEpoch) = Len(log) /\ epoch \in Nat
    BY DEF Base, TypeOK, DbTypeOK
  <2>8. logEpoch'[Len(log) + 1] = epoch
    BY <1>1, <2>4, <2>5, <2>7, AppendProperties
  <2>9. \A i \in 1..Len(mem[t]) : logEpoch'[i] < own[t]
    BY <1>5, <2>5 DEF Rows, FirstIsOwn, LoadedBefore
  <2>10. LoadedBefore(t)' /\ Opening(t)'
    BY <1>2, <1>3, <1>5, <2>2, <2>5, <2>6, <2>8, <2>9 DEF LoadedBefore, Opening, Recovering
  <2>11. Opened(t)' /\ Unwritten(t)'
    BY <1>2, <1>5 DEF Opened, InSession, Unwritten, Recovering
  <2> QED
    BY <2>10, <2>11 DEF FirstIsOwn
<1>6. CASE st[t] \notin {"opening", "live", "cancelled"}
  BY <1>2, <1>3, <1>6, FirstGone DEF Out, Recovering
<1> QED
  BY <1>4, <1>5, <1>6 DEF InSession

\* The push of that first row opens the session.
LEMMA FirstPush ==
    ASSUME Base, Base', MemoryIsDurable, Rows, NEW t \in Supervisor,
           FirstIsOwn(t), Push(t)
    PROVE  FirstIsOwn(t)'
<1>1. /\ Len(log) \in Nat /\ Len(mem[t]) \in Nat /\ mem[t] \in Seq(Event)
  BY LenProperties DEF Base, TypeOK, DbTypeOK, SupTypeOK
<1>2. /\ phase[t] = "published" /\ own' = own /\ log' = log /\ logEpoch' = logEpoch
      /\ st'[t] = IF st[t] = "opening" THEN "live" ELSE st[t]
  BY DEF Push, Base, TypeOK, SupTypeOK, dbVars
<1>3. ~Recovering(t) /\ sending[t] \in Event
  BY <1>2 DEF Base, Book, Recovering
<1>4. CASE st[t] = "opening"
  <2>1. IsPrefixOf(Append(mem[t], sending[t]), log)
    BY <1>2 DEF MemoryIsDurable
  <2>2. Len(mem[t]) + 1 \in 1..Len(log)
    BY <1>1, <1>3, <2>1, AppendProperties DEF IsPrefixOf
  <2>3. \A i \in 1..Len(mem[t]) : logEpoch[i] < own[t]
    BY <1>4 DEF FirstIsOwn, LoadedBefore
  <2>4. \A j \in 1..((Len(mem[t]) + 1) - 1) : logEpoch[j] < own[t]
    BY <1>1, <2>3
  <2>5. logEpoch[Len(mem[t]) + 1] = own[t] /\ log[Len(mem[t]) + 1].at \in Stamps[t]
    BY <1>2, <1>4 DEF FirstIsOwn, Opening
  <2>6. ASSUME NEW k, k = Len(mem[t]) + 1 PROVE Opener(t, k)'
    BY <1>2, <2>4, <2>5, <2>6 DEF Opener
  <2>7. \E k \in 1..Len(log') : Opener(t, k)'
    BY <1>2, <2>2, <2>6
  <2> QED
    BY <1>2, <1>4, <2>7
       DEF FirstIsOwn, InSession, Opened, LoadedBefore, Opening, Unwritten, Recovering
<1>5. CASE InSession(t)
  BY <1>2, <1>5, FirstInSession DEF Stays, InSession
<1>6. CASE st[t] \notin {"opening", "live", "cancelled"}
  BY <1>2, <1>3, <1>6, FirstGone DEF Out, Recovering
<1> QED
  BY <1>4, <1>5, <1>6 DEF InSession

\* A new run has no rows.
LEMMA FirstStart ==
    ASSUME Base, Base', NEW t \in Supervisor, Start(t)
    PROVE  FirstIsOwn(t)'
<1>1. Len(log) \in Nat /\ Len(logEpoch) = Len(log)
  BY LenProperties DEF Base, TypeOK, DbTypeOK
<1>2. epoch = 0 /\ log' = log /\ mem' = mem /\ phase' = phase /\ st'[t] = "opening"
      /\ mem[t] = <<>> /\ waiting[t] = <<>> /\ phase[t] = "idle"
  BY DEF Start, Base, TypeOK, SupTypeOK, Book
<1>3. Len(log) = 0
  <2>1. \A i \in 1..Len(log) : FALSE
    BY <1>1, <1>2 DEF Base, EpochInv, DbEpochs
  <2>2. Len(log) > 0 => 1 \in 1..Len(log)
    BY <1>1
  <2> QED
    BY <1>1, <2>1, <2>2
<1>4. Len(mem[t]) = 0
  BY <1>2
<1> QED
  BY <1>2, <1>3, <1>4
     DEF FirstIsOwn, InSession, Opened, LoadedBefore, Opening, Unwritten, Recovering

\* A recovery loads every row there is.
LEMMA FirstLoad ==
    ASSUME Base, Base', NEW t \in Supervisor, RecoverLoad(t)
    PROVE  FirstIsOwn(t)'
<1>1. Len(log) \in Nat /\ Len(logEpoch) = Len(log) /\ epoch \in Nat
  BY LenProperties DEF Base, TypeOK, DbTypeOK
<1>2. /\ log' = log /\ logEpoch' = logEpoch /\ mem'[t] = log /\ st'[t] = "loaded"
      /\ own'[t] = epoch
  BY DEF RecoverLoad, Base, TypeOK, SupTypeOK, dbVars
<1>3. \A i \in 1..Len(log) : logEpoch[i] <= epoch
  BY <1>1 DEF Base, EpochInv, DbEpochs
<1>4. \A i \in (Len(log) + 1)..Len(log) : FALSE
  BY <1>1
<1> QED
  BY <1>2, <1>3, <1>4
     DEF FirstIsOwn, InSession, Opened, LoadedBefore, Opening, Unwritten, Recovering

\* The next binding is of the epoch after all that was loaded.
LEMMA FirstBind ==
    ASSUME Base, Base', MemoryIsDurable, DisjointClocks, Rows, NEW t \in Supervisor,
           FirstIsOwn(t), ~Write(t), Binds(t)
    PROVE  FirstIsOwn(t)'
<1>1. /\ Len(log) \in Nat /\ Len(mem[t]) \in Nat /\ own[t] \in Nat
      /\ Len(logEpoch) = Len(log) /\ logEpoch \in Seq(Nat)
      /\ Len(log') \in Nat
  BY LenProperties DEF Base, TypeOK, DbTypeOK, SupTypeOK
<1>2. Len(mem[t]) <= Len(log)
  BY DEF MemoryIsDurable, IsPrefixOf
<1>3. \A i \in 1..Len(mem[t]) : logEpoch[i] \in Nat /\ logEpoch[i] <= own[t] /\ logEpoch'[i] = logEpoch[i]
  BY <1>1, <1>2, ElementOfSeq DEF Rows, FirstIsOwn, LoadedBefore, Recovering, Binds
<1>4. \A i \in 1..Len(mem[t]) : logEpoch'[i] < own[t] + 1
  <2> SUFFICES ASSUME NEW i \in 1..Len(mem[t]) PROVE logEpoch'[i] < own[t] + 1
    OBVIOUS
  <2>1. logEpoch[i] \in Nat /\ logEpoch[i] <= own[t] /\ logEpoch'[i] = logEpoch[i]
    BY <1>3
  <2>2. \A x, y \in Nat : x <= y => x < y + 1
    OBVIOUS
  <2> QED
    BY <1>1, <2>1, <2>2
<1>5. \A i \in (Len(mem[t]) + 1)..Len(log') : log'[i].at \notin Stamps[t]
  <2> SUFFICES ASSUME NEW i \in (Len(mem[t]) + 1)..Len(log') PROVE log'[i].at \notin Stamps[t]
    OBVIOUS
  <2>1. CASE i <= Len(log)
    <3>1. i \in (Len(mem[t]) + 1)..Len(log) /\ i \in 1..Len(log)
      BY <1>1, <2>1
    <3> QED
      BY <3>1 DEF Rows, FirstIsOwn, Unwritten, Recovering, Binds
  <2>2. CASE i > Len(log)
    BY <1>1, <2>2 DEF Rows, DisjointClocks
  <2> QED
    BY <1>1, <2>1, <2>2
<1> QED
  BY <1>4, <1>5
     DEF FirstIsOwn, InSession, Opened, LoadedBefore, Opening, Unwritten, Recovering, Binds

\* So these facts hold from step to step.
LEMMA FirstStep ==
    ASSUME Base, Base', MemoryIsDurable, DisjointClocks,
           \A s \in Supervisor : FirstIsOwn(s), [Next]_vars
    PROVE  \A s \in Supervisor : FirstIsOwn(s)'
<1> SUFFICES ASSUME NEW s \in Supervisor PROVE FirstIsOwn(s)'
  OBVIOUS
<1>1. Rows
  BY RowsStep
<1>2. CASE Write(s)
  BY <1>1, <1>2, FirstWrite
<1>3. CASE ~Write(s) /\ (Same(s) \/ Advances(s))
  BY <1>1, <1>3, FirstElsewhere
<1>4. CASE ~Write(s) /\ Binds(s)
  BY <1>1, <1>4, FirstBind
<1>5. CASE Stays(s)
  BY <1>1, <1>5, FirstInSession
<1>6. CASE Out(s)
  BY <1>6, FirstGone
<1>7. CASE Push(s)
  BY <1>1, <1>7, FirstPush
<1>8. CASE Start(s) \/ RecoverLoad(s)
  BY <1>8, FirstStart, FirstLoad
<1> QED
  BY <1>2, <1>3, <1>4, <1>5, <1>6, <1>7, <1>8, MovesStep DEF Moves

\* The first row of an epoch has one writer, so the epoch has one session.
LEMMA OneOpener ==
    ASSUME Base, DisjointClocks, \A s \in Supervisor : FirstIsOwn(s)
    PROVE  OneSession
<1> SUFFICES ASSUME NEW s \in Supervisor, NEW t \in Supervisor,
                    InSession(s), InSession(t), own[s] = own[t]
             PROVE  s = t
  BY DEF OneSession
<1>1. PICK i \in 1..Len(log) : Opener(s, i)
  BY DEF FirstIsOwn, Opened
<1>2. PICK j \in 1..Len(log) : Opener(t, j)
  BY DEF FirstIsOwn, Opened
<1>3. Len(log) \in Nat /\ own[s] \in Nat
  BY LenProperties DEF Base, TypeOK, DbTypeOK, SupTypeOK
<1>4. ~(i < j)
  <2> SUFFICES ASSUME i < j PROVE FALSE
    OBVIOUS
  <2>1. i \in 1..(j - 1)
    BY <1>3
  <2> QED
    BY <1>1, <1>2, <1>3, <2>1 DEF Opener
<1>5. ~(j < i)
  <2> SUFFICES ASSUME j < i PROVE FALSE
    OBVIOUS
  <2>1. j \in 1..(i - 1)
    BY <1>3
  <2> QED
    BY <1>1, <1>2, <1>3, <2>1 DEF Opener
<1>6. i = j
  BY <1>3, <1>4, <1>5
<1> QED
  BY <1>1, <1>2, <1>6 DEF Opener, DisjointClocks

LEMMA FirstInit == Init => \A s \in Supervisor : FirstIsOwn(s)
  BY DEF Init, FirstIsOwn, InSession, Opened, LoadedBefore, Opening, Unwritten, Recovering

\* One owner at a time.  Where clocks never read the same millisecond, an
\* epoch has one open session, whatever processes die and whichever recoveries
\* race into the epoch; and every row is written by an owner of its epoch.
THEOREM OneOwnerCorrect == DisjointClocks /\ Spec => OneOwner
<1> DEFINE Opening1 == \A s \in Supervisor : FirstIsOwn(s)
<1>1. Init => Base /\ MemoryIsDurable /\ Opening1
  BY BaseInit, MemoryInit, FirstInit
<1>2. DisjointClocks /\ Base /\ MemoryIsDurable /\ Opening1 /\ [Next]_vars
        => Base' /\ MemoryIsDurable' /\ Opening1'
  BY BaseStep, MemoryKept, FirstStep
<1>3. DisjointClocks /\ Base /\ Opening1 => OneSession
  BY OneOpener
<1>4. CASE DisjointClocks
  <2>1. Base /\ MemoryIsDurable /\ Opening1 /\ [Next]_vars
          => Base' /\ MemoryIsDurable' /\ Opening1'
    BY <1>2, <1>4
  <2>2. Base /\ Opening1 => OneSession
    BY <1>3, <1>4
  <2>3. Spec => []OneSession
    BY <1>1, <2>1, <2>2, PTL DEF Spec
  <2> QED
    BY <2>3, OwnerCorrect, PTL DEF OneOwner
<1>5. CASE ~DisjointClocks
  BY <1>5, PTL
<1> QED
  BY <1>4, <1>5

-----------------------------------------------------------------------------
(* What readers are given is without a gap.                                 *)

\* How far an outbox has told its subscribers.
Reached(s) == Len(mem[s]) + (IF phase[s] = "published" THEN 1 ELSE 0)

\* A subscriber is never behind the outbox it follows, so an event that is
\* published is the next one for it, or one it has.
Follows ==
    \A r \in Reader : conn[r] = "open" =>
        /\ via[r] \in Supervisor /\ st[via[r]] # "off"
        /\ cursor[r] >= Reached(via[r])

\* A repair finds in the database what its supervisor had in memory.
RepairsOwnLog == \A s \in Supervisor : Repair(s) => mem[s] = log

\* What a step leaves of how far t has told, if it does not publish.
Behind(t) ==
    /\ st[t] # "off" => st'[t] # "off" /\ Reached(t)' <= Reached(t)
    /\ UNCHANGED readerVars

\* An outbox tells at most what the log has.
LEMMA ReachedType ==
    ASSUME Base, MemoryIsDurable, NEW t \in Supervisor
    PROVE  /\ Reached(t) \in Nat /\ Len(mem[t]) \in Nat /\ Len(log) \in Nat
           /\ Len(mem[t]) <= Reached(t) /\ Reached(t) <= Len(log)
<1>1. Len(mem[t]) \in Nat /\ Len(log) \in Nat /\ mem[t] \in Seq(Event)
  BY LenProperties DEF Base, TypeOK, DbTypeOK, SupTypeOK
<1>2. Len(mem[t]) <= Len(log)
  BY DEF MemoryIsDurable, IsPrefixOf
<1>3. phase[t] = "published" => Len(mem[t]) + 1 <= Len(log)
  <2> SUFFICES ASSUME phase[t] = "published" PROVE Len(mem[t]) + 1 <= Len(log)
    OBVIOUS
  <2>1. sending[t] \in Event /\ IsPrefixOf(Append(mem[t], sending[t]), log)
    BY DEF Base, Book, MemoryIsDurable
  <2> QED
    BY <1>1, <2>1, AppendProperties DEF IsPrefixOf
<1>4. CASE phase[t] = "published"
  <2>1. Reached(t) = Len(mem[t]) + 1
    BY <1>4 DEF Reached
  <2> QED
    BY <1>1, <1>3, <1>4, <2>1
<1>5. CASE phase[t] # "published"
  <2>1. Reached(t) = Len(mem[t])
    BY <1>1, <1>5 DEF Reached
  <2> QED
    BY <1>1, <1>2, <2>1
<1> QED
  BY <1>4, <1>5

\* What an outbox appends, refuses or pushes it tells nobody.
LEMMA BehindSender ==
    ASSUME Base, MemoryIsDurable, NEW s \in Supervisor, NEW t \in Supervisor,
           Write(s) \/ Refuse(s) \/ V1WriteFails(s) \/ Push(s)
    PROVE  Behind(t)
<1>1. Reached(t) \in Nat /\ Len(mem[t]) \in Nat /\ Len(mem[t]) <= Reached(t)
  BY ReachedType
<1> USE DEF Base, TypeOK, SupTypeOK, Behind, Reached
<1>2. CASE Write(s)
  BY <1>1, <1>2 DEF Write
<1>3. ASSUME Rejected(s), waiting[s] # <<>>, mem' = mem, UNCHANGED readerVars PROVE Behind(t)
  <2>1. Settled(s)
    BY <1>3, RejectedSettles
  <2> QED
    BY <1>1, <1>3, <2>1 DEF Settled
<1>4. CASE Refuse(s)
  BY <1>3, <1>4 DEF Refuse
<1>5. CASE V1WriteFails(s)
  BY <1>3, <1>5 DEF V1WriteFails, Book
<1>6. CASE Push(s)
  <2>1. mem[s] \in Seq(Event) /\ sending[s] \in Event /\ phase[s] = "published"
    BY <1>6 DEF Push, Book
  <2>2. Len(Append(mem[s], sending[s])) = Len(mem[s]) + 1
    BY <2>1, AppendProperties
  <2>3. mem' = [mem EXCEPT ![s] = Append(mem[s], sending[s])]
        /\ phase' = [phase EXCEPT ![s] = "idle"]
        /\ st' = [st EXCEPT ![s] = IF st[s] = "opening" THEN "live" ELSE st[s]]
        /\ UNCHANGED readerVars
    BY <1>6 DEF Push
  <2>4. CASE t = s
    BY <1>1, <2>1, <2>2, <2>3, <2>4
  <2>5. CASE t # s
    BY <1>1, <2>3, <2>5
  <2> QED
    BY <2>4, <2>5
<1> QED
  BY <1>2, <1>4, <1>5, <1>6

\* Nor does anything else but a crash, a repair or a reader move it.
LEMMA BehindOthers ==
    ASSUME Base, MemoryIsDurable, RepairsOwnLog, NEW s \in Supervisor, NEW t \in Supervisor,
           \/ Recover(s) \/ Start(s) \/ \E kind \in Kinds : Report(s, kind)
           \/ Interrupt(s) \/ Cancel(s) \/ SaveCheckpoint(s) \/ Release(s)
           \/ Repair(s) \/ RepairDone(s) \/ FenceExpires \/ UNCHANGED vars
    PROVE  Behind(t)
<1>1. Reached(t) \in Nat
  BY ReachedType
<1>11. ASSUME UNCHANGED <<mem, phase, readerVars>>, st[t] # "off" => st'[t] # "off"
       PROVE  Behind(t)
  <2>1. Reached(t)' = Reached(t)
    BY <1>11 DEF Reached
  <2> QED
    BY <1>1, <1>11, <2>1 DEF Behind
<1> USE DEF Base, TypeOK, SupTypeOK
<1>2. CASE RecoverLoad(s)
  <2>1. CASE t = s
    BY <1>2, <2>1 DEF RecoverLoad, Behind
  <2>2. CASE t # s
    <3>1. Reached(t)' = Reached(t)
      BY <1>2, <2>2 DEF RecoverLoad, Reached
    <3> QED
      BY <1>1, <1>2, <2>2, <3>1 DEF RecoverLoad, Behind
  <2> QED
    BY <2>1, <2>2
<1>3. CASE RecoverReread(s)
  BY <1>3, <1>11 DEF RecoverReread, RecoveryFails
<1>4. CASE \E at \in Stamps[s] : RecoverAcquire(s, at)
  BY <1>4, <1>11 DEF RecoverAcquire, outboxVars
<1>5. CASE RecoverConflict(s)
  BY <1>5, <1>11 DEF RecoverConflict, RecoveryFails
<1>6. CASE RecoverBind(s)
  BY <1>6, <1>11 DEF RecoverBind, RecoveryFails
<1>7. CASE (\E kind \in Kinds : Report(s, kind)) \/ SaveCheckpoint(s) \/ Release(s)
  BY <1>7, <1>11 DEF Report, SaveCheckpoint, Release, outboxVars
<1>8. CASE Start(s) \/ Interrupt(s)
  BY <1>8, <1>11 DEF Start, Interrupt
<1>9. CASE Cancel(s)
  BY <1>9, <1>11 DEF Cancel
<1>10. CASE RepairDone(s)
  BY <1>10, <1>11 DEF RepairDone, outboxVars
<1>12. CASE Repair(s)
  <2>1. mem' = [mem EXCEPT ![s] = log] /\ log = mem[s]
    BY <1>12 DEF Repair, RepairsOwnLog
  <2>2. mem' = mem
    BY <2>1
  <2> QED
    BY <1>11, <1>12, <2>2 DEF Repair
<1>13. CASE FenceExpires \/ UNCHANGED vars
  BY <1>11, <1>13 DEF FenceExpires, vars, supVars, outboxVars
<1> QED
  BY <1>2, <1>3, <1>4, <1>5, <1>6, <1>7, <1>8, <1>9, <1>10, <1>12, <1>13 DEF Recover

\* How far it has told is a number.
LEMMA ReachedNext ==
    ASSUME Base', NEW t \in Supervisor
    PROVE  Reached(t)' \in Nat
<1>1. mem'[t] \in Seq(Event)
  BY DEF Base, TypeOK, SupTypeOK
<1>2. Len(mem'[t]) \in Nat
  BY <1>1, LenProperties
<1>3. Reached(t)' = Len(mem'[t]) + 1 \/ Reached(t)' = Len(mem'[t]) + 0
  BY DEF Reached
<1> QED
  BY <1>2, <1>3

\* Where readers are left alone they stay complete and abreast.
LEMMA CompleteBehind ==
    ASSUME Base, Base', MemoryIsDurable, Follows, ReaderComplete,
           \A t \in Supervisor : Behind(t), UNCHANGED readerVars
    PROVE  Follows' /\ ReaderComplete'
<1>1. ReaderComplete'
  BY DEF ReaderComplete, readerVars
<1>2. ASSUME NEW r \in Reader, conn'[r] = "open", NEW t, t = via'[r]
      PROVE  t \in Supervisor /\ st'[t] # "off" /\ cursor'[r] >= Reached(t)'
  <2>1. conn[r] = "open" /\ t = via[r] /\ cursor'[r] = cursor[r] /\ cursor[r] \in Nat
    BY <1>2 DEF readerVars, Base, TypeOK, ReaderTypeOK
  <2>2. t \in Supervisor /\ st[t] # "off" /\ cursor[r] >= Reached(t)
    BY <2>1 DEF Follows
  <2>3. Reached(t) \in Nat /\ Reached(t)' \in Nat
    BY <2>2, ReachedType, ReachedNext
  <2>4. st'[t] # "off" /\ Reached(t)' <= Reached(t)
    BY <2>2 DEF Behind
  <2> QED
    BY <2>1, <2>2, <2>3, <2>4
<1>3. Follows'
  BY <1>2 DEF Follows, Reached
<1> QED
  BY <1>1, <1>3

\* A published event closes no gap and leaves none: whoever is behind it has
\* everything before it.
LEMMA CompletePublish ==
    ASSUME Base, Base', MemoryIsDurable, Follows, ReaderComplete,
           NEW s \in Supervisor, Publish(s)
    PROVE  Follows' /\ ReaderComplete'
<1> DEFINE n == Len(mem[s]) + 1
           Late == {r \in Reader : conn[r] = "open" /\ via[r] = s /\ cursor[r] < n}
<1>1. Len(mem[s]) \in Nat /\ n \in Nat
  BY ReachedType
<1>2. /\ cursor' = [r \in Reader |-> IF r \in Late THEN n ELSE cursor[r]]
      /\ seen' = [r \in Reader |->
                    IF r \in Late THEN seen[r] \cup {<<n, sending[s]>>} ELSE seen[r]]
      /\ UNCHANGED <<conn, via, st, mem>>
      /\ phase[s] = "committed" /\ phase' = [phase EXCEPT ![s] = "published"]
  BY DEF Publish, Delivered
<1>3. \A r \in Reader : cursor[r] \in Nat
  BY DEF Base, TypeOK, ReaderTypeOK
<1>4. Reached(s) = Len(mem[s]) /\ Reached(s)' = n
  BY <1>2 DEF Reached, Base, TypeOK, SupTypeOK
<1>5. \A t \in Supervisor : t # s => Reached(t)' = Reached(t)
  BY <1>2 DEF Reached, Base, TypeOK, SupTypeOK
<1>6. \A t \in Supervisor : Reached(t) \in Nat
  BY ReachedType
<1> HIDE DEF n
<1>7. ASSUME NEW r \in Reader, conn'[r] = "open", NEW t, t = via'[r]
      PROVE  t \in Supervisor /\ st'[t] # "off" /\ cursor'[r] >= Reached(t)'
  <2>1. conn[r] = "open" /\ t = via[r] /\ st' = st
    BY <1>2, <1>7
  <2>2. t \in Supervisor /\ st[t] # "off" /\ cursor[r] >= Reached(t)
    BY <2>1 DEF Follows
  <2>3. CASE t = s
    <3>1. cursor'[r] >= n
      <4>1. CASE r \in Late
        BY <1>1, <1>2, <4>1
      <4>2. CASE r \notin Late
        <5>1. ~(cursor[r] < n)
          BY <2>1, <2>3, <4>2
        <5>2. cursor'[r] = cursor[r] /\ cursor[r] \in Nat
          BY <1>2, <1>3, <4>2
        <5> QED
          BY <1>1, <5>1, <5>2
      <4> QED
        BY <4>1, <4>2
    <3> QED
      BY <1>4, <2>1, <2>2, <2>3, <3>1
  <2>4. CASE t # s
    <3>1. cursor'[r] = cursor[r]
      BY <1>2, <2>1, <2>4
    <3> QED
      BY <1>5, <2>1, <2>2, <2>4, <3>1
  <2> QED
    BY <2>3, <2>4
<1>8. Follows'
  BY <1>7 DEF Follows, Reached
<1>9. ASSUME NEW r \in Reader, NEW i \in 1..cursor'[r]
      PROVE  i \in {p[1] : p \in seen'[r]}
  <2>1. i \in 1..cursor[r] => i \in {p[1] : p \in seen[r]}
    BY DEF ReaderComplete
  <2>2. {p[1] : p \in seen[r]} \subseteq {p[1] : p \in seen'[r]}
    BY <1>2
  <2>3. CASE r \notin Late
    BY <1>2, <1>9, <2>1, <2>2, <2>3
  <2>4. CASE r \in Late
    <3>1. cursor[r] >= Len(mem[s]) /\ cursor'[r] = n
      BY <1>2, <1>4, <2>4 DEF Follows
    <3>2. i \in 1..cursor[r] \/ i = n
      BY <1>1, <1>3, <1>9, <3>1 DEF n
    <3>3. <<n, sending[s]>> \in seen'[r]
      BY <1>2, <2>4
    <3>4. n \in {p[1] : p \in seen'[r]}
      BY <3>3
    <3> QED
      BY <2>1, <2>2, <3>2, <3>4
  <2> QED
    BY <2>3, <2>4
<1>10. ReaderComplete'
  BY <1>9 DEF ReaderComplete
<1> QED
  BY <1>8, <1>10

\* A connection starts with everything after the last event the client has.
LEMMA CompleteOpen ==
    ASSUME Base, Base', MemoryIsDurable, Follows, ReaderComplete,
           NEW q \in Reader, NEW s \in Supervisor, Open(q, s)
    PROVE  Follows' /\ ReaderComplete'
<1> DEFINE Replay == {<<i, log[i]>> : i \in (ReplayFrom(q) + 1)..Len(log)}
<1>1. /\ conn' = [conn EXCEPT ![q] = IF hosted[s] THEN "open" ELSE "replayed"]
      /\ via' = [via EXCEPT ![q] = s]
      /\ cursor' = [cursor EXCEPT ![q] = Len(log)]
      /\ seen' = [seen EXCEPT ![q] = @ \cup Replay]
      /\ UNCHANGED <<st, mem, phase>>
  BY DEF Open, outboxVars
<1>2. /\ conn \in [Reader -> {"closed", "open", "replayed"}]
      /\ via \in [Reader -> Supervisor \cup {None}]
      /\ cursor \in [Reader -> Nat]
      /\ seen \in [Reader -> SUBSET (Nat \X Event)]
  BY DEF Base, TypeOK, ReaderTypeOK
<1>3. \A t \in Supervisor : Reached(t)' = Reached(t)
  BY <1>1 DEF Reached
<1>4. Len(log) \in Nat /\ Len(log) >= Reached(s)
  BY ReachedType
<1>5. hosted[s] => st[s] # "off"
  BY DEF Base, Book
<1>6. ASSUME NEW r \in Reader, conn'[r] = "open", NEW t, t = via'[r]
      PROVE  t \in Supervisor /\ st'[t] # "off" /\ cursor'[r] >= Reached(t)'
  <2>1. CASE r = q
    <3>1. t = s /\ hosted[s] /\ cursor'[r] = Len(log)
      BY <1>1, <1>2, <1>6, <2>1
    <3> QED
      BY <1>1, <1>3, <1>4, <1>5, <3>1
  <2>2. CASE r # q
    <3>1. conn[r] = "open" /\ t = via[r] /\ cursor'[r] = cursor[r]
      BY <1>1, <1>2, <1>6, <2>2
    <3>2. t \in Supervisor /\ st[t] # "off" /\ cursor[r] >= Reached(t)
      BY <3>1 DEF Follows
    <3> QED
      BY <1>1, <1>3, <3>1, <3>2
  <2> QED
    BY <2>1, <2>2
<1>7. Follows'
  BY <1>6 DEF Follows, Reached
<1>8. ASSUME NEW r \in Reader, NEW i \in 1..cursor'[r]
      PROVE  i \in {p[1] : p \in seen'[r]}
  <2>1. i \in 1..cursor[r] => i \in {p[1] : p \in seen[r]}
    BY DEF ReaderComplete
  <2>2. {p[1] : p \in seen[r]} \subseteq {p[1] : p \in seen'[r]}
    BY <1>1, <1>2
  <2>3. CASE r # q
    BY <1>1, <1>2, <1>8, <2>1, <2>2, <2>3
  <2>4. CASE r = q
    <3>1. i \in 1..Len(log)
      BY <1>1, <1>2, <1>8, <2>4
    <3>2. ReplayFrom(q) = 0 \/ ReplayFrom(q) = cursor[q]
      BY DEF ReplayFrom
    <3>3. i \in 1..cursor[r] \/ i \in (ReplayFrom(q) + 1)..Len(log)
      BY <1>2, <1>4, <2>4, <3>1, <3>2
    <3>4. ASSUME i \in (ReplayFrom(q) + 1)..Len(log) PROVE i \in {p[1] : p \in seen'[r]}
      <4>1. <<i, log[i]>> \in Replay
        BY <3>4
      <4>2. <<i, log[i]>> \in seen'[r]
        BY <1>1, <1>2, <2>4, <4>1
      <4> QED
        BY <4>2
    <3> QED
      BY <2>1, <2>2, <3>3, <3>4
  <2> QED
    BY <2>3, <2>4
<1>9. ReaderComplete'
  BY <1>8 DEF ReaderComplete
<1> QED
  BY <1>7, <1>9

\* A client that is cut off, or leaves, keeps what it has.
LEMMA CompleteCut ==
    ASSUME Base, Follows, ReaderComplete, [Next]_vars,
           \/ \E s \in Supervisor : Crash(s)
           \/ \E q \in Reader : Close(q)
    PROVE  Follows' /\ ReaderComplete'
<1>1. UNCHANGED <<cursor, seen>>
  BY DEF Crash, Close
<1>2. ReaderComplete'
  BY <1>1 DEF ReaderComplete
<1>3. ASSUME NEW s \in Supervisor, Crash(s) PROVE Follows'
  <2>1. /\ conn' = [r \in Reader |-> IF via[r] = s THEN "closed" ELSE conn[r]]
        /\ via' = [r \in Reader |-> IF via[r] = s THEN None ELSE via[r]]
    BY <1>3 DEF Crash
  <2>2. \A t \in Supervisor : t # s => st'[t] = st[t] /\ Reached(t)' = Reached(t)
    BY <1>3 DEF Crash, Reached, Base, TypeOK, SupTypeOK
  <2>3. ASSUME NEW r \in Reader, conn'[r] = "open", NEW t, t = via'[r]
        PROVE  t \in Supervisor /\ st'[t] # "off" /\ cursor'[r] >= Reached(t)'
    <3>1. conn[r] = "open" /\ via[r] # s /\ t = via[r]
      BY <2>1, <2>3
    <3>2. t \in Supervisor /\ st[t] # "off" /\ cursor[r] >= Reached(t)
      BY <3>1 DEF Follows
    <3> QED
      BY <1>1, <2>2, <3>1, <3>2
  <2> QED
    BY <2>3 DEF Follows, Reached
<1>4. ASSUME NEW q \in Reader, Close(q) PROVE Follows'
  <2>1. /\ conn' = [conn EXCEPT ![q] = "closed"] /\ via' = [via EXCEPT ![q] = None]
        /\ UNCHANGED <<st, mem, phase>>
    BY <1>4 DEF Close, supVars, outboxVars
  <2>2. \A t \in Supervisor : Reached(t)' = Reached(t)
    BY <2>1 DEF Reached
  <2>3. ASSUME NEW r \in Reader, conn'[r] = "open", NEW t, t = via'[r]
        PROVE  t \in Supervisor /\ st'[t] # "off" /\ cursor'[r] >= Reached(t)'
    <3>1. conn[r] = "open" /\ t = via[r]
      BY <2>1, <2>3 DEF Base, TypeOK, ReaderTypeOK
    <3>2. t \in Supervisor /\ st[t] # "off" /\ cursor[r] >= Reached(t)
      BY <3>1 DEF Follows
    <3> QED
      BY <1>1, <2>1, <2>2, <3>1, <3>2
  <2> QED
    BY <2>3 DEF Follows, Reached
<1> QED
  BY <1>2, <1>3, <1>4

\* All steps together.
LEMMA CompleteStep ==
    ASSUME Base, Base', MemoryIsDurable, Follows, ReaderComplete, RepairsOwnLog, [Next]_vars
    PROVE  Follows' /\ ReaderComplete'
<1> DEFINE Kept == Follows' /\ ReaderComplete'
<1>1. ASSUME NEW s \in Supervisor,
             Write(s) \/ Refuse(s) \/ V1WriteFails(s) \/ Push(s)
      PROVE  Kept
  <2>1. UNCHANGED readerVars
    BY <1>1 DEF Write, Refuse, V1WriteFails, Push
  <2> QED
    BY <1>1, <2>1, BehindSender, CompleteBehind
<1>2. ASSUME NEW s \in Supervisor,
             \/ Recover(s) \/ Start(s) \/ \E kind \in Kinds : Report(s, kind)
             \/ Interrupt(s) \/ Cancel(s) \/ SaveCheckpoint(s) \/ Release(s)
             \/ Repair(s) \/ RepairDone(s)
      PROVE  Kept
  <2>1. \A t \in Supervisor : Behind(t)
    BY <1>2, BehindOthers
  <2>2. UNCHANGED readerVars
    BY <2>1 DEF Behind
  <2> QED
    BY <2>1, <2>2, CompleteBehind
<1>3. CASE FenceExpires \/ UNCHANGED vars
  <2>1. UNCHANGED readerVars
    BY <1>3 DEF FenceExpires, vars
  <2>2. \A t \in Supervisor : Behind(t)
    BY <1>3, BehindOthers
  <2> QED
    BY <2>1, <2>2, CompleteBehind
<1>4. ASSUME NEW s \in Supervisor, Publish(s) PROVE Kept
  BY <1>4, CompletePublish
<1>5. ASSUME NEW r \in Reader, NEW s \in Supervisor, Open(r, s) PROVE Kept
  BY <1>5, CompleteOpen
<1>6. CASE (\E s \in Supervisor : Crash(s)) \/ (\E q \in Reader : Close(q))
  BY <1>6, CompleteCut
<1>7. ASSUME NEW s \in Supervisor, SendHead(s) PROVE Kept
  BY <1>1, <1>4, <1>7 DEF SendHead
<1>8. ASSUME NEW s \in Supervisor, Crash(s) PROVE Kept
  BY <1>6, <1>8
<1>9. ASSUME NEW q \in Reader, Close(q) PROVE Kept
  BY <1>6, <1>9
<1>10. CASE UNCHANGED vars
  BY <1>3, <1>10
<1>11. CASE Next
  BY <1>2, <1>3, <1>5, <1>7, <1>8, <1>9, <1>11 DEF Next
<1>12. Kept
  BY <1>10, <1>11
<1> QED
  BY <1>12 DEF Kept

LEMMA CompleteInit == Init => Follows /\ ReaderComplete
<1> SUFFICES ASSUME Init PROVE Follows /\ ReaderComplete
  OBVIOUS
<1>1. \A r \in Reader : conn[r] = "closed" /\ cursor[r] = 0
  BY DEF Init
<1>2. 1..0 = {}
  OBVIOUS
<1> QED
  BY <1>1, <1>2 DEF Follows, ReaderComplete

\* Only a repair can cost a reader an event, and only one that finds events in
\* the database that its own outbox does not hold: as long as every repair
\* finds what its supervisor had in memory, no reader ever misses an event,
\* whatever else fails.
THEOREM CompleteUnlessRepaired == Spec /\ [][RepairsOwnLog]_vars => []ReaderComplete
<1>1. Base /\ MemoryIsDurable /\ [Next]_vars => Base' /\ MemoryIsDurable'
  BY BaseStep, MemoryKept
<1>2. /\ Base /\ MemoryIsDurable /\ Follows /\ ReaderComplete
      /\ [Next]_vars /\ [RepairsOwnLog]_vars
      => Follows' /\ ReaderComplete'
  <2> SUFFICES ASSUME Base, MemoryIsDurable, Follows, ReaderComplete, [Next]_vars,
                      [RepairsOwnLog]_vars
               PROVE  Follows' /\ ReaderComplete'
    OBVIOUS
  <2>1. Base'
    BY <1>1
  <2>2. CASE RepairsOwnLog
    BY <2>1, <2>2, CompleteStep
  <2>3. CASE UNCHANGED vars
    <3>1. UNCHANGED <<st, mem, phase, readerVars>>
      BY <2>3 DEF vars, supVars, outboxVars
    <3> QED
      BY <3>1 DEF Follows, Reached, ReaderComplete, readerVars
  <2> QED
    BY <2>2, <2>3
<1> QED
  BY <1>1, <1>2, BaseInit, MemoryInit, CompleteInit, PTL DEF Spec


\* One process at a time hosts the run, and the legacy run state is always
\* written.
Alone == ~V1Fails /\ \A s, t \in Supervisor : s = t

\* An outbox that works holds the whole log, but for the event that it is
\* about to push.
Current(s) ==
    st[s] # "off" =>
        log = IF phase[s] = "idle" THEN mem[s] ELSE Append(mem[s], sending[s])

\* With the log before it, an append is never taken for one that is stored.
LEMMA CurrentWrite ==
    ASSUME Base, NEW s \in Supervisor, Current(s), Write(s)
    PROVE  Current(s)'
<1>1. PICK at \in Stamps[s] :
        LET e == [kind |-> Head(waiting[s]), at |-> at] IN
        /\ AlreadyStored(mem[s], e) \/ log' = Append(log, e)
        /\ sending' = [sending EXCEPT ![s] = e]
  BY DEF Write
<1> DEFINE e == [kind |-> Head(waiting[s]), at |-> at]
<1>2. /\ phase[s] = "idle" /\ phase'[s] = "committed" /\ waiting[s] # <<>>
      /\ st' = st /\ mem' = mem
  BY DEF Write, Base, TypeOK, SupTypeOK
<1>3. sending'[s] = e
  BY <1>1 DEF Base, TypeOK, SupTypeOK
<1> HIDE DEF e
<1>4. CASE st[s] = "off"
  BY <1>2, <1>4 DEF Base, Book
<1>5. CASE st[s] # "off"
  <2>1. log = mem[s] /\ Len(log) \in Nat
    BY <1>2, <1>5, LenProperties DEF Current, Base, TypeOK, DbTypeOK
  <2>2. ~AlreadyStored(mem[s], e)
    BY <2>1 DEF AlreadyStored
  <2>3. log' = Append(mem[s], e)
    BY <1>1, <2>1, <2>2 DEF e
  <2> QED
    BY <1>2, <1>3, <2>3 DEF Current
<1> QED
  BY <1>4, <1>5

\* Every stage of an append, of the one supervisor there is.
LEMMA CurrentSender ==
    ASSUME Base, Alone, NEW s \in Supervisor, Current(s), SendHead(s)
    PROVE  Current(s)'
<1> USE DEF Base, TypeOK, SupTypeOK
<1>1. CASE Write(s)
  BY <1>1, CurrentWrite
<1>2. CASE Refuse(s)
  <2>1. phase[s] = "idle" /\ Rejected(s) /\ waiting[s] # <<>> /\ mem' = mem /\ log' = log
    BY <1>2 DEF Refuse, dbVars
  <2>2. Settled(s)
    BY <2>1, RejectedSettles
  <2>3. phase'[s] = "idle" /\ st[s] # "off"
    BY <2>1, <2>2 DEF Settled, Book
  <2> QED
    BY <2>1, <2>3 DEF Current
<1>3. CASE Publish(s)
  BY <1>3 DEF Publish, Current, dbVars
<1>4. CASE V1WriteFails(s)
  BY <1>4 DEF V1WriteFails, Alone
<1>5. CASE Push(s)
  <2>1. /\ phase[s] = "published" /\ phase'[s] = "idle" /\ log' = log
        /\ mem'[s] = Append(mem[s], sending[s])
    BY <1>5 DEF Push, dbVars
  <2>2. st[s] # "off"
    BY <2>1 DEF Book
  <2> QED
    BY <2>1, <2>2 DEF Current
<1> QED
  BY <1>1, <1>2, <1>3, <1>4, <1>5 DEF SendHead

\* Before the first epoch the log is empty.
LEMMA NoRows ==
    ASSUME Base, epoch = 0
    PROVE  log = <<>>
<1>1. log \in Seq(Event) /\ Len(log) \in Nat /\ Len(logEpoch) = Len(log)
  BY LenProperties DEF Base, TypeOK, DbTypeOK
<1>2. \A i \in 1..Len(log) : FALSE
  BY <1>1 DEF Base, EpochInv, DbEpochs
<1>3. Len(log) > 0 => 1 \in 1..Len(log)
  BY <1>1
<1>4. Len(log) = 0
  BY <1>1, <1>2, <1>3
<1> QED
  BY <1>1, <1>4, EmptySeq

\* Whatever reads the log has all of it.
LEMMA CurrentOthers ==
    ASSUME Base, NEW s \in Supervisor, Current(s),
           \/ Recover(s) \/ Start(s) \/ \E kind \in Kinds : Report(s, kind)
           \/ Interrupt(s) \/ Cancel(s) \/ SaveCheckpoint(s) \/ Release(s) \/ Crash(s)
           \/ Repair(s) \/ RepairDone(s)
    PROVE  Current(s)'
<1> USE DEF Base, TypeOK, SupTypeOK
<1>1. ASSUME UNCHANGED <<log, mem, phase, sending>>, st[s] # "off"
      PROVE  Current(s)'
  BY <1>1 DEF Current
<1>2. CASE RecoverLoad(s)
  BY <1>2 DEF RecoverLoad, Current, Book, dbVars
<1>3. CASE RecoverReread(s)
  BY <1>1, <1>3 DEF RecoverReread, dbVars
<1>4. CASE \E at \in Stamps[s] : RecoverAcquire(s, at)
  BY <1>1, <1>4 DEF RecoverAcquire, outboxVars
<1>5. CASE RecoverConflict(s)
  BY <1>1, <1>5 DEF RecoverConflict, dbVars
<1>6. CASE RecoverBind(s)
  BY <1>1, <1>6 DEF RecoverBind, dbVars
<1>7. CASE Start(s)
  <2>1. /\ phase' = phase /\ mem' = mem /\ log' = log /\ epoch = 0
        /\ mem[s] = <<>> /\ phase[s] = "idle"
    BY <1>7 DEF Start, Book
  <2>2. log = <<>>
    BY <2>1, NoRows
  <2> QED
    BY <2>1, <2>2 DEF Current
<1>8. CASE (\E kind \in Kinds : Report(s, kind)) \/ Interrupt(s) \/ SaveCheckpoint(s)
  BY <1>1, <1>8 DEF Report, Interrupt, SaveCheckpoint, dbVars
<1>9. CASE Cancel(s)
  BY <1>1, <1>9 DEF Cancel, dbVars
<1>10. CASE Release(s)
  <2>1. st[s] # "off" /\ UNCHANGED <<log, mem, phase, sending>>
    BY <1>10 DEF Release, Book, dbVars, outboxVars
  <2> QED
    BY <1>1, <2>1
<1>11. CASE Crash(s)
  BY <1>11 DEF Crash, Current
<1>12. CASE Repair(s)
  <2>1. phase[s] = "idle"
    BY <1>12 DEF Repair, Book
  <2> QED
    BY <1>12, <2>1 DEF Repair, Current, dbVars
<1>13. CASE RepairDone(s)
  BY <1>1, <1>13 DEF RepairDone, dbVars, outboxVars
<1> QED
  BY <1>2, <1>3, <1>4, <1>5, <1>6, <1>7, <1>8, <1>9, <1>10, <1>11, <1>12, <1>13 DEF Recover

\* The one supervisor there is holds the log from step to step.
LEMMA CurrentStep ==
    ASSUME Base, Alone, \A s \in Supervisor : Current(s), [Next]_vars
    PROVE  \A s \in Supervisor : Current(s)'
<1> SUFFICES ASSUME NEW s \in Supervisor PROVE Current(s)'
  OBVIOUS
<1>1. \A t \in Supervisor : t = s
  BY DEF Alone
<1>2. ASSUME NEW t \in Supervisor, SendHead(t) PROVE Current(s)'
  <2>1. SendHead(s)
    BY <1>1, <1>2
  <2> QED
    BY <2>1, CurrentSender
<1>3. ASSUME NEW t \in Supervisor,
             \/ Recover(t) \/ Start(t) \/ \E kind \in Kinds : Report(t, kind)
             \/ Interrupt(t) \/ Cancel(t) \/ SaveCheckpoint(t) \/ Release(t) \/ Crash(t)
             \/ Repair(t) \/ RepairDone(t)
      PROVE  Current(s)'
  <2>1. t = s
    BY <1>1
  <2>2. Current(t)'
    BY <1>3, CurrentOthers
  <2> QED
    BY <2>1, <2>2
<1>4. ASSUME \/ FenceExpires \/ UNCHANGED vars
             \/ \E r \in Reader : Close(r) \/ \E t \in Supervisor : Open(r, t)
      PROVE  Current(s)'
  <2>1. UNCHANGED <<st, log, mem, phase, sending>>
    BY <1>4 DEF FenceExpires, Open, Close, vars, dbVars, supVars, outboxVars
  <2> QED
    BY <2>1 DEF Current
<1> QED
  BY <1>2, <1>3, <1>4 DEF Next

\* A process that has the run to itself, and always manages to write the
\* legacy state, leaves no reader without an event: across crashes, restarts,
\* recoveries, cancellations and repairs, and whenever clients come and go.
THEOREM ReaderCompleteCorrect == Alone /\ Spec => []ReaderComplete
<1>1. CASE Alone
  <2>1. Init => \A s \in Supervisor : Current(s)
    BY DEF Init, Current
  <2>2. Base /\ (\A s \in Supervisor : Current(s)) /\ [Next]_vars
          => \A s \in Supervisor : Current(s)'
    BY <1>1, CurrentStep
  <2>3. Base /\ (\A s \in Supervisor : Current(s)) => RepairsOwnLog
    <3> SUFFICES ASSUME Base, \A s \in Supervisor : Current(s), NEW s \in Supervisor, Repair(s)
                 PROVE  mem[s] = log
      BY DEF RepairsOwnLog
    <3>1. st[s] # "off" /\ phase[s] = "idle"
      BY DEF Repair, Base, Book
    <3> QED
      BY <3>1 DEF Current
  <2> DEFINE AllCurrent == \A s \in Supervisor : Current(s)
  <2>4. Init => Base /\ AllCurrent
    BY <2>1, BaseInit
  <2>5. Base /\ AllCurrent /\ [Next]_vars => Base' /\ AllCurrent'
    BY <2>2, BaseStep
  <2>6. Base /\ AllCurrent => [RepairsOwnLog]_vars
    BY <2>3
  <2> HIDE DEF AllCurrent
  <2> QED
    BY <2>4, <2>5, <2>6, CompleteUnlessRepaired, PTL DEF Spec
<1>2. CASE ~Alone
  BY <1>2, PTL
<1> QED
  BY <1>1, <1>2

=============================================================================
