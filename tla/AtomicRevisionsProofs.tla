------------------------ MODULE AtomicRevisionsProofs ------------------------
(****************************************************************************)
(* What AtomicRevisions guarantees for every number of requests and         *)
(* processes, and without bound on deaths, power losses, expired leases and *)
(* changes of the project.                                                  *)
(*                                                                          *)
(* The argument has three layers.  RowStep lists what a step may do to the  *)
(* rows of the database, whoever takes it; the invariants of the database   *)
(* (RowInv) are preserved by every RowStep.  CallInv says what a process in *)
(* a call may rely on, FileInv what it may find of the final files; with    *)
(* them every step of the specification is a RowStep or leaves the rows     *)
(* alone.                                                                   *)
(****************************************************************************)
EXTENDS AtomicRevisions, FiniteSetTheorems, TLAPS

rows == <<request, idem, state, record, active, pending, commitGen, lifecycle,
          creator, revisions>>
-----------------------------------------------------------------------------
(* What a step may do to the rows of the database.                           *)

Composed(k) ==
    /\ request[k] = None
    /\ \E r \in RequestType : request' = [request EXCEPT ![k] = r]
    /\ UNCHANGED <<idem, state, record, active, pending, commitGen, lifecycle,
                   creator, revisions>>

Reserved(k) ==
    /\ request[k] # None /\ idem[k] = "none" /\ Preflight(k)
    /\ idem' = [idem EXCEPT ![k] = "in_progress"]
    /\ state' = [state EXCEPT ![k] = "reserved"]
    /\ lifecycle' = IF k \in CreateKeys THEN "creating" ELSE lifecycle
    /\ creator' = IF k \in CreateKeys THEN k ELSE creator
    /\ UNCHANGED <<request, record, active, pending, commitGen, revisions>>

Moved(k) ==
    /\ \/ state[k] = "reserved" /\ state' = [state EXCEPT ![k] = "staged"]
       \/ state[k] = "head_reserved" /\ state' = [state EXCEPT ![k] = "published"]
    /\ UNCHANGED <<request, idem, record, active, pending, commitGen, lifecycle,
                   creator, revisions>>

HeadTaken(k) ==
    /\ state[k] = "staged" /\ pending = None /\ HeadMatches(k)
    /\ record[k].state = "none"
    /\ record' = [record EXCEPT ![k] =
         [state |-> "pending", no |-> commitGen + 1, parent |-> request[k].active]]
    /\ pending' = k
    /\ state' = [state EXCEPT ![k] = "head_reserved"]
    /\ UNCHANGED <<request, idem, active, commitGen, lifecycle, creator, revisions>>

Committed(k) ==
    /\ state[k] = "published" /\ record[k].state = "pending" /\ pending = k
    /\ active = request[k].active
    /\ k \in CreateKeys => lifecycle = "creating" /\ creator = k
    /\ state' = [state EXCEPT ![k] = "completed"]
    /\ idem' = [idem EXCEPT ![k] = "succeeded"]
    /\ record' = [record EXCEPT ![k].state = "committed"]
    /\ revisions' = revisions \cup
         {[id |-> k, no |-> record[k].no, parent |-> request[k].active]}
    /\ active' = k /\ pending' = None /\ commitGen' = commitGen + 1
    /\ lifecycle' = IF k \in CreateKeys THEN "ready" ELSE lifecycle
    /\ UNCHANGED <<request, creator>>

Refused(k) ==
    /\ \/ /\ state[k] \in OpenStates
          /\ state' = [state EXCEPT ![k] = "quarantined"]
          /\ record' = IF record[k].state = "pending"
                       THEN [record EXCEPT ![k].state = "quarantined"] ELSE record
          /\ pending' = IF pending = k THEN None ELSE pending
       \/ /\ state[k] \in {"reserved", "staged"}
          /\ state' = [state EXCEPT ![k] = "rejected"]
          /\ UNCHANGED <<record, pending>>
    /\ idem' = [idem EXCEPT ![k] = "rejected"]
    /\ RemoveCreating(k)
    /\ UNCHANGED <<request, active, revisions>>

RowStep == \E k \in Keys :
    \/ Composed(k) \/ Reserved(k) \/ Moved(k) \/ HeadTaken(k)
    \/ Committed(k) \/ Refused(k)
-----------------------------------------------------------------------------
(* The invariant of the rows.                                                *)

\* The types of the rows; the other columns do not matter to them.
RowsTypeOK ==
    /\ request \in [Keys -> RequestType \cup {None}]
    /\ idem \in [Keys -> {"none", "in_progress", "succeeded", "rejected"}]
    /\ state \in [Keys -> AttemptStates]
    /\ record \in [Keys -> RecordType]
    /\ active \in Keys \cup {None}
    /\ pending \in Keys \cup {None}
    /\ commitGen \in Nat
    /\ lifecycle \in {"absent", "creating", "ready"}
    /\ creator \in Keys \cup {None}
    /\ revisions \subseteq [id : Keys, no : Nat, parent : Keys \cup {None}]

\* No attempt without a request, no commit to a VDT that is not there.
Asked ==
    /\ \A k \in Keys : state[k] # "none" => request[k] # None
    /\ \A k \in Keys \ CreateKeys : state[k] # "none" => lifecycle = "ready"

\* The chain, with what the numbers of its revisions are.
Chain == LinearChain /\ IsFiniteSet(revisions) /\ \A r \in revisions : r.no \in 1..commitGen

RowInv == /\ RowsTypeOK /\ Asked /\ AnswerCoherent /\ SlotCoherent
          /\ CreatingIsOwned /\ Chain

USE KeysAssumption DEF OpenStates

LEMMA RowsType == ASSUME RowsTypeOK, RowStep PROVE RowsTypeOK'
<1> PICK k \in Keys : \/ Composed(k) \/ Reserved(k) \/ Moved(k) \/ HeadTaken(k)
                      \/ Committed(k) \/ Refused(k)
  BY DEF RowStep
<1>1. CASE Composed(k)
  BY <1>1 DEF RowsTypeOK, Composed
<1>2. CASE Reserved(k)
  BY <1>2 DEF RowsTypeOK, Reserved, AttemptStates
<1>3. CASE Moved(k)
  BY <1>3 DEF RowsTypeOK, Moved, AttemptStates
<1>4. CASE HeadTaken(k)
  <2>1. [state |-> "pending", no |-> commitGen + 1, parent |-> request[k].active] \in RecordType
    BY <1>4 DEF HeadTaken, HeadMatches, RowsTypeOK, RecordType, RecordStates
  <2> QED BY <1>4, <2>1 DEF RowsTypeOK, HeadTaken, AttemptStates
<1>5. CASE Committed(k)
  <2>1. [record[k] EXCEPT !.state = "committed"] \in RecordType
    BY DEF RowsTypeOK, RecordType, RecordStates
  <2>2. record' \in [Keys -> RecordType]
    BY <1>5, <2>1 DEF RowsTypeOK, Committed
  <2>3. [id |-> k, no |-> record[k].no, parent |-> request[k].active]
          \in [id : Keys, no : Nat, parent : Keys \cup {None}]
    BY <1>5 DEF RowsTypeOK, RecordType, Committed
  <2> QED BY <1>5, <2>2, <2>3 DEF RowsTypeOK, Committed, AttemptStates
<1>6. CASE Refused(k)
  <2>1. [record[k] EXCEPT !.state = "quarantined"] \in RecordType
    BY DEF RowsTypeOK, RecordType, RecordStates
  <2>2. record' \in [Keys -> RecordType]
    BY <1>6, <2>1 DEF RowsTypeOK, Refused
  <2>3. /\ lifecycle' \in {"absent", "creating", "ready"}
        /\ creator' \in Keys \cup {None} /\ commitGen' \in Nat
    BY <1>6 DEF RowsTypeOK, Refused, RemoveCreating
  <2>4. state' \in [Keys -> AttemptStates] /\ pending' \in Keys \cup {None}
    BY <1>6 DEF RowsTypeOK, Refused, AttemptStates
  <2> QED BY <1>6, <2>2, <2>3, <2>4 DEF RowsTypeOK, Refused
<1> QED BY <1>1, <1>2, <1>3, <1>4, <1>5, <1>6

LEMMA RowsAnswer == ASSUME RowInv, RowStep PROVE AnswerCoherent'
<1> PICK k \in Keys : \/ Composed(k) \/ Reserved(k) \/ Moved(k) \/ HeadTaken(k)
                      \/ Committed(k) \/ Refused(k)
  BY DEF RowStep
<1> USE DEF RowInv, RowsTypeOK, AnswerCoherent
<1>1. CASE Composed(k)
  BY <1>1 DEF Composed
<1>2. CASE Reserved(k)
  BY <1>2 DEF Reserved
<1>3. CASE Moved(k)
  BY <1>3 DEF Moved
<1>4. CASE HeadTaken(k)
  <2>1. /\ state'[k] = "head_reserved" /\ record'[k].state = "pending"
        /\ state[k] = "staged"
        /\ \A j \in Keys \ {k} : state'[j] = state[j] /\ record'[j] = record[j]
        /\ UNCHANGED <<idem, revisions>>
    BY <1>4 DEF HeadTaken
  <2> QED BY <2>1
<1>5. CASE Committed(k)
  <2> DEFINE new == [id |-> k, no |-> record[k].no, parent |-> request[k].active]
  <2>1. /\ state'[k] = "completed" /\ idem'[k] = "succeeded"
        /\ record'[k].state = "committed"
        /\ \A j \in Keys \ {k} : /\ state'[j] = state[j] /\ idem'[j] = idem[j]
                                 /\ record'[j] = record[j]
    BY <1>5 DEF Committed, RecordType
  <2>2. revisions' = revisions \cup {new} /\ new.id = k
    BY <1>5 DEF Committed
  <2>3. \A j \in Keys \ {k} : (\E r \in revisions' : r.id = j) <=> \E r \in revisions : r.id = j
    BY <2>2
  <2>4. \E r \in revisions' : r.id = k
    BY <2>2
  <2> QED BY <2>1, <2>3, <2>4
<1>6. CASE Refused(k)
  <2>1. /\ state'[k] \in {"quarantined", "rejected"} /\ idem'[k] = "rejected"
        /\ state[k] \in OpenStates
        /\ \A j \in Keys \ {k} : /\ state'[j] = state[j] /\ idem'[j] = idem[j]
                                 /\ record'[j] = record[j]
        /\ record'[k].state = "committed" => record[k].state = "committed"
        /\ UNCHANGED revisions
    BY <1>6 DEF Refused, RecordType
  <2> QED BY <2>1
<1> QED BY <1>1, <1>2, <1>3, <1>4, <1>5, <1>6

LEMMA RowsAsked == ASSUME RowInv, RowStep PROVE Asked'
<1> PICK k \in Keys : \/ Composed(k) \/ Reserved(k) \/ Moved(k) \/ HeadTaken(k)
                      \/ Committed(k) \/ Refused(k)
  BY DEF RowStep
<1> USE DEF RowInv, RowsTypeOK, Asked
<1>1. CASE Composed(k)
  BY <1>1 DEF Composed, RequestType
<1>2. CASE Reserved(k)
  BY <1>2 DEF Reserved, Preflight
<1>3. CASE Moved(k)
  BY <1>3 DEF Moved
<1>4. CASE HeadTaken(k)
  BY <1>4 DEF HeadTaken
<1>5. CASE Committed(k)
  BY <1>5 DEF Committed
<1>6. CASE Refused(k)
  BY <1>6 DEF Refused, RemoveCreating
<1> QED BY <1>1, <1>2, <1>3, <1>4, <1>5, <1>6

LEMMA RowsSlot == ASSUME RowInv, RowStep PROVE SlotCoherent'
<1> PICK k \in Keys : \/ Composed(k) \/ Reserved(k) \/ Moved(k) \/ HeadTaken(k)
                      \/ Committed(k) \/ Refused(k)
  BY DEF RowStep
<1> USE DEF RowInv, RowsTypeOK, SlotCoherent
<1>1. CASE Composed(k)
  BY <1>1 DEF Composed, HeadMatches, Asked
<1>2. CASE Reserved(k)
  BY <1>2 DEF Reserved, HeadMatches, AnswerCoherent
<1>3. CASE Moved(k)
  BY <1>3 DEF Moved, HeadMatches
<1>4. CASE HeadTaken(k)
  <2>1. /\ state'[k] = "head_reserved" /\ record'[k].state = "pending"
        /\ record'[k].no = commitGen + 1 /\ pending' = k
        /\ \A j \in Keys \ {k} : state'[j] = state[j] /\ record'[j] = record[j]
        /\ UNCHANGED <<request, active, commitGen>>
    BY <1>4 DEF HeadTaken
  <2>2. pending = None /\ HeadMatches(k)
    BY <1>4 DEF HeadTaken
  <2> QED BY <2>1, <2>2 DEF HeadMatches
<1>5. CASE Committed(k)
  <2>1. /\ state'[k] = "completed" /\ record'[k].state = "committed"
        /\ \A j \in Keys \ {k} : state'[j] = state[j] /\ record'[j] = record[j]
        /\ pending = k /\ pending' = None
    BY <1>5 DEF Committed, RecordType
  <2> QED BY <2>1
<1>6. CASE Refused(k)
  <2>1. /\ state'[k] \in {"quarantined", "rejected"}
        /\ record'[k].state # "pending"
        /\ \A j \in Keys \ {k} : state'[j] = state[j] /\ record'[j] = record[j]
        /\ pending' = IF pending = k THEN None ELSE pending
        /\ UNCHANGED <<request, active>>
    BY <1>6 DEF Refused, RecordType
  <2>2. pending' # None => UNCHANGED commitGen
    BY <1>6 DEF Refused, RemoveCreating
  <2> QED BY <2>1, <2>2 DEF HeadMatches
<1> QED BY <1>1, <1>2, <1>3, <1>4, <1>5, <1>6

LEMMA RowsCreating == ASSUME RowInv, RowStep PROVE CreatingIsOwned'
<1> PICK k \in Keys : \/ Composed(k) \/ Reserved(k) \/ Moved(k) \/ HeadTaken(k)
                      \/ Committed(k) \/ Refused(k)
  BY DEF RowStep
<1> USE DEF RowInv, RowsTypeOK, CreatingIsOwned
<1>1. CASE Composed(k)
  BY <1>1 DEF Composed
<1>2. CASE Reserved(k)
  BY <1>2 DEF Reserved, Preflight, Writable
<1>3. CASE Moved(k)
  BY <1>3 DEF Moved
<1>4. CASE HeadTaken(k)
  BY <1>4 DEF HeadTaken, Asked
<1>5. CASE Committed(k)
  <2>1. lifecycle' = "ready"
    BY <1>5 DEF Committed, Asked
  <2>2. \A j \in CreateKeys : state'[j] \notin OpenStates
    BY <1>5 DEF Committed, Asked
  <2> QED BY <2>1, <2>2
<1>6. CASE Refused(k)
  <2>1. /\ state[k] \in OpenStates /\ state'[k] \notin OpenStates
        /\ \A j \in Keys \ {k} : state'[j] = state[j]
        /\ active' = active
    BY <1>6 DEF Refused
  <2>2. CASE k \in CreateKeys
    <3>1. lifecycle = "creating" /\ creator = k /\ active = None
      BY <2>1, <2>2
    <3>2. \A j \in Keys \ {k} : state[j] \notin OpenStates
      BY <2>2, <3>1 DEF Asked
    <3>3. pending' = None
      BY <1>6, <3>2 DEF Refused, SlotCoherent
    <3> QED BY <1>6, <2>1, <2>2, <3>1, <3>2, <3>3 DEF Refused, RemoveCreating
  <2>3. CASE k \notin CreateKeys
    BY <1>6, <2>1, <2>3 DEF Refused, RemoveCreating, Asked
  <2> QED BY <2>2, <2>3
<1> QED BY <1>1, <1>2, <1>3, <1>4, <1>5, <1>6

\* A create that is taken back leaves the generation where it was: at zero.
LEMMA RefusedKeepsGeneration == ASSUME RowInv, NEW k \in Keys, Refused(k)
                                PROVE UNCHANGED commitGen
  BY DEF RowInv, RowsTypeOK, Chain, LinearChain, Refused, RemoveCreating

LEMMA RowsChain == ASSUME RowInv, RowStep PROVE Chain'
<1> PICK k \in Keys : \/ Composed(k) \/ Reserved(k) \/ Moved(k) \/ HeadTaken(k)
                      \/ Committed(k) \/ Refused(k)
  BY DEF RowStep
<1> USE DEF RowInv, RowsTypeOK, Chain
<1>1. CASE UNCHANGED <<revisions, active, commitGen>>
  BY <1>1 DEF LinearChain
<1>2. CASE Committed(k)
  <2> DEFINE new == [id |-> k, no |-> commitGen + 1, parent |-> active]
  <2>1. /\ revisions' = revisions \cup {new} /\ active' = k
        /\ commitGen' = commitGen + 1
    BY <1>2 DEF Committed, SlotCoherent
  <2>2. new \notin revisions
    OBVIOUS
  <2>3. Cardinality(revisions') = commitGen'
    BY <2>1, <2>2, FS_AddElement DEF LinearChain
  <2>4. IsFiniteSet(revisions')
    BY <2>1, FS_AddElement
  <2>5. \A r \in revisions' : r.no \in 1..commitGen'
    BY <2>1
  <2>6. new \in revisions' /\ new.no = commitGen' /\ new.id = active'
    BY <2>1
  <2>7. ASSUME NEW n \in 1..commitGen'
        PROVE  \E r \in revisions' :
                 /\ r.no = n
                 /\ IF n = 1 THEN r.parent = None
                    ELSE \E q \in revisions' : q.no = n - 1 /\ r.parent = q.id
    <3>1. CASE n = commitGen'
      <4>1. new.no = n /\ new.parent = active
        BY <2>1, <3>1
      <4>2. CASE n = 1
        <5>1. commitGen = 0 /\ active = None
          BY <2>1, <3>1, <4>2 DEF LinearChain
        <5> QED BY <2>6, <4>1, <4>2, <5>1
      <4>3. CASE n # 1
        <5>1. PICK q \in revisions : q.no = commitGen /\ q.id = active
          BY <2>1, <3>1, <4>3 DEF LinearChain
        <5>2. q \in revisions' /\ q.no = n - 1 /\ new.parent = q.id
          BY <2>1, <3>1, <4>1, <5>1
        <5> QED BY <2>6, <4>1, <4>3, <5>2
      <4> QED BY <4>2, <4>3
    <3>2. CASE n # commitGen'
      <4>1. n \in 1..commitGen
        BY <2>1, <3>2
      <4> QED BY <2>1, <4>1 DEF LinearChain
    <3> QED BY <3>1, <3>2
  <2> QED BY <2>1, <2>3, <2>4, <2>5, <2>6, <2>7 DEF LinearChain
<1> QED
  <2>1. Refused(k) => UNCHANGED <<revisions, active, commitGen>>
    BY RefusedKeepsGeneration DEF Refused
  <2> QED BY <1>1, <1>2, <2>1 DEF Composed, Reserved, Moved, HeadTaken

THEOREM RowsInductive == ASSUME RowInv, RowStep \/ UNCHANGED rows PROVE RowInv'
<1>1. CASE RowStep
  BY <1>1, RowsType, RowsAsked, RowsAnswer, RowsSlot, RowsCreating, RowsChain DEF RowInv
<1>2. CASE UNCHANGED rows
  BY <1>2 DEF rows, RowInv, RowsTypeOK, Asked, AnswerCoherent, SlotCoherent, HeadMatches,
     CreatingIsOwned, Chain, LinearChain
<1> QED BY <1>1, <1>2
-----------------------------------------------------------------------------
(* The invariants of the calls and of the files.                             *)

\* A process in a call works on an attempt somebody asked for, and takes over
\* only rows that were unfinished when it read them.
CallInv ==
    /\ ProcsTypeOK
    /\ \A p \in Procs : pc[p] # "idle" =>
         my[p].key \in Keys /\ request[my[p].key] # None
    /\ \A p \in Procs : pc[p] = "take_over" => my[p].state \in OpenStates
    /\ \A p \in Procs : \A row \in todo[p] : request[row.key] # None

\* Only the process that created the final file fills it, and until it has the
\* file is torn, so that no other process takes it for complete.
FileInv ==
    /\ FilesTypeOK
    /\ \A p \in Procs : pc[p] = "fill_final" => final[my[p].key] = "partial"
    /\ \A p, q \in Procs : pc[p] = "fill_final" /\ pc[q] = "fill_final"
         /\ my[p].key = my[q].key => p = q
    /\ \A p \in Procs : pc[p] = "sync_final" => final[my[p].key] \in {"written", "durable"}
    /\ \A k \in Keys : state[k] = "completed" => final[k] = "durable"

OtherTypeOK ==
    /\ owner \in [Keys -> Nat]
    /\ leaseLive \in [Keys -> BOOLEAN]
    /\ project \in [version : Nat, writable : BOOLEAN]
    /\ crashes \in Nat /\ powerLosses \in Nat
    /\ slow \in Nat /\ projectChanges \in Nat

IInv == RowInv /\ CallInv /\ FileInv /\ OtherTypeOK

\* What has to be shown of each action.
StepOK == (RowStep \/ UNCHANGED rows) /\ CallInv' /\ FileInv' /\ OtherTypeOK'

LEMMA CallEnds ==
  ASSUME CallInv, UNCHANGED request, NEW p \in Procs, Finish(p) \/ Abort(p)
  PROVE  CallInv'
<1>1. NoRow \in RowType
  BY DEF NoRow, RowType, AttemptStates
<1>2. ProcsTypeOK'
  BY <1>1 DEF CallInv, ProcsTypeOK, Finish, Abort, Labels
<1> QED BY <1>2 DEF CallInv, ProcsTypeOK, Finish, Abort

LEMMA CallGoes ==
  ASSUME CallInv, UNCHANGED <<request, todo>>, NEW p \in Procs, pc[p] # "idle",
         NEW l \in Labels \ {"take_over"}, pc' = [pc EXCEPT ![p] = l],
         my' = my \/ \E s \in AttemptStates : my' = [my EXCEPT ![p].state = s]
  PROVE  CallInv' /\ \A q \in Procs : my'[q].key = my[q].key
<1>1. my' \in [Procs -> RowType] /\ \A q \in Procs : my'[q].key = my[q].key
  <2>1. CASE my' = my
    BY <2>1 DEF CallInv, ProcsTypeOK
  <2>2. CASE \E s \in AttemptStates : my' = [my EXCEPT ![p].state = s]
    <3>1. PICK s \in AttemptStates : my' = [my EXCEPT ![p].state = s]
      BY <2>2
    <3>2. [my[p] EXCEPT !.state = s] \in RowType /\ [my[p] EXCEPT !.state = s].key = my[p].key
      BY DEF CallInv, ProcsTypeOK, RowType
    <3> QED BY <3>1, <3>2 DEF CallInv, ProcsTypeOK
  <2> QED BY <2>1, <2>2
<1>2. ProcsTypeOK'
  BY <1>1 DEF CallInv, ProcsTypeOK
<1> QED BY <1>1, <1>2 DEF CallInv, ProcsTypeOK

LEMMA FinalKept ==
  ASSUME CallInv, FileInv, FilesTypeOK', UNCHANGED final,
         \A k \in Keys : state'[k] = "completed" => state[k] = "completed",
         \A q \in Procs : pc'[q] \in {"fill_final", "sync_final"} =>
                             pc'[q] = pc[q] /\ my'[q].key = my[q].key
  PROVE  FileInv'
  BY DEF FileInv

\* An action that touches no row, no final file and no type, and either ends
\* the call or goes to a label other than those of the final file.
LEMMA PlainStep ==
  ASSUME IInv, NEW p \in Procs, UNCHANGED <<db, final, bounds>>, FilesTypeOK',
         pc[p] # "idle",
         Finish(p) \/ Abort(p) \/
           \E l \in Labels \ {"take_over", "fill_final", "sync_final"} : Go(p, l)
  PROVE  StepOK
<1>1. CallInv' /\ \A q \in Procs : pc'[q] \in {"fill_final", "sync_final"} =>
                             pc'[q] = pc[q] /\ my'[q].key = my[q].key
  <2>1. CASE Finish(p) \/ Abort(p)
    BY <2>1, CallEnds DEF IInv, CallInv, ProcsTypeOK, Finish, Abort, db
  <2>2. CASE \E l \in Labels \ {"take_over", "fill_final", "sync_final"} : Go(p, l)
    <3>1. PICK l \in Labels \ {"take_over", "fill_final", "sync_final"} : Go(p, l)
      BY <2>2
    <3> QED BY <3>1, CallGoes DEF IInv, CallInv, ProcsTypeOK, Go, db
  <2> QED BY <2>1, <2>2
<1>2. FileInv'
  BY <1>1, FinalKept DEF IInv, db
<1> QED BY <1>1, <1>2 DEF StepOK, IInv, OtherTypeOK, rows, db, bounds

LEMMA FileSteps ==
  ASSUME IInv, NEW p \in Procs,
         \/ InspectReserved(p) \/ CreateStage(p) \/ FillStage(p) \/ SyncStage(p)
         \/ InspectStaged(p) \/ UnlinkStage(p) \/ InspectPublished(p)
  PROVE  StepOK
<1>1. UNCHANGED <<db, final, bounds>> /\ pc[p] # "idle"
  BY DEF InspectReserved, CreateStage, FillStage, SyncStage, InspectStaged, UnlinkStage,
     InspectPublished, files
<1>2. FilesTypeOK'
  BY DEF IInv, FileInv, FilesTypeOK, FileStates, InspectReserved, CreateStage, FillStage,
     SyncStage, InspectStaged, UnlinkStage, InspectPublished, files
<1>3. Abort(p) \/ \E l \in Labels \ {"take_over", "fill_final", "sync_final"} : Go(p, l)
  BY DEF Labels, InspectReserved, CreateStage, FillStage, SyncStage, InspectStaged, UnlinkStage,
     InspectPublished
<1> QED BY <1>1, <1>2, <1>3, PlainStep

\* The three steps that publish the final file, and the look at it before.
LEMMA FinalSteps ==
  ASSUME IInv, NEW p \in Procs,
         \/ InspectHeadReserved(p) \/ CreateFinal(p) \/ FillFinal(p) \/ SyncFinal(p)
  PROVE  StepOK
<1> DEFINE k == my[p].key
<1>1. /\ UNCHANGED <<db, stage, bounds>> /\ pc[p] # "idle" /\ k \in Keys
      /\ pc[p] \in {"inspect_head_reserved", "create_final", "fill_final", "sync_final"}
  BY DEF IInv, CallInv, InspectHeadReserved, CreateFinal, FillFinal, SyncFinal
<1>2. /\ UNCHANGED rows /\ OtherTypeOK'
  BY <1>1 DEF IInv, OtherTypeOK, rows, db, bounds
<1>3. CallInv' /\ \A q \in Procs \ {p} : pc'[q] = pc[q] /\ my'[q] = my[q]
  <2>1. CASE Abort(p)
    BY <1>1, <2>1, CallEnds DEF IInv, CallInv, ProcsTypeOK, Abort, db
  <2>2. CASE \E l \in Labels \ {"take_over"} : Go(p, l)
    <3>1. PICK l \in Labels \ {"take_over"} : Go(p, l)
      BY <2>2
    <3> QED BY <1>1, <3>1, CallGoes DEF IInv, CallInv, ProcsTypeOK, Go, db
  <2> QED
    BY <2>1, <2>2 DEF Labels, InspectHeadReserved, CreateFinal, FillFinal, SyncFinal
<1>4. FileInv'
  <2> USE DEF IInv, FileInv, FilesTypeOK, FileStates
  <2>1. CASE InspectHeadReserved(p)
    <3>1. /\ final' = final \/ final' = [final EXCEPT ![k] = "durable"]
          /\ final[k] \in {"missing", "partial"} => final' = final
      BY <2>1 DEF InspectHeadReserved, ReadAndFsync, Evidence
    <3>2. pc'[p] \notin {"fill_final", "sync_final"}
      BY <2>1 DEF InspectHeadReserved, Go, CallInv, ProcsTypeOK
    <3>3. CASE final' = final
      BY <1>1, <1>3, <3>2, <3>3, FinalKept DEF db
    <3>4. CASE final' = [final EXCEPT ![k] = "durable"] /\ final[k] \notin {"missing", "partial"}
      <4>1. final' \in [Keys -> FileStates] /\ UNCHANGED <<state, stage>>
        BY <1>1, <3>4 DEF db
      <4>2. \A q \in Procs : pc'[q] \in {"fill_final", "sync_final"} =>
              pc'[q] = pc[q] /\ my'[q].key = my[q].key
        BY <1>3, <3>2
      <4>3. \A q \in Procs : pc'[q] \in {"fill_final", "sync_final"} => my[q].key \in Keys
        BY <4>2 DEF CallInv
      <4>4. \A q \in Procs : pc'[q] = "fill_final" => my[q].key # k
        BY <3>4, <4>2
      <4> QED BY <1>1, <3>4, <4>1, <4>2, <4>3, <4>4
    <3> QED BY <3>1, <3>3, <3>4
  <2>2. CASE CreateFinal(p)
    <3>1. CASE stage[k] # "missing" /\ final[k] = "missing"
      <4>1. /\ final' = [final EXCEPT ![k] = "partial"]
            /\ pc'[p] = "fill_final" /\ my' = my
        BY <2>2, <3>1 DEF CreateFinal, Go, CallInv, ProcsTypeOK
      <4>2. \A q \in Procs : pc[q] \in {"fill_final", "sync_final"} => my[q].key # k
        BY <3>1
      <4> QED BY <1>1, <1>3, <3>1, <4>1, <4>2 DEF db
    <3>2. CASE ~(stage[k] # "missing" /\ final[k] = "missing")
      <4>1. final' = final /\ pc'[p] = "idle"
        BY <2>2, <3>2 DEF CreateFinal, Abort, CallInv, ProcsTypeOK
      <4> QED BY <1>1, <1>3, <4>1 DEF db
    <3> QED BY <3>1, <3>2
  <2>3. CASE FillFinal(p)
    <3>1. /\ final' = [final EXCEPT ![k] = "written"]
          /\ pc[p] = "fill_final" /\ pc'[p] = "sync_final" /\ my' = my
      BY <2>3 DEF FillFinal, Go, CallInv, ProcsTypeOK
    <3>2. final[k] = "partial"
      BY <3>1
    <3>3. \A q \in Procs \ {p} : pc[q] \in {"fill_final", "sync_final"} => my[q].key # k
      BY <3>1, <3>2
    <3> QED BY <1>1, <1>3, <3>1, <3>2, <3>3 DEF db
  <2>4. CASE SyncFinal(p)
    <3>1. /\ final' = [final EXCEPT ![k] = "durable"]
          /\ pc[p] = "sync_final" /\ pc'[p] = "to_published" /\ my' = my
      BY <2>4 DEF SyncFinal, Go, CallInv, ProcsTypeOK
    <3>2. \A q \in Procs : pc[q] = "fill_final" => my[q].key # k
      BY <3>1
    <3> QED BY <1>1, <1>3, <3>1, <3>2 DEF db
  <2> QED BY <2>1, <2>2, <2>3, <2>4
<1> QED BY <1>2, <1>3, <1>4 DEF StepOK

\* The steps that only read the database.
LEMMA ReadingSteps ==
  ASSUME IInv, NEW p \in Procs,
         \/ \E k \in Keys : Call(p, k)
         \/ Open(p) \/ RecoverNext(p)
  PROVE  StepOK
<1>1. UNCHANGED <<db, files, bounds>>
  BY DEF Call, Open, RecoverNext
<1>2. UNCHANGED rows /\ OtherTypeOK' /\ FilesTypeOK'
  BY <1>1 DEF IInv, OtherTypeOK, FileInv, FilesTypeOK, rows, db, files, bounds
<1>3. CallInv' /\ \A q \in Procs : pc'[q] \in {"fill_final", "sync_final"} =>
                             pc'[q] = pc[q] /\ my'[q].key = my[q].key
  <2> USE DEF IInv, CallInv, ProcsTypeOK, RowType, Labels, AttemptStates
  <2>1. ASSUME NEW k \in Keys, Call(p, k) PROVE CallInv' /\ \A q \in Procs :
           pc'[q] \in {"fill_final", "sync_final"} => pc'[q] = pc[q] /\ my'[q].key = my[q].key
    <3>1. CASE idem[k] = "none"
      <4>1. [NoRow EXCEPT !.key = k] \in RowType /\ [NoRow EXCEPT !.key = k].key = k
        BY DEF NoRow
      <4> QED BY <1>1, <2>1, <3>1, <4>1 DEF Call, db
    <3>2. CASE idem[k] = "in_progress" /\ ~leaseLive[k]
      <4> DEFINE row == [key |-> k, state |-> state[k], owner |-> owner[k]]
      <4>1. row \in RowType /\ row.key = k /\ row.state \in OpenStates
        BY <3>2 DEF RowInv, RowsTypeOK, AnswerCoherent, OtherTypeOK
      <4>2. /\ pc' = [pc EXCEPT ![p] = "take_over"] /\ my' = [my EXCEPT ![p] = row]
            /\ request[k] # None /\ UNCHANGED <<todo, request>>
        BY <1>1, <2>1, <3>2 DEF Call, Resume, db
      <4> QED BY <4>1, <4>2
    <3>3. CASE idem[k] # "none" /\ ~(idem[k] = "in_progress" /\ ~leaseLive[k])
      BY <1>1, <2>1, <3>3, CallEnds DEF Call, Resume, Finish, db
    <3> QED BY <3>1, <3>2, <3>3
  <2>2. CASE Open(p)
    <3> DEFINE rs == {[key |-> k, state |-> state[k], owner |-> owner[k]] :
                       k \in {j \in Keys : state[j] \in OpenStates /\ ~leaseLive[j]}}
    <3>1. rs \in SUBSET [key : Keys, state : OpenStates, owner : Nat]
      BY DEF OtherTypeOK
    <3>2. \A row \in rs : request[row.key] # None
      BY DEF RowInv, Asked
    <3> QED BY <1>1, <2>2, <3>1, <3>2 DEF Open, db
  <2>3. CASE RecoverNext(p)
    <3>1. PICK row \in todo[p] : /\ my' = [my EXCEPT ![p] = row]
                                /\ todo' = [todo EXCEPT ![p] = @ \ {row}]
      BY <2>3 DEF RecoverNext
    <3>2. row \in RowType /\ row.key \in Keys /\ row.state \in OpenStates
          /\ request[row.key] # None
      OBVIOUS
    <3> QED BY <1>1, <2>3, <3>1, <3>2 DEF RecoverNext, db
  <2> QED BY <2>1, <2>2, <2>3
<1>4. FileInv'
  BY <1>1, <1>2, <1>3, FinalKept DEF IInv, db, files
<1> QED BY <1>2, <1>3, <1>4 DEF StepOK

\* A transaction that is rolled back, or that ends the call without a change.
LEMMA NoTransaction ==
  ASSUME IInv, NEW p \in Procs, pc[p] # "idle", UNCHANGED <<db, files, bounds>>,
         Finish(p) \/ Abort(p)
  PROVE  StepOK
  BY PlainStep DEF IInv, FileInv, FilesTypeOK, files

\* A transaction that changes the row of p's attempt and goes on or ends.
LEMMA Transaction ==
  ASSUME IInv, NEW p \in Procs, pc[p] # "idle", RowStep, UNCHANGED <<request, files, bounds>>,
         \/ Finish(p) \/ Abort(p)
         \/ \E l \in Labels \ {"take_over", "fill_final", "sync_final"}, s \in AttemptStates :
              /\ pc' = [pc EXCEPT ![p] = l] /\ my' = [my EXCEPT ![p].state = s]
              /\ UNCHANGED todo,
         \A k \in Keys : state'[k] = "completed" => state[k] = "completed",
         OtherTypeOK'
  PROVE  StepOK
<1>1. CallInv' /\ \A q \in Procs : pc'[q] \in {"fill_final", "sync_final"} =>
                             pc'[q] = pc[q] /\ my'[q].key = my[q].key
  <2>1. CASE Finish(p) \/ Abort(p)
    BY <2>1, CallEnds DEF IInv, CallInv, ProcsTypeOK, Finish, Abort
  <2>2. CASE ~(Finish(p) \/ Abort(p))
    <3>1. PICK l \in Labels \ {"take_over", "fill_final", "sync_final"}, s \in AttemptStates :
              /\ pc' = [pc EXCEPT ![p] = l] /\ my' = [my EXCEPT ![p].state = s]
              /\ UNCHANGED todo
      BY <2>2
    <3> QED BY <3>1, CallGoes DEF IInv, CallInv, ProcsTypeOK
  <2> QED BY <2>1, <2>2
<1>2. FileInv'
  BY <1>1, FinalKept DEF IInv, FileInv, FilesTypeOK, files
<1> QED BY <1>1, <1>2 DEF StepOK

LEMMA ReserveStep == ASSUME IInv, NEW p \in Procs, Reserve(p) PROVE StepOK
<1> DEFINE k == my[p].key
<1>k. k \in Keys /\ pc[p] = "reserve" /\ request[k] # None
  BY DEF IInv, CallInv, Reserve
<1>1. CASE idem[k] = "none" /\ Preflight(k)
  <2>1. Reserved(k) /\ UNCHANGED <<request, files, bounds>>
    BY <1>k, <1>1 DEF Reserve, Reserved
  <2>2. OtherTypeOK'
    <3>1. /\ owner' = [owner EXCEPT ![k] = 1] /\ leaseLive' = [leaseLive EXCEPT ![k] = TRUE]
          /\ UNCHANGED <<project, bounds>>
      BY <1>1 DEF Reserve
    <3> QED BY <3>1 DEF IInv, OtherTypeOK, bounds
  <2>3. CallInv' /\ \A q \in Procs : pc'[q] \in {"fill_final", "sync_final"} =>
                             pc'[q] = pc[q] /\ my'[q].key = my[q].key
    <3>1. [key |-> k, state |-> "reserved", owner |-> 1] \in RowType
      BY <1>k DEF RowType, AttemptStates
    <3>2. /\ my' = [my EXCEPT ![p] = [key |-> k, state |-> "reserved", owner |-> 1]]
          /\ pc' = [pc EXCEPT ![p] = "inspect_reserved"] /\ UNCHANGED <<todo, request>>
      BY <1>1 DEF Reserve
    <3>3. ProcsTypeOK'
      BY <3>1, <3>2 DEF IInv, CallInv, ProcsTypeOK, Labels
    <3> QED BY <1>k, <3>2, <3>3 DEF IInv, CallInv, ProcsTypeOK
  <2>4. \A j \in Keys : state'[j] = "completed" => state[j] = "completed"
    BY <1>k, <2>1 DEF Reserved, IInv, RowInv, RowsTypeOK
  <2>5. FileInv'
    BY <2>1, <2>3, <2>4, FinalKept DEF IInv, FileInv, FilesTypeOK, files
  <2> QED BY <1>k, <2>1, <2>2, <2>3, <2>5 DEF StepOK, RowStep
<1>2. CASE idem[k] = "none" /\ ~Preflight(k)
  BY <1>k, <1>2, NoTransaction DEF Reserve
<1>3. CASE idem[k] # "none" /\ ~(idem[k] = "in_progress" /\ ~leaseLive[k])
  BY <1>k, <1>3, NoTransaction DEF Reserve, Resume
<1>4. CASE idem[k] = "in_progress" /\ ~leaseLive[k]
  <2> DEFINE row == [key |-> k, state |-> state[k], owner |-> owner[k]]
  <2>1. row \in RowType /\ row.key = k /\ row.state \in OpenStates
    BY <1>k, <1>4 DEF IInv, RowInv, RowsTypeOK, AnswerCoherent, OtherTypeOK, RowType, AttemptStates
  <2>2. /\ pc' = [pc EXCEPT ![p] = "take_over"] /\ my' = [my EXCEPT ![p] = row]
        /\ UNCHANGED <<todo, db, files, bounds>>
    BY <1>4 DEF Reserve, Resume
  <2>3. CallInv' /\ \A q \in Procs : pc'[q] \in {"fill_final", "sync_final"} =>
                             pc'[q] = pc[q] /\ my'[q].key = my[q].key
    BY <1>k, <2>1, <2>2 DEF IInv, CallInv, ProcsTypeOK, Labels, db
  <2>4. UNCHANGED rows /\ OtherTypeOK' /\ FilesTypeOK'
    BY <2>2 DEF IInv, OtherTypeOK, FileInv, FilesTypeOK, rows, db, files, bounds
  <2>5. FileInv'
    BY <2>2, <2>3, <2>4, FinalKept DEF IInv, db, files
  <2> QED BY <2>3, <2>4, <2>5 DEF StepOK
<1> QED BY <1>1, <1>2, <1>3, <1>4

LEMMA TakeOverStep == ASSUME IInv, NEW p \in Procs, TakeOver(p) PROVE StepOK
<1> DEFINE k == my[p].key
<1>k. k \in Keys /\ pc[p] = "take_over" /\ my[p].state \in OpenStates /\ my[p] \in RowType
  BY DEF IInv, CallInv, ProcsTypeOK, TakeOver
<1>1. CASE Owns(p) /\ ~leaseLive[k] /\ Unfinished(k)
  <2>1. PICK t \in Free(k) : /\ owner' = [owner EXCEPT ![k] = t]
                             /\ my' = [my EXCEPT ![p].owner = t]
    BY <1>1 DEF TakeOver
  <2>2. t \in Nat
    BY BoundsAssumption DEF Free
  <2>3. /\ leaseLive' = [leaseLive EXCEPT ![k] = TRUE]
        /\ pc' = [pc EXCEPT ![p] = Branch(my[p].state)]
        /\ UNCHANGED <<rows, project, todo, files, bounds>>
    BY <1>1 DEF TakeOver, rows
  <2>4. OtherTypeOK'
    BY <1>k, <2>1, <2>2, <2>3 DEF IInv, OtherTypeOK, bounds
  <2>5. Branch(my[p].state) \in Labels \ {"idle", "take_over", "fill_final", "sync_final"}
    BY <1>k DEF Branch, Labels
  <2>6. my' \in [Procs -> RowType] /\ \A q \in Procs : my'[q].key = my[q].key
    <3>1. [my[p] EXCEPT !.owner = t] \in RowType /\ [my[p] EXCEPT !.owner = t].key = k
      BY <1>k, <2>2 DEF RowType
    <3> QED BY <2>1, <3>1 DEF IInv, CallInv, ProcsTypeOK
  <2>7. CallInv' /\ \A q \in Procs : pc'[q] \in {"fill_final", "sync_final"} =>
                             pc'[q] = pc[q] /\ my'[q].key = my[q].key
    <3>1. \A q \in Procs \ {p} : pc'[q] = pc[q] /\ my'[q] = my[q]
      BY <2>1, <2>3 DEF IInv, CallInv, ProcsTypeOK
    <3>2. pc'[p] = Branch(my[p].state) /\ pc' \in [Procs -> Labels]
      BY <2>3, <2>5 DEF IInv, CallInv, ProcsTypeOK
    <3> QED BY <1>k, <2>3, <2>5, <2>6, <3>1, <3>2 DEF IInv, CallInv, ProcsTypeOK, rows
  <2>8. FileInv'
    BY <2>3, <2>7, FinalKept DEF IInv, FileInv, FilesTypeOK, files, rows
  <2> QED BY <2>3, <2>4, <2>7, <2>8 DEF StepOK
<1>2. CASE ~(Owns(p) /\ ~leaseLive[k] /\ Unfinished(k))
  BY <1>k, <1>2, NoTransaction DEF TakeOver
<1> QED BY <1>1, <1>2

LEMMA RefusedRow ==
  ASSUME IInv, NEW k \in Keys, Refused(k)
  PROVE  \A j \in Keys : state'[j] = "completed" => state[j] = "completed"
  BY DEF IInv, RowInv, RowsTypeOK, Refused

LEMMA QuarantineTxStep ==
  ASSUME IInv, NEW p \in Procs, pc[p] # "idle", QuarantineTx(p), UNCHANGED <<files, bounds>>
  PROVE  StepOK
<1> DEFINE k == my[p].key
<1>k. k \in Keys
  BY DEF IInv, CallInv
<1>1. CASE Owns(p) /\ Unfinished(k)
  <2>1. Refused(k) /\ Finish(p)
    BY <1>1 DEF QuarantineTx, Refused, Unfinished, Answer, ClearSlot
  <2>2. /\ leaseLive' = [leaseLive EXCEPT ![k] = FALSE]
        /\ UNCHANGED <<request, owner, project>>
    BY <1>1 DEF QuarantineTx
  <2>3. OtherTypeOK'
    BY <2>2 DEF IInv, OtherTypeOK, bounds
  <2> QED BY <1>k, <2>1, <2>2, <2>3, RefusedRow, Transaction DEF RowStep
<1>2. CASE ~(Owns(p) /\ Unfinished(k))
  BY <1>2, NoTransaction DEF QuarantineTx
<1> QED BY <1>1, <1>2

LEMMA RejectStep == ASSUME IInv, NEW p \in Procs, Reject(p) PROVE StepOK
<1> DEFINE k == my[p].key
<1>k. k \in Keys /\ pc[p] # "idle" /\ UNCHANGED <<files, bounds>>
  BY DEF IInv, CallInv, Reject
<1>1. CASE Owns(p) /\ state[k] \in {"reserved", "staged"}
  <2>1. Refused(k) /\ Finish(p)
    BY <1>1 DEF Reject, Refused, Answer
  <2>2. /\ leaseLive' = [leaseLive EXCEPT ![k] = FALSE]
        /\ UNCHANGED <<request, owner, project>>
    BY <1>1 DEF Reject
  <2>3. OtherTypeOK'
    BY <1>k, <2>2 DEF IInv, OtherTypeOK, bounds
  <2> QED BY <1>k, <2>1, <2>2, <2>3, RefusedRow, Transaction DEF RowStep
<1>2. CASE ~(Owns(p) /\ state[k] \in {"reserved", "staged"})
  BY <1>k, <1>2, NoTransaction DEF Reject
<1> QED BY <1>1, <1>2

LEMMA TransitionStep ==
  ASSUME IInv, NEW p \in Procs, ToStaged(p) \/ ToPublished(p) PROVE StepOK
<1> DEFINE k == my[p].key
<1>k. k \in Keys /\ pc[p] # "idle" /\ UNCHANGED <<files, bounds>>
  BY DEF IInv, CallInv, ToStaged, ToPublished
<1>1. ASSUME NEW from, NEW to, Transition(p, from, to), Owns(p), state[k] = from,
             <<from, to>> \in {<<"reserved", "staged">>, <<"head_reserved", "published">>}
      PROVE  StepOK
  <2>1. /\ Moved(k) /\ UNCHANGED <<request, owner, project, todo>>
        /\ leaseLive' = [leaseLive EXCEPT ![k] = TRUE]
        /\ my' = [my EXCEPT ![p].state = to] /\ pc' = [pc EXCEPT ![p] = Branch(to)]
    BY <1>1 DEF Transition, Moved
  <2>2. OtherTypeOK'
    BY <1>k, <2>1 DEF IInv, OtherTypeOK, bounds
  <2>3. /\ Branch(to) \in Labels \ {"take_over", "fill_final", "sync_final"}
        /\ to \in AttemptStates
    BY <1>1 DEF Branch, Labels, AttemptStates
  <2>4. \A j \in Keys : state'[j] = "completed" => state[j] = "completed"
    BY <1>k, <2>1 DEF Moved, IInv, RowInv, RowsTypeOK
  <2> QED BY <1>k, <2>1, <2>2, <2>3, <2>4, Transaction DEF RowStep
<1>2. ASSUME NEW from, NEW to, Transition(p, from, to), ~(Owns(p) /\ state[k] = from)
      PROVE  StepOK
  BY <1>k, <1>2, NoTransaction DEF Transition
<1> QED BY <1>1, <1>2 DEF ToStaged, ToPublished

LEMMA ReserveHeadStep == ASSUME IInv, NEW p \in Procs, ReserveHead(p) PROVE StepOK
<1> DEFINE k == my[p].key
           taken == /\ Writable(k) /\ lifecycle # "absent" /\ pending = None /\ HeadMatches(k)
                    /\ RecordInsertable(k) /\ Owns(p) /\ state[k] = "staged"
<1>k. k \in Keys /\ pc[p] # "idle" /\ UNCHANGED <<files, bounds>>
  BY DEF IInv, CallInv, ReserveHead
<1>1. CASE taken
  <2>1. HeadTaken(k)
    BY <1>1 DEF ReserveHead, HeadTaken, RecordInsertable, RevisionNo
  <2>2. /\ leaseLive' = [leaseLive EXCEPT ![k] = TRUE]
        /\ my' = [my EXCEPT ![p].state = "head_reserved"]
        /\ pc' = [pc EXCEPT ![p] = "inspect_head_reserved"]
        /\ UNCHANGED <<request, owner, project, todo>>
    BY <1>1 DEF ReserveHead
  <2>3. OtherTypeOK'
    BY <1>k, <2>2 DEF IInv, OtherTypeOK, bounds
  <2>4. /\ "inspect_head_reserved" \in Labels \ {"take_over", "fill_final", "sync_final"}
        /\ "head_reserved" \in AttemptStates
    BY DEF Labels, AttemptStates
  <2>5. \A j \in Keys : state'[j] = "completed" => state[j] = "completed"
    BY <1>k, <2>1 DEF HeadTaken, IInv, RowInv, RowsTypeOK
  <2> QED BY <1>k, <2>1, <2>2, <2>3, <2>4, <2>5, Transaction DEF RowStep
<1>2. CASE ~taken
  <2>1. UNCHANGED db /\ (Finish(p) \/ Abort(p) \/ Go(p, "unlink_stage"))
    BY <1>2 DEF ReserveHead
  <2>2. "unlink_stage" \in Labels \ {"take_over", "fill_final", "sync_final"}
    BY DEF Labels
  <2> QED BY <1>k, <2>1, <2>2, PlainStep DEF IInv, FileInv, FilesTypeOK, files
<1> QED BY <1>1, <1>2

LEMMA FinalizeStep == ASSUME IInv, NEW p \in Procs, Finalize(p) PROVE StepOK
<1> DEFINE k == my[p].key
           mine == Owns(p) /\ state[k] = "published"
           lost == k \in CreateKeys /\ ~(lifecycle = "creating" /\ creator = k)
<1>k. k \in Keys /\ pc[p] # "idle" /\ UNCHANGED <<stage, bounds>>
  BY DEF IInv, CallInv, Finalize
<1>1. CASE mine /\ Finalizable(k) /\ ~lost
  <2>1. Committed(k) /\ Finish(p)
    BY <1>1 DEF Finalize, Finalizable, Committed, Answer
  <2>2. /\ leaseLive' = [leaseLive EXCEPT ![k] = FALSE]
        /\ final' = [final EXCEPT ![k] = "durable"] /\ Evidence(final[k]) = "match"
        /\ UNCHANGED <<request, owner, project>>
    BY <1>1 DEF Finalize, Finalizable, ReadAndFsync
  <2>3. OtherTypeOK'
    BY <1>k, <2>2 DEF IInv, OtherTypeOK, bounds
  <2>4. CallInv'
    BY <2>1, <2>2, CallEnds DEF IInv
  <2>5. FileInv'
    <3>1. FilesTypeOK' /\ final[k] # "partial"
      BY <1>k, <2>2 DEF IInv, FileInv, FilesTypeOK, FileStates, Evidence
    <3>2. \A q \in Procs : pc'[q] \in {"fill_final", "sync_final"} => pc'[q] = pc[q] /\ my'[q] = my[q]
      BY <2>1 DEF IInv, CallInv, ProcsTypeOK, Finish
    <3>3. \A q \in Procs : pc'[q] = "fill_final" => my[q].key # k
      BY <3>1, <3>2 DEF IInv, FileInv
    <3>4. \A q \in Procs : pc'[q] \in {"fill_final", "sync_final"} => my[q].key \in Keys
      BY <3>2 DEF IInv, CallInv
    <3>5. \A j \in Keys \ {k} : state'[j] = state[j] /\ final'[j] = final[j]
      BY <2>1, <2>2 DEF Committed, IInv, FileInv, FilesTypeOK, RowInv, RowsTypeOK
    <3>6. final'[k] = "durable"
      BY <1>k, <2>2 DEF IInv, FileInv, FilesTypeOK
    <3> QED BY <3>1, <3>2, <3>3, <3>4, <3>5, <3>6 DEF IInv, FileInv
  <2> QED BY <1>k, <2>1, <2>3, <2>4, <2>5 DEF StepOK, RowStep
<1>2. CASE mine /\ ~Finalizable(k)
  BY <1>k, <1>2, QuarantineTxStep DEF Finalize, files
<1>3. CASE ~mine \/ (Finalizable(k) /\ lost)
  <2>1. UNCHANGED <<db, final>> /\ (Finish(p) \/ Abort(p))
    BY <1>3 DEF Finalize
  <2> QED BY <1>k, <2>1, NoTransaction DEF files
<1> QED BY <1>1, <1>2, <1>3

LEMMA ComposeStep == ASSUME IInv, NEW k \in Keys, Compose(k) PROVE StepOK
<1>1. /\ Composed(k)
      /\ UNCHANGED <<state, owner, leaseLive, project, files, procs, bounds>>
  <2>1. [active |-> IF k \in CreateKeys THEN None ELSE active,
         generation |-> IF k \in CreateKeys THEN 0 ELSE commitGen,
         version |-> project.version] \in RequestType
    BY DEF IInv, RowInv, RowsTypeOK, OtherTypeOK, RequestType
  <2> QED BY <2>1 DEF Compose, Composed
<1>2. OtherTypeOK'
  BY <1>1 DEF IInv, OtherTypeOK, bounds
<1>3. \A j \in Keys : request[j] # None => request'[j] # None
  BY <1>1 DEF Composed, IInv, RowInv, RowsTypeOK
<1>4. CallInv'
  BY <1>1, <1>3 DEF IInv, CallInv, ProcsTypeOK, procs
<1>5. FileInv'
  BY <1>1 DEF IInv, FileInv, FilesTypeOK, files, procs
<1> QED BY <1>1, <1>2, <1>4, <1>5 DEF StepOK, RowStep

\* Time, the project's operator and failures touch no row.
LEMMA EnvironmentSteps ==
  ASSUME IInv,
         \/ \E k \in Keys : ExpireLease(k)
         \/ ChangeProject
         \/ \E p \in Procs : Crash(p)
         \/ PowerLoss
  PROVE  StepOK
<1>1. UNCHANGED rows
  BY DEF ExpireLease, ChangeProject, Crash, PowerLoss, rows, db
<1>2. OtherTypeOK'
  <2> USE DEF IInv, OtherTypeOK
  <2>1. ASSUME NEW k \in Keys, ExpireLease(k) PROVE OtherTypeOK'
    <3>1. /\ slow' \in Nat /\ leaseLive' = [leaseLive EXCEPT ![k] = FALSE]
          /\ UNCHANGED <<owner, project, crashes, powerLosses, projectChanges>>
      BY <2>1 DEF ExpireLease
    <3> QED BY <3>1
  <2>2. CASE ChangeProject
    <3>1. \A w \in BOOLEAN : [project EXCEPT !.writable = w] \in [version : Nat, writable : BOOLEAN]
      OBVIOUS
    <3>2. project' \in [version : Nat, writable : BOOLEAN]
      BY <2>2, <3>1 DEF ChangeProject
    <3>3. projectChanges' \in Nat /\ UNCHANGED <<owner, leaseLive, crashes, powerLosses, slow>>
      BY <2>2 DEF ChangeProject
    <3> QED BY <3>2, <3>3
  <2>3. CASE (\E p \in Procs : Crash(p)) \/ PowerLoss
    BY <2>3 DEF Crash, PowerLoss, db
  <2> QED BY <2>1, <2>2, <2>3
<1>3. CASE UNCHANGED <<files, procs>>
  BY <1>1, <1>2, <1>3 DEF StepOK, IInv, CallInv, ProcsTypeOK, FileInv, FilesTypeOK, files, procs, rows
<1>4. ASSUME NEW p \in Procs, Crash(p) PROVE StepOK
  <2>1. UNCHANGED files /\ Abort(p)
    BY <1>4 DEF Crash
  <2>2. CallInv'
    BY <1>1, <2>1, CallEnds DEF IInv, rows
  <2>3. FileInv'
    BY <1>1, <2>1, FinalKept DEF IInv, CallInv, ProcsTypeOK, FileInv, FilesTypeOK, Abort, files, rows
  <2> QED BY <1>1, <1>2, <2>2, <2>3 DEF StepOK
<1>5. CASE PowerLoss
  <2>1. NoRow \in RowType
    BY DEF NoRow, RowType, AttemptStates
  <2>2. /\ \A p \in Procs : pc'[p] = "idle" /\ my'[p] = NoRow /\ todo'[p] = {}
        /\ ProcsTypeOK'
    BY <1>5, <2>1 DEF PowerLoss, ProcsTypeOK, Labels
  <2>3. CallInv'
    BY <2>2 DEF CallInv
  <2>4. FilesTypeOK' /\ \A k \in Keys : final[k] = "durable" => final'[k] = "durable"
    BY <1>5 DEF PowerLoss, Survivors, FilesTypeOK
  <2>5. FileInv'
    BY <1>1, <2>2, <2>4 DEF IInv, FileInv, rows
  <2> QED BY <1>1, <1>2, <2>3, <2>5 DEF StepOK
<1> QED BY <1>3, <1>4, <1>5 DEF ExpireLease, ChangeProject

\* Every step of the specification is one of those above.
LEMMA NextStep == ASSUME IInv, Next PROVE StepOK
<1>1. ASSUME NEW p \in Procs, Quarantine(p) PROVE StepOK
  BY <1>1, QuarantineTxStep DEF Quarantine
<1>2. ASSUME NEW p \in Procs, Advance(p) PROVE StepOK
  BY <1>1, <1>2, ReserveStep, ReadingSteps, TakeOverStep, RejectStep, FileSteps,
     TransitionStep, ReserveHeadStep, FinalSteps, FinalizeStep DEF Advance
<1> QED BY <1>2, ReadingSteps, ComposeStep, EnvironmentSteps DEF Next

LEMMA InitIInv == Init => IInv
<1> SUFFICES ASSUME Init PROVE IInv
  OBVIOUS
<1> USE DEF Init
<1>1. NoRow \in RowType /\ NoRecord \in RecordType
  BY DEF NoRow, NoRecord, RowType, RecordType, AttemptStates, RecordStates
<1>2. RowsTypeOK
  BY <1>1 DEF RowsTypeOK, AttemptStates
<1>3. Asked /\ AnswerCoherent /\ SlotCoherent /\ CreatingIsOwned
  BY DEF Asked, AnswerCoherent, SlotCoherent, CreatingIsOwned, NoRecord
<1>4. Chain
  BY FS_EmptySet DEF Chain, LinearChain
<1>5. CallInv
  BY <1>1 DEF CallInv, ProcsTypeOK, Labels
<1>6. FileInv
  BY DEF FileInv, FilesTypeOK, FileStates
<1>7. OtherTypeOK
  BY DEF OtherTypeOK
<1> QED BY <1>2, <1>3, <1>4, <1>5, <1>6, <1>7 DEF IInv, RowInv

LEMMA IInvStep == ASSUME IInv, [Next]_vars PROVE IInv'
<1>1. CASE Next
  BY <1>1, NextStep, RowsInductive DEF IInv, StepOK
<1>2. CASE UNCHANGED vars
  <2>1. RowInv'
    BY <1>2, RowsInductive DEF IInv, vars, rows, db
  <2>2. CallInv' /\ FileInv' /\ OtherTypeOK'
    BY <1>2 DEF IInv, CallInv, ProcsTypeOK, FileInv, FilesTypeOK, OtherTypeOK, vars, db, files,
       procs, bounds
  <2> QED BY <2>1, <2>2 DEF IInv
<1> QED BY <1>1, <1>2

THEOREM Inductive == Spec => []IInv
  BY InitIInv, IInvStep, PTL DEF Spec
-----------------------------------------------------------------------------
(* The theorems.                                                             *)

\* Every variable holds a value of what it models.
THEOREM TypeCorrect == Spec => []TypeOK
<1>1. IInv => TypeOK
  BY DEF IInv, RowInv, RowsTypeOK, CallInv, FileInv, OtherTypeOK, TypeOK, DbTypeOK
<1> QED BY <1>1, Inductive, PTL

\* The slot of the head, the pending record and the attempt's state agree, and
\* the head has not moved since the slot was taken.
THEOREM SlotCorrect == Spec => []SlotCoherent
<1>1. IInv => SlotCoherent
  BY DEF IInv, RowInv
<1> QED BY <1>1, Inductive, PTL

\* A retry is told what became of the attempt and of its revision.
THEOREM AnswerCorrect == Spec => []AnswerCoherent
<1>1. IInv => AnswerCoherent
  BY DEF IInv, RowInv
<1> QED BY <1>1, Inductive, PTL

\* The revisions of a VDT are one chain, and the head is its end.
THEOREM ChainCorrect == Spec => []LinearChain
<1>1. IInv => LinearChain
  BY DEF IInv, RowInv, Chain
<1> QED BY <1>1, Inductive, PTL

\* The bytes of every revision that can be seen are on the disk.
THEOREM DurabilityCorrect == Spec => []CommittedDurable
<1>1. IInv => CommittedDurable
  BY DEF IInv, RowInv, RowsTypeOK, AnswerCoherent, FileInv, CommittedDurable
<1> QED BY <1>1, Inductive, PTL

\* A VDT that is being created belongs to an unfinished attempt.
THEOREM CreatingCorrect == Spec => []CreatingIsOwned
<1>1. IInv => CreatingIsOwned
  BY DEF IInv, RowInv
<1> QED BY <1>1, Inductive, PTL

\* No retry, recovery or late owner changes a final answer.
THEOREM TerminalCorrect == Spec => TerminalFrozen
<1> DEFINE A == \A k \in Keys : state[k] \in {"completed", "rejected", "quarantined"} =>
                  state'[k] = state[k] /\ idem'[k] = idem[k]
<1>1. ASSUME IInv, RowStep PROVE A
  <2> PICK k \in Keys : \/ Composed(k) \/ Reserved(k) \/ Moved(k) \/ HeadTaken(k)
                        \/ Committed(k) \/ Refused(k)
    BY <1>1 DEF RowStep
  <2>1. state[k] \notin {"completed", "rejected", "quarantined"} \/ UNCHANGED <<state, idem>>
    BY <1>1 DEF IInv, RowInv, AnswerCoherent, Composed, Reserved, Moved, HeadTaken, Committed, Refused
  <2>2. \A j \in Keys \ {k} : state'[j] = state[j] /\ idem'[j] = idem[j]
    BY <1>1 DEF IInv, RowInv, RowsTypeOK, Composed, Reserved, Moved, HeadTaken, Committed, Refused
  <2> QED BY <2>1, <2>2
<1>2. IInv /\ [Next]_vars => A
  BY <1>1, NextStep DEF StepOK, rows, vars, db
<1>3. IInv /\ [Next]_vars => [A]_vars
  BY <1>2
<1> QED BY <1>3, Inductive, PTL DEF Spec, TerminalFrozen

\* Whoever wakes up late, the bytes of a committed revision stay as they are.
THEOREM BytesCorrect == Spec => CommittedBytesFrozen
<1> DEFINE A == \A k \in Keys : state[k] = "completed" => final'[k] = final[k]
<1>1. ASSUME IInv, IInv', [Next]_vars, NEW k \in Keys, state[k] = "completed"
      PROVE  final'[k] = final[k]
  <2>1. state'[k] = "completed"
    <3>1. CASE RowStep
      <4> PICK j \in Keys : \/ Composed(j) \/ Reserved(j) \/ Moved(j) \/ HeadTaken(j)
                            \/ Committed(j) \/ Refused(j)
        BY <3>1 DEF RowStep
      <4> QED BY <1>1 DEF IInv, RowInv, RowsTypeOK, AnswerCoherent, Composed, Reserved, Moved,
                 HeadTaken, Committed, Refused
    <3> QED BY <1>1, <3>1, NextStep DEF StepOK, rows, vars, db
  <2> QED BY <1>1, <2>1 DEF IInv, FileInv
<1>2. IInv /\ IInv' /\ [Next]_vars => [A]_vars
  BY <1>1
<1> QED BY <1>2, Inductive, PTL DEF Spec, CommittedBytesFrozen

\* An unfinished attempt is moved only by a process that holds its lease.
LEMMA OwnerMoves ==
  ASSUME IInv, NEW p \in Procs, Advance(p), NEW k \in Keys,
         state[k] \in OpenStates, state'[k] # state[k]
  PROVE  my[p].key = k /\ my[p].owner = owner[k] /\ pc'[p] # pc[p]
<1> DEFINE mine == my[p].key = k /\ my[p].owner = owner[k] /\ pc'[p] # pc[p]
<1> USE DEF IInv, RowInv, RowsTypeOK, CallInv, ProcsTypeOK
<1>1. ASSUME QuarantineTx(p), pc[p] # "idle" PROVE mine
  BY <1>1 DEF QuarantineTx, Owns, Finish, db
<1>2. CASE Quarantine(p)
  BY <1>1, <1>2 DEF Quarantine
<1>3. CASE Reject(p)
  BY <1>3 DEF Reject, Owns, Finish, db
<1>4. ASSUME NEW from \in OpenStates, NEW to \in OpenStates, Transition(p, from, to),
             pc[p] \in {"to_staged", "to_published"}
      PROVE  mine
  <2>1. /\ Owns(p) /\ state' = [state EXCEPT ![my[p].key] = to]
        /\ pc' = [pc EXCEPT ![p] = Branch(to)]
    BY <1>4 DEF Transition, db
  <2>2. Branch(to) \notin {"to_staged", "to_published"}
    BY DEF Branch
  <2> QED BY <1>4, <2>1, <2>2 DEF Owns
<1>5. CASE ToStaged(p) \/ ToPublished(p)
  BY <1>4, <1>5 DEF ToStaged, ToPublished
<1>6. CASE ReserveHead(p)
  <2>1. /\ Owns(p) /\ state' = [state EXCEPT ![my[p].key] = "head_reserved"]
        /\ pc' = [pc EXCEPT ![p] = "inspect_head_reserved"] /\ pc[p] = "reserve_head"
    BY <1>6 DEF ReserveHead, db
  <2> QED BY <2>1 DEF Owns
<1>7. CASE Finalize(p)
  <2>1. pc[p] = "finalize" /\ Owns(p)
    BY <1>7 DEF Finalize, db
  <2>2. CASE QuarantineTx(p)
    BY <1>1, <2>1, <2>2
  <2>3. CASE state' = [state EXCEPT ![my[p].key] = "completed"] /\ Finish(p)
    BY <2>1, <2>3 DEF Owns, Finish
  <2> QED BY <1>7, <2>2, <2>3 DEF Finalize, db
<1>8. CASE Reserve(p)
  BY <1>8 DEF Reserve, AnswerCoherent, db
<1>9. CASE \/ RecoverNext(p) \/ TakeOver(p) \/ InspectReserved(p) \/ CreateStage(p)
           \/ FillStage(p) \/ SyncStage(p) \/ InspectStaged(p) \/ UnlinkStage(p)
           \/ InspectHeadReserved(p) \/ CreateFinal(p) \/ FillFinal(p) \/ SyncFinal(p)
           \/ InspectPublished(p)
  BY <1>9 DEF RecoverNext, TakeOver, InspectReserved, CreateStage, FillStage, SyncStage,
     InspectStaged, UnlinkStage, InspectHeadReserved, CreateFinal, FillFinal, SyncFinal,
     InspectPublished, db
<1> QED BY <1>2, <1>3, <1>5, <1>6, <1>7, <1>8, <1>9 DEF Advance

\* An unfinished attempt is moved only under its current lease.
THEOREM FencingCorrect == Spec => Fenced
<1> DEFINE A == \A k \in Keys : state[k] \in OpenStates /\ state'[k] # state[k] =>
                  \E p \in Procs :
                    my[p].key = k /\ my[p].owner = owner[k] /\ pc'[p] # pc[p]
<1>1. ASSUME IInv, [Next]_vars, NEW k \in Keys, state[k] \in OpenStates, state'[k] # state[k]
      PROVE  \E p \in Procs : my[p].key = k /\ my[p].owner = owner[k] /\ pc'[p] # pc[p]
  <2>1. \E p \in Procs : Advance(p)
    BY <1>1 DEF Next, vars, db, Open, Crash, Call, Compose, ExpireLease, ChangeProject, PowerLoss
  <2> QED BY <1>1, <2>1, OwnerMoves
<1>2. IInv /\ [Next]_vars => [A]_vars
  BY <1>1
<1> QED BY <1>2, Inductive, PTL DEF Spec, Fenced
-----------------------------------------------------------------------------
(* The store implements the compare-and-set register.                        *)

LEMMA CasInit == Init => Cas!Init
  BY DEF Init, Cas!Init

LEMMA CasStep == ASSUME IInv, RowStep PROVE Cas!Next \/ UNCHANGED Cas!vars
<1> PICK k \in Keys : \/ Composed(k) \/ Reserved(k) \/ Moved(k) \/ HeadTaken(k)
                      \/ Committed(k) \/ Refused(k)
  BY DEF RowStep
<1> USE DEF IInv, RowInv, RowsTypeOK, AnswerCoherent
<1>1. CASE Composed(k)
  <2>1. PICK r \in RequestType : request' = [request EXCEPT ![k] = r]
    BY <1>1 DEF Composed
  <2>2. [active |-> r.active, generation |-> r.generation] \in Cas!Head
    BY DEF RequestType, Cas!Head
  <2>3. r # None
    BY NoneIsNoRequest DEF RequestType
  <2>4. /\ request[k] = None /\ request'[k] = r
        /\ \A j \in Keys \ {k} : request'[j] = request[j]
        /\ UNCHANGED <<idem, active, commitGen>>
    BY <1>1, <2>1 DEF Composed
  <2>5. \A j \in Keys : request'[j] # None =>
          [active |-> request'[j].active, generation |-> request'[j].generation] \in Cas!Head
    BY <2>2, <2>4 DEF RequestType, Cas!Head
  <2>6. [active |-> r.active, generation |-> r.generation] # None
    BY <2>2, NoneIsNoRequest DEF Cas!Head
  <2>7. Cas!Ask(k)
    BY <2>3, <2>4, <2>5, <2>6 DEF Cas!Ask
  <2> QED BY <2>7 DEF Cas!Next
<1>2. CASE Reserved(k)
  BY <1>2 DEF Reserved, Cas!vars
<1>3. CASE Moved(k) \/ HeadTaken(k)
  BY <1>3 DEF Moved, HeadTaken, Cas!vars
<1>4. CASE Committed(k)
  <2>1. HeadMatches(k) /\ request[k] # None /\ idem[k] = "in_progress"
    BY <1>4 DEF Committed, SlotCoherent, Asked
  <2>2. Cas!Commit(k)
    BY <1>4, <2>1 DEF Committed, HeadMatches, Cas!Commit
  <2> QED BY <2>2 DEF Cas!Next
<1>5. CASE Refused(k)
  <2>1. idem[k] = "in_progress" /\ UNCHANGED commitGen
    BY <1>5, RefusedKeepsGeneration DEF Refused
  <2>2. Cas!Refuse(k)
    BY <1>5, <2>1 DEF Refused, Cas!Refuse
  <2> QED BY <2>2 DEF Cas!Next
<1> QED BY <1>1, <1>2, <1>3, <1>4, <1>5

\* Five durable states, two files and any number of processes that die and wake
\* up late come to a compare-and-set register with one answer per request.
THEOREM Refinement == Spec => ImplementsCas
<1>1. IInv /\ [Next]_vars => [Cas!Next]_(Cas!vars)
  BY CasStep, NextStep DEF StepOK, rows, vars, db, Cas!vars
<1> QED BY <1>1, CasInit, Inductive, PTL DEF Spec, ImplementsCas, Cas!Spec

\* The head's slot, the answer for a retry and the VDT in creation agree in every
\* committed state.
THEOREM RowsCorrect == Spec => []RowsCoherent
<1>1. SlotCoherent /\ AnswerCoherent /\ CreatingIsOwned => RowsCoherent
  BY DEF RowsCoherent
<1> QED
  BY <1>1, SlotCorrect, AnswerCorrect, CreatingCorrect, PTL

\* Neither a final answer nor the bytes of a committed revision are changed.
THEOREM PastCorrect == Spec => PastFrozen
<1> QED
  BY TerminalCorrect, BytesCorrect DEF PastFrozen
=============================================================================
