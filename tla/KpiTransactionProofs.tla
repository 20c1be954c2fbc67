------------------------ MODULE KpiTransactionProofs ------------------------
(***************************************************************************)
(* Proofs about KpiTransaction, for any changes and any bounds.            *)
(*                                                                         *)
(* The inductive invariant speaks of three kinds of copies that exist at   *)
(* the same time: the editor's state, what browser storage holds of it,    *)
(* and requests that are under way.  Keyed: whatever asks the server to    *)
(* save under a key asks for the same, wherever it is kept.  Held: what is *)
(* kept of an operation or of an undo is true of the committed revisions.  *)
(* Placed: where the flow of the editor stands, and what it has in hand    *)
(* there.  Safe: the journal, and when a load may drop an operation.       *)
(*                                                                         *)
(* On it stands a second layer, Aware: what each copy of the editor's      *)
(* state knows of the work of others, as long as it took over no head      *)
(* without the graph.                                                      *)
(***************************************************************************)
EXTENDS KpiTransaction, TLAPS, SequenceTheorems

-----------------------------------------------------------------------------
(* What is asked of the server.                                             *)

\* The changes and the keys that have been made so far.
Made == Edit \cup Other \cup 1..ops
KeysMade == ({"save"} \X (1..saves)) \cup ({"add", "undo"} \X (1..ops))
OtherKeys == {"other"} \X (Other \cup {0})

\* What a request, or a committing operation that is kept, asks for.
Ask(r) == [key |-> r.key, expected |-> r.expected, content |-> r.content]
AskOf(o) == [key |-> KeyOf(o), expected |-> o.authority, content |-> o.candidate]

Requests == orphans \cup {c.req : c \in {call} \ {None}} \cup ({pending, disk.pending} \ {None})
Journals == {o \in {op, work, disk.op} : Committing(o)}
Asks == {Ask(r) : r \in Requests} \cup {AskOf(o) : o \in Journals}

-----------------------------------------------------------------------------
(* The invariant.                                                           *)

\* The counters, and the revisions.
Counted ==
    /\ ops \in 0..MaxOps /\ saves \in 0..MaxSaves /\ reloads \in 0..MaxReloads
    /\ revisions \in Seq([content : SUBSET Made, key : KeysMade \cup OtherKeys, blind : BOOLEAN])
    /\ Newest >= 1

\* An undo asks for what the revision it expects has, but the KPIs it is of.
UndoesOne(a) ==
    \E id \in Operation :
        /\ revisions[a.expected].key = <<"add", id>>
        /\ a.content = revisions[a.expected].content \ {id}

\* Whatever asks under a key asks for the same; what was committed under it is
\* that; what has been rejected expects a head that is past.
Keyed ==
    /\ \A a \in Asks : a \in [key : KeysMade, expected : 1..Newest, content : SUBSET Made]
    /\ \A a, b \in Asks : a.key = b.key => a = b
    /\ \A a \in Asks : a.key[1] = "undo" => UndoesOne(a)
    /\ \A a \in Asks, n \in 1..Newest : revisions[n].key = a.key => revisions[n].content = a.content
    /\ \A key \in rejected :
         /\ key \in KeysMade
         /\ \A n \in 1..Newest : revisions[n].key # key
         /\ \A a \in Asks : a.key = key => a.expected < Newest

\* What an answer says was so when it was given.
Replies ==
    call # None /\ call.reply # None =>
        /\ call.reply.outcome = "ok" =>
             /\ call.reply.head \in 1..Newest /\ call.reply.summary \in 1..Newest
             /\ revisions[call.reply.head].key = call.req.key
        /\ call.reply.outcome = "conflict" =>
             /\ call.req.expected < Newest
             /\ \A n \in 1..Newest : revisions[n].key # call.req.key

KeptOperations ==
    [id : 1..ops, kind : {"add", "undo"}, of : 1..ops, phase : {"preparing", "committing"},
     before : SUBSET Made, rev : Nat, authority : 1..Newest, candidate : SUBSET Made,
     head : 0..Newest, summary : 0..Newest]

\* An operation adds its KPIs, or takes them away again.
OwnChange(o) ==
    /\ o.kind = "add" =>
         o.of = o.id /\ o.id \notin o.before /\ o.candidate = o.before \cup {o.id}
    /\ o.kind = "undo" => o.phase = "committing" /\ o.candidate = o.before \ {o.of}

OperationOk(o) == o \in KeptOperations /\ OwnChange(o)

\* What can be undone is what the revision of the addition has.
UndoOk(u) ==
    /\ u \in [of : 1..ops, before : SUBSET Made, applied : SUBSET Made, rev : Nat,
              authority : 1..Newest]
    /\ revisions[u.authority].key = <<"add", u.of>>
    /\ revisions[u.authority].content = u.applied
    /\ u.before = u.applied \ {u.of}

Held ==
    /\ \A o \in {op, work, disk.op} \ {None} : OperationOk(o)
    /\ \A u \in {undo, disk.undo} \ {None} : UndoOk(u)
    /\ work # None /\ work.head # 0 /\ flow \in {"confirming", "publishing"} =>
         revisions[work.head].key = KeyOf(work)

\* The same operation, as far as it says what is asked for.
Same(o, p) ==
    o.id = p.id /\ o.kind = p.kind /\ o.of = p.of /\ o.phase = p.phase /\ o.candidate = p.candidate

\* Where the flow stands.
Placed ==
    /\ flow \in {"idle", "saving", "replaying", "preparing", "sending", "confirming", "publishing"}
    /\ (call # None) = (flow \in {"saving", "replaying", "sending"})
    /\ flow \in {"idle", "saving"} => work = None
    /\ flow \notin {"idle", "saving"} => op # None /\ work # None /\ Same(work, op)
    /\ flow \in {"saving", "replaying"} => pending # None /\ call.req = pending
    /\ flow \in {"replaying", "preparing"} =>
         /\ work.phase = "preparing"
         /\ \A a \in Asks : a.key # KeyOf(work)
         /\ \A n \in 1..Newest : revisions[n].key # KeyOf(work)
         /\ KeyOf(work) \notin rejected
    /\ flow \in {"sending", "confirming", "publishing"} =>
         work.phase = "committing" /\ work.authority = op.authority
    /\ flow = "sending" => work = op /\ Ask(call.req) = AskOf(work)
    /\ flow = "saving" => isMutating
    /\ leaving => flow = "saving" /\ loading = "no"

Requested == [key : KeysMade, expected : 1..Newest, content : SUBSET Made, blind : BOOLEAN]

Typed ==
    /\ project \subseteq Made /\ rev \in Nat /\ known \in 1..Newest
    /\ disk = Stored(disk.open, disk.project, disk.rev, disk.known, disk.rebase, disk.adopted,
                     disk.op, disk.undo, disk.pending)
    /\ disk.project \subseteq Made /\ disk.rev \in Nat /\ disk.known \in 1..Newest
    /\ {open, rebase, adopted, isLoading, isMutating, leaving, full} \subseteq BOOLEAN
    /\ {disk.open, disk.rebase, disk.adopted} \subseteq BOOLEAN
    /\ loading \in {"no", "this", "other"}
    /\ refreshing \in {None} \cup 0..Newest
    /\ \A r \in Requests : r \in Requested
    /\ call # None => call \in [req : Requested, reply : {None} \cup Answers]

\* What has been sent is in the journal, and no load drops an operation.
Safe ==
    /\ SentIsJournalled
    /\ op # None => ~rebase
    /\ disk.op # None => ~disk.rebase
    /\ loading = "this" => op = None /\ (rebase \/ ~open)

IInv == Counted /\ Keyed /\ Replies /\ Held /\ Placed /\ Typed /\ Safe /\ UndoIsExact

-----------------------------------------------------------------------------
(* Copies of what is asked for.                                             *)

\* Every request and every committing operation is counted among the asks.
LEMMA Counts ==
    /\ \A r \in orphans : Ask(r) \in Asks /\ r \in Requests
    /\ call # None => Ask(call.req) \in Asks /\ call.req \in Requests
    /\ pending # None => Ask(pending) \in Asks /\ pending \in Requests
    /\ disk.pending # None => Ask(disk.pending) \in Asks /\ disk.pending \in Requests
    /\ Committing(op) => AskOf(op) \in Asks
    /\ Committing(work) => AskOf(work) \in Asks
    /\ Committing(disk.op) => AskOf(disk.op) \in Asks
BY DEF Asks, Requests, Journals

\* After a step, the asks are in a set that has all that is kept.
LEMMA AsksWithin ==
    ASSUME NEW X,
           \A r \in orphans' : Ask(r) \in X,
           call' # None => Ask(call.req)' \in X,
           pending' # None => Ask(pending)' \in X,
           disk'.pending # None => Ask(disk.pending)' \in X,
           Committing(op)' => AskOf(op)' \in X,
           Committing(work)' => AskOf(work)' \in X,
           Committing(disk.op)' => AskOf(disk.op)' \in X
    PROVE  \A a \in Asks' : a \in X
<1> SUFFICES ASSUME NEW a \in Asks' PROVE a \in X
  OBVIOUS
<1>1. CASE \E r \in Requests' : a = Ask(r)
  BY <1>1 DEF Requests, Ask
<1>2. CASE \E o \in Journals' : a = AskOf(o)
  BY <1>2 DEF Journals, AskOf, KeyOf, Committing
<1> QED  BY <1>1, <1>2 DEF Asks, Ask, AskOf, KeyOf

\* The same for the requests themselves.
LEMMA RequestsWithin ==
    ASSUME NEW X,
           \A r \in orphans' : r \in X,
           call' # None => call'.req \in X,
           pending' # None => pending' \in X,
           disk'.pending # None => disk'.pending \in X
    PROVE  \A r \in Requests' : r \in X
BY DEF Requests

\* What is written to browser storage is the editor's state; otherwise it stays.
LEMMA Written ==
    ASSUME Persist
    PROVE  \/ disk' = disk /\ full
           \/ /\ ~full
              /\ disk' = Stored(open', project', rev', known', rebase', adopted', op', undo', pending')
              /\ disk'.open = open' /\ disk'.project = project' /\ disk'.rev = rev'
              /\ disk'.known = known' /\ disk'.rebase = rebase' /\ disk'.adopted = adopted'
              /\ disk'.op = op' /\ disk'.undo = undo' /\ disk'.pending = pending'
BY DEF Persist, Stored

\* The steps of the server and of other writers, which leave the editor alone.
Outside ==
    \/ ServerAnswers \/ ServerRefuses \/ ServerFails \/ Lost
    \/ \E r \in orphans : OrphanTaken(r)
    \/ \E w \in Other : OtherWrites(w)

\* The steps of the editor.
Inside ==
    \/ User \/ Reconcile \/ FlowStep
    \/ RefreshRead \/ RefreshDone \/ LoadDone \/ OtherLoaded \/ LoadFails \/ Quota

\* Every step is of the one kind or of the other.
LEMMA Sides == Next => Outside \/ Inside
BY DEF Next, Outside, Inside, Server

\* The editor writes no revisions, and makes new keys only by counting on.
LEMMA InsideKeeps ==
    ASSUME Counted, Inside
    PROVE  /\ revisions' = revisions
           /\ ops' \in Nat /\ saves' \in Nat /\ ops <= ops' /\ saves <= saves'
           /\ ops' <= MaxOps /\ saves' <= MaxSaves
<1>1. revisions' = revisions
  BY DEF Inside, User, FlowStep, EditGraph, Refresh, Load, Leave, Reload, Save, Saving, Apply, Undo,
     Reconcile, SaveDone, SaveConflict, SaveFails, SaveEnds, Replayed, ReplayFails, PrepareFails,
     Prepared, Saved, Confirm, Published, NotPublished, Conflict, NotSaved, OperationStep,
     RefreshRead, RefreshDone, LoadDone, OtherLoaded, LoadFails, Loaded, Quota, serverVars
<1>2. \/ ops' = ops
      \/ ops < MaxOps /\ ops' = ops + 1
  BY DEF Inside, User, FlowStep, EditGraph, Refresh, Load, Leave, Reload, Save, Saving, Apply, Undo,
     Reconcile, SaveDone, SaveConflict, SaveFails, SaveEnds, Replayed, ReplayFails, PrepareFails,
     Prepared, Saved, Confirm, Published, NotPublished, Conflict, NotSaved, OperationStep,
     RefreshRead, RefreshDone, LoadDone, OtherLoaded, LoadFails, Loaded, Quota, boundVars
<1>3. \/ saves' = saves
      \/ saves < MaxSaves /\ saves' = saves + 1
  BY DEF Inside, User, FlowStep, EditGraph, Refresh, Load, Leave, Reload, Save, Saving, Apply, Undo,
     Reconcile, SaveDone, SaveConflict, SaveFails, SaveEnds, Replayed, ReplayFails, PrepareFails,
     Prepared, Saved, Confirm, Published, NotPublished, Conflict, NotSaved, OperationStep,
     RefreshRead, RefreshDone, LoadDone, OtherLoaded, LoadFails, Loaded, Quota, boundVars
<1> QED  BY <1>1, <1>2, <1>3, BoundAssumption DEF Counted

\* What has been made stays made.
LEMMA MoreMade ==
    ASSUME Counted, ops' \in Nat, saves' \in Nat, ops <= ops', saves <= saves'
    PROVE  /\ \A x \in Made : x \in Made'
           /\ \A s \in SUBSET Made : s \in SUBSET Made'
           /\ \A k \in KeysMade : k \in KeysMade'
           /\ \A i \in 1..ops : i \in 1..ops'
<1>1. \A i \in 1..ops : i \in 1..ops'
  BY DEF Counted
<1>2. \A i \in 1..saves : i \in 1..saves'
  BY DEF Counted
<1>3. \A x \in Made : x \in Made'
  BY <1>1 DEF Made
<1>4. \A k \in KeysMade : k \in KeysMade'
  BY <1>1, <1>2 DEF KeysMade
<1> QED  BY <1>1, <1>3, <1>4

\* The requests and operations made so far are such as None is not one of.
LEMMA Records ==
    ASSUME Counted
    PROVE  /\ \A r \in Requested : r \in Commands
           /\ \A o \in KeptOperations : o \in Operations
           /\ \A r \in Requested : [req |-> r, reply |-> None] # None
<1>1. \A i \in 1..ops : i \in Operation
  BY BoundAssumption DEF Counted, Operation
<1>2. \A s \in SUBSET Made : s \in SUBSET Change
  BY <1>1 DEF Made, Change
<1>3. \A n \in 0..Newest : n \in Nat
  BY LenProperties DEF Counted, Newest
<1>4. \A k \in KeysMade : k \in {"save", "add", "undo"} \X Nat
  BY DEF Counted, KeysMade
<1>5. ASSUME NEW r \in Requested PROVE r \in Commands
  BY <1>2, <1>3, <1>4 DEF Requested, Commands
<1>6. ASSUME NEW o \in KeptOperations PROVE o \in Operations
  BY <1>1, <1>2, <1>3 DEF KeptOperations, Operations
<1>7. ASSUME NEW r \in Requested PROVE [req |-> r, reply |-> None] # None
  BY <1>5, RecordAssumption
<1> QED  BY <1>5, <1>6, <1>7

-----------------------------------------------------------------------------
(* The server and other writers.                                            *)

\* What is asked for, by its parts.
LEMMA AskParts ==
    /\ \A r : Ask(r).key = r.key /\ Ask(r).expected = r.expected /\ Ask(r).content = r.content
    /\ \A o : /\ AskOf(o).key = KeyOf(o) /\ AskOf(o).expected = o.authority
              /\ AskOf(o).content = o.candidate
BY DEF Ask, AskOf

\* A revision more.
LEMMA Appended ==
    ASSUME Counted, NEW x, revisions' = Append(revisions, x)
    PROVE  /\ Newest \in Nat /\ Newest' = Newest + 1
           /\ \A n \in 1..Newest : revisions'[n] = revisions[n]
           /\ revisions'[Newest + 1] = x
<1> DEFINE R == [content : SUBSET Made, key : KeysMade \cup OtherKeys, blind : BOOLEAN]
<1>1. revisions \in Seq(R \cup {x}) /\ x \in R \cup {x}
  <2>1. revisions \in Seq(R)
    BY DEF Counted
  <2> HIDE DEF R
  <2>2. \A n \in 1..Len(revisions) : revisions[n] \in R
    BY <2>1, LenProperties
  <2> QED  BY <2>1, <2>2, LenProperties, SeqDef
<1> QED  BY <1>1, LenProperties, AppendProperties DEF Newest

\* An answer is one, and says what is so.
LEMMA Answered ==
    ASSUME Counted, NEW r
    PROVE  /\ Answer(r) \in Answers
           /\ Answer(r).outcome = "ok" =>
                /\ Commits(r) => Answer(r).head = Newest + 1 /\ Answer(r).summary = Newest + 1
                /\ ~Commits(r) => /\ Answer(r).head \in 1..Newest /\ Answer(r).summary = Newest
                                  /\ revisions[Answer(r).head].key = r.key
           /\ Answer(r).outcome = "conflict" =>
                ~Commits(r) /\ Committed(r.key) = {} /\ r.key \notin failed
<1>1. Newest \in Nat /\ Newest >= 1 /\ Newest + 1 \in Nat
  BY LenProperties DEF Counted, Newest
<1>2. CASE Commits(r)
  BY <1>1, <1>2 DEF Answer, Answers, Commits
<1>3. CASE ~Commits(r) /\ Committed(r.key) = {} /\ r.key \notin failed
  <2>1. Answer(r) = NotCommitted("conflict")
    BY <1>3 DEF Answer
  <2> QED  BY <1>3, <2>1 DEF Answers, NotCommitted
<1>4. CASE ~Commits(r) /\ Committed(r.key) # {} /\ r.key \notin failed
  <2> DEFINE h == CHOOSE n \in Committed(r.key) : TRUE
  <2>1. h \in Committed(r.key)
    BY <1>4
  <2>2. Answer(r) = [outcome |-> "ok", head |-> h, summary |-> Newest]
    BY <1>4 DEF Answer
  <2> HIDE DEF h
  <2>3. h \in 1..Newest /\ revisions[h].key = r.key /\ h \in Nat
    BY <2>1, <1>1 DEF Committed
  <2> QED  BY <1>1, <1>4, <2>2, <2>3 DEF Answers
<1>5. CASE r.key \in failed
  <2>1. Answer(r) = NotCommitted("failed") /\ ~Commits(r)
    BY <1>5 DEF Answer, Commits
  <2> QED  BY <2>1 DEF Answers, NotCommitted
<1> QED  BY <1>2, <1>3, <1>4, <1>5

\* The editor is not touched, but for the answer to its request.
LEMMA OutsideEditor ==
    ASSUME Counted, Typed, Outside
    PROVE  /\ UNCHANGED editorVars
           /\ call = None => call' = None
           /\ call # None => /\ call' # None /\ call'.req = call.req
                             /\ call' \in [req : Requested, reply : {None} \cup Answers]
                             /\ \/ call'.reply = call.reply
                                \/ call'.reply.outcome \in {"refused", "failed", "unknown"}
                                \/ ServerAnswers /\ call'.reply = Answer(call.req)
           /\ \A r \in orphans' : r \in orphans \/ (call # None /\ r = call.req)
<1> DEFINE Calls == [req : Requested, reply : {None} \cup Answers]
<1>1. call # None => call \in Calls /\ call.req \in Requested
  BY DEF Typed
<1>2. ASSUME call # None, NEW a \in Answers, call' = [call EXCEPT !.reply = a]
      PROVE  call' # None /\ call'.req = call.req /\ call' \in Calls /\ call'.reply = a
  <2>1. call' \in Calls /\ call'.req = call.req /\ call'.reply = a
    BY <1>1, <1>2
  <2>2. call' \in [req : Commands, reply : {None} \cup Answers]
    BY <2>1, Records
  <2> QED  BY <2>1, <2>2, RecordAssumption
<1>3. \A o \in {"refused", "failed", "unknown"} :
         NotCommitted(o) \in Answers /\ NotCommitted(o).outcome = o
  BY DEF Answers, NotCommitted
<1>4. CASE ServerAnswers
  <2>1. call # None /\ call' = [call EXCEPT !.reply = Answer(call.req)]
    BY <1>4 DEF ServerAnswers, Waiting
  <2>2. Answer(call.req) \in Answers
    BY Answered
  <2>3. UNCHANGED editorVars /\ orphans' = orphans
    BY <1>4 DEF ServerAnswers
  <2>4. /\ call' # None /\ call'.req = call.req /\ call' \in Calls
        /\ call'.reply = Answer(call.req)
    BY <1>2, <2>1, <2>2
  <2> QED  BY <1>4, <2>1, <2>3, <2>4
<1>5. CASE ServerRefuses
  <2>1. call # None /\ call' = [call EXCEPT !.reply = NotCommitted("refused")]
    BY <1>5 DEF ServerRefuses, Waiting
  <2> DEFINE a == NotCommitted("refused")
  <2>2. a \in Answers /\ a.outcome = "refused"
    BY <1>3
  <2>3. UNCHANGED editorVars /\ \A r \in orphans' : r \in orphans \/ r = call.req
    BY <1>5 DEF ServerRefuses, serverVars
  <2>4. call' # None /\ call'.req = call.req /\ call' \in Calls /\ call'.reply = a
    BY <1>2, <2>1, <2>2
  <2> QED  BY <2>1, <2>2, <2>3, <2>4
<1>6. CASE Lost
  <2>1. call # None /\ call' = [call EXCEPT !.reply = NotCommitted("unknown")]
    BY <1>6 DEF Lost
  <2> DEFINE a == NotCommitted("unknown")
  <2>2. a \in Answers /\ a.outcome = "unknown"
    BY <1>3
  <2>3. UNCHANGED editorVars /\ \A r \in orphans' : r \in orphans \/ r = call.req
    BY <1>6 DEF Lost
  <2>4. call' # None /\ call'.req = call.req /\ call' \in Calls /\ call'.reply = a
    BY <1>2, <2>1, <2>2
  <2> QED  BY <2>1, <2>2, <2>3, <2>4
<1>7. CASE \E r \in orphans : OrphanTaken(r)
  <2>1. UNCHANGED <<editorVars, call>> /\ \A r \in orphans' : r \in orphans
    BY <1>7 DEF OrphanTaken
  <2> QED  BY <1>1, <2>1
<1>8. CASE \E w \in Other : OtherWrites(w)
  <2>1. UNCHANGED <<editorVars, call, orphans>>
    BY <1>8 DEF OtherWrites
  <2> QED  BY <1>1, <2>1
<1>9. CASE ServerFails
  <2>1. call # None /\ call' = [call EXCEPT !.reply = NotCommitted("failed")]
    BY <1>9 DEF ServerFails, Waiting
  <2> DEFINE a == NotCommitted("failed")
  <2>2. a \in Answers /\ a.outcome = "failed"
    BY <1>3
  <2>3. UNCHANGED editorVars /\ \A r \in orphans' : r \in orphans \/ r = call.req
    BY <1>9 DEF ServerFails
  <2>4. call' # None /\ call'.req = call.req /\ call' \in Calls /\ call'.reply = a
    BY <1>2, <2>1, <2>2
  <2> QED  BY <2>1, <2>2, <2>3, <2>4
<1> QED  BY <1>4, <1>5, <1>6, <1>7, <1>8, <1>9 DEF Outside

\* At most one revision is added: another writer's, or what was asked for.
OfOther(x) == x.key \in OtherKeys
AsAsked(x) ==
    \E a \in Asks :
        /\ a.expected = Newest /\ x.key = a.key /\ x.content = a.content
        /\ \A n \in 1..Newest : revisions[n].key # a.key

NewRevision ==
    [content : SUBSET Made, key : KeysMade \cup OtherKeys, blind : BOOLEAN]

\* The revision is one, and only what is asked on the head becomes one.
LEMMA OutsideAdds ==
    ASSUME Counted, Typed, Outside
    PROVE  \/ revisions' = revisions
           \/ \E x \in NewRevision :
                 revisions' = Append(revisions, x) /\ (OfOther(x) \/ AsAsked(x))
<1>1. ASSUME NEW r \in Requests, Takes(r), revisions' # revisions
      PROVE  \E x \in NewRevision :
                 revisions' = Append(revisions, x) /\ AsAsked(x)
  <2> DEFINE x == [content |-> r.content, key |-> r.key, blind |-> r.blind]
  <2>1. Commits(r) /\ revisions' = Append(revisions, x)
    BY <1>1 DEF Takes
  <2>2. r \in Requested
    BY DEF Typed
  <2>3. x \in NewRevision
    BY <2>2 DEF Requested, NewRevision
  <2>4. Ask(r) \in Asks
    BY DEF Asks
  <2>5. Ask(r).expected = Newest /\ Ask(r).key = x.key /\ Ask(r).content = x.content
    BY <2>1 DEF Ask, Commits
  <2>6. \A n \in 1..Newest : revisions[n].key # x.key
    BY <2>1 DEF Commits, Committed
  <2>7. AsAsked(x)
    <3> HIDE DEF x
    <3> QED  BY <2>4, <2>5, <2>6 DEF AsAsked
  <2> QED  BY <2>1, <2>3, <2>7
<1>2. CASE ServerAnswers
  <2>1. call.req \in Requests /\ Takes(call.req)
    BY <1>2, Counts DEF ServerAnswers, Waiting
  <2> QED  BY <1>1, <2>1
<1>3. CASE \E r \in orphans : OrphanTaken(r)
  BY <1>1, <1>3, Counts DEF OrphanTaken
<1>4. CASE \E w \in Other : OtherWrites(w)
  <2>1. PICK w \in Other : OtherWrites(w)
    BY <1>4
  <2> DEFINE x == [content |-> revisions[Newest].content \cup {w}, key |-> <<"other", w>>, blind |-> FALSE]
  <2>2. revisions' = Append(revisions, x)
    BY <2>1 DEF OtherWrites
  <2>3. Newest \in 1..Len(revisions)
    BY LenProperties DEF Counted, Newest
  <2>4. revisions[Newest].content \in SUBSET Made
    <3>1. revisions \in Seq([content : SUBSET Made, key : KeysMade \cup OtherKeys, blind : BOOLEAN])
      BY DEF Counted
    <3>2. \A n \in 1..Len(revisions) : revisions[n] \in NewRevision
      BY <3>1, LenProperties DEF NewRevision
    <3> QED  BY <2>3, <3>2 DEF NewRevision
  <2>5. x \in NewRevision /\ OfOther(x)
    BY <2>4 DEF NewRevision, Made, OfOther, OtherKeys
  <2> QED  BY <2>2, <2>5
<1> QED  BY <1>2, <1>3, <1>4 DEF Outside, ServerRefuses, ServerFails, Lost, serverVars

\* The revisions after a step of the others, by number.
LEMMA OutsideRevisions ==
    ASSUME Counted, Typed, Outside
    PROVE  /\ Newest \in Nat /\ Newest' \in {Newest, Newest + 1}
           /\ revisions' \in Seq(NewRevision)
           /\ \A n \in 1..Newest : n \in 1..Newest' /\ revisions'[n] = revisions[n]
           /\ \A n \in 1..Newest' :
                 \/ n \in 1..Newest
                 \/ n = Newest + 1 /\ (OfOther(revisions'[n]) \/ AsAsked(revisions'[n]))
<1>1. Newest \in Nat /\ revisions \in Seq(NewRevision)
  BY LenProperties DEF Counted, Newest, NewRevision
<1>2. CASE revisions' = revisions
  BY <1>1, <1>2 DEF Newest
<1>3. CASE revisions' # revisions
  <2>1. PICK x \in NewRevision :
           revisions' = Append(revisions, x) /\ (OfOther(x) \/ AsAsked(x))
    BY <1>3, OutsideAdds
  <2>2. /\ Newest' = Newest + 1
        /\ \A n \in 1..Newest : revisions'[n] = revisions[n]
        /\ revisions'[Newest + 1] = x
    BY <2>1, Appended
  <2>3. revisions' \in Seq(NewRevision)
    BY <1>1, <2>1, AppendProperties
  <2>4. \A n \in 1..Newest' : n \in 1..Newest \/ n = Newest + 1
    BY <1>1, <2>2
  <2>5. \A n \in 1..Newest : n \in 1..Newest'
    BY <1>1, <2>2
  <2> QED  BY <1>1, <2>1, <2>2, <2>3, <2>4, <2>5
<1> QED  BY <1>2, <1>3

\* Nothing new is asked for.
LEMMA OutsideAsks ==
    ASSUME Counted, Typed, Outside
    PROVE  /\ \A a \in Asks' : a \in Asks
           /\ \A r \in Requests' : r \in Requests
<1>1. /\ UNCHANGED <<op, work, pending, disk>>
      /\ call' # None => call # None /\ call'.req = call.req
      /\ \A r \in orphans' : r \in orphans \/ (call # None /\ r = call.req)
  BY OutsideEditor DEF editorVars, opVars
<1>2. \A r \in orphans' : Ask(r) \in Asks /\ r \in Requests
  BY <1>1, Counts
<1>3. call' # None => Ask(call.req)' \in Asks /\ call'.req \in Requests
  BY <1>1, Counts DEF Ask
<1>4. pending' # None => Ask(pending)' \in Asks /\ pending' \in Requests
  BY <1>1, Counts DEF Ask
<1>5. disk'.pending # None => Ask(disk.pending)' \in Asks /\ disk'.pending \in Requests
  BY <1>1, Counts DEF Ask
<1>6. Committing(op)' => AskOf(op)' \in Asks
  BY <1>1, Counts DEF AskOf, KeyOf, Committing
<1>7. Committing(work)' => AskOf(work)' \in Asks
  BY <1>1, Counts DEF AskOf, KeyOf, Committing
<1>8. Committing(disk.op)' => AskOf(disk.op)' \in Asks
  BY <1>1, Counts DEF AskOf, KeyOf, Committing
<1>9. \A a \in Asks' : a \in Asks
  BY <1>2, <1>3, <1>4, <1>5, <1>6, <1>7, <1>8, AsksWithin
<1>10. \A r \in Requests' : r \in Requests
  BY <1>2, <1>3, <1>4, <1>5, RequestsWithin
<1> QED  BY <1>9, <1>10

\* The editor's variables stay, and with them what has been made.
LEMMA OutsideStays ==
    ASSUME Counted, Typed, Outside
    PROVE  /\ UNCHANGED <<open, project, rev, known, rebase, adopted, op, undo, pending,
                          isLoading, isMutating, flow, work, leaving, loading, refreshing,
                          disk, full, rejected, ops, saves, reloads>>
           /\ Made' = Made /\ KeysMade' = KeysMade
<1>1. UNCHANGED <<open, project, rev, known, rebase, adopted, op, undo, pending,
                  isLoading, isMutating, flow, work, leaving, loading, refreshing,
                  disk, full, rejected, ops, saves, reloads>>
  BY OutsideEditor DEF editorVars, graphVars, headVars, opVars, busyVars, flightVars
<1> QED  BY <1>1 DEF Made, KeysMade

\* A key made by the editor is not one of the other writers'.
LEMMA KeysApart == \A k \in KeysMade : k \notin OtherKeys
BY DEF KeysMade, OtherKeys

\* The revisions stay revisions.
LEMMA OutsideCounted ==
    ASSUME Counted, Typed, Outside
    PROVE  Counted'
<1>1. Newest \in Nat /\ Newest' \in {Newest, Newest + 1} /\ revisions' \in Seq(NewRevision)
  BY OutsideRevisions
<1>2. Newest' >= 1
  BY <1>1 DEF Counted
<1>3. UNCHANGED <<ops, saves, reloads>> /\ Made' = Made /\ KeysMade' = KeysMade
  BY OutsideStays
<1>4. revisions' \in Seq([content : SUBSET Made', key : KeysMade' \cup OtherKeys, blind : BOOLEAN])
  BY <1>1, <1>3 DEF NewRevision
<1> QED  BY <1>2, <1>3, <1>4 DEF Counted, OtherKeys

\* Under the key of an ask, only that which it asks for is committed.
LEMMA OutsideKeyed ==
    ASSUME Counted, Keyed, Typed, Outside
    PROVE  Keyed'
<1>1. /\ Newest \in Nat /\ Newest' \in {Newest, Newest + 1}
      /\ \A n \in 1..Newest : n \in 1..Newest' /\ revisions'[n] = revisions[n]
      /\ \A n \in 1..Newest' :
            \/ n \in 1..Newest
            \/ n = Newest + 1 /\ (OfOther(revisions'[n]) \/ AsAsked(revisions'[n]))
  BY OutsideRevisions
<1>2. rejected' = rejected /\ Made' = Made /\ KeysMade' = KeysMade
  BY OutsideStays
<1>3. \A a \in Asks' : a \in Asks
  BY OutsideAsks
<1>4. \A a \in Asks' : a \in [key : KeysMade', expected : 1..Newest', content : SUBSET Made']
  <2> SUFFICES ASSUME NEW a \in Asks'
               PROVE  a \in [key : KeysMade', expected : 1..Newest', content : SUBSET Made']
    OBVIOUS
  <2>1. a \in [key : KeysMade, expected : 1..Newest, content : SUBSET Made]
    BY <1>3 DEF Keyed
  <2> QED  BY <1>1, <1>2, <2>1
<1>5. \A a, b \in Asks' : a.key = b.key => a = b
  BY <1>3 DEF Keyed
<1>6. \A a \in Asks' : a.key[1] = "undo" => UndoesOne(a)'
  <2> SUFFICES ASSUME NEW a \in Asks', a.key[1] = "undo" PROVE UndoesOne(a)'
    OBVIOUS
  <2>1. a \in Asks /\ UndoesOne(a) /\ a.expected \in 1..Newest
    BY <1>3 DEF Keyed
  <2> QED  BY <1>1, <2>1 DEF UndoesOne
<1>7. \A a \in Asks', n \in 1..Newest' : revisions'[n].key = a.key => revisions'[n].content = a.content
  <2> SUFFICES ASSUME NEW a \in Asks', NEW n \in 1..Newest', revisions'[n].key = a.key
               PROVE  revisions'[n].content = a.content
    OBVIOUS
  <2>1. a \in Asks /\ a.key \in KeysMade
    BY <1>3 DEF Keyed
  <2>2. CASE n \in 1..Newest
    BY <1>1, <2>1, <2>2 DEF Keyed
  <2>3. CASE OfOther(revisions'[n])
    BY <2>1, <2>3, KeysApart DEF OfOther
  <2>4. CASE AsAsked(revisions'[n])
    BY <2>1, <2>4 DEF Keyed, AsAsked
  <2> QED  BY <1>1, <2>2, <2>3, <2>4
<1>8. \A key \in rejected' :
         /\ key \in KeysMade'
         /\ \A n \in 1..Newest' : revisions'[n].key # key
         /\ \A a \in Asks' : a.key = key => a.expected < Newest'
  <2> SUFFICES ASSUME NEW key \in rejected'
               PROVE  /\ key \in KeysMade'
                      /\ \A n \in 1..Newest' : revisions'[n].key # key
                      /\ \A a \in Asks' : a.key = key => a.expected < Newest'
    OBVIOUS
  <2>1. /\ key \in KeysMade
        /\ \A n \in 1..Newest : revisions[n].key # key
        /\ \A a \in Asks : a.key = key => a.expected < Newest
    BY <1>2 DEF Keyed
  <2>2. ASSUME NEW n \in 1..Newest' PROVE revisions'[n].key # key
    <3>1. CASE n \in 1..Newest
      BY <1>1, <2>1, <3>1
    <3>2. CASE OfOther(revisions'[n])
      BY <2>1, <3>2, KeysApart DEF OfOther
    <3>3. CASE AsAsked(revisions'[n])
      BY <1>1, <2>1, <3>3 DEF AsAsked
    <3> QED  BY <1>1, <3>1, <3>2, <3>3
  <2>3. ASSUME NEW a \in Asks', a.key = key PROVE a.expected < Newest'
    <3>1. a \in Asks /\ a.expected \in 1..Newest
      BY <1>3 DEF Keyed
    <3> QED  BY <1>1, <2>1, <2>3, <3>1
  <2> QED  BY <1>2, <2>1, <2>2, <2>3
<1> QED  BY <1>4, <1>5, <1>6, <1>7, <1>8 DEF Keyed

\* An answer stays true: revisions stay, and a conflict is not resolved.
LEMMA OutsideReplies ==
    ASSUME Counted, Keyed, Replies, Typed, Outside
    PROVE  Replies'
<1> SUFFICES ASSUME call' # None, call'.reply # None
             PROVE  /\ call'.reply.outcome = "ok" =>
                         /\ call'.reply.head \in 1..Newest' /\ call'.reply.summary \in 1..Newest'
                         /\ revisions'[call'.reply.head].key = call'.req.key
                    /\ call'.reply.outcome = "conflict" =>
                         /\ call'.req.expected < Newest'
                         /\ \A n \in 1..Newest' : revisions'[n].key # call'.req.key
  BY DEF Replies
<1>1. /\ call # None /\ call'.req = call.req
      /\ \/ call'.reply = call.reply
         \/ call'.reply.outcome \in {"refused", "failed", "unknown"}
         \/ ServerAnswers /\ call'.reply = Answer(call.req)
  BY OutsideEditor
<1>2. /\ Newest \in Nat /\ Newest' \in {Newest, Newest + 1}
      /\ \A n \in 1..Newest : n \in 1..Newest' /\ revisions'[n] = revisions[n]
      /\ \A n \in 1..Newest' :
            \/ n \in 1..Newest
            \/ n = Newest + 1 /\ (OfOther(revisions'[n]) \/ AsAsked(revisions'[n]))
  BY OutsideRevisions
<1>3. /\ Ask(call.req) \in Asks /\ call.req.key \in KeysMade
      /\ call.req.expected \in 1..Newest
  BY <1>1, Counts, AskParts DEF Keyed
<1>4. CASE call'.reply = call.reply
  <2>1. ASSUME call.reply.outcome = "conflict"
        PROVE  \A n \in 1..Newest' : revisions'[n].key # call.req.key
    <3>1. call.req.expected < Newest /\ \A n \in 1..Newest : revisions[n].key # call.req.key
      BY <1>1, <1>4, <2>1 DEF Replies
    <3> SUFFICES ASSUME NEW n \in 1..Newest', revisions'[n].key = call.req.key PROVE FALSE
      OBVIOUS
    <3>2. CASE n \in 1..Newest
      BY <1>2, <3>1, <3>2
    <3>3. CASE OfOther(revisions'[n])
      BY <1>3, <3>3, KeysApart DEF OfOther
    <3>4. CASE AsAsked(revisions'[n])
      <4>1. PICK a \in Asks : a.expected = Newest /\ revisions'[n].key = a.key
        BY <3>4 DEF AsAsked
      <4>2. Ask(call.req).key = a.key
        BY <4>1, AskParts
      <4>3. a = Ask(call.req)
        BY <1>3, <4>1, <4>2 DEF Keyed
      <4> QED  BY <1>2, <1>3, <3>1, <4>1, <4>3, AskParts
    <3> QED  BY <1>2, <3>2, <3>3, <3>4
  <2>2. ASSUME call.reply.outcome = "ok"
        PROVE  /\ call.reply.head \in 1..Newest' /\ call.reply.summary \in 1..Newest'
               /\ revisions'[call.reply.head].key = call.req.key
    BY <1>1, <1>2, <1>4, <2>2 DEF Replies
  <2>3. ASSUME call.reply.outcome = "conflict"
        PROVE  call.req.expected < Newest'
    BY <1>1, <1>2, <1>3, <1>4, <2>3 DEF Replies
  <2> QED  BY <1>1, <1>4, <2>1, <2>2, <2>3
<1>5. CASE call'.reply.outcome \in {"refused", "failed", "unknown"}
  BY <1>5
<1>6. CASE ServerAnswers /\ call'.reply = Answer(call.req)
  <2> DEFINE x == [content |-> call.req.content, key |-> call.req.key, blind |-> call.req.blind]
  <2>1. revisions' = IF Commits(call.req) THEN Append(revisions, x) ELSE revisions
    BY <1>6 DEF ServerAnswers, Takes
  <2>2. CASE Commits(call.req)
    <3>1. Newest' = Newest + 1 /\ revisions'[Newest + 1] = x
      BY <2>1, <2>2, Appended
    <3>2. Answer(call.req) = [outcome |-> "ok", head |-> Newest + 1, summary |-> Newest + 1]
      BY <2>2 DEF Answer, Commits
    <3>3. Newest + 1 \in 1..Newest'
      BY <1>2, <3>1
    <3> QED  BY <1>1, <1>6, <3>1, <3>2, <3>3
  <2>3. CASE ~Commits(call.req)
    <3>1. revisions' = revisions /\ Newest' = Newest
      BY <2>1, <2>3 DEF Newest
    <3>2. CASE Answer(call.req).outcome = "ok"
      <4>1. /\ Answer(call.req).head \in 1..Newest /\ Answer(call.req).summary = Newest
            /\ revisions[Answer(call.req).head].key = call.req.key
        BY <2>3, <3>2, Answered
      <4>2. Newest \in 1..Newest
        BY <1>2 DEF Counted
      <4> QED  BY <1>1, <1>6, <3>1, <3>2, <4>1, <4>2
    <3>3. CASE Answer(call.req).outcome = "conflict"
      <4>1. Committed(call.req.key) = {} /\ call.req.key \notin failed
        BY <3>3, Answered
      <4>2. call.req.expected < Newest
        BY <1>2, <1>3, <2>3, <4>1 DEF Commits
      <4> QED  BY <1>1, <1>6, <3>1, <3>3, <4>1, <4>2 DEF Committed
    <3> QED  BY <1>1, <1>6, <3>2, <3>3
  <2> QED  BY <2>2, <2>3
<1> QED  BY <1>1, <1>4, <1>5, <1>6

\* What is kept of operations and undos is about revisions that stay.
LEMMA OutsideHeld ==
    ASSUME Counted, Held, Typed, Outside
    PROVE  Held'
<1>1. /\ Newest \in Nat /\ Newest' \in {Newest, Newest + 1}
      /\ \A n \in 1..Newest : n \in 1..Newest' /\ revisions'[n] = revisions[n]
  BY OutsideRevisions
<1>2. /\ UNCHANGED <<op, work, undo, disk, flow, ops>>
      /\ Made' = Made /\ KeysMade' = KeysMade
  BY OutsideStays
<1>3. ASSUME NEW o, OperationOk(o) PROVE OperationOk(o)'
  <2>1. o \in KeptOperations'
    <3>1. \A n \in 0..Newest : n \in 0..Newest'
      BY <1>1
    <3> QED  BY <1>1, <1>2, <1>3, <3>1 DEF OperationOk, KeptOperations
  <2> QED  BY <1>3, <2>1 DEF OperationOk, OwnChange
<1>4. ASSUME NEW u, UndoOk(u) PROVE UndoOk(u)'
  <2>1. u.authority \in 1..Newest
    BY <1>4 DEF UndoOk
  <2> QED  BY <1>1, <1>2, <1>4, <2>1 DEF UndoOk
<1>5. \A o \in {op', work', disk'.op} \ {None} : OperationOk(o)'
  BY <1>2, <1>3 DEF Held
<1>6. \A u \in {undo', disk'.undo} \ {None} : UndoOk(u)'
  BY <1>2, <1>4 DEF Held
<1>7. ASSUME work # None, work.head # 0, flow \in {"confirming", "publishing"}
      PROVE  revisions'[work.head].key = KeyOf(work)
  <2>1. work.head \in 1..Newest
    <3>1. work.head \in 0..Newest
      BY <1>7 DEF Held, OperationOk, KeptOperations
    <3> QED  BY <1>1, <1>7, <3>1
  <2> QED  BY <1>1, <1>7, <2>1 DEF Held
<1> QED  BY <1>2, <1>5, <1>6, <1>7 DEF Held, KeyOf

\* Where the flow stands is not changed by an answer.
LEMMA OutsidePlaced ==
    ASSUME Counted, Keyed, Held, Placed, Typed, Outside
    PROVE  Placed'
<1>1. UNCHANGED <<op, work, pending, flow, rejected, isMutating, leaving, loading>>
  BY OutsideStays
<1>2. /\ (call' # None) = (call # None)
      /\ call # None => call'.req = call.req
  BY OutsideEditor
<1>3. /\ \A n \in 1..Newest : revisions'[n] = revisions[n]
      /\ \A n \in 1..Newest' :
            \/ n \in 1..Newest
            \/ n = Newest + 1 /\ (OfOther(revisions'[n]) \/ AsAsked(revisions'[n]))
  BY OutsideRevisions
<1>4. \A a \in Asks' : a \in Asks
  BY OutsideAsks
<1>5. ASSUME flow \in {"replaying", "preparing"}
      PROVE  /\ \A a \in Asks' : a.key # KeyOf(work)
             /\ \A n \in 1..Newest' : revisions'[n].key # KeyOf(work)
  <2>1. \A a \in Asks : a.key # KeyOf(work)
    BY <1>5 DEF Placed
  <2>2. \A n \in 1..Newest : revisions[n].key # KeyOf(work)
    BY <1>5 DEF Placed
  <2>3. ASSUME NEW n \in 1..Newest', revisions'[n].key = KeyOf(work) PROVE FALSE
    <3>1. CASE n \in 1..Newest
      BY <1>3, <2>2, <2>3, <3>1
    <3>2. CASE OfOther(revisions'[n])
      <4>1. KeyOf(work)[1] = revisions'[n].key[1] /\ revisions'[n].key[1] = "other"
        BY <2>3, <3>2 DEF OfOther, OtherKeys
      <4>2. work.kind \in {"add", "undo"}
        BY <1>5 DEF Placed, Held, OperationOk, KeptOperations
      <4> QED  BY <4>1, <4>2 DEF KeyOf
    <3>3. CASE AsAsked(revisions'[n])
      BY <2>1, <2>3, <3>3 DEF AsAsked
    <3> QED  BY <1>3, <3>1, <3>2, <3>3
  <2> QED  BY <1>4, <2>1, <2>3
<1> QED  BY <1>1, <1>2, <1>5 DEF Placed, KeyOf, Same, Ask, AskOf

\* The types, after an answer or a revision more.
LEMMA OutsideTyped ==
    ASSUME Counted, Typed, Outside
    PROVE  Typed'
<1>1. /\ Newest \in Nat /\ Newest' \in {Newest, Newest + 1}
      /\ \A n \in 1..Newest : n \in 1..Newest'
  BY OutsideRevisions
<1>2. /\ UNCHANGED <<open, project, rev, known, rebase, adopted, op, undo, pending,
                      isLoading, isMutating, flow, work, leaving, loading, refreshing,
                      disk, full, rejected, ops, saves, reloads>>
      /\ Made' = Made /\ KeysMade' = KeysMade
  BY OutsideStays
<1>3. \A r \in Requested : r \in Requested'
  BY <1>1, <1>2 DEF Requested
<1>4. \A r \in Requests' : r \in Requested'
  BY <1>3, OutsideAsks DEF Typed
<1>5. call' # None => call' \in [req : Requested', reply : {None} \cup Answers]
  BY <1>3, OutsideEditor
<1>6. refreshing' \in {None} \cup 0..Newest'
  BY <1>1, <1>2 DEF Typed
<1> QED  BY <1>1, <1>2, <1>4, <1>5, <1>6 DEF Typed, Stored, Answers

\* The journal and the loads are the editor's own.
LEMMA OutsideSafe ==
    ASSUME Counted, Typed, Safe, Outside
    PROVE  Safe'
BY OutsideStays DEF Safe, SentIsJournalled, Committing

\* What is committed under the key of an undo is the undo of the head.
LEMMA OutsideExact ==
    ASSUME Counted, Keyed, Typed, UndoIsExact, Outside
    PROVE  UndoIsExact'
<1> SUFFICES ASSUME NEW n \in 1..(Newest' - 1), revisions'[n + 1].key[1] = "undo"
             PROVE  \E id \in Operation :
                        /\ revisions'[n].key = <<"add", id>>
                        /\ revisions'[n + 1].content = revisions'[n].content \ {id}
  BY DEF UndoIsExact
<1>1. /\ Newest \in Nat /\ Newest' \in {Newest, Newest + 1}
      /\ \A m \in 1..Newest : m \in 1..Newest' /\ revisions'[m] = revisions[m]
      /\ \A m \in 1..Newest' :
            \/ m \in 1..Newest
            \/ m = Newest + 1 /\ (OfOther(revisions'[m]) \/ AsAsked(revisions'[m]))
  BY OutsideRevisions
<1>2. n \in 1..Newest /\ n + 1 \in 1..Newest'
  <2>1. Newest \in Nat /\ Newest' \in Nat /\ Newest' <= Newest + 1
    BY <1>1
  <2>2. \A p, q \in Nat : q <= p + 1 => \A k \in 1..(q - 1) : k \in 1..p /\ k + 1 \in 1..q
    OBVIOUS
  <2> QED  BY <2>1, <2>2
<1>3. CASE n + 1 \in 1..Newest
  <2>1. n \in 1..(Newest - 1)
    BY <1>1, <1>3
  <2> QED  BY <1>1, <1>2, <1>3, <2>1 DEF UndoIsExact
<1>4. CASE n = Newest /\ OfOther(revisions'[n + 1])
  BY <1>4 DEF OfOther, OtherKeys
<1>5. CASE n = Newest /\ AsAsked(revisions'[n + 1])
  <2>1. PICK a \in Asks : /\ a.expected = Newest /\ revisions'[n + 1].key = a.key
                          /\ revisions'[n + 1].content = a.content
    BY <1>5 DEF AsAsked
  <2>2. UndoesOne(a)
    BY <2>1 DEF Keyed
  <2> QED  BY <1>1, <1>2, <1>5, <2>1, <2>2 DEF UndoesOne
<1> QED  BY <1>1, <1>2, <1>3, <1>4, <1>5

\* The server and other writers keep the invariant.
LEMMA OutsideStep ==
    ASSUME IInv, Outside
    PROVE  IInv'
BY OutsideCounted, OutsideKeyed, OutsideReplies, OutsideHeld, OutsidePlaced, OutsideTyped,
   OutsideSafe, OutsideExact DEF IInv

-----------------------------------------------------------------------------
(* What the editor asks for.                                                *)

\* A step of the editor: the revisions stay, and what has been made.
LEMMA InsideMakes ==
    ASSUME Counted, Inside
    PROVE  /\ revisions' = revisions /\ Newest' = Newest /\ Newest \in Nat
           /\ ops \in Nat /\ ops' \in Nat /\ saves' \in Nat /\ ops <= ops'
           /\ \A x \in Made : x \in Made'
           /\ \A s \in SUBSET Made : s \in SUBSET Made'
           /\ \A k \in KeysMade : k \in KeysMade'
           /\ \A i \in 1..ops : i \in 1..ops'
<1>1. /\ revisions' = revisions
      /\ ops' \in Nat /\ saves' \in Nat /\ ops <= ops' /\ saves <= saves'
  BY InsideKeeps
<1>2. Newest' = Newest /\ Newest \in Nat /\ ops \in Nat
  BY <1>1, LenProperties DEF Newest, Counted
<1> QED  BY <1>1, <1>2, MoreMade

\* The counters keep to their bounds.
LEMMA InsideCounted ==
    ASSUME Counted, Inside
    PROVE  Counted'
<1> DEFINE T == [content : SUBSET Made', key : KeysMade' \cup OtherKeys, blind : BOOLEAN]
<1>1. revisions \in Seq(NewRevision)
  BY DEF Counted, NewRevision
<1>2. ASSUME NEW x \in NewRevision PROVE x \in T
  BY <1>2, InsideMakes DEF NewRevision
<1>3. revisions \in Seq(T)
  <2> HIDE DEF T
  <2>1. \A n \in 1..Len(revisions) : revisions[n] \in T
    BY <1>1, <1>2, LenProperties
  <2> QED  BY <1>1, <2>1, LenProperties, SeqDef
<1>4. ops' \in 0..MaxOps /\ saves' \in 0..MaxSaves
  BY InsideKeeps, BoundAssumption
<1>5. revisions' = revisions /\ Newest' = Newest
  BY InsideMakes
<1>6. reloads' \in 0..MaxReloads
  <2>1. reloads' = reloads \/ (reloads < MaxReloads /\ reloads' = reloads + 1)
    BY DEF Inside, User, FlowStep, EditGraph, Refresh, Load, Leave, Reload, Save, Saving, Apply, Undo,
       Reconcile, SaveDone, SaveConflict, SaveFails, SaveEnds, Replayed, ReplayFails, PrepareFails,
       Prepared, Saved, Confirm, Published, NotPublished, Conflict, NotSaved, OperationStep,
       RefreshRead, RefreshDone, LoadDone, OtherLoaded, LoadFails, Loaded, Quota, boundVars
  <2> QED  BY <2>1, BoundAssumption DEF Counted
<1> QED  BY <1>3, <1>4, <1>5, <1>6 DEF Counted, OtherKeys

\* The asks after a step that ends with the writing of browser storage.
LEMMA AsksPersisted ==
    ASSUME NEW X, \A a \in Asks : a \in X, Persist, orphans' = orphans,
           call' # None => Ask(call.req)' \in X,
           pending' # None => Ask(pending)' \in X,
           Committing(op)' => AskOf(op)' \in X,
           Committing(work)' => AskOf(work)' \in X
    PROVE  \A a \in Asks' : a \in X
<1>1. \A r \in orphans' : Ask(r) \in X
  BY Counts
<1>2. (disk'.pending = disk.pending /\ disk'.op = disk.op) \/ (disk'.pending = pending' /\ disk'.op = op')
  BY Written
<1>3. disk'.pending # None => Ask(disk.pending)' \in X
  BY <1>2, Counts DEF Ask
<1>4. Committing(disk.op)' => AskOf(disk.op)' \in X
  BY <1>2, Counts DEF AskOf, KeyOf, Committing
<1> QED  BY <1>1, <1>3, <1>4, AsksWithin

\* The same for the requests.
LEMMA RequestsPersisted ==
    ASSUME NEW X, \A r \in Requests : r \in X, Persist, orphans' = orphans,
           call' # None => call'.req \in X,
           pending' # None => pending' \in X
    PROVE  \A r \in Requests' : r \in X
<1>1. \A r \in orphans' : r \in X
  BY Counts
<1>2. disk'.pending # None => disk'.pending \in X
  BY Written, Counts
<1> QED  BY <1>1, <1>2, RequestsWithin

\* Fewer asks, or the same.
LEMMA KeyedFewer ==
    ASSUME Counted, Keyed, Inside, rejected' = rejected, \A a \in Asks' : a \in Asks
    PROVE  Keyed'
<1>1. /\ revisions' = revisions /\ Newest' = Newest
      /\ \A s \in SUBSET Made : s \in SUBSET Made'
      /\ \A k \in KeysMade : k \in KeysMade'
  BY InsideMakes
<1>2. \A a \in Asks' : a \in [key : KeysMade', expected : 1..Newest', content : SUBSET Made']
  <2> SUFFICES ASSUME NEW a \in Asks'
               PROVE  a \in [key : KeysMade', expected : 1..Newest', content : SUBSET Made']
    OBVIOUS
  <2>1. a \in [key : KeysMade, expected : 1..Newest, content : SUBSET Made]
    BY DEF Keyed
  <2> QED  BY <1>1, <2>1
<1>3. \A a, b \in Asks' : a.key = b.key => a = b
  BY DEF Keyed
<1>4. \A a \in Asks' : a.key[1] = "undo" => UndoesOne(a)'
  <2> SUFFICES ASSUME NEW a \in Asks', a.key[1] = "undo" PROVE UndoesOne(a)'
    OBVIOUS
  <2>1. UndoesOne(a)
    BY DEF Keyed
  <2> QED  BY <1>1, <2>1 DEF UndoesOne
<1>5. \A a \in Asks', n \in 1..Newest' : revisions'[n].key = a.key => revisions'[n].content = a.content
  BY <1>1 DEF Keyed
<1>6. \A key \in rejected' :
         /\ key \in KeysMade'
         /\ \A n \in 1..Newest' : revisions'[n].key # key
         /\ \A a \in Asks' : a.key = key => a.expected < Newest'
  BY <1>1 DEF Keyed
<1> QED  BY <1>2, <1>3, <1>4, <1>5, <1>6 DEF Keyed

\* One ask more, under a key that nothing asks or has asked under.
Fresh(key) ==
    /\ \A a \in Asks : a.key # key
    /\ \A n \in 1..Newest : revisions[n].key # key
    /\ key \notin rejected

\* It is asked once, so nothing contradicts it.
LEMMA KeyedOneMore ==
    ASSUME Counted, Keyed, Inside, rejected' = rejected,
           NEW x, x \in [key : KeysMade', expected : 1..Newest, content : SUBSET Made'],
           Fresh(x.key), x.key[1] = "undo" => UndoesOne(x),
           \A a \in Asks' : a \in Asks \cup {x}
    PROVE  Keyed'
<1>1. /\ revisions' = revisions /\ Newest' = Newest
      /\ \A s \in SUBSET Made : s \in SUBSET Made'
      /\ \A k \in KeysMade : k \in KeysMade'
  BY InsideMakes
<1>2. \A a \in Asks' : a \in [key : KeysMade', expected : 1..Newest', content : SUBSET Made']
  <2> SUFFICES ASSUME NEW a \in Asks'
               PROVE  a \in [key : KeysMade', expected : 1..Newest', content : SUBSET Made']
    OBVIOUS
  <2>1. CASE a \in Asks
    <3>1. a \in [key : KeysMade, expected : 1..Newest, content : SUBSET Made]
      BY <2>1 DEF Keyed
    <3> QED  BY <1>1, <3>1
  <2> QED  BY <1>1, <2>1
<1>3. \A a, b \in Asks' : a.key = b.key => a = b
  BY DEF Keyed, Fresh
<1>4. \A a \in Asks' : a.key[1] = "undo" => UndoesOne(a)'
  <2> SUFFICES ASSUME NEW a \in Asks', a.key[1] = "undo" PROVE UndoesOne(a)'
    OBVIOUS
  <2>1. UndoesOne(a)
    BY DEF Keyed
  <2> QED  BY <1>1, <2>1 DEF UndoesOne
<1>5. \A a \in Asks', n \in 1..Newest' : revisions'[n].key = a.key => revisions'[n].content = a.content
  BY <1>1 DEF Keyed, Fresh
<1>6. \A key \in rejected' :
         /\ key \in KeysMade'
         /\ \A n \in 1..Newest' : revisions'[n].key # key
         /\ \A a \in Asks' : a.key = key => a.expected < Newest'
  BY <1>1 DEF Keyed, Fresh
<1> QED  BY <1>2, <1>3, <1>4, <1>5, <1>6 DEF Keyed

\* One key given up: nothing has been committed under it, nor will be.
LEMMA KeyedRejected ==
    ASSUME Counted, Keyed, Inside, \A a \in Asks' : a \in Asks,
           NEW k \in KeysMade, rejected' = rejected \cup {k},
           \A n \in 1..Newest : revisions[n].key # k,
           \A a \in Asks : a.key = k => a.expected < Newest
    PROVE  Keyed'
<1>1. /\ revisions' = revisions /\ Newest' = Newest
      /\ \A s \in SUBSET Made : s \in SUBSET Made'
      /\ \A key \in KeysMade : key \in KeysMade'
  BY InsideMakes
<1>2. \A a \in Asks' : a \in [key : KeysMade', expected : 1..Newest', content : SUBSET Made']
  <2> SUFFICES ASSUME NEW a \in Asks'
               PROVE  a \in [key : KeysMade', expected : 1..Newest', content : SUBSET Made']
    OBVIOUS
  <2>1. a \in [key : KeysMade, expected : 1..Newest, content : SUBSET Made]
    BY DEF Keyed
  <2> QED  BY <1>1, <2>1
<1>3. \A a, b \in Asks' : a.key = b.key => a = b
  BY DEF Keyed
<1>4. \A a \in Asks' : a.key[1] = "undo" => UndoesOne(a)'
  <2> SUFFICES ASSUME NEW a \in Asks', a.key[1] = "undo" PROVE UndoesOne(a)'
    OBVIOUS
  <2>1. UndoesOne(a)
    BY DEF Keyed
  <2> QED  BY <1>1, <2>1 DEF UndoesOne
<1>5. \A a \in Asks', n \in 1..Newest' : revisions'[n].key = a.key => revisions'[n].content = a.content
  BY <1>1 DEF Keyed
<1>6. \A key \in rejected' :
         /\ key \in KeysMade'
         /\ \A n \in 1..Newest' : revisions'[n].key # key
         /\ \A a \in Asks' : a.key = key => a.expected < Newest'
  BY <1>1 DEF Keyed
<1> QED  BY <1>2, <1>3, <1>4, <1>5, <1>6 DEF Keyed

\* A key with a new number is fresh.
LEMMA NewNumber ==
    ASSUME Counted, Keyed
    PROVE  /\ Fresh(<<"save", saves + 1>>)
           /\ Fresh(<<"add", ops + 1>>)
           /\ Fresh(<<"undo", ops + 1>>)
<1>1. ASSUME NEW k, k \notin KeysMade, k \notin OtherKeys PROVE Fresh(k)
  <2>1. \A n \in 1..Newest : revisions[n].key \in KeysMade \cup OtherKeys
    <3>1. revisions \in Seq(NewRevision)
      BY DEF Counted, NewRevision
    <3>2. \A n \in 1..Newest : revisions[n] \in NewRevision
      BY <3>1, LenProperties DEF Newest
    <3> QED  BY <3>2 DEF NewRevision
  <2>2. \A a \in Asks : a.key \in KeysMade
    BY DEF Keyed
  <2>3. \A key \in rejected : key \in KeysMade
    BY DEF Keyed
  <2> QED  BY <1>1, <2>1, <2>2, <2>3 DEF Fresh
<1>2. saves + 1 \notin 1..saves /\ ops + 1 \notin 1..ops
  BY BoundAssumption DEF Counted
<1>3. <<"save", saves + 1>> \notin KeysMade \cup OtherKeys
  BY <1>2 DEF KeysMade, OtherKeys
<1>4. <<"add", ops + 1>> \notin KeysMade \cup OtherKeys
  BY <1>2 DEF KeysMade, OtherKeys
<1>5. <<"undo", ops + 1>> \notin KeysMade \cup OtherKeys
  BY <1>2 DEF KeysMade, OtherKeys
<1> QED  BY <1>1, <1>3, <1>4, <1>5

\* What is sent for an operation asks for what the operation asks for.
LEMMA InputAsks == \A o : Ask(Input(o)) = AskOf(o)
BY DEF Ask, AskOf, Input, Request

\* finish sends a journalled operation, or gives it up.
LEMMA FinishesTo ==
    ASSUME NEW o, Finishes(o)
    PROVE  \/ /\ JournalPersisted(o) /\ op' = o /\ work' = o /\ flow' = "sending"
              /\ call' = [req |-> Input(o), reply |-> None]
           \/ op' = None /\ flow' = "idle" /\ work' = None /\ call' = None
BY DEF Finishes, Sends, Ends

\* Only what is asked already, if nothing but an end is put in its place.
LEMMA NothingAsked ==
    ASSUME Persist, orphans' = orphans,
           call' = call \/ call' = None,
           pending' = pending \/ pending' = None,
           op' = op \/ op' = work \/ ~Committing(op)',
           work' = work \/ ~Committing(work)'
    PROVE  (\A a \in Asks' : a \in Asks) /\ (\A r \in Requests' : r \in Requests)
<1>1. call' # None => Ask(call.req)' \in Asks /\ call'.req \in Requests
  BY Counts DEF Ask
<1>2. pending' # None => Ask(pending)' \in Asks /\ pending' \in Requests
  BY Counts DEF Ask
<1>3. Committing(op)' => AskOf(op)' \in Asks
  BY Counts DEF Committing, AskOf, KeyOf
<1>4. Committing(work)' => AskOf(work)' \in Asks
  BY Counts DEF Committing, AskOf, KeyOf
<1>5. \A a \in Asks' : a \in Asks
  BY <1>1, <1>2, <1>3, <1>4, AsksPersisted
<1>6. \A r \in Requests' : r \in Requests
  BY <1>1, <1>2, RequestsPersisted
<1> QED  BY <1>5, <1>6

\* The same where browser storage is not written.
LEMMA NothingMoved ==
    ASSUME UNCHANGED <<orphans, op, pending, disk>>,
           call' = call \/ call' = None,
           Committing(work)' => AskOf(work)' \in Asks
    PROVE  (\A a \in Asks' : a \in Asks) /\ (\A r \in Requests' : r \in Requests)
<1>1. \A r \in orphans' : Ask(r) \in Asks /\ r \in Requests
  BY Counts
<1>2. call' # None => Ask(call.req)' \in Asks /\ call'.req \in Requests
  BY Counts DEF Ask
<1>3. pending' # None => Ask(pending)' \in Asks /\ pending' \in Requests
  BY Counts DEF Ask
<1>4. disk'.pending # None => Ask(disk.pending)' \in Asks /\ disk'.pending \in Requests
  BY Counts DEF Ask
<1>5. Committing(op)' => AskOf(op)' \in Asks
  BY Counts DEF Committing, AskOf, KeyOf
<1>6. Committing(disk.op)' => AskOf(disk.op)' \in Asks
  BY Counts DEF Committing, AskOf, KeyOf
<1>7. \A a \in Asks' : a \in Asks
  BY <1>1, <1>2, <1>3, <1>4, <1>5, <1>6, AsksWithin
<1>8. \A r \in Requests' : r \in Requests
  BY <1>1, <1>2, <1>3, <1>4, RequestsWithin
<1> QED  BY <1>7, <1>8

\* The local copy is given the heads; what it asks for stays.
LEMMA HeadsGiven ==
    ASSUME Held, work # None,
           \/ Saved
           \/ Confirm
    PROVE  /\ AskOf(work)' = AskOf(work) /\ KeyOf(work)' = KeyOf(work)
           /\ work'.id = work.id /\ work'.kind = work.kind /\ work'.of = work.of
           /\ work'.phase = work.phase /\ work'.before = work.before /\ work'.rev = work.rev
           /\ work'.authority = work.authority /\ work'.candidate = work.candidate
<1>1. work \in KeptOperations
  BY DEF Held, OperationOk
<1>2. PICK h, s : work' = [work EXCEPT !.head = h, !.summary = s]
  BY DEF Saved, Confirm
<1>3. /\ work'.id = work.id /\ work'.kind = work.kind /\ work'.of = work.of
      /\ work'.phase = work.phase /\ work'.before = work.before /\ work'.rev = work.rev
      /\ work'.authority = work.authority /\ work'.candidate = work.candidate
  BY <1>1, <1>2 DEF KeptOperations
<1> QED  BY <1>3 DEF AskOf, KeyOf

\* A reload asks for what was asked, or was kept.
LEMMA ReloadAsks ==
    ASSUME Reload
    PROVE  (\A a \in Asks' : a \in Asks) /\ (\A r \in Requests' : r \in Requests)
<1>1. /\ op' = IF Committing(disk.op) THEN disk.op ELSE None
      /\ pending' = disk.pending /\ work' = None /\ call' = None /\ disk' = disk
      /\ orphans' = IF Waiting THEN orphans \cup {call.req} ELSE orphans
  BY DEF Reload
<1>2. \A r \in orphans' : Ask(r) \in Asks /\ r \in Requests
  BY <1>1, Counts DEF Waiting
<1>3. pending' # None => Ask(pending)' \in Asks /\ pending' \in Requests
  BY <1>1, Counts DEF Ask
<1>4. disk'.pending # None => Ask(disk.pending)' \in Asks /\ disk'.pending \in Requests
  BY <1>1, Counts DEF Ask
<1>5. Committing(op)' => AskOf(op)' \in Asks
  BY <1>1, Counts DEF Committing, AskOf, KeyOf
<1>6. Committing(disk.op)' => AskOf(disk.op)' \in Asks
  BY <1>1, Counts DEF Committing, AskOf, KeyOf
<1>7. ~Committing(work)'
  BY <1>1 DEF Committing
<1>8. \A a \in Asks' : a \in Asks
  BY <1>1, <1>2, <1>3, <1>4, <1>5, <1>6, <1>7, AsksWithin
<1>9. \A r \in Requests' : r \in Requests
  BY <1>1, <1>2, <1>3, <1>4, RequestsWithin
<1> QED  BY <1>8, <1>9

\* The steps that do not send anything.
Silent ==
    \/ \E e \in Edit : EditGraph(e)
    \/ Refresh \/ Load \/ Reload \/ SaveDone \/ SaveConflict \/ SaveFails
    \/ Replayed \/ ReplayFails \/ PrepareFails
    \/ Saved \/ Confirm \/ Published \/ NotPublished \/ Conflict \/ NotSaved
    \/ RefreshRead \/ RefreshDone \/ LoadDone \/ OtherLoaded \/ LoadFails \/ Quota

\* They ask for nothing new.
LEMMA SilentAsks ==
    ASSUME Held, Placed, Silent
    PROVE  (\A a \in Asks' : a \in Asks) /\ (\A r \in Requests' : r \in Requests)
<1> USE DEF Committing
<1>1. CASE \E e \in Edit : EditGraph(e)
  BY <1>1, NothingAsked DEF EditGraph, serverVars, opVars, flowVars
<1>2. CASE Refresh
  BY <1>2, NothingAsked DEF Refresh, serverVars, opVars, flowVars
<1>3. CASE Load
  BY <1>3, NothingAsked DEF Load, serverVars, opVars, flowVars
<1>4. CASE SaveDone
  BY <1>4, NothingAsked DEF SaveDone, SaveEnds, Ends, serverVars, opVars
<1>5. CASE SaveConflict
  BY <1>5, NothingAsked DEF SaveConflict, SaveEnds, Ends, serverVars, opVars
<1>6. CASE SaveFails
  BY <1>6, NothingAsked DEF SaveFails, SaveEnds, Ends, serverVars, opVars
<1>7. CASE Replayed
  <2>1. /\ Persist /\ orphans' = orphans /\ call' = None /\ pending' = None
        /\ (op' = op \/ op' = None)
        /\ (work' = None \/ work' = [work EXCEPT !.authority = known'])
        /\ flow = "replaying"
    BY <1>7 DEF Replayed, OperationStep, Ends, serverVars, Replied
  <2>2. work # None /\ work.phase = "preparing" /\ work \in KeptOperations
    BY <2>1 DEF Placed, Held, OperationOk
  <2>3. ~Committing(work)'
    BY <2>1, <2>2 DEF KeptOperations
  <2> QED  BY <2>1, <2>3, NothingAsked
<1>8. CASE ReplayFails \/ PrepareFails
  BY <1>8, NothingAsked DEF ReplayFails, PrepareFails, OperationStep, Ends, serverVars
<1>9. CASE Saved
  <2>1. /\ UNCHANGED <<orphans, op, pending, disk>> /\ (call' = call \/ call' = None)
        /\ flow = "sending"
    BY <1>9 DEF Saved, serverVars, opVars, Replied
  <2>2. work # None /\ Committing(work)
    BY <2>1 DEF Placed
  <2>3. AskOf(work)' \in Asks
    BY <1>9, <2>2, HeadsGiven, Counts
  <2> QED  BY <2>1, <2>3, NothingMoved
<1>10. CASE Confirm
  <2>1. /\ UNCHANGED <<orphans, op, pending, disk>> /\ (call' = call \/ call' = None)
        /\ flow = "confirming"
    BY <1>10 DEF Confirm, serverVars, opVars
  <2>2. work # None /\ Committing(work)
    BY <2>1 DEF Placed
  <2>3. AskOf(work)' \in Asks
    BY <1>10, <2>2, HeadsGiven, Counts
  <2> QED  BY <2>1, <2>3, NothingMoved
<1>11. CASE Published
  BY <1>11, NothingAsked DEF Published, Ends, serverVars
<1>12. CASE NotPublished
  BY <1>12, NothingAsked DEF NotPublished, OperationStep, Ends, serverVars
<1>13. CASE Conflict
  BY <1>13, NothingAsked DEF Conflict, OperationStep, Ends, serverVars
<1>14. CASE NotSaved
  BY <1>14, NothingAsked DEF NotSaved, OperationStep, Ends, serverVars
<1>15. CASE RefreshRead
  BY <1>15, NothingMoved, Counts DEF RefreshRead, serverVars, opVars, flowVars, AskOf, KeyOf
<1>16. CASE Quota
  BY <1>16, NothingMoved, Counts DEF Quota, serverVars, opVars, flowVars, AskOf, KeyOf
<1>17. CASE RefreshDone
  BY <1>17, NothingAsked DEF RefreshDone, serverVars, opVars, flowVars
<1>18. CASE LoadDone
  BY <1>18, NothingAsked DEF LoadDone, Loaded, serverVars, flowVars
<1>19. CASE OtherLoaded
  BY <1>19, NothingAsked DEF OtherLoaded, Loaded, serverVars, flowVars
<1>20. CASE LoadFails
  BY <1>20, NothingAsked DEF LoadFails, Loaded, serverVars, flowVars
<1>21. CASE Reload
  BY <1>21, ReloadAsks
<1> QED  BY <1>1, <1>2, <1>3, <1>4, <1>5, <1>6, <1>7, <1>8, <1>9, <1>10, <1>11, <1>12, <1>13,
            <1>14, <1>15, <1>16, <1>17, <1>18, <1>19, <1>20, <1>21 DEF Silent

\* The reservation of an addition asks for nothing but what was pending.
LEMMA ApplyAsks ==
    ASSUME Apply
    PROVE  (\A a \in Asks' : a \in Asks) /\ (\A r \in Requests' : r \in Requests)
<1>1. /\ Persist /\ orphans' = orphans /\ pending' = pending
      /\ ~Committing(op)' /\ ~Committing(work)'
      /\ call' = None \/ (pending # None /\ call' = [req |-> pending, reply |-> None])
  BY DEF Apply, serverVars, Committing, Ends, Sends
<1>2. call' # None => Ask(call.req)' \in Asks /\ call'.req \in Requests
  BY <1>1, Counts DEF Ask
<1>3. pending' # None => Ask(pending)' \in Asks /\ pending' \in Requests
  BY <1>1, Counts DEF Ask
<1>4. \A a \in Asks' : a \in Asks
  BY <1>1, <1>2, <1>3, AsksPersisted
<1>5. \A r \in Requests' : r \in Requests
  BY <1>1, <1>2, <1>3, RequestsPersisted
<1> QED  BY <1>4, <1>5

\* Sending an operation asks for what it asks for.
LEMMA FinishAsks ==
    ASSUME NEW o, Finishes(o), Persist, orphans' = orphans, pending' = pending
    PROVE  /\ \A a \in Asks' : a \in Asks \cup {AskOf(o)}
           /\ \A r \in Requests' : r \in Requests \cup {Input(o)}
<1> DEFINE X == Asks \cup {AskOf(o)}
           Y == Requests \cup {Input(o)}
<1>1. \/ op' = o /\ work' = o /\ call' = [req |-> Input(o), reply |-> None]
      \/ op' = None /\ work' = None /\ call' = None
  BY FinishesTo
<1>2. call' # None => Ask(call.req)' \in X /\ call'.req \in Y
  <2> SUFFICES ASSUME call' # None PROVE Ask(call.req)' \in X /\ call'.req \in Y
    OBVIOUS
  <2>1. call'.req = Input(o)
    BY <1>1
  <2>2. Ask(call.req)' = Ask(Input(o))
    BY <2>1 DEF Ask
  <2> QED  BY <2>1, <2>2, InputAsks
<1>3. pending' # None => Ask(pending)' \in X /\ pending' \in Y
  BY Counts DEF Ask
<1>4. Committing(op)' => AskOf(op)' \in X
  BY <1>1 DEF AskOf, KeyOf, Committing
<1>5. Committing(work)' => AskOf(work)' \in X
  BY <1>1 DEF AskOf, KeyOf, Committing
<1> HIDE DEF X, Y
<1>6. (\A a \in Asks : a \in X) /\ (\A r \in Requests : r \in Y)
  BY DEF X, Y
<1>7. \A a \in Asks' : a \in X
  BY <1>2, <1>3, <1>4, <1>5, <1>6, AsksPersisted
<1>8. \A r \in Requests' : r \in Y
  BY <1>2, <1>3, <1>6, RequestsPersisted
<1> QED  BY <1>7, <1>8 DEF X, Y

\* An ordinary save asks for the graph on the known head, under a new key,
\* unless it repeats what is pending.
SaveRequest == Request(<<"save", saves + 1>>, known, project)

\* So the one thing new is that request.
LEMMA SaveAsks ==
    ASSUME Counted, Saving
    PROVE  /\ \A a \in Asks' : a \in Asks \cup {Ask(SaveRequest)}
           /\ \A r \in Requests' : r \in Requests \cup {SaveRequest}
           /\ pending # None => /\ \A a \in Asks' : a \in Asks
                                /\ \A r \in Requests' : r \in Requests
           /\ pending = None => saves' = saves + 1
           /\ UNCHANGED <<rejected, ops>>
<1>1. /\ Persist /\ orphans' = orphans /\ UNCHANGED <<op, work, rejected, ops>>
      /\ call' = [req |-> pending', reply |-> None]
      /\ IF pending # None THEN pending' = pending
         ELSE saves' = saves + 1 /\ pending' = SaveRequest
  BY DEF Saving, serverVars, opVars, Sends, SaveRequest, Request
<1>2. ASSUME NEW X, \A a \in Asks : a \in X, Ask(pending)' \in X
      PROVE  \A a \in Asks' : a \in X
  <2>1. call' # None => Ask(call.req)' \in X
    BY <1>1, <1>2 DEF Ask
  <2>2. Committing(op)' => AskOf(op)' \in X
    BY <1>1, <1>2, Counts DEF AskOf, KeyOf, Committing
  <2>3. Committing(work)' => AskOf(work)' \in X
    BY <1>1, <1>2, Counts DEF AskOf, KeyOf, Committing
  <2> QED  BY <1>1, <1>2, <2>1, <2>2, <2>3, AsksPersisted
<1>3. ASSUME NEW Y, \A r \in Requests : r \in Y, pending' \in Y
      PROVE  \A r \in Requests' : r \in Y
  BY <1>1, <1>3, RequestsPersisted
<1>4. CASE pending # None
  <2>1. Ask(pending)' \in Asks /\ pending' \in Requests
    BY <1>1, <1>4, Counts DEF Ask
  <2> QED  BY <1>1, <1>2, <1>3, <1>4, <2>1
<1>5. CASE pending = None
  <2> DEFINE X == Asks \cup {Ask(SaveRequest)}
             Y == Requests \cup {SaveRequest}
  <2>1. Ask(pending)' \in X /\ pending' \in Y
    BY <1>1, <1>5 DEF Ask
  <2>2. (\A a \in Asks : a \in X) /\ (\A r \in Requests : r \in Y)
    OBVIOUS
  <2> HIDE DEF X, Y
  <2>3. (\A a \in Asks' : a \in X) /\ (\A r \in Requests' : r \in Y)
    BY <1>2, <1>3, <2>1, <2>2
  <2> QED  BY <1>1, <1>5, <2>3 DEF X, Y
<1> QED  BY <1>4, <1>5

\* The operation that Undo makes, and that Prepared sends.
UndoOperation ==
    [id |-> ops + 1, kind |-> "undo", of |-> undo.of, phase |-> "committing",
     before |-> project, rev |-> rev, authority |-> undo.authority,
     candidate |-> undo.before, head |-> 0, summary |-> 0]
PreparedOperation == [work EXCEPT !.phase = "committing"]

\* It is given to finish at once.
LEMMA UndoMakes ==
    ASSUME Undo
    PROVE  /\ ops' = ops + 1 /\ Finishes(UndoOperation) /\ Persist
           /\ UNCHANGED <<orphans, pending, rejected>>
BY DEF Undo, serverVars, UndoOperation

\* An undo is that of the revision of the addition.
LEMMA UndoIsOk ==
    ASSUME Counted, Held, Typed, Undo, Inside
    PROVE  /\ UndoOperation \in KeptOperations' /\ OwnChange(UndoOperation)
           /\ AskOf(UndoOperation) \in [key : KeysMade', expected : 1..Newest, content : SUBSET Made']
           /\ AskOf(UndoOperation).key = <<"undo", ops + 1>>
           /\ UndoesOne(AskOf(UndoOperation))
<1>1. UndoOk(undo) /\ project = undo.applied /\ ops' = ops + 1
  BY DEF Undo, CanUndo, Held
<1>2. /\ undo.of \in 1..ops /\ undo.before \in SUBSET Made /\ undo.authority \in 1..Newest
      /\ revisions[undo.authority].key = <<"add", undo.of>>
      /\ revisions[undo.authority].content = undo.applied
      /\ undo.before = undo.applied \ {undo.of}
  BY <1>1 DEF UndoOk
<1>3. project \in SUBSET Made /\ rev \in Nat
  BY DEF Typed
<1>4. /\ Newest' = Newest /\ Newest \in Nat /\ ops \in Nat
      /\ \A s \in SUBSET Made : s \in SUBSET Made'
      /\ \A i \in 1..ops : i \in 1..ops'
  BY InsideMakes
<1>5. ops + 1 \in 1..ops' /\ 0 \in 0..Newest'
  BY <1>1, <1>4
<1> DEFINE o == UndoOperation
<1>6. /\ o.id = ops + 1 /\ o.kind = "undo" /\ o.of = undo.of /\ o.phase = "committing"
      /\ o.before = project /\ o.rev = rev /\ o.authority = undo.authority
      /\ o.candidate = undo.before /\ o.head = 0 /\ o.summary = 0
  BY DEF UndoOperation
<1>7. o \in KeptOperations'
  BY <1>2, <1>3, <1>4, <1>5 DEF KeptOperations, UndoOperation
<1>8. o.kind = "undo" /\ o.phase = "committing" /\ o.candidate = o.before \ {o.of}
  BY <1>1, <1>2, <1>6
<1>9. OwnChange(o)
  BY <1>6, <1>8 DEF OwnChange
<1>10. <<"undo", ops + 1>> \in KeysMade'
  BY <1>5 DEF KeysMade
<1>11. AskOf(o) = [key |-> <<"undo", ops + 1>>, expected |-> undo.authority, content |-> undo.before]
  BY <1>6 DEF AskOf, KeyOf
<1>12. undo.of \in Operation
  BY <1>2, BoundAssumption DEF Operation, Counted
<1>13. UndoesOne(AskOf(o))
  BY <1>2, <1>11, <1>12 DEF UndoesOne
<1>14. AskOf(o) \in [key : KeysMade', expected : 1..Newest, content : SUBSET Made']
  BY <1>2, <1>4, <1>10, <1>11
<1> QED  BY <1>7, <1>9, <1>11, <1>13, <1>14

\* What is prepared is sent under the key that it was reserved with.
LEMMA PreparedIsOk ==
    ASSUME Counted, Held, Placed, Inside, flow = "preparing"
    PROVE  /\ PreparedOperation \in KeptOperations' /\ OwnChange(PreparedOperation)
           /\ AskOf(PreparedOperation) \in [key : KeysMade', expected : 1..Newest, content : SUBSET Made']
           /\ AskOf(PreparedOperation).key = KeyOf(work) /\ KeyOf(work)[1] = "add"
           /\ Fresh(KeyOf(work))
           /\ Same(work, op) /\ op # None
           /\ PreparedOperation.id = work.id /\ PreparedOperation.kind = work.kind
           /\ PreparedOperation.of = work.of /\ PreparedOperation.phase = "committing"
           /\ PreparedOperation.candidate = work.candidate
<1> DEFINE w == PreparedOperation
<1>1. work # None /\ op # None /\ Same(work, op) /\ work.phase = "preparing"
  BY DEF Placed
<1>2. Fresh(KeyOf(work))
  BY DEF Placed, Fresh
<1>3. work \in KeptOperations /\ OwnChange(work)
  BY <1>1 DEF Held, OperationOk
<1>4. work.kind = "add"
  BY <1>1, <1>3 DEF OwnChange, KeptOperations
<1>5. /\ Newest' = Newest /\ Newest \in Nat
      /\ \A s \in SUBSET Made : s \in SUBSET Made'
      /\ \A k \in KeysMade : k \in KeysMade'
      /\ \A i \in 1..ops : i \in 1..ops'
  BY InsideMakes
<1>6. /\ w.id = work.id /\ w.kind = work.kind /\ w.of = work.of /\ w.phase = "committing"
      /\ w.before = work.before /\ w.rev = work.rev /\ w.authority = work.authority
      /\ w.candidate = work.candidate /\ w.head = work.head /\ w.summary = work.summary
      /\ w \in KeptOperations
  BY <1>3 DEF PreparedOperation, KeptOperations
<1> HIDE DEF w
<1>7. w \in KeptOperations'
  BY <1>5, <1>6 DEF KeptOperations
<1>8. OwnChange(w)
  BY <1>3, <1>4, <1>6 DEF OwnChange
<1>9. AskOf(w) = [key |-> KeyOf(work), expected |-> work.authority, content |-> work.candidate]
  BY <1>6 DEF AskOf, KeyOf
<1>10. /\ work.id \in 1..ops /\ work.authority \in 1..Newest /\ work.candidate \in SUBSET Made
  BY <1>3 DEF KeptOperations
<1>11. KeyOf(work) \in KeysMade /\ KeyOf(work)[1] = "add"
  BY <1>4, <1>10 DEF KeyOf, KeysMade
<1>12. AskOf(w) \in [key : KeysMade', expected : 1..Newest, content : SUBSET Made']
  BY <1>5, <1>9, <1>10, <1>11
<1> QED  BY <1>1, <1>2, <1>6, <1>7, <1>8, <1>9, <1>11, <1>12 DEF w

\* The operation that Apply reserves.
ApplyOperation ==
    [id |-> ops + 1, kind |-> "add", of |-> ops + 1, phase |-> "preparing",
     before |-> project, rev |-> rev, authority |-> known,
     candidate |-> project \cup {ops + 1}, head |-> 0, summary |-> 0]

\* It is kept, and a pending save is replayed before it goes on; or dropped.
LEMMA ApplyMakes ==
    ASSUME Apply
    PROVE  /\ ops' = ops + 1 /\ flow = "idle" /\ UNCHANGED <<pending, leaving, rejected>>
           /\ \/ op' = None /\ flow' = "idle" /\ work' = None /\ call' = None
              \/ /\ op' = ApplyOperation /\ work' = ApplyOperation
                 /\ \/ flow' = "preparing" /\ call' = None
                    \/ pending # None /\ flow' = "replaying" /\ call' = [req |-> pending, reply |-> None]
BY DEF Apply, Ends, Sends, ApplyOperation

\* Its number is not in the graph yet.
LEMMA ApplyIsOk ==
    ASSUME Counted, Typed, Inside, Apply
    PROVE  ApplyOperation \in KeptOperations' /\ OwnChange(ApplyOperation)
<1> DEFINE i == ops + 1
<1>1. ops' = i /\ ops \in 0..MaxOps
  BY ApplyMakes DEF Counted
<1>2. /\ Newest' = Newest /\ Newest \in Nat
      /\ \A s \in SUBSET Made : s \in SUBSET Made'
  BY InsideMakes
<1>3. i \in 1..ops' /\ i \notin project
  <2>1. i \notin 1..ops /\ i \in Nat /\ i \in 1..ops'
    BY <1>1, BoundAssumption
  <2>2. i \notin Edit \cup Other
    BY <2>1, ChangeAssumption
  <2> QED  BY <2>1, <2>2 DEF Typed, Made
<1>4. project \in SUBSET Made' /\ i \in Made'
  BY <1>2, <1>3 DEF Typed, Made
<1>5. project \cup {i} \in SUBSET Made'
  BY <1>4
<1>6. rev \in Nat /\ known \in 1..Newest' /\ 0 \in 0..Newest'
  BY <1>2 DEF Typed
<1> HIDE DEF i
<1>7. ApplyOperation =
        [id |-> i, kind |-> "add", of |-> i, phase |-> "preparing",
         before |-> project, rev |-> rev, authority |-> known,
         candidate |-> project \cup {i}, head |-> 0, summary |-> 0]
  BY DEF ApplyOperation, i
<1>8. ApplyOperation \in KeptOperations'
  BY <1>3, <1>4, <1>5, <1>6, <1>7 DEF KeptOperations
<1>9. OwnChange(ApplyOperation)
  BY <1>3, <1>7 DEF OwnChange
<1> QED  BY <1>8, <1>9

\* The request for a kept operation is one.
LEMMA InputRequested ==
    ASSUME Counted, Inside, adopted \in BOOLEAN, NEW o \in KeptOperations'
    PROVE  Input(o) \in Requested'
<1>1. o.id \in 1..ops' /\ o.kind \in {"add", "undo"} /\ o.authority \in 1..Newest'
      /\ o.candidate \in SUBSET Made'
  BY DEF KeptOperations
<1>2. KeyOf(o) \in KeysMade'
  BY <1>1 DEF KeyOf, KeysMade
<1> QED  BY <1>1, <1>2 DEF Input, Request, Requested

\* What was a request, an operation or an undo is one still.
LEMMA MoreRequested ==
    ASSUME Counted, Inside
    PROVE  /\ \A r \in Requested : r \in Requested'
           /\ \A o \in KeptOperations : o \in KeptOperations'
           /\ \A u : UndoOk(u) => UndoOk(u)'
<1>1. /\ revisions' = revisions /\ Newest' = Newest
      /\ \A s \in SUBSET Made : s \in SUBSET Made'
      /\ \A k \in KeysMade : k \in KeysMade'
      /\ \A i \in 1..ops : i \in 1..ops'
  BY InsideMakes
<1>2. \A r \in Requested : r \in Requested'
  BY <1>1 DEF Requested
<1>3. \A o \in KeptOperations : o \in KeptOperations'
  BY <1>1 DEF KeptOperations
<1>4. ASSUME NEW u, UndoOk(u) PROVE UndoOk(u)'
  BY <1>1, <1>4 DEF UndoOk
<1> QED  BY <1>2, <1>3, <1>4

\* The steps that send: an ordinary save, and finish.
Sending == Save \/ Leave \/ Apply \/ Undo \/ Reconcile \/ Prepared

\* Every step of the editor is of these.
LEMMA InsideSplit == Inside => Silent \/ Sending
BY DEF Inside, Silent, Sending, User, FlowStep

\* Reconcile asks again for what the journal has.
LEMMA ReconcileAsks ==
    ASSUME Counted, Held, Typed, Inside, Reconcile
    PROVE  /\ \A a \in Asks' : a \in Asks
           /\ \A r \in Requests' : r \in Requests \/ r \in Requested'
           /\ rejected' = rejected
<1>1. /\ Finishes(op) /\ Persist /\ orphans' = orphans /\ pending' = pending
      /\ rejected' = rejected /\ Committing(op)
  BY DEF Reconcile, OperationStep, serverVars
<1>2. AskOf(op) \in Asks
  BY <1>1, Counts
<1>3. op \in KeptOperations'
  BY <1>1, MoreRequested DEF Held, OperationOk, Committing
<1>4. Input(op) \in Requested'
  BY <1>3, InputRequested DEF Typed
<1>5. /\ \A a \in Asks' : a \in Asks \cup {AskOf(op)}
      /\ \A r \in Requests' : r \in Requests \cup {Input(op)}
  BY <1>1, FinishAsks
<1> QED  BY <1>1, <1>2, <1>4, <1>5

\* What a step that prepared or undoes asks for.
LEMMA UndoAsks ==
    ASSUME Counted, Held, Typed, Inside, Undo
    PROVE  /\ \A a \in Asks' : a \in Asks \cup {AskOf(UndoOperation)}
           /\ \A r \in Requests' : r \in Requests \/ r \in Requested'
           /\ rejected' = rejected
<1>1. /\ Finishes(UndoOperation) /\ Persist /\ UNCHANGED <<orphans, pending, rejected>>
  BY UndoMakes
<1>2. UndoOperation \in KeptOperations'
  BY UndoIsOk
<1>3. Input(UndoOperation) \in Requested'
  BY <1>2, InputRequested DEF Typed
<1>4. /\ \A a \in Asks' : a \in Asks \cup {AskOf(UndoOperation)}
      /\ \A r \in Requests' : r \in Requests \cup {Input(UndoOperation)}
  BY <1>1, FinishAsks
<1> QED  BY <1>1, <1>3, <1>4

\* What finish is given when the operation has been prepared.
LEMMA PreparedAsks ==
    ASSUME Counted, Held, Placed, Typed, Inside, Prepared
    PROVE  /\ \/ \A a \in Asks' : a \in Asks
              \/ \A a \in Asks' : a \in Asks \cup {AskOf(PreparedOperation)}
           /\ \A r \in Requests' : r \in Requests \/ r \in Requested'
           /\ rejected' = rejected
<1>1. /\ Persist /\ UNCHANGED <<orphans, pending, rejected>> /\ flow = "preparing"
      /\ \/ Finishes(PreparedOperation)
         \/ op' = None /\ work' = None /\ call' = None
  BY DEF Prepared, OperationStep, serverVars, Ends, PreparedOperation
<1>2. CASE Finishes(PreparedOperation)
  <2>1. PreparedOperation \in KeptOperations'
    BY <1>1, PreparedIsOk
  <2>2. Input(PreparedOperation) \in Requested'
    BY <2>1, InputRequested DEF Typed
  <2>3. /\ \A a \in Asks' : a \in Asks \cup {AskOf(PreparedOperation)}
        /\ \A r \in Requests' : r \in Requests \cup {Input(PreparedOperation)}
    BY <1>1, <1>2, FinishAsks
  <2> QED  BY <1>1, <2>2, <2>3
<1>3. CASE op' = None /\ work' = None /\ call' = None
  BY <1>1, <1>3, NothingAsked DEF Committing
<1> QED  BY <1>1, <1>2, <1>3

\* A new ordinary save is a request under its own key.
LEMMA SaveRequested ==
    ASSUME Counted, Typed, Inside, saves' = saves + 1
    PROVE  /\ SaveRequest \in Requested'
           /\ Ask(SaveRequest) \in [key : KeysMade', expected : 1..Newest, content : SUBSET Made']
           /\ Ask(SaveRequest).key = <<"save", saves + 1>>
<1>1. saves + 1 \in 1..saves'
  BY BoundAssumption DEF Counted
<1>2. <<"save", saves + 1>> \in KeysMade'
  BY <1>1 DEF KeysMade
<1>3. /\ known \in 1..Newest /\ adopted \in BOOLEAN /\ project \in SUBSET Made'
      /\ Newest' = Newest
  BY InsideMakes DEF Typed
<1>4. SaveRequest = [key |-> <<"save", saves + 1>>, expected |-> known, content |-> project,
                     blind |-> adopted]
  BY DEF SaveRequest, Request
<1>5. Ask(SaveRequest) = [key |-> <<"save", saves + 1>>, expected |-> known, content |-> project]
  BY <1>4 DEF Ask
<1> QED  BY <1>2, <1>3, <1>4, <1>5 DEF Requested

\* Every request that is kept or under way is one.
LEMMA InsideRequests ==
    ASSUME Counted, Held, Placed, Typed, Inside
    PROVE  \A r \in Requests' : r \in Requested'
<1>1. \A r \in Requests : r \in Requested'
  BY MoreRequested DEF Typed
<1>2. CASE Silent \/ Apply
  BY <1>1, <1>2, SilentAsks, ApplyAsks
<1>3. CASE Undo \/ Reconcile \/ Prepared
  BY <1>1, <1>3, UndoAsks, ReconcileAsks, PreparedAsks
<1>4. CASE Save \/ Leave
  <2>1. Saving
    BY <1>4 DEF Save, Leave
  <2> QED  BY <1>1, <2>1, SaveAsks, SaveRequested
<1> QED  BY <1>2, <1>3, <1>4, InsideSplit DEF Sending

\* Only a conflict gives a key up.
LEMMA RejectedStays ==
    ASSUME Silent, ~Conflict
    PROVE  rejected' = rejected
BY DEF Silent, EditGraph, Refresh, Load, Reload, SaveDone, SaveConflict, SaveFails, SaveEnds,
   Replayed, ReplayFails, PrepareFails, OperationStep, Saved, Confirm, Published, NotPublished,
   NotSaved, RefreshRead, RefreshDone, LoadDone, OtherLoaded, LoadFails, Loaded, Quota

\* Over every step of the editor, a key stands for one thing.
LEMMA InsideKeyed ==
    ASSUME Counted, Keyed, Replies, Held, Placed, Typed, Inside
    PROVE  Keyed'
<1>1. CASE Silent /\ ~Conflict
  BY <1>1, SilentAsks, RejectedStays, KeyedFewer
<1>2. CASE Conflict
  <2>1. /\ flow = "sending" /\ call.reply # None /\ call.reply.outcome = "conflict"
        /\ rejected' = rejected \cup {KeyOf(work)}
    BY <1>2 DEF Conflict, Replied
  <2>2. call # None /\ work # None /\ Ask(call.req) = AskOf(work)
    BY <2>1 DEF Placed
  <2>3. call.req.key = KeyOf(work) /\ call.req.expected = AskOf(work).expected
    BY <2>2 DEF Ask, AskOf
  <2>4. call.req.expected < Newest /\ \A n \in 1..Newest : revisions[n].key # KeyOf(work)
    BY <2>1, <2>2, <2>3 DEF Replies
  <2>5. AskOf(work) \in Asks /\ AskOf(work).key = KeyOf(work)
    BY <2>2, Counts DEF AskOf
  <2>6. KeyOf(work) \in KeysMade
    BY <2>5 DEF Keyed
  <2>7. \A a \in Asks : a.key = KeyOf(work) => a.expected < Newest
    BY <2>3, <2>4, <2>5 DEF Keyed
  <2>8. \A a \in Asks' : a \in Asks
    BY <1>2, SilentAsks DEF Silent
  <2> QED  BY <2>1, <2>4, <2>6, <2>7, <2>8, KeyedRejected
<1>3. CASE Apply
  <2>1. rejected' = rejected
    BY <1>3 DEF Apply
  <2> QED  BY <1>3, <2>1, ApplyAsks, KeyedFewer
<1>4. CASE Reconcile
  BY <1>4, ReconcileAsks, KeyedFewer
<1>5. CASE Undo
  <2> DEFINE x == AskOf(UndoOperation)
  <2>1. /\ x \in [key : KeysMade', expected : 1..Newest, content : SUBSET Made']
        /\ x.key = <<"undo", ops + 1>> /\ UndoesOne(x)
    BY <1>5, UndoIsOk
  <2>2. Fresh(x.key)
    BY <2>1, NewNumber
  <2>3. rejected' = rejected /\ \A a \in Asks' : a \in Asks \cup {x}
    BY <1>5, UndoAsks
  <2> HIDE DEF x
  <2> QED  BY <2>1, <2>2, <2>3, KeyedOneMore
<1>6. CASE Prepared
  <2> DEFINE x == AskOf(PreparedOperation)
  <2>1. flow = "preparing"
    BY <1>6 DEF Prepared
  <2>2. /\ x \in [key : KeysMade', expected : 1..Newest, content : SUBSET Made']
        /\ x.key = KeyOf(work) /\ KeyOf(work)[1] = "add" /\ Fresh(KeyOf(work))
    BY <2>1, PreparedIsOk
  <2>3. /\ rejected' = rejected
        /\ (\A a \in Asks' : a \in Asks) \/ (\A a \in Asks' : a \in Asks \cup {x})
    BY <1>6, PreparedAsks
  <2> HIDE DEF x
  <2>4. Fresh(x.key) /\ x.key[1] # "undo"
    BY <2>2
  <2> QED  BY <2>2, <2>3, <2>4, KeyedOneMore, KeyedFewer
<1>7. CASE Save \/ Leave
  <2>1. Saving
    BY <1>7 DEF Save, Leave
  <2>2. CASE pending # None
    BY <2>1, <2>2, SaveAsks, KeyedFewer
  <2>3. CASE pending = None
    <3> DEFINE x == Ask(SaveRequest)
    <3>1. /\ saves' = saves + 1 /\ rejected' = rejected
          /\ \A a \in Asks' : a \in Asks \cup {x}
      BY <2>1, <2>3, SaveAsks
    <3>2. /\ x \in [key : KeysMade', expected : 1..Newest, content : SUBSET Made']
          /\ x.key = <<"save", saves + 1>>
      BY <3>1, SaveRequested
    <3> HIDE DEF x
    <3>3. Fresh(x.key) /\ x.key[1] # "undo"
      BY <3>2, NewNumber
    <3> QED  BY <3>1, <3>2, <3>3, KeyedOneMore
  <2> QED  BY <2>2, <2>3
<1> QED  BY <1>1, <1>2, <1>3, <1>4, <1>5, <1>6, <1>7, InsideSplit DEF Sending

-----------------------------------------------------------------------------
(* Answers, operations and undos over the steps of the editor.              *)

\* The editor sends a request without an answer, or forgets the last one.
LEMMA InsideCall ==
    ASSUME Inside
    PROVE  call' = call \/ call' = None \/ call'.reply = None
<1>1. ASSUME NEW o, Finishes(o) PROVE call' = None \/ call'.reply = None
  BY <1>1, FinishesTo
<1>2. CASE Save \/ Leave
  BY <1>2 DEF Save, Leave, Saving, Sends
<1>3. CASE Apply
  BY <1>3 DEF Apply, Ends, Sends
<1>4. CASE Undo
  BY <1>1, <1>4, UndoMakes
<1>5. CASE Reconcile
  BY <1>1, <1>5 DEF Reconcile
<1>6. CASE Prepared
  BY <1>1, <1>6 DEF Prepared, Ends
<1>7. CASE Silent
  BY <1>7 DEF Silent, EditGraph, Refresh, Load, Reload, SaveDone, SaveConflict, SaveFails, SaveEnds,
     Replayed, ReplayFails, PrepareFails, Saved, Confirm, Published, NotPublished, Ends,
     Conflict, NotSaved, RefreshRead, RefreshDone, LoadDone, OtherLoaded, LoadFails, Loaded, Quota,
     flowVars
<1> QED  BY <1>2, <1>3, <1>4, <1>5, <1>6, <1>7, InsideSplit DEF Sending

\* So what an answer says stays true until it is read.
LEMMA InsideReplies ==
    ASSUME Counted, Replies, Inside
    PROVE  Replies'
<1>1. revisions' = revisions /\ Newest' = Newest
  BY InsideMakes
<1> QED  BY <1>1, InsideCall DEF Replies

\* Which operation the editor holds after a step.
LEMMA OperationsMade ==
    ASSUME Counted, Replies, Held, Placed, Typed, Inside
    PROVE  /\ op' \in {op, work, disk.op, None} \/ (op' \in KeptOperations' /\ OwnChange(op'))
           /\ work' \in {op, work, None} \/ (work' \in KeptOperations' /\ OwnChange(work'))
<1>1. /\ Newest' = Newest /\ Newest \in Nat
      /\ \A s \in SUBSET Made : s \in SUBSET Made'
      /\ \A i \in 1..ops : i \in 1..ops'
  BY InsideMakes
<1>2. work # None => work \in KeptOperations /\ OwnChange(work) /\ work \in KeptOperations'
  BY MoreRequested DEF Held, OperationOk
<1>3. ASSUME NEW o, Finishes(o)
      PROVE  (op' = o /\ work' = o) \/ (op' = None /\ work' = None)
  BY <1>3, FinishesTo
<1>4. CASE Save \/ Leave
  BY <1>4 DEF Save, Leave, Saving, opVars
<1>5. CASE Apply
  <2> DEFINE o == ApplyOperation
  <2>1. o \in KeptOperations' /\ OwnChange(o)
    BY <1>5, ApplyIsOk
  <2>2. (op' = o /\ work' = o) \/ (op' = None /\ work' = None)
    BY <1>5, ApplyMakes
  <2> HIDE DEF o
  <2> QED  BY <2>1, <2>2
<1>6. CASE Undo
  <2> DEFINE o == UndoOperation
  <2>1. o \in KeptOperations' /\ OwnChange(o)
    BY <1>6, UndoIsOk
  <2>2. (op' = o /\ work' = o) \/ (op' = None /\ work' = None)
    BY <1>3, <1>6, UndoMakes
  <2> HIDE DEF o
  <2> QED  BY <2>1, <2>2
<1>7. CASE Reconcile
  BY <1>3, <1>7 DEF Reconcile
<1>8. CASE Prepared
  <2> DEFINE o == PreparedOperation
  <2>1. o \in KeptOperations' /\ OwnChange(o)
    BY <1>8, PreparedIsOk DEF Prepared
  <2>2. (op' = o /\ work' = o) \/ (op' = None /\ work' = None)
    BY <1>3, <1>8 DEF Prepared, Ends, PreparedOperation
  <2> HIDE DEF o
  <2> QED  BY <2>1, <2>2
<1>9. CASE Replayed
  <2>1. /\ flow = "replaying" /\ call.reply # None /\ call.reply.outcome = "ok"
        /\ known' = Later(known, call.reply.summary)
        /\ \/ op' = op /\ work' = [work EXCEPT !.authority = known']
           \/ op' = None /\ work' = None
    BY <1>9 DEF Replayed, Replied, Ends
  <2>2. call # None /\ work # None /\ work.phase = "preparing"
    BY <2>1 DEF Placed
  <2>3. known' \in 1..Newest'
    BY <1>1, <2>1, <2>2 DEF Replies, Typed, Later
  <2>4. work \in KeptOperations' /\ OwnChange(work)
    BY <1>2, <2>2
  <2> DEFINE w == [work EXCEPT !.authority = known']
  <2>5. w \in KeptOperations' /\ OwnChange(w)
    BY <2>3, <2>4 DEF KeptOperations, OwnChange
  <2> HIDE DEF w
  <2>6. (op' = op /\ work' = w) \/ (op' = None /\ work' = None)
    BY <2>1 DEF w
  <2> QED  BY <2>5, <2>6
<1>10. CASE Saved
  <2>1. /\ flow = "sending" /\ call.reply # None /\ call.reply.outcome = "ok" /\ op' = op
        /\ work' = [work EXCEPT !.head = call.reply.head, !.summary = call.reply.summary]
    BY <1>10 DEF Saved, Replied, opVars
  <2>2. call # None /\ work # None
    BY <2>1 DEF Placed
  <2>3. call.reply.head \in 0..Newest' /\ call.reply.summary \in 0..Newest'
    BY <1>1, <2>1, <2>2 DEF Replies
  <2>4. work \in KeptOperations' /\ OwnChange(work)
    BY <1>2, <2>2
  <2>5. work' \in KeptOperations' /\ OwnChange(work')
    BY <2>1, <2>3, <2>4 DEF KeptOperations, OwnChange
  <2> QED  BY <2>1, <2>5
<1>11. CASE Confirm
  <2>1. /\ flow = "confirming" /\ op' = op
        /\ \E latest \in {0, Newest} :
              work' = [work EXCEPT !.head = Confirmed(latest), !.summary = Later(@, latest)]
    BY <1>11 DEF Confirm, opVars
  <2>2. work # None
    BY <2>1 DEF Placed
  <2>3. work \in KeptOperations' /\ OwnChange(work) /\ work \in KeptOperations
    BY <1>2, <2>2
  <2>4. PICK latest \in {0, Newest} :
           work' = [work EXCEPT !.head = Confirmed(latest), !.summary = Later(work.summary, latest)]
    BY <2>1, <2>3 DEF KeptOperations
  <2>5. work.head \in 0..Newest /\ work.summary \in 0..Newest
    BY <2>3 DEF KeptOperations
  <2>6. Confirmed(latest) \in 0..Newest' /\ Later(work.summary, latest) \in 0..Newest'
    BY <1>1, <2>4, <2>5 DEF Confirmed, Later
  <2>7. work' \in KeptOperations' /\ OwnChange(work')
    BY <2>3, <2>4, <2>6 DEF KeptOperations, OwnChange
  <2> QED  BY <2>1, <2>7
<1>12. CASE Silent /\ ~Replayed /\ ~Saved /\ ~Confirm
  BY <1>12 DEF Silent, EditGraph, Refresh, Load, Reload, SaveDone, SaveConflict, SaveFails, SaveEnds,
     ReplayFails, PrepareFails, Published, NotPublished, Ends,
     Conflict, NotSaved, RefreshRead, RefreshDone, LoadDone, OtherLoaded, LoadFails, Loaded, Quota,
     flowVars, opVars
<1> QED  BY <1>4, <1>5, <1>6, <1>7, <1>8, <1>9, <1>10, <1>11, <1>12, InsideSplit DEF Sending

\* Browser storage keeps what it has, or gets what the editor has.
LEMMA DiskMade ==
    ASSUME Inside
    PROVE  \/ disk' = disk
           \/ /\ disk' = Stored(open', project', rev', known', rebase', adopted', op', undo', pending')
              /\ disk'.open = open' /\ disk'.project = project' /\ disk'.rev = rev'
              /\ disk'.known = known' /\ disk'.rebase = rebase' /\ disk'.adopted = adopted'
              /\ disk'.op = op' /\ disk'.undo = undo' /\ disk'.pending = pending'
<1>1. Persist \/ disk' = disk
  BY DEF Inside, User, FlowStep, EditGraph, Refresh, Load, Leave, Reload, Save, Saving, Apply, Undo,
     Reconcile, SaveDone, SaveConflict, SaveFails, SaveEnds, Replayed, ReplayFails, PrepareFails,
     Prepared, Saved, Confirm, Published, NotPublished, Conflict, NotSaved, OperationStep,
     RefreshRead, RefreshDone, LoadDone, OtherLoaded, LoadFails, Loaded, Quota
<1> QED  BY <1>1, Written

\* Whatever operation is kept adds its KPIs or takes them away.
LEMMA OperationsHeld ==
    ASSUME Counted, Replies, Held, Placed, Typed, Inside
    PROVE  \A o \in {op', work', disk'.op} \ {None} : OperationOk(o)'
<1>1. \A o \in {op, work, disk.op} \ {None} : o \in KeptOperations' /\ OwnChange(o)
  BY MoreRequested DEF Held, OperationOk
<1>2. op' # None => op' \in KeptOperations' /\ OwnChange(op')
  BY <1>1, OperationsMade
<1>3. work' # None => work' \in KeptOperations' /\ OwnChange(work')
  BY <1>1, OperationsMade
<1>4. disk'.op \in {disk.op, op'}
  BY DiskMade
<1> QED  BY <1>1, <1>2, <1>3, <1>4 DEF OperationOk, OwnChange

\* What can be undone afterwards is what has been published.
LEMMA UndosHeld ==
    ASSUME Counted, Keyed, Held, Placed, Typed, Inside
    PROVE  \A u \in {undo', disk'.undo} \ {None} : UndoOk(u)'
<1>1. \A u \in {undo, disk.undo} \ {None} : UndoOk(u)'
  BY MoreRequested DEF Held
<1>2. CASE Published
  <2>1. /\ flow = "publishing" /\ work.head # 0 /\ rev' = rev + 1
        /\ undo' = IF work.kind = "undo" THEN None
               ELSE [of |-> work.of, before |-> work.before, applied |-> work.candidate,
                     rev |-> rev', authority |-> work.head]
    BY <1>2 DEF Published, MayPublish
  <2>2. work # None /\ Committing(work)
    BY <2>1 DEF Placed, Committing
  <2>3. work \in KeptOperations /\ OwnChange(work)
    BY <2>2 DEF Held, OperationOk
  <2>4. CASE work.kind = "undo"
    BY <1>1, <2>1, <2>4, DiskMade
  <2>5. CASE work.kind = "add"
    <3> DEFINE u == [of |-> work.of, before |-> work.before, applied |-> work.candidate,
                     rev |-> rev', authority |-> work.head]
    <3>1. /\ revisions' = revisions /\ Newest' = Newest /\ Newest \in Nat
          /\ \A s \in SUBSET Made : s \in SUBSET Made'
          /\ \A i \in 1..ops : i \in 1..ops'
      BY InsideMakes
    <3>2. work.head \in 1..Newest /\ work.of = work.id
      BY <2>1, <2>3, <2>5, <3>1 DEF KeptOperations, OwnChange
    <3>3. revisions[work.head].key = KeyOf(work)
      BY <2>1, <2>2 DEF Held
    <3>4. AskOf(work) \in Asks /\ AskOf(work).key = KeyOf(work) /\ AskOf(work).content = work.candidate
      BY <2>2, Counts DEF AskOf
    <3>5. revisions[work.head].content = work.candidate
      BY <3>2, <3>3, <3>4 DEF Keyed
    <3>6. KeyOf(work) = <<"add", work.of>>
      BY <2>5, <3>2 DEF KeyOf
    <3>7. work.before = work.candidate \ {work.of}
      BY <2>3, <2>5 DEF OwnChange
    <3>8. /\ work.of \in 1..ops' /\ work.before \in SUBSET Made' /\ work.candidate \in SUBSET Made'
          /\ rev' \in Nat
      BY <2>1, <2>3, <3>1 DEF KeptOperations, Typed
    <3>9. ASSUME NEW v, v = u PROVE UndoOk(v)'
      BY <3>9, <3>1, <3>2, <3>3, <3>5, <3>6, <3>7, <3>8 DEF UndoOk
    <3>10. undo' = u
      BY <2>1, <2>5
    <3> HIDE DEF u
    <3> QED  BY <1>1, <3>9, <3>10, DiskMade
  <2> QED  BY <2>3, <2>4, <2>5 DEF KeptOperations
<1>3. ASSUME ~Published PROVE undo' \in {undo, disk.undo, None}
  BY <1>3 DEF Inside, User, FlowStep, EditGraph, Refresh, Load, Leave, Reload, Save, Saving, Apply, Undo,
     Reconcile, SaveDone, SaveConflict, SaveFails, SaveEnds, Replayed, ReplayFails, PrepareFails,
     Prepared, Saved, Confirm, NotPublished, Conflict, NotSaved, OperationStep,
     RefreshRead, RefreshDone, LoadDone, OtherLoaded, LoadFails, Loaded, Quota, opVars
<1> QED  BY <1>1, <1>2, <1>3, DiskMade

\* The head that the operation was answered is that of its own revision.
LEMMA HeadsHeld ==
    ASSUME Counted, Replies, Held, Placed, Inside,
           work' # None, work'.head # 0, flow' \in {"confirming", "publishing"}
    PROVE  revisions'[work'.head].key = KeyOf(work)'
<1>1. revisions' = revisions
  BY InsideMakes
<1>2. CASE Saved
  <2>1. /\ flow = "sending" /\ call.reply # None /\ call.reply.outcome = "ok"
        /\ work' = [work EXCEPT !.head = call.reply.head, !.summary = call.reply.summary]
    BY <1>2 DEF Saved, Replied
  <2>2. call # None /\ work # None /\ Ask(call.req) = AskOf(work)
    BY <2>1 DEF Placed
  <2>3. call.req.key = KeyOf(work)
    BY <2>2 DEF Ask, AskOf
  <2>4. work \in KeptOperations /\ KeyOf(work)' = KeyOf(work)
    BY <1>2, <2>2, HeadsGiven DEF Held, OperationOk
  <2>5. work'.head = call.reply.head
    BY <2>1, <2>4 DEF KeptOperations
  <2>6. revisions[call.reply.head].key = call.req.key
    BY <2>1, <2>2 DEF Replies
  <2> QED  BY <1>1, <2>3, <2>4, <2>5, <2>6
<1>3. CASE Confirm
  <2>1. /\ flow = "confirming"
        /\ \E latest \in {0, Newest} :
              work' = [work EXCEPT !.head = Confirmed(latest), !.summary = Later(@, latest)]
    BY <1>3 DEF Confirm
  <2>2. work # None
    BY <2>1 DEF Placed
  <2>3. work \in KeptOperations /\ KeyOf(work)' = KeyOf(work)
    BY <1>3, <2>2, HeadsGiven DEF Held, OperationOk
  <2>4. work'.head \in {work.head, 0}
    BY <2>1, <2>3 DEF KeptOperations, Confirmed
  <2> QED  BY <1>1, <2>1, <2>2, <2>3, <2>4 DEF Held
<1>4. ASSUME ~Saved, ~Confirm
      PROVE  \/ flow' \notin {"confirming", "publishing"}
             \/ flow' = flow /\ work' = work
  <2>1. ASSUME NEW o, Finishes(o) PROVE flow' \notin {"confirming", "publishing"}
    BY <2>1, FinishesTo
  <2>2. CASE Undo
    BY <2>1, <2>2, UndoMakes
  <2>3. CASE Reconcile
    BY <2>1, <2>3 DEF Reconcile
  <2>4. CASE Prepared
    BY <2>1, <2>4 DEF Prepared, Ends
  <2>5. CASE Save \/ Leave \/ Apply
    BY <2>5 DEF Save, Leave, Saving, Apply, Ends
  <2>6. CASE Silent
    BY <1>4, <2>6 DEF Silent, EditGraph, Refresh, Load, Reload, SaveDone, SaveConflict, SaveFails,
       SaveEnds, Replayed, ReplayFails, PrepareFails, Published, NotPublished, Ends,
       Conflict, NotSaved, RefreshRead, RefreshDone, LoadDone, OtherLoaded, LoadFails, Loaded,
       Quota, flowVars
  <2> QED  BY <2>2, <2>3, <2>4, <2>5, <2>6, InsideSplit DEF Sending
<1>5. ASSUME flow' = flow, work' = work PROVE revisions'[work'.head].key = KeyOf(work)'
  BY <1>1, <1>5 DEF Held, KeyOf
<1> QED  BY <1>2, <1>3, <1>4, <1>5

\* What is kept of operations stays true of the revisions.
LEMMA InsideHeld ==
    ASSUME Counted, Keyed, Replies, Held, Placed, Typed, Inside
    PROVE  Held'
<1>1. \A o \in {op', work', disk'.op} \ {None} : OperationOk(o)'
  BY OperationsHeld
<1>2. \A u \in {undo', disk'.undo} \ {None} : UndoOk(u)'
  BY UndosHeld
<1> QED  BY <1>1, <1>2, HeadsHeld DEF Held

-----------------------------------------------------------------------------
(* Where the flow stands after a step of the editor.                        *)

\* Operations and requests are not None, whatever has been made by now.
LEMMA RecordsMade ==
    ASSUME Counted, Inside
    PROVE  /\ \A o \in KeptOperations' : o # None
           /\ \A r \in Requested' : r # None /\ [req |-> r, reply |-> None] # None
<1>1. ops' \in Nat /\ ops' <= MaxOps /\ Newest' \in Nat /\ saves' \in Nat
  BY InsideKeeps, InsideMakes
<1>2. \A i \in 1..ops' : i \in Operation
  BY <1>1, BoundAssumption DEF Operation
<1>3. \A s \in SUBSET Made' : s \in SUBSET Change
  BY <1>2 DEF Made, Change
<1>4. \A n \in 0..Newest' : n \in Nat
  BY <1>1
<1>5. \A k \in KeysMade' : k \in {"save", "add", "undo"} \X Nat
  BY <1>1 DEF KeysMade
<1>6. ASSUME NEW o \in KeptOperations' PROVE o # None
  <2>1. o \in Operations
    BY <1>2, <1>3, <1>4, <1>6 DEF KeptOperations, Operations
  <2> QED  BY <2>1, RecordAssumption
<1>7. ASSUME NEW r \in Requested' PROVE r # None /\ [req |-> r, reply |-> None] # None
  <2>1. r \in Commands
    BY <1>3, <1>4, <1>5, <1>7 DEF Requested, Commands
  <2> QED  BY <2>1, RecordAssumption
<1> QED  BY <1>6, <1>7

\* The editor is idle again.
LEMMA PlacedIdle ==
    ASSUME flow' = "idle", work' = None, call' = None, ~leaving'
    PROVE  Placed'
BY DEF Placed

\* Only an ordinary save is made to leave.
LEMMA NotLeaving ==
    ASSUME Placed, flow # "saving"
    PROVE  ~leaving
BY DEF Placed

\* A key that is fresh stays so as long as nothing more is asked for.
LEMMA FreshStays ==
    ASSUME Counted, Inside, NEW k, Fresh(k), rejected' = rejected, \A a \in Asks' : a \in Asks
    PROVE  /\ \A a \in Asks' : a.key # k
           /\ \A n \in 1..Newest' : revisions'[n].key # k
           /\ k \notin rejected'
BY InsideMakes DEF Fresh

\* The flow is not concerned.
Aside ==
    \/ \E e \in Edit : EditGraph(e)
    \/ Refresh \/ Load \/ RefreshRead \/ RefreshDone \/ LoadDone \/ OtherLoaded \/ LoadFails
    \/ Quota

\* Only a load may change the operation, and then there is none.
LEMMA AsideStays ==
    ASSUME Safe, Placed, Typed, Aside
    PROVE  /\ UNCHANGED <<flow, work, call, leaving, pending, op, rejected, isMutating, revisions,
                          orphans, undo, ops, saves, reloads>>
           /\ leaving => loading' = "no"
           /\ loading' \in {"no", "this", "other"}
<1>1. leaving => loading = "no"
  BY DEF Placed
<1>2. loading \in {"no", "this", "other"}
  BY DEF Typed
<1>3. CASE LoadDone
  BY <1>3 DEF LoadDone, Loaded, Safe, serverVars, flowVars, boundVars
<1>4. CASE Load
  BY <1>1, <1>4 DEF Load, serverVars, opVars, flowVars, boundVars
<1>5. CASE OtherLoaded \/ LoadFails
  BY <1>5 DEF OtherLoaded, LoadFails, Loaded, serverVars, flowVars, boundVars
<1>6. CASE \E e \in Edit : EditGraph(e)
  BY <1>1, <1>2, <1>6 DEF EditGraph, serverVars, opVars, busyVars, flowVars, flightVars
<1>7. CASE Refresh \/ RefreshRead \/ RefreshDone \/ Quota
  BY <1>1, <1>2, <1>7 DEF Refresh, RefreshRead, RefreshDone, Quota, serverVars, opVars, busyVars,
     flowVars, flightVars, boundVars
<1> QED  BY <1>3, <1>4, <1>5, <1>6, <1>7 DEF Aside

\* So the flow is where it was.
LEMMA PlacedAside ==
    ASSUME Counted, Held, Placed, Safe, Typed, Inside, Aside
    PROVE  Placed'
<1>1. /\ UNCHANGED <<flow, work, call, leaving, pending, op, rejected, isMutating>>
      /\ leaving => loading' = "no"
  BY AsideStays
<1>2. Aside => Silent
  BY DEF Aside, Silent
<1>3. \A a \in Asks' : a \in Asks
  BY <1>2, SilentAsks
<1>4. ASSUME flow \in {"replaying", "preparing"}
      PROVE  /\ \A a \in Asks' : a.key # KeyOf(work)
             /\ \A n \in 1..Newest' : revisions'[n].key # KeyOf(work)
             /\ KeyOf(work) \notin rejected'
  <2>1. Fresh(KeyOf(work))
    BY <1>4 DEF Placed, Fresh
  <2> QED  BY <1>1, <1>3, <2>1, FreshStays
<1> QED  BY <1>1, <1>4 DEF Placed, KeyOf, Same, Ask, AskOf

\* finish has sent an operation, or has given it up.
LEMMA PlacedFinished ==
    ASSUME Counted, Placed, Typed, Inside, NEW o \in KeptOperations', Finishes(o),
           o.phase = "committing", flow # "saving", leaving' = leaving
    PROVE  Placed'
<1>1. ~leaving'
  BY NotLeaving
<1>2. CASE op' = None /\ flow' = "idle" /\ work' = None /\ call' = None
  BY <1>1, <1>2, PlacedIdle
<1>3. CASE op' = o /\ work' = o /\ flow' = "sending" /\ call' = [req |-> Input(o), reply |-> None]
  <2>1. Input(o) \in Requested'
    BY InputRequested DEF Typed
  <2>2. call' # None /\ o # None
    BY <1>3, <2>1, RecordsMade
  <2>3. Ask(call.req)' = AskOf(work)'
    <3>1. call'.req = Input(o)
      BY <1>3
    <3> QED  BY <1>3, <3>1, InputAsks DEF Ask, AskOf, KeyOf
  <2> QED  BY <1>1, <1>3, <2>2, <2>3 DEF Placed, Same
<1> QED  BY <1>2, <1>3, FinishesTo

\* The steps that end what was under way.
Ending ==
    \/ Reload \/ SaveDone \/ SaveConflict \/ SaveFails \/ ReplayFails \/ PrepareFails
    \/ Published \/ NotPublished \/ Conflict \/ NotSaved

\* Afterwards nothing is under way.
LEMMA PlacedEnding ==
    ASSUME Placed, Ending
    PROVE  Placed'
<1>1. flow' = "idle" /\ work' = None /\ call' = None
  BY DEF Ending, Reload, SaveDone, SaveConflict, SaveFails, SaveEnds, ReplayFails, PrepareFails,
     Published, NotPublished, Conflict, NotSaved, Ends
<1>2. leaving' => leaving
  BY DEF Ending, Reload, SaveDone, SaveConflict, SaveFails, SaveEnds, ReplayFails, PrepareFails,
     Published, NotPublished, Conflict, NotSaved, OperationStep
<1>3. ASSUME leaving' PROVE FALSE
  <2>1. flow = "saving"
    BY <1>2, <1>3 DEF Placed
  <2>2. ~leaving'
    BY <2>1 DEF Ending, Reload, SaveDone, SaveConflict, SaveFails, SaveEnds, ReplayFails,
       PrepareFails, Published, NotPublished, Conflict, NotSaved, Replied
  <2> QED  BY <1>3, <2>2
<1> QED  BY <1>1, <1>3, PlacedIdle

\* An ordinary save, of the graph or of what is pending.
LEMMA PlacedSaving ==
    ASSUME Counted, Placed, Typed, Held, Inside, Save \/ Leave
    PROVE  Placed'
<1>1. /\ Saving /\ flow = "idle" /\ flow' = "saving" /\ isMutating' /\ work' = work
      /\ call' = [req |-> pending', reply |-> None] /\ loading' = loading
      /\ (leaving' = leaving \/ loading = "no")
      /\ IF pending # None THEN pending' = pending
         ELSE saves' = saves + 1 /\ pending' = SaveRequest
  BY DEF Save, Leave, Saving, Sends, flightVars, SaveRequest, Request
<1>2. work = None /\ ~leaving
  BY <1>1 DEF Placed
<1>3. pending' \in Requested'
  <2>1. CASE pending # None
    BY <1>1, <2>1, Counts, MoreRequested DEF Typed
  <2>2. CASE pending = None
    BY <1>1, <2>2, SaveRequested
  <2> QED  BY <2>1, <2>2
<1>4. pending' # None /\ call' # None
  BY <1>1, <1>3, RecordsMade
<1> QED  BY <1>1, <1>2, <1>4 DEF Placed

\* The reservation of an addition.
LEMMA PlacedApply ==
    ASSUME Counted, Keyed, Placed, Typed, Inside, Apply
    PROVE  Placed'
<1> DEFINE o == ApplyOperation
<1>1. /\ ops' = ops + 1 /\ flow = "idle" /\ UNCHANGED <<pending, leaving, rejected>>
      /\ \/ op' = None /\ flow' = "idle" /\ work' = None /\ call' = None
         \/ /\ op' = o /\ work' = o
            /\ \/ flow' = "preparing" /\ call' = None
               \/ pending # None /\ flow' = "replaying" /\ call' = [req |-> pending, reply |-> None]
  BY ApplyMakes
<1>2. ~leaving'
  BY <1>1, NotLeaving
<1>3. CASE op' = None /\ flow' = "idle" /\ work' = None /\ call' = None
  BY <1>2, <1>3, PlacedIdle
<1>4. CASE op' = o /\ work' = o /\ flow' \in {"preparing", "replaying"}
  <2>1. KeyOf(work)' = <<"add", ops + 1>> /\ work'.phase = "preparing"
    BY <1>4 DEF KeyOf, ApplyOperation
  <2>2. /\ \A a \in Asks' : a.key # <<"add", ops + 1>>
        /\ \A n \in 1..Newest' : revisions'[n].key # <<"add", ops + 1>>
        /\ <<"add", ops + 1>> \notin rejected'
    BY <1>1, NewNumber, ApplyAsks, FreshStays
  <2>3. o \in KeptOperations'
    BY ApplyIsOk
  <2> HIDE DEF o
  <2>4. work' # None /\ op' # None /\ Same(work, op)'
    BY <1>4, <2>3, RecordsMade DEF Same
  <2>5. CASE flow' = "preparing" /\ call' = None
    BY <1>2, <2>1, <2>2, <2>4, <2>5 DEF Placed
  <2>6. CASE /\ pending # None /\ flow' = "replaying"
             /\ call' = [req |-> pending, reply |-> None]
    <3>1. pending \in Requested'
      BY <2>6, Counts, MoreRequested DEF Typed
    <3>2. call' # None /\ call'.req = pending'
      BY <1>1, <2>6, <3>1, RecordsMade
    <3> QED  BY <1>1, <1>2, <2>1, <2>2, <2>4, <2>6, <3>2 DEF Placed
  <2>7. flow' # "idle"
    BY <1>4
  <2> QED  BY <1>1, <2>5, <2>6, <2>7
<1> QED  BY <1>1, <1>3, <1>4

\* The pending save has been replayed.
LEMMA PlacedReplayed ==
    ASSUME Counted, Replies, Held, Placed, Typed, Inside, Replayed
    PROVE  Placed'
<1>1. /\ flow = "replaying" /\ UNCHANGED <<leaving, rejected>> /\ call' = None
      /\ \/ op' = op /\ work' = [work EXCEPT !.authority = known'] /\ flow' = "preparing"
         \/ op' = None /\ work' = None /\ flow' = "idle"
  BY DEF Replayed, Replied, Ends, OperationStep
<1>2. ~leaving'
  BY <1>1, NotLeaving
<1>3. CASE op' = None /\ work' = None /\ flow' = "idle"
  BY <1>1, <1>2, <1>3, PlacedIdle
<1>4. CASE op' = op /\ work' = [work EXCEPT !.authority = known'] /\ flow' = "preparing"
  <2>1. op # None /\ work # None /\ Same(work, op) /\ work.phase = "preparing" /\ Fresh(KeyOf(work))
    BY <1>1 DEF Placed, Fresh
  <2>2. work \in KeptOperations
    BY <2>1 DEF Held, OperationOk
  <2>3. /\ work'.id = work.id /\ work'.kind = work.kind /\ work'.of = work.of
        /\ work'.phase = work.phase /\ work'.candidate = work.candidate
    BY <1>4, <2>2 DEF KeptOperations
  <2>4. KeyOf(work)' = KeyOf(work)
    BY <2>3 DEF KeyOf
  <2>5. Same(work, op)'
    BY <1>4, <2>1, <2>3 DEF Same
  <2>6. \A a \in Asks' : a \in Asks
    BY SilentAsks DEF Silent
  <2>7. /\ \A a \in Asks' : a.key # KeyOf(work)
        /\ \A n \in 1..Newest' : revisions'[n].key # KeyOf(work)
        /\ KeyOf(work) \notin rejected'
    BY <1>1, <2>1, <2>6, FreshStays
  <2>8. work' # None /\ op' # None
    <3>1. known' \in 1..Newest'
      <4>1. call # None /\ call.reply # None /\ call.reply.outcome = "ok"
            /\ known' = Later(known, call.reply.summary)
        BY <1>1 DEF Replayed, Replied, Placed
      <4> QED  BY <4>1, InsideMakes DEF Replies, Typed, Later
    <3>2. work \in KeptOperations'
      BY <2>2, MoreRequested
    <3>3. work' \in KeptOperations'
      BY <1>4, <3>1, <3>2 DEF KeptOperations
    <3> QED  BY <1>4, <2>1, <3>3, RecordsMade
  <2> QED  BY <1>1, <1>2, <1>4, <2>1, <2>3, <2>4, <2>5, <2>7, <2>8 DEF Placed
<1> QED  BY <1>1, <1>3, <1>4

\* The save of the operation is answered, and confirmed.
LEMMA PlacedSaved ==
    ASSUME Counted, Replies, Held, Placed, Typed, Inside, Saved \/ Confirm
    PROVE  Placed'
<1>1. /\ flow \in {"sending", "confirming"} /\ flow' \in {"confirming", "publishing"}
      /\ UNCHANGED <<op, leaving>> /\ (call' = None \/ (call' = call /\ flow = "confirming"))
  BY DEF Saved, Confirm, Replied, opVars
<1>2. /\ op # None /\ work # None /\ Same(work, op) /\ work.phase = "committing"
      /\ work.authority = op.authority /\ ~leaving
      /\ flow = "confirming" => call = None
  BY <1>1 DEF Placed
<1>3. /\ work'.id = work.id /\ work'.kind = work.kind /\ work'.of = work.of
      /\ work'.phase = work.phase /\ work'.candidate = work.candidate
      /\ work'.authority = work.authority
  BY <1>2, HeadsGiven
<1>4. work' # None
  <2>1. ASSUME work' = None PROVE FALSE
    <3>1. PICK h \in 0..Newest', s \in 0..Newest' : work' = [work EXCEPT !.head = h, !.summary = s]
      <4>1. work \in KeptOperations
        BY <1>2 DEF Held, OperationOk
      <4>2. work.head \in 0..Newest /\ work.summary \in 0..Newest /\ Newest' = Newest /\ Newest \in Nat
        BY <4>1, InsideMakes DEF KeptOperations
      <4>3. CASE Saved
        <5>1. call # None /\ call.reply # None /\ call.reply.outcome = "ok"
          BY <4>3 DEF Saved, Replied, Placed
        <5>2. call.reply.head \in 0..Newest' /\ call.reply.summary \in 0..Newest'
          BY <4>2, <5>1 DEF Replies
        <5> QED  BY <4>3, <5>2 DEF Saved
      <4>4. CASE Confirm
        <5>1. PICK latest \in {0, Newest} :
                 work' = [work EXCEPT !.head = Confirmed(latest), !.summary = Later(work.summary, latest)]
          BY <4>1, <4>4 DEF Confirm, KeptOperations
        <5>2. Confirmed(latest) \in 0..Newest' /\ Later(work.summary, latest) \in 0..Newest'
          BY <4>2, <5>1 DEF Confirmed, Later
        <5> QED  BY <5>1, <5>2
      <4> QED  BY <4>3, <4>4
    <3>2. work \in KeptOperations'
      BY <1>2, MoreRequested DEF Held, OperationOk
    <3>3. work' \in KeptOperations'
      BY <3>1, <3>2 DEF KeptOperations
    <3> QED  BY <2>1, <3>3, RecordsMade
  <2> QED  BY <2>1
<1>5. Same(work, op)'
  BY <1>1, <1>2, <1>3 DEF Same
<1> QED  BY <1>1, <1>2, <1>3, <1>4, <1>5 DEF Placed

\* Over every step of the editor, the flow is somewhere.
LEMMA InsidePlaced ==
    ASSUME Counted, Keyed, Replies, Held, Placed, Typed, Safe, Inside
    PROVE  Placed'
<1>1. CASE Aside
  BY <1>1, PlacedAside
<1>2. CASE Ending
  BY <1>2, PlacedEnding
<1>3. CASE Save \/ Leave
  BY <1>3, PlacedSaving
<1>4. CASE Apply
  BY <1>4, PlacedApply
<1>5. CASE Undo
  <2>1. UndoOperation \in KeptOperations' /\ Finishes(UndoOperation)
    BY <1>5, UndoIsOk, UndoMakes
  <2>2. flow # "saving" /\ leaving' = leaving /\ UndoOperation.phase = "committing"
    BY <1>5 DEF Undo, UndoOperation
  <2> QED  BY <2>1, <2>2, PlacedFinished
<1>6. CASE Reconcile
  <2>1. Finishes(op) /\ op # None /\ op.phase = "committing" /\ flow # "saving" /\ leaving' = leaving
    BY <1>6 DEF Reconcile, OperationStep, Committing
  <2>2. op \in KeptOperations'
    BY <2>1, MoreRequested DEF Held, OperationOk
  <2> QED  BY <2>1, <2>2, PlacedFinished
<1>7. CASE Prepared
  <2>1. /\ flow = "preparing" /\ leaving' = leaving
        /\ \/ Finishes(PreparedOperation)
           \/ flow' = "idle" /\ work' = None /\ call' = None
    BY <1>7 DEF Prepared, OperationStep, Ends, PreparedOperation
  <2>2. ~leaving'
    BY <2>1, NotLeaving
  <2>3. PreparedOperation \in KeptOperations' /\ PreparedOperation.phase = "committing"
    BY <2>1, PreparedIsOk
  <2> QED  BY <2>1, <2>2, <2>3, PlacedFinished, PlacedIdle
<1>8. CASE Replayed
  BY <1>8, PlacedReplayed
<1>9. CASE Saved \/ Confirm
  BY <1>9, PlacedSaved
<1> QED  BY <1>1, <1>2, <1>3, <1>4, <1>5, <1>6, <1>7, <1>8, <1>9 DEF Inside, User, FlowStep, Aside, Ending

-----------------------------------------------------------------------------
(* The types after a step of the editor.                                    *)

\* Every number in between is of a revision.
LEMMA LaterIsOne ==
    ASSUME NEW n \in Nat, NEW a \in 1..n, NEW b \in 1..n
    PROVE  Later(a, b) \in 1..n
BY DEF Later

\* The graph is made of changes that have been made.
LEMMA GraphTyped ==
    ASSUME Counted, Held, Placed, Typed, Inside
    PROVE  project' \subseteq Made' /\ rev' \in Nat /\ open' \in BOOLEAN
<1>1. \A s \in SUBSET Made : s \in SUBSET Made'
  BY InsideMakes
<1>2. /\ project \in SUBSET Made' /\ disk.project \in SUBSET Made' /\ rev \in Nat
      /\ disk.rev \in Nat /\ open \in BOOLEAN /\ disk.open \in BOOLEAN
  BY <1>1 DEF Typed
<1>3. CASE \E e \in Edit : EditGraph(e)
  <2>1. PICK e \in Edit : EditGraph(e)
    BY <1>3
  <2>2. e \in Made'
    BY DEF Made
  <2> QED  BY <1>2, <2>1, <2>2 DEF EditGraph
<1>4. CASE LoadDone
  <2>1. revisions[Newest].content \in SUBSET Made
    <3>1. revisions \in Seq(NewRevision) /\ Newest \in 1..Newest
      BY LenProperties DEF Counted, NewRevision, Newest
    <3>2. revisions[Newest] \in NewRevision
      BY <3>1, LenProperties DEF Newest
    <3> QED  BY <3>2 DEF NewRevision
  <2> QED  BY <1>1, <1>2, <1>4, <2>1 DEF LoadDone, Loaded
<1>5. CASE Published
  <2>1. flow = "publishing" /\ project' = work.candidate /\ rev' = rev + 1 /\ open' = open
    BY <1>5 DEF Published
  <2>2. work \in KeptOperations
    BY <2>1 DEF Placed, Held, OperationOk
  <2>3. work.candidate \in SUBSET Made
    BY <2>2 DEF KeptOperations
  <2> QED  BY <1>1, <1>2, <2>1, <2>3
<1>6. CASE Reload
  BY <1>2, <1>6 DEF Reload
<1>7. CASE OtherLoaded
  BY <1>2, <1>7 DEF OtherLoaded, Loaded
<1>8. ASSUME ~(\E e \in Edit : EditGraph(e)), ~LoadDone, ~Published, ~Reload, ~OtherLoaded
      PROVE  UNCHANGED <<open, project, rev>>
  BY <1>8 DEF Inside, User, FlowStep, Refresh, Load, Leave, Save, Saving, Apply, Undo,
     Reconcile, SaveDone, SaveConflict, SaveFails, SaveEnds, Replayed, ReplayFails, PrepareFails,
     Prepared, Saved, Confirm, NotPublished, Conflict, NotSaved, OperationStep,
     RefreshRead, RefreshDone, LoadFails, Loaded, Quota, graphVars
<1> QED  BY <1>2, <1>3, <1>4, <1>5, <1>6, <1>7, <1>8

\* The known head is that of a revision: it only comes from answers and reads.
LEMMA HeadTyped ==
    ASSUME Counted, Replies, Held, Placed, Typed, Inside
    PROVE  known' \in 1..Newest' /\ rebase' \in BOOLEAN /\ adopted' \in BOOLEAN
<1>1. Newest' = Newest /\ Newest \in Nat /\ Newest \in 1..Newest
  BY InsideMakes DEF Counted
<1>2. /\ known \in 1..Newest /\ disk.known \in 1..Newest
      /\ {rebase, adopted, disk.rebase, disk.adopted} \subseteq BOOLEAN
  BY DEF Typed
<1>3. CASE RefreshDone
  <2>1. known' = refreshing /\ refreshing \in 0..Newest /\ refreshing # 0
    BY <1>3 DEF RefreshDone, Typed
  <2> QED  BY <1>1, <1>2, <1>3, <2>1 DEF RefreshDone
<1>4. CASE LoadDone
  BY <1>1, <1>2, <1>4 DEF LoadDone
<1>5. CASE Reload
  BY <1>1, <1>2, <1>5 DEF Reload
<1>6. CASE SaveDone
  <2>1. call # None /\ call.reply # None /\ call.reply.outcome = "ok" /\ known' = call.reply.summary
    BY <1>6 DEF SaveDone, Replied, Placed
  <2> QED  BY <1>1, <1>2, <1>6, <2>1 DEF Replies, SaveDone, SaveEnds
<1>7. CASE SaveConflict
  BY <1>1, <1>2, <1>7 DEF SaveConflict, SaveEnds
<1>8. CASE Replayed
  <2>1. /\ call # None /\ call.reply # None /\ call.reply.outcome = "ok"
        /\ known' = Later(known, call.reply.summary)
    BY <1>8 DEF Replayed, Replied, Placed
  <2>2. call.reply.summary \in 1..Newest
    BY <2>1 DEF Replies
  <2> QED  BY <1>1, <1>2, <1>8, <2>1, <2>2, LaterIsOne DEF Replayed
<1>9. CASE Published \/ NotPublished
  <2>1. /\ flow = "publishing" /\ known' = Later(known, work.summary) /\ adopted' = adopted
        /\ rebase' \in {rebase, TRUE}
    BY <1>9 DEF Published, NotPublished, Rebase
  <2>2. work.summary \in 0..Newest
    <3>1. work \in KeptOperations
      BY <2>1 DEF Placed, Held, OperationOk
    <3> QED  BY <3>1 DEF KeptOperations
  <2>3. known' \in 1..Newest
    BY <1>1, <1>2, <2>1, <2>2 DEF Later
  <2> QED  BY <1>1, <1>2, <2>1, <2>3
<1>10. CASE Conflict
  BY <1>1, <1>2, <1>10, LaterIsOne DEF Conflict, Rebase
<1>11. CASE SaveFails
  BY <1>1, <1>2, <1>11 DEF SaveFails, SaveEnds
<1>12. CASE Apply \/ Undo \/ Reconcile \/ Prepared
  BY <1>1, <1>2, <1>12 DEF Apply, Undo, Reconcile, Prepared, headVars
<1>13. CASE Save \/ Leave
  BY <1>1, <1>2, <1>13 DEF Save, Leave, Saving, headVars
<1>14. CASE ReplayFails \/ PrepareFails \/ Saved \/ Confirm \/ NotSaved
  BY <1>1, <1>2, <1>14 DEF ReplayFails, PrepareFails, Saved, Confirm, NotSaved, headVars
<1>15. CASE Refresh \/ Load \/ RefreshRead \/ OtherLoaded \/ LoadFails \/ Quota
  BY <1>1, <1>2, <1>15 DEF Refresh, Load, RefreshRead, OtherLoaded, LoadFails, Quota, headVars
<1>16. CASE \E e \in Edit : EditGraph(e)
  BY <1>1, <1>2, <1>16 DEF EditGraph, headVars
<1> QED  BY <1>3, <1>4, <1>5, <1>6, <1>7, <1>8, <1>9, <1>10, <1>11, <1>12, <1>13, <1>14, <1>15,
            <1>16 DEF Inside, User, FlowStep

\* The flags, and the load and the refresh under way.
LEMMA BusyTyped ==
    ASSUME Counted, Typed, Inside
    PROVE  /\ {isLoading', isMutating', leaving', full'} \subseteq BOOLEAN
           /\ loading' \in {"no", "this", "other"}
           /\ refreshing' \in {None} \cup 0..Newest'
<1>1. Newest' = Newest /\ Newest \in Nat /\ Newest \in 0..Newest /\ 0 \in 0..Newest
  BY InsideMakes
<1>2. /\ {isLoading, isMutating, leaving, full} \subseteq BOOLEAN
      /\ loading \in {"no", "this", "other"} /\ refreshing \in {None} \cup 0..Newest
  BY DEF Typed
<1>3. isLoading' \in {isLoading, TRUE, FALSE} /\ isMutating' \in {isMutating, TRUE, FALSE}
  BY DEF Inside, User, FlowStep, EditGraph, Refresh, Load, Leave, Reload, Save, Saving, Apply, Undo,
     Reconcile, SaveDone, SaveConflict, SaveFails, SaveEnds, Replayed, ReplayFails, PrepareFails,
     Prepared, Saved, Confirm, Published, NotPublished, Conflict, NotSaved, OperationStep,
     RefreshRead, RefreshDone, LoadDone, OtherLoaded, LoadFails, Loaded, Quota, busyVars
<1>4. leaving' \in {leaving, TRUE, FALSE} /\ full' \in {full, ~full}
  BY DEF Inside, User, FlowStep, EditGraph, Refresh, Load, Leave, Reload, Save, Saving, Apply, Undo,
     Reconcile, SaveDone, SaveConflict, SaveFails, SaveEnds, Replayed, ReplayFails, PrepareFails,
     Prepared, Saved, Confirm, Published, NotPublished, Conflict, NotSaved, OperationStep,
     RefreshRead, RefreshDone, LoadDone, OtherLoaded, LoadFails, Loaded, Quota, flowVars
<1>5. loading' \in {loading, "no", "this", "other"} /\ refreshing' \in {refreshing, None, 0, Newest}
  BY DEF Inside, User, FlowStep, EditGraph, Refresh, Load, Leave, Reload, Save, Saving, Apply, Undo,
     Reconcile, SaveDone, SaveConflict, SaveFails, SaveEnds, Replayed, ReplayFails, PrepareFails,
     Prepared, Saved, Confirm, Published, NotPublished, Conflict, NotSaved, OperationStep,
     RefreshRead, RefreshDone, LoadDone, OtherLoaded, LoadFails, Loaded, Quota, flightVars
<1> QED  BY <1>1, <1>2, <1>3, <1>4, <1>5

\* A request is a record with the answer to it, if there is one.
LEMMA CallTyped ==
    ASSUME Counted, Held, Placed, Typed, Inside
    PROVE  call' # None => call' \in [req : Requested', reply : {None} \cup Answers]
<1>1. ASSUME NEW r \in Requested', call' = [req |-> r, reply |-> None]
      PROVE  call' \in [req : Requested', reply : {None} \cup Answers]
  BY <1>1
<1>2. call # None => call \in [req : Requested', reply : {None} \cup Answers]
  BY MoreRequested DEF Typed
<1>3. CASE Save \/ Leave
  <2>1. /\ Saving /\ call' = [req |-> pending', reply |-> None]
        /\ IF pending # None THEN pending' = pending
           ELSE saves' = saves + 1 /\ pending' = SaveRequest
    BY <1>3 DEF Save, Leave, Saving, Sends, SaveRequest, Request
  <2>2. pending' \in Requested'
    BY <2>1, Counts, MoreRequested, SaveRequested DEF Typed
  <2> QED  BY <1>1, <2>1, <2>2
<1>4. CASE Apply
  <2>1. call' = None \/ (pending # None /\ call' = [req |-> pending, reply |-> None])
    BY <1>4, ApplyMakes
  <2>2. pending # None => pending \in Requested'
    BY Counts, MoreRequested DEF Typed
  <2> QED  BY <1>1, <2>1, <2>2
<1>5. ASSUME NEW o \in KeptOperations', Finishes(o)
      PROVE  call' # None => call' \in [req : Requested', reply : {None} \cup Answers]
  <2>1. Input(o) \in Requested'
    BY InputRequested DEF Typed
  <2> QED  BY <1>1, <1>5, <2>1, FinishesTo
<1>6. CASE Undo
  BY <1>5, <1>6, UndoMakes, UndoIsOk
<1>7. CASE Reconcile
  <2>1. Finishes(op) /\ op # None
    BY <1>7 DEF Reconcile, Committing
  <2>2. op \in KeptOperations'
    BY <2>1, MoreRequested DEF Held, OperationOk
  <2> QED  BY <1>5, <2>1, <2>2
<1>8. CASE Prepared
  <2>1. flow = "preparing" /\ (Finishes(PreparedOperation) \/ call' = None)
    BY <1>8 DEF Prepared, Ends, PreparedOperation
  <2> QED  BY <1>5, <2>1, PreparedIsOk
<1>9. CASE Silent
  <2>1. call' \in {call, None}
    BY <1>9 DEF Silent, EditGraph, Refresh, Load, Reload, SaveDone, SaveConflict, SaveFails, SaveEnds,
       Replayed, ReplayFails, PrepareFails, Saved, Confirm, Published, NotPublished, Ends,
       Conflict, NotSaved, RefreshRead, RefreshDone, LoadDone, OtherLoaded, LoadFails, Loaded,
       Quota, flowVars
  <2> QED  BY <1>2, <2>1
<1> QED  BY <1>3, <1>4, <1>6, <1>7, <1>8, <1>9, InsideSplit DEF Sending

\* The types, after a step of the editor.
LEMMA InsideTyped ==
    ASSUME Counted, Replies, Held, Placed, Typed, Inside
    PROVE  Typed'
<1>1. /\ project' \subseteq Made' /\ rev' \in Nat /\ known' \in 1..Newest'
      /\ {open', rebase', adopted', isLoading', isMutating', leaving', full'} \subseteq BOOLEAN
      /\ loading' \in {"no", "this", "other"} /\ refreshing' \in {None} \cup 0..Newest'
  BY GraphTyped, HeadTyped, BusyTyped
<1>2. disk' = Stored(disk.open, disk.project, disk.rev, disk.known, disk.rebase, disk.adopted,
                     disk.op, disk.undo, disk.pending)'
  <2>1. CASE disk' = disk
    BY <2>1 DEF Typed, Stored
  <2> QED  BY <2>1, DiskMade DEF Stored
<1>3. /\ disk'.project \subseteq Made' /\ disk'.rev \in Nat /\ disk'.known \in 1..Newest'
      /\ {disk'.open, disk'.rebase, disk'.adopted} \subseteq BOOLEAN
  <2>1. CASE disk' = disk
    BY <2>1, InsideMakes DEF Typed
  <2> QED  BY <1>1, <2>1, DiskMade
<1>4. \A r \in Requests' : r \in Requested'
  BY InsideRequests
<1>5. call' # None => call' \in [req : Requested', reply : {None} \cup Answers]
  BY CallTyped
<1> QED  BY <1>1, <1>2, <1>3, <1>4, <1>5 DEF Typed, Answers

-----------------------------------------------------------------------------
(* The journal after a step of the editor.                                  *)

\* What is sent is in the journal: finish sees to it.
LEMMA Journalled ==
    ASSUME Held, Placed, Typed, Safe, Inside
    PROVE  SentIsJournalled'
<1> SUFFICES ASSUME Committing(op)' PROVE disk'.op = op'
  BY DEF SentIsJournalled
<1>1. CASE disk' = disk /\ op' = op
  BY <1>1 DEF Safe, SentIsJournalled, Committing
<1>2. CASE disk'.op = op'
  BY <1>2
<1>3. ASSUME NEW o, Finishes(o), Persist PROVE disk'.op = op'
  <2>1. op' = o /\ JournalPersisted(o)
    BY <1>3, FinishesTo DEF Committing
  <2> QED  BY <1>3, <2>1, Written DEF JournalPersisted
<1>4. CASE Undo
  BY <1>3, <1>4, UndoMakes
<1>5. CASE Reconcile
  BY <1>3, <1>5 DEF Reconcile, OperationStep
<1>6. CASE Prepared
  BY <1>3, <1>6 DEF Prepared, OperationStep, Committing, PreparedOperation
<1>7. CASE Apply
  <2>1. ~Committing(op)'
    BY <1>7 DEF Apply, Committing
  <2> QED  BY <2>1
<1>8. CASE NotSaved
  <2>1. flow = "sending" /\ Persist /\ op' \in {work, None}
    BY <1>8 DEF NotSaved, Replied, OperationStep
  <2>2. work = op /\ Committing(op)
    BY <2>1 DEF Placed, Committing
  <2>3. op' = op /\ disk.op = op
    BY <2>1, <2>2 DEF Safe, SentIsJournalled, Committing
  <2> QED  BY <2>1, <2>3, Written
<1>9. CASE Reload
  BY <1>9 DEF Reload, Committing
<1>10. CASE Aside
  <2>1. op' = op
    BY <1>10, AsideStays
  <2> QED  BY <1>1, <2>1, DiskMade
<1>11. CASE Save \/ Leave
  <2>1. op' = op
    BY <1>11 DEF Save, Leave, Saving, opVars
  <2> QED  BY <1>1, <2>1, DiskMade
<1>12. CASE Saved \/ Confirm \/ SaveDone \/ SaveConflict \/ SaveFails
  <2>1. op' = op
    BY <1>12 DEF Saved, Confirm, SaveDone, SaveConflict, SaveFails, SaveEnds, opVars
  <2> QED  BY <1>1, <2>1, DiskMade
<1>13. CASE Replayed \/ ReplayFails \/ PrepareFails \/ Published \/ NotPublished \/ Conflict
  <2>1. op' = op \/ op' = None
    BY <1>13 DEF Replayed, ReplayFails, PrepareFails, Published, NotPublished, Conflict
  <2> QED  BY <1>1, <2>1, DiskMade DEF Committing
<1> QED  BY <1>4, <1>5, <1>6, <1>7, <1>8, <1>9, <1>10, <1>11, <1>12, <1>13 DEF Inside, User, FlowStep, Aside

\* An operation is not begun, and none goes on, while the graph must be loaded.
LEMMA NoneToRebase ==
    ASSUME Held, Placed, Typed, Safe, Inside
    PROVE  /\ op' # None => ~rebase'
           /\ disk'.op # None => ~disk'.rebase
           /\ loading' = "this" => op' = None /\ (rebase' \/ ~open')
<1>1. op' # None => ~rebase'
  <2>1. CASE Reload
    BY <2>1 DEF Reload, Safe
  <2>2. CASE Apply \/ Undo
    BY <2>2 DEF Apply, Undo, CanUndo, Blocked, headVars
  <2>3. CASE Prepared \/ Replayed \/ NotSaved
    <3>1. op # None /\ rebase' = rebase
      BY <2>3 DEF Prepared, Replayed, NotSaved, Replied, Placed, headVars
    <3> QED  BY <3>1 DEF Safe
  <2>4. CASE Reconcile
    BY <2>4 DEF Reconcile, Committing, Safe, headVars
  <2>5. CASE LoadDone
    BY <2>5 DEF LoadDone
  <2>6. CASE Save \/ Leave \/ Saved \/ Confirm \/ SaveDone \/ SaveConflict \/ SaveFails
    BY <2>6 DEF Save, Leave, Saving, Saved, Confirm, SaveDone, SaveConflict, SaveFails, SaveEnds,
       opVars, headVars, Safe
  <2>7. CASE ReplayFails \/ PrepareFails \/ Published \/ NotPublished \/ Conflict
    BY <2>7 DEF ReplayFails, PrepareFails, Published, NotPublished, Conflict
  <2>8. CASE Aside /\ ~LoadDone
    BY <2>8 DEF Aside, EditGraph, Refresh, Load, RefreshRead, RefreshDone, OtherLoaded, LoadFails,
       Quota, opVars, headVars, Safe
  <2> QED  BY <2>1, <2>2, <2>3, <2>4, <2>5, <2>6, <2>7, <2>8 DEF Inside, User, FlowStep, Aside
<1>2. disk'.op # None => ~disk'.rebase
  BY <1>1, DiskMade DEF Safe
<1>3. ASSUME loading' = "this" PROVE op' = None /\ (rebase' \/ ~open')
  <2>1. CASE Load
    BY <2>1 DEF Load, opVars, headVars, graphVars
  <2>2. CASE Apply \/ Undo
    BY <1>3, <2>2 DEF Apply, Undo, CanUndo, Blocked, flightVars, Safe
  <2>3. CASE Prepared \/ Replayed \/ NotSaved \/ ReplayFails \/ PrepareFails \/ Published \/ NotPublished
             \/ Conflict \/ Saved \/ Confirm
    <3>1. op # None /\ loading' = loading
      BY <2>3 DEF Prepared, Replayed, NotSaved, ReplayFails, PrepareFails, Published, NotPublished,
         Conflict, Saved, Confirm, OperationStep, Replied, Placed, flightVars
    <3> QED  BY <1>3, <3>1 DEF Safe
  <2>4. CASE Reconcile
    BY <1>3, <2>4 DEF Reconcile, OperationStep, Committing, Safe, flightVars
  <2>5. CASE LoadDone \/ OtherLoaded \/ LoadFails \/ Reload
    BY <1>3, <2>5 DEF LoadDone, OtherLoaded, LoadFails, Loaded, Reload
  <2>6. CASE Save \/ Leave
    BY <1>3, <2>6 DEF Save, Leave, Saving, opVars, headVars, graphVars, flightVars, Safe
  <2>7. CASE SaveDone \/ SaveConflict \/ SaveFails
    <3>1. loading = "this" /\ UNCHANGED <<op, rebase, open>>
      BY <1>3, <2>7 DEF SaveDone, SaveConflict, SaveFails, SaveEnds, opVars, graphVars
    <3> QED  BY <3>1 DEF Safe
  <2>8. CASE \E e \in Edit : EditGraph(e)
    BY <1>3, <2>8 DEF EditGraph, opVars, headVars, flightVars, Safe
  <2>9. CASE Refresh \/ RefreshRead \/ RefreshDone \/ Quota
    BY <1>3, <2>9 DEF Refresh, RefreshRead, RefreshDone, Quota, opVars, headVars, graphVars,
       flightVars, Safe
  <2> QED  BY <2>1, <2>2, <2>3, <2>4, <2>5, <2>6, <2>7, <2>8, <2>9 DEF Inside, User, FlowStep
<1> QED  BY <1>1, <1>2, <1>3

\* So the journal has what is needed after a reload.
LEMMA InsideSafe ==
    ASSUME Held, Placed, Typed, Safe, Inside
    PROVE  Safe'
BY Journalled, NoneToRebase DEF Safe

\* The editor itself writes no revision.
LEMMA InsideExact ==
    ASSUME Counted, UndoIsExact, Inside
    PROVE  UndoIsExact'
BY InsideMakes DEF UndoIsExact

\* The editor keeps the invariant.
LEMMA InsideStep ==
    ASSUME IInv, Inside
    PROVE  IInv'
BY InsideCounted, InsideKeyed, InsideReplies, InsideHeld, InsidePlaced, InsideTyped, InsideSafe,
   InsideExact DEF IInv

-----------------------------------------------------------------------------
(* The theorems.                                                            *)

\* Before anything has happened, nothing is asked for.
LEMMA InitInvariant == Init => IInv
<1> SUFFICES ASSUME Init PROVE IInv
  OBVIOUS
<1>1. /\ revisions = <<[content |-> {}, key |-> <<"other", 0>>, blind |-> FALSE]>>
      /\ Newest = 1
  BY DEF Init, Newest
<1>2. Requests = {} /\ Journals = {} /\ Asks = {}
  <2>1. disk.pending = None /\ disk.op = None
    BY DEF Init, Stored
  <2>2. Requests = {} /\ Journals = {}
    BY <2>1 DEF Init, Requests, Journals, Committing
  <2> QED  BY <2>2 DEF Asks
<1>3. Counted
  <2>1. [content |-> {}, key |-> <<"other", 0>>, blind |-> FALSE] \in NewRevision
    BY DEF NewRevision, OtherKeys
  <2>2. revisions \in Seq(NewRevision)
    BY <1>1, <2>1
  <2> QED  BY <1>1, <2>2, BoundAssumption DEF Init, Counted, NewRevision
<1>4. Keyed /\ Replies /\ UndoIsExact
  BY <1>1, <1>2 DEF Init, Keyed, Replies, UndoIsExact
<1>5. Held /\ Placed
  BY DEF Init, Held, Placed, Stored
<1>6. Typed
  <2>1. disk = [open |-> TRUE, project |-> {}, rev |-> 0, known |-> 1, rebase |-> FALSE,
                adopted |-> FALSE, op |-> None, undo |-> None, pending |-> None]
    BY DEF Init, Stored
  <2>2. disk = Stored(disk.open, disk.project, disk.rev, disk.known, disk.rebase, disk.adopted,
                      disk.op, disk.undo, disk.pending)
    BY <2>1 DEF Stored
  <2>3. disk.project = {} /\ disk.rev = 0 /\ disk.known = 1
    BY <2>1
  <2>5. disk.open \in BOOLEAN /\ disk.rebase \in BOOLEAN /\ disk.adopted \in BOOLEAN
    BY <2>1
  <2>6. /\ {disk.open, disk.rebase, disk.adopted} \subseteq BOOLEAN
        /\ {open, rebase, adopted, isLoading, isMutating, leaving, full} \subseteq BOOLEAN
    BY <2>5 DEF Init
  <2>4. 1 \in 1..Newest
    BY <1>1
  <2>7. /\ project \subseteq Made /\ rev \in Nat /\ known \in 1..Newest
        /\ disk.project \subseteq Made /\ disk.rev \in Nat /\ disk.known \in 1..Newest
    <3>1. project = {} /\ rev = 0 /\ known = 1
      BY DEF Init
    <3> QED  BY <2>3, <2>4, <3>1
  <2> QED  BY <1>2, <2>2, <2>6, <2>7 DEF Init, Typed
<1>7. Safe
  BY DEF Init, Safe, SentIsJournalled, Committing, Stored
<1> QED  BY <1>3, <1>4, <1>5, <1>6, <1>7 DEF IInv

\* Nor does anything change when nothing happens.
LEMMA StutterStep ==
    ASSUME IInv, UNCHANGED vars
    PROVE  IInv'
<1>1. /\ UNCHANGED <<open, project, rev, known, rebase, adopted, op, undo, pending, isLoading,
                     isMutating, leaving, flow, work, call, loading, refreshing, disk, full>>
      /\ UNCHANGED <<revisions, orphans, rejected, ops, saves, edits, losses, reloads>>
  BY DEF vars, serverVars, graphVars, headVars, opVars, busyVars, flowVars, flightVars, boundVars
<1>2. /\ Made' = Made /\ KeysMade' = KeysMade /\ Newest' = Newest
      /\ Requests' = Requests /\ Journals' = Journals
  BY <1>1 DEF Made, KeysMade, Newest, Requests, Journals, Committing
<1>3. Asks' = Asks
  BY <1>2 DEF Asks, Ask, AskOf, KeyOf
<1>4. \A a : UndoesOne(a)' = UndoesOne(a)
  BY <1>1 DEF UndoesOne
<1>5. KeptOperations' = KeptOperations /\ Requested' = Requested
  BY <1>1, <1>2 DEF KeptOperations, Requested
<1>6. Counted' /\ Keyed'
  BY <1>1, <1>2, <1>3, <1>4 DEF IInv, Counted, Keyed, OtherKeys
<1>7. Replies' /\ Safe' /\ UndoIsExact'
  BY <1>1, <1>2 DEF IInv, Replies, Safe, SentIsJournalled, UndoIsExact, Committing
<1>8. Held'
  <2>1. \A o : OperationOk(o) => OperationOk(o)'
    BY <1>5 DEF OperationOk, OwnChange
  <2>2. \A u : UndoOk(u) => UndoOk(u)'
    BY <1>1, <1>2 DEF UndoOk
  <2> QED  BY <1>1, <2>1, <2>2 DEF IInv, Held, KeyOf
<1>9. Placed'
  BY <1>1, <1>2, <1>3 DEF IInv, Placed, KeyOf, Same, Ask, AskOf
<1>10. Typed'
  BY <1>1, <1>2, <1>5 DEF IInv, Typed, Stored, Answers
<1> QED  BY <1>6, <1>7, <1>8, <1>9, <1>10 DEF IInv

\* The invariant holds of every state.
THEOREM Invariant == Spec => []IInv
<1>1. IInv /\ [Next]_vars => IInv'
  BY Sides, OutsideStep, InsideStep, StutterStep
<1> QED  BY <1>1, InitInvariant, PTL DEF Spec

\* The types, and that the operation that goes on is the one reserved.
THEOREM TypeCorrect == Spec => []TypeOK
<1>1. IInv => TypeOK
  <2> SUFFICES ASSUME IInv PROVE TypeOK
    OBVIOUS
  <2>1. \A o \in KeptOperations : o \in Operations
    BY Records DEF IInv
  <2>2. op \in Operations \cup {None} /\ work \in Operations \cup {None}
    BY <2>1 DEF IInv, Held, OperationOk
  <2>3. project \subseteq Change
    <3>1. \A i \in 1..ops : i \in Operation
      BY BoundAssumption DEF IInv, Counted, Operation
    <3> QED  BY <3>1 DEF IInv, Typed, Made, Change
  <2>4. flow \notin {"idle", "saving"} => op # None /\ op.id = work.id
    BY DEF IInv, Placed, Same
  <2> QED  BY <2>2, <2>3, <2>4 DEF IInv, Placed, Typed, TypeOK
<1> QED  BY <1>1, Invariant, PTL

\* What the user was told was not saved is not saved later, by any copy of the
\* request.
THEOREM RejectedNotSavedCorrect == Spec => []RejectedNotSaved
<1>1. IInv => RejectedNotSaved
  BY DEF IInv, Keyed, RejectedNotSaved, Committed
<1> QED  BY <1>1, Invariant, PTL

\* What has been sent is found in the journal after a reload.
THEOREM SentIsJournalledCorrect == Spec => []SentIsJournalled
<1>1. IInv => SentIsJournalled
  BY DEF IInv, Safe
<1> QED  BY <1>1, Invariant, PTL

\* An undo takes away its own KPIs and nothing else.
THEOREM UndoIsExactCorrect == Spec => []UndoIsExact
<1>1. IInv => UndoIsExact
  BY DEF IInv
<1> QED  BY <1>1, Invariant, PTL

\* An operation that ends leaves the rest of the graph as it is.
LEMMA EndsOwnChange ==
    ASSUME IInv, Next, op # None, op' = None, reloads' = reloads
    PROVE  project' \ {op.of} = project \ {op.of}
<1> USE DEF IInv
<1>1. CASE Outside
  BY <1>1, OutsideStays
<1>2. CASE Aside
  BY <1>2, AsideStays
<1>3. CASE Reload
  BY <1>3 DEF Reload, Counted
<1>4. CASE Published
  <2>1. flow = "publishing" /\ OwnsBase(work) /\ project' = work.candidate
    BY <1>4 DEF Published, MayPublish
  <2>2. work # None /\ work.of = op.of
    BY <2>1 DEF Placed, Same
  <2>3. project = work.before
    BY <2>1 DEF OwnsBase
  <2>4. OwnChange(work) /\ work.kind \in {"add", "undo"}
    BY <2>2 DEF Held, OperationOk, KeptOperations
  <2> QED  BY <2>1, <2>2, <2>3, <2>4 DEF OwnChange
<1>5. ASSUME Inside, ~Aside, ~Reload, ~Published PROVE project' = project
  BY <1>5 DEF Inside, Aside, User, FlowStep, Leave, Save, Saving, Apply, Undo,
     Reconcile, SaveDone, SaveConflict, SaveFails, SaveEnds, Replayed, ReplayFails, PrepareFails,
     Prepared, Saved, Confirm, NotPublished, Conflict, NotSaved, OperationStep, graphVars
<1> QED  BY <1>1, <1>2, <1>3, <1>4, <1>5, Sides

\* Edits and loads that came in between are not undone by the end of an
\* operation.
THEOREM EditsKeptCorrect == Spec => EditsKept
<1>1. IInv /\ [Next]_vars =>
          [op # None /\ op' = None /\ reloads' = reloads
             => project' \ {op.of} = project \ {op.of}]_vars
  BY EndsOwnChange
<1> QED  BY <1>1, Invariant, PTL DEF Spec, EditsKept

-----------------------------------------------------------------------------
(* What others have saved.                                                  *)

Others(S) == S \cap Other
HeadContent == revisions[Newest].content

\* If k is the head, S has what the others have in it, and nothing else of theirs.
Fits(k, S) == k = Newest => Others(S) = Others(HeadContent)

\* The head is what this copy has sent, knowing what it was based on.
SavedAsKnown(e) == e.pending # None /\ ~e.pending.blind /\ revisions[Newest].key = e.pending.key

\* A copy of the editor's state that took over no head without the graph.
Sound(e) ==
    ~e.adopted =>
        /\ e.open /\ ~e.rebase => Fits(e.known, e.project)
        /\ Committing(e.op) => Fits(e.op.authority, e.op.candidate)
        /\ e.pending # None => e.pending.expected <= e.known
        /\ e.open /\ ~e.rebase /\ SavedAsKnown(e) => Others(e.project) = Others(HeadContent)

Now == Stored(open, project, rev, known, rebase, adopted, op, undo, pending)

\* What is asked for with the knowledge of its head would take nothing away.
RequestsFit == \A r \in Requests : ~r.blind => Fits(r.expected, r.content)

\* A head that was confirmed is the one that the VDT has.
HeadsMeet == flow = "publishing" /\ work.head # 0 => work.summary = work.head

Aware == Sound(Now) /\ Sound(disk) /\ RequestsFit /\ HeadsMeet /\ KeepsOthers

\* The editor's state as a record, now and after a step.
IsNow(e) ==
    /\ e.open = open /\ e.project = project /\ e.known = known /\ e.rebase = rebase
    /\ e.adopted = adopted /\ e.op = op /\ e.pending = pending
IsNext(e) ==
    /\ e.open = open' /\ e.project = project' /\ e.known = known' /\ e.rebase = rebase'
    /\ e.adopted = adopted' /\ e.op = op' /\ e.pending = pending'

LEMMA NowParts == IsNow(Now) /\ (\A e : e = Now' => IsNext(e))
BY DEF Now, Stored, IsNow, IsNext

\* What is said of a copy is said of its parts.
LEMMA SoundNow ==
    ASSUME Aware, ~adopted
    PROVE  /\ open /\ ~rebase => Fits(known, project)
           /\ Committing(op) => Fits(op.authority, op.candidate)
           /\ pending # None => pending.expected <= known
           /\ open /\ ~rebase /\ pending # None /\ ~pending.blind /\ revisions[Newest].key = pending.key
                => Others(project) = Others(HeadContent)
<1> DEFINE e == Now
<1>1. Sound(e) /\ IsNow(e)
  BY NowParts DEF Aware
<1> HIDE DEF e
<1> QED  BY <1>1 DEF Sound, IsNow, SavedAsKnown

\* The numbers and requests in a copy.
CopyOk(e) ==
    /\ e.known \in 1..Newest
    /\ Committing(e.op) => e.op.authority \in 1..Newest
    /\ e.pending # None => e.pending \in Requests

LEMMA CopiesOk ==
    ASSUME IInv
    PROVE  CopyOk(Now) /\ CopyOk(disk)
<1>1. \A o \in {op, disk.op} \ {None} : o.authority \in 1..Newest
  BY DEF IInv, Held, OperationOk, KeptOperations
<1>2. known \in 1..Newest /\ disk.known \in 1..Newest
  BY DEF IInv, Typed
<1>3. CopyOk(disk)
  BY <1>1, <1>2, Counts DEF CopyOk, Committing
<1> DEFINE e == Now
<1>4. IsNow(e)
  BY NowParts
<1> HIDE DEF e
<1>5. CopyOk(e)
  BY <1>1, <1>2, <1>4, Counts DEF CopyOk, Committing, IsNow
<1> QED  BY <1>3, <1>5 DEF e

-----------------------------------------------------------------------------
(* A revision more.                                                         *)

\* Another writer adds to the head; the editor's requests are on the head.
WrittenOnHead(x) ==
    \E w \in Other : x.content = HeadContent \cup {w} /\ x.key = <<"other", w>>
AsRequested(x) ==
    \E r \in Requests :
        Commits(r) /\ x.content = r.content /\ x.key = r.key /\ x.blind = r.blind

LEMMA OutsideWrites ==
    ASSUME Counted, Typed, Outside
    PROVE  \/ revisions' = revisions
           \/ \E x : revisions' = Append(revisions, x) /\ (WrittenOnHead(x) \/ AsRequested(x))
<1>1. ASSUME NEW r \in Requests, Takes(r), revisions' # revisions
      PROVE  \E x : revisions' = Append(revisions, x) /\ AsRequested(x)
  <2> DEFINE x == [content |-> r.content, key |-> r.key, blind |-> r.blind]
  <2>1. Commits(r) /\ revisions' = Append(revisions, x)
    BY <1>1 DEF Takes
  <2>2. x.content = r.content /\ x.key = r.key /\ x.blind = r.blind
    OBVIOUS
  <2> HIDE DEF x
  <2> QED  BY <2>1, <2>2 DEF AsRequested
<1>2. CASE ServerAnswers
  <2>1. call.req \in Requests /\ Takes(call.req)
    BY <1>2, Counts DEF ServerAnswers, Waiting
  <2> QED  BY <1>1, <2>1
<1>3. CASE \E r \in orphans : OrphanTaken(r)
  BY <1>1, <1>3, Counts DEF OrphanTaken
<1>4. CASE \E w \in Other : OtherWrites(w)
  <2>1. PICK w \in Other : OtherWrites(w)
    BY <1>4
  <2> DEFINE x == [content |-> revisions[Newest].content \cup {w}, key |-> <<"other", w>>, blind |-> FALSE]
  <2>2. revisions' = Append(revisions, x)
    BY <2>1 DEF OtherWrites
  <2>3. x.content = HeadContent \cup {w} /\ x.key = <<"other", w>>
    BY DEF HeadContent
  <2> HIDE DEF x
  <2> QED  BY <2>2, <2>3 DEF WrittenOnHead
<1> QED  BY <1>2, <1>3, <1>4 DEF Outside, ServerRefuses, ServerFails, Lost, serverVars

\* What fitted an older head has nothing to say about the new one.
LEMMA FitsOlder ==
    ASSUME Newest \in Nat, Newest' = Newest + 1, NEW k \in 1..Newest, NEW S
    PROVE  Fits(k, S)'
BY DEF Fits

\* A copy that knew what it sent on has what the others have in it.
LEMMA SoundGrows ==
    ASSUME IInv, RequestsFit, NEW x, revisions' = Append(revisions, x),
           WrittenOnHead(x) \/ AsRequested(x), NEW e, CopyOk(e), Sound(e)
    PROVE  Sound(e)'
<1> SUFFICES ASSUME ~e.adopted PROVE Sound(e)'
  BY DEF Sound
<1>1. /\ Newest \in Nat /\ Newest' = Newest + 1
      /\ revisions'[Newest + 1] = x
  BY Appended DEF IInv
<1>2. HeadContent' = x.content /\ revisions'[Newest'] = x
  BY <1>1 DEF HeadContent
<1>3. e.open /\ ~e.rebase => Fits(e.known, e.project)'
  BY <1>1, FitsOlder DEF CopyOk
<1>4. Committing(e.op) => Fits(e.op.authority, e.op.candidate)'
  BY <1>1, FitsOlder DEF CopyOk
<1>5. e.pending # None => e.pending.expected <= e.known
  BY DEF Sound
<1>6. ASSUME e.open, ~e.rebase, e.pending # None, ~e.pending.blind, x.key = e.pending.key
      PROVE  Others(e.project) = Others(x.content)
  <2>1. e.pending \in Requests /\ Ask(e.pending) \in Asks
    BY <1>6 DEF CopyOk, Asks
  <2>2. ~WrittenOnHead(x)
    <3>1. e.pending.key \in KeysMade
      BY <2>1 DEF IInv, Typed, Requested
    <3>2. x.key \notin OtherKeys
      BY <1>6, <3>1, KeysApart
    <3>3. \A w \in Other : <<"other", w>> \in OtherKeys
      BY DEF OtherKeys
    <3> QED  BY <3>2, <3>3 DEF WrittenOnHead
  <2>3. PICK r \in Requests : Commits(r) /\ x.content = r.content /\ x.key = r.key
    BY <2>2 DEF AsRequested
  <2>4. Ask(r) \in Asks
    BY DEF Asks
  <2>5. Ask(e.pending) = Ask(r)
    <3>1. Ask(e.pending).key = Ask(r).key
      BY <1>6, <2>3, AskParts
    <3>2. \A a, b \in Asks : a.key = b.key => a = b
      BY DEF IInv, Keyed
    <3> QED  BY <2>1, <2>4, <3>1, <3>2
  <2>6. e.pending.expected = Newest /\ e.pending.content = x.content
    BY <2>3, <2>5, AskParts DEF Commits
  <2>7. e.known = Newest
    <3>1. e.known \in 1..Newest /\ Newest <= e.known
      BY <1>5, <1>6, <2>6 DEF CopyOk
    <3> QED  BY <1>1, <3>1
  <2>8. Others(e.project) = Others(HeadContent)
    BY <1>6, <2>7 DEF Sound, Fits
  <2>9. Others(e.pending.content) = Others(HeadContent)
    BY <1>6, <2>1, <2>6 DEF RequestsFit, Fits
  <2> QED  BY <2>6, <2>8, <2>9
<1>7. /\ e.open /\ ~e.rebase /\ SavedAsKnown(e)' => Others(e.project) = Others(HeadContent)'
  BY <1>2, <1>6 DEF SavedAsKnown, Others
<1> QED  BY <1>3, <1>4, <1>5, <1>7 DEF Sound

\* The new revision has what the others had saved, unless it was sent blindly.
LEMMA KeepsGrows ==
    ASSUME IInv, RequestsFit, KeepsOthers, NEW x, revisions' = Append(revisions, x),
           WrittenOnHead(x) \/ AsRequested(x)
    PROVE  KeepsOthers'
<1>1. /\ Newest \in Nat /\ Newest' = Newest + 1
      /\ \A n \in 1..Newest : revisions'[n] = revisions[n]
      /\ revisions'[Newest + 1] = x
  BY Appended DEF IInv
<1>2. Newest \in 1..Newest
  BY DEF IInv, Counted, Newest
<1>3. x.blind \/ Others(HeadContent) \subseteq x.content
  <2>1. CASE WrittenOnHead(x)
    BY <2>1 DEF WrittenOnHead, Others
  <2>2. CASE AsRequested(x)
    BY <2>2 DEF AsRequested, Commits, RequestsFit, Fits, Others
  <2> QED  BY <2>1, <2>2
<1> SUFFICES ASSUME NEW n \in 1..(Newest' - 1)
             PROVE  revisions'[n + 1].blind \/ Keeps(n)'
  BY DEF KeepsOthers
<1>4. CASE n = Newest
  BY <1>1, <1>2, <1>3, <1>4 DEF Keeps, Others, HeadContent
<1>5. CASE n # Newest
  <2>1. n \in 1..(Newest - 1) /\ n \in 1..Newest /\ n + 1 \in 1..Newest
    BY <1>1, <1>5
  <2>2. revisions[n + 1].blind \/ Keeps(n)
    BY <2>1 DEF KeepsOthers
  <2> QED  BY <1>1, <2>1, <2>2 DEF Keeps
<1> QED  BY <1>4, <1>5

\* Where no revision is added, what was said of a copy can be said still.
LEMMA SoundStays ==
    ASSUME revisions' = revisions
    PROVE  /\ \A e : Sound(e)' = Sound(e)
           /\ \A k, S : Fits(k, S)' = Fits(k, S)
           /\ KeepsOthers' = KeepsOthers
<1>1. Newest' = Newest /\ HeadContent' = HeadContent
  BY DEF Newest, HeadContent
<1>2. \A k, S : Fits(k, S)' = Fits(k, S)
  BY <1>1 DEF Fits, Others
<1>3. KeepsOthers' = KeepsOthers
  BY <1>1 DEF KeepsOthers, Keeps
<1>4. ASSUME NEW e PROVE Sound(e)' = Sound(e)
  BY <1>1 DEF Sound, SavedAsKnown, Fits, Others, Committing
<1> QED  BY <1>2, <1>3, <1>4

\* The server and other writers leave what the editor knows true.
LEMMA OutsideAware ==
    ASSUME IInv, Aware, Outside
    PROVE  Aware'
<1>1. Counted /\ Typed
  BY DEF IInv
<1>2. /\ UNCHANGED <<open, project, rev, known, rebase, adopted, op, undo, pending, disk, flow, work>>
      /\ \A r \in Requests' : r \in Requests
  BY <1>1, OutsideStays, OutsideAsks
<1>3. Now' = Now /\ disk' = disk
  BY <1>2 DEF Now, Stored
<1>4. HeadsMeet'
  BY <1>2 DEF Aware, HeadsMeet
<1>5. CASE revisions' = revisions
  <2>1. Sound(Now)' /\ Sound(disk)'
    BY <1>3, <1>5, SoundStays DEF Aware
  <2>2. RequestsFit'
    BY <1>2, <1>5, SoundStays DEF Aware, RequestsFit
  <2> QED  BY <1>4, <1>5, <2>1, <2>2, SoundStays DEF Aware
<1>6. CASE revisions' # revisions
  <2>1. PICK x : revisions' = Append(revisions, x) /\ (WrittenOnHead(x) \/ AsRequested(x))
    BY <1>1, <1>6, OutsideWrites
  <2>2. \A e : CopyOk(e) /\ Sound(e) => Sound(e)'
    BY <2>1, SoundGrows DEF Aware
  <2>3. Sound(Now)' /\ Sound(disk)'
    BY <1>3, <2>2, CopiesOk DEF Aware
  <2>4. RequestsFit'
    <3>1. Newest \in Nat /\ Newest' = Newest + 1
      BY <1>1, <2>1, Appended
    <3>2. \A r \in Requests : r.expected \in 1..Newest
      BY <1>1 DEF Typed, Requested
    <3> QED  BY <1>2, <3>1, <3>2, FitsOlder DEF RequestsFit
  <2>5. KeepsOthers'
    BY <2>1, KeepsGrows DEF Aware
  <2> QED  BY <1>4, <2>3, <2>4, <2>5 DEF Aware
<1> QED  BY <1>5, <1>6

-----------------------------------------------------------------------------
(* What a step of the editor leaves of what it knows.                       *)

\* The copy e knows no more than f did: it has the same head and others' work,
\* or is not to be saved from; it has no operation or pending save of its own.
Follows(e, f) ==
    ~e.adopted =>
        /\ ~f.adopted
        /\ e.known >= f.known
        /\ e.open /\ ~e.rebase =>
             /\ f.open /\ ~f.rebase /\ e.known = f.known
             /\ Others(e.project) = Others(f.project)
        /\ Committing(e.op) => e.op = f.op
        /\ e.pending # None => e.pending = f.pending

\* So what was said of f can be said of e.
LEMMA SoundFollows ==
    ASSUME IInv, NEW e, NEW f, Follows(e, f), Sound(f), CopyOk(f), e.known \in 1..Newest
    PROVE  Sound(e)
<1> SUFFICES ASSUME ~e.adopted PROVE Sound(e)
  BY DEF Sound
<1>1. /\ ~f.adopted /\ e.known >= f.known
      /\ e.open /\ ~e.rebase =>
           /\ f.open /\ ~f.rebase /\ e.known = f.known
           /\ Others(e.project) = Others(f.project)
      /\ Committing(e.op) => e.op = f.op
      /\ e.pending # None => e.pending = f.pending
  BY DEF Follows
<1>2. e.open /\ ~e.rebase => Fits(e.known, e.project)
  BY <1>1 DEF Sound, Fits
<1>3. Committing(e.op) => Fits(e.op.authority, e.op.candidate)
  BY <1>1 DEF Sound
<1>4. e.pending # None => e.pending.expected <= e.known
  <2> SUFFICES ASSUME e.pending # None PROVE e.pending.expected <= e.known
    OBVIOUS
  <2>1. f.pending \in Requests /\ e.pending.expected <= f.known
    BY <1>1 DEF Sound, CopyOk
  <2>2. f.pending.expected \in 1..Newest /\ Newest \in Nat
    BY <2>1, LenProperties DEF IInv, Typed, Requested, Counted, Newest
  <2>3. e.pending.expected \in 1..Newest /\ f.known \in 1..Newest
    BY <1>1, <2>2 DEF CopyOk
  <2> QED  BY <1>1, <2>1, <2>2, <2>3
<1>5. e.open /\ ~e.rebase /\ SavedAsKnown(e) => Others(e.project) = Others(HeadContent)
  BY <1>1 DEF Sound, SavedAsKnown
<1> QED  BY <1>2, <1>3, <1>4, <1>5 DEF Sound

\* The same for the editor's own state.
LEMMA SoundNext ==
    ASSUME IInv, Aware, Inside, NEW e, IsNext(e),
           ~adopted' =>
               /\ ~adopted
               /\ known' >= known
               /\ open' /\ ~rebase' =>
                    open /\ ~rebase /\ known' = known /\ Others(project') = Others(project)
               /\ Committing(op') => op' = op
               /\ pending' # None => pending' = pending
    PROVE  Sound(e)
<1> DEFINE f == Now
<1>1. IsNow(f) /\ Sound(f) /\ CopyOk(f)
  BY NowParts, CopiesOk DEF Aware
<1> HIDE DEF f
<1>2. e.known \in 1..Newest
  BY HeadTyped, InsideMakes DEF IInv, IsNext
<1>3. Follows(e, f)
  BY <1>1 DEF Follows, IsNow, IsNext
<1> QED  BY <1>1, <1>2, <1>3, SoundFollows

\* The user's own edits are none of the others'.
LEMMA SoundEdited ==
    ASSUME IInv, Aware, Inside, NEW e, IsNext(e), NEW c \in Edit, EditGraph(c)
    PROVE  Sound(e)
<1>1. /\ UNCHANGED <<open, known, rebase, adopted, op, pending>>
      /\ project' = IF c \in project THEN project \ {c} ELSE project \cup {c}
  BY DEF EditGraph, headVars, opVars
<1>2. Others(project') = Others(project)
  BY <1>1, ChangeAssumption DEF Others
<1>3. known \in Nat
  BY DEF IInv, Typed
<1> QED  BY <1>1, <1>2, <1>3, SoundNext

\* A load has the graph of the head, and drops no operation.
LEMMA SoundLoaded ==
    ASSUME IInv, Aware, Inside, NEW e, IsNext(e), LoadDone
    PROVE  Sound(e)
<1>1. /\ project' = HeadContent /\ known' = Newest /\ op' = None /\ pending' = pending
  BY DEF LoadDone, Loaded, HeadContent, IInv, Safe
<1>2. pending # None => pending.expected <= Newest
  BY Counts DEF IInv, Typed, Requested
<1> QED  BY <1>1, <1>2 DEF Sound, IsNext, Fits, Committing

\* What browser storage holds is as good as it was when it was written.
LEMMA SoundReloaded ==
    ASSUME IInv, Aware, Inside, NEW e, IsNext(e), Reload
    PROVE  Sound(e)
<1>1. /\ e.open = disk.open /\ e.project = disk.project /\ e.known = disk.known
      /\ e.rebase = disk.rebase /\ e.adopted = disk.adopted /\ e.pending = disk.pending
      /\ e.op = IF Committing(disk.op) THEN disk.op ELSE None
  BY DEF Reload, IsNext
<1>2. disk.known \in 1..Newest
  BY DEF IInv, Typed
<1>3. Follows(e, disk)
  BY <1>1, <1>2 DEF Follows, Committing
<1> QED  BY <1>1, <1>2, <1>3, SoundFollows, CopiesOk DEF Aware

\* A refresh that finds another head takes it over without the graph.
LEMMA SoundAside ==
    ASSUME IInv, Aware, Inside, NEW e, IsNext(e),
           Refresh \/ RefreshRead \/ RefreshDone \/ Load \/ LoadFails \/ OtherLoaded \/ Quota
    PROVE  Sound(e)
<1>1. known \in Nat
  BY DEF IInv, Typed
<1>2. CASE Refresh \/ RefreshRead \/ Load \/ LoadFails \/ Quota
  <2>1. UNCHANGED <<open, project, known, rebase, adopted, op, pending>>
    BY <1>2 DEF Refresh, RefreshRead, Load, LoadFails, Loaded, Quota, graphVars, headVars, opVars
  <2> QED  BY <1>1, <2>1, SoundNext
<1>3. CASE RefreshDone
  <2>1. UNCHANGED <<open, project, rebase, op, pending>> /\ adopted' = (adopted \/ known' # known)
    BY <1>3 DEF RefreshDone, graphVars, opVars
  <2>2. ~adopted' => ~adopted /\ known' = known
    BY <2>1 DEF IInv, Typed
  <2> QED  BY <1>1, <2>1, <2>2, SoundNext DEF Committing
<1>4. CASE OtherLoaded
  <2>1. UNCHANGED <<known, rebase, adopted, op, pending>> /\ ~open'
    BY <1>4 DEF OtherLoaded, Loaded, headVars
  <2> QED  BY <1>1, <2>1, SoundNext
<1> QED  BY <1>2, <1>3, <1>4

\* A new save asks for the graph on the head that it is based on.
LEMMA SoundSaving ==
    ASSUME IInv, Aware, Inside, NEW e, IsNext(e), Saving
    PROVE  Sound(e)
<1>1. /\ UNCHANGED <<open, project, known, rebase, adopted, op>>
      /\ pending # None => pending' = pending
      /\ pending = None => pending' = SaveRequest
  BY DEF Saving, graphVars, headVars, opVars, SaveRequest, Request
<1>2. known \in Nat
  BY DEF IInv, Typed
<1>3. CASE pending # None
  BY <1>1, <1>2, <1>3, SoundNext
<1>4. CASE pending = None
  <2>1. SaveRequest.key = <<"save", saves + 1>> /\ SaveRequest.expected = known
    BY DEF SaveRequest, Request
  <2>2. revisions[Newest].key # SaveRequest.key
    <3>1. Newest \in 1..Newest
      BY LenProperties DEF IInv, Counted, Newest
    <3> QED  BY <2>1, <3>1, NewNumber DEF IInv, Fresh
  <2>3. /\ e.pending = SaveRequest /\ e.open = open /\ e.project = project /\ e.known = known
        /\ e.rebase = rebase /\ e.adopted = adopted /\ e.op = op
    BY <1>1, <1>4 DEF IsNext
  <2>4. SaveRequest.expected <= known
    BY <1>2, <2>1
  <2> QED  BY <2>2, <2>3, <2>4, SoundNow DEF Sound, SavedAsKnown
<1> QED  BY <1>3, <1>4

\* A save that is answered with its own head has left the others' work there.
LEMMA SavedHead ==
    ASSUME IInv, Aware, flow \in {"saving", "replaying"}, call.reply # None,
           call.reply.outcome = "ok", ~adopted, ~call.req.blind,
           call.reply.summary = call.reply.head, open, ~rebase
    PROVE  Fits(call.reply.summary, project)
<1>1. call # None /\ pending # None /\ call.req = pending
  BY DEF IInv, Placed
<1>2. revisions[call.reply.head].key = pending.key
  BY <1>1 DEF IInv, Replies
<1> QED  BY <1>1, <1>2, SoundNow DEF Fits

\* The answer to an ordinary save, and to one that is replayed.
LEMMA SoundSaved ==
    ASSUME IInv, Aware, Inside, NEW e, IsNext(e), SaveDone \/ Replayed
    PROVE  Sound(e)
<1>1. /\ flow \in {"saving", "replaying"} /\ call.reply # None /\ call.reply.outcome = "ok"
      /\ adopted' = (adopted \/ call.req.blind \/ call.reply.summary # call.reply.head)
      /\ pending' = None /\ UNCHANGED <<open, project, rebase>>
      /\ op' = op \/ op' = None
      /\ known' = call.reply.summary \/ known' = Later(known, call.reply.summary)
  BY DEF SaveDone, SaveEnds, Replayed, Replied, OperationStep, graphVars, opVars, Ends
<1>2. known' = known \/ known' = call.reply.summary
  BY <1>1 DEF Later
<1> SUFFICES ASSUME ~adopted' PROVE Sound(e)
  BY DEF Sound, IsNext
<1>3. ~adopted
  BY <1>1 DEF IInv, Typed
<1>4. ~call.req.blind /\ call.reply.summary = call.reply.head
  BY <1>1
<1>5. open /\ ~rebase => Fits(known', project)
  BY <1>1, <1>2, <1>3, <1>4, SoundNow, SavedHead
<1>6. Committing(op) => Fits(op.authority, op.candidate)
  BY <1>3, SoundNow
<1> QED  BY <1>1, <1>5, <1>6 DEF Sound, IsNext, SavedAsKnown, Committing

\* A save that is refused or lost; an operation that is reserved or given up.
LEMMA SoundGivenUp ==
    ASSUME IInv, Aware, Inside, NEW e, IsNext(e),
           SaveConflict \/ SaveFails \/ Apply \/ ReplayFails \/ PrepareFails \/ NotSaved
    PROVE  Sound(e)
<1>1. known \in Nat
  BY DEF IInv, Typed
<1>2. CASE SaveConflict
  <2>1. /\ UNCHANGED <<open, project, rebase, op>> /\ pending' = None
        /\ adopted' = (adopted \/ known' # known)
    BY <1>2 DEF SaveConflict, SaveEnds, graphVars, opVars
  <2>2. ~adopted' => ~adopted /\ known' = known
    BY <2>1 DEF IInv, Typed
  <2> QED  BY <1>1, <2>1, <2>2, SoundNext DEF Committing
<1>3. CASE SaveFails
  <2>1. /\ UNCHANGED <<open, project, known, adopted, rebase, op>>
        /\ pending' = pending \/ pending' = None
    BY <1>3 DEF SaveFails, SaveEnds, graphVars, opVars
  <2> QED  BY <1>1, <2>1, SoundNext
<1>4. CASE Apply
  <2>1. UNCHANGED <<open, project, known, adopted, rebase, pending>>
    BY <1>4 DEF Apply, graphVars, headVars
  <2>2. ~Committing(op')
    BY <1>4, ApplyMakes DEF Committing, ApplyOperation
  <2> QED  BY <1>1, <2>1, <2>2, SoundNext
<1>5. CASE ReplayFails \/ PrepareFails
  <2>1. UNCHANGED <<open, project, known, adopted, rebase, pending>> /\ op' = None
    BY <1>5 DEF ReplayFails, PrepareFails, OperationStep, graphVars, headVars
  <2> QED  BY <1>1, <2>1, SoundNext DEF Committing
<1>6. CASE NotSaved
  <2>1. /\ UNCHANGED <<open, project, known, adopted, rebase, pending>>
        /\ flow = "sending" /\ (op' = work \/ op' = None)
    BY <1>6 DEF NotSaved, Replied, OperationStep, graphVars, headVars
  <2>2. work = op
    BY <2>1 DEF IInv, Placed
  <2> QED  BY <1>1, <2>1, <2>2, SoundNext DEF Committing
<1> QED  BY <1>2, <1>3, <1>4, <1>5, <1>6

\* An operation changes nothing of the others'.
LEMMA OperationOthers ==
    ASSUME IInv, NEW o, OperationOk(o)
    PROVE  Others(o.candidate) = Others(o.before)
<1>1. o.id \in Nat /\ o.of \in Nat /\ o.kind \in {"add", "undo"} /\ OwnChange(o)
  BY DEF OperationOk, KeptOperations
<1>2. o.id \notin Other /\ o.of \notin Other
  BY <1>1, ChangeAssumption
<1>3. o.candidate = o.before \cup {o.id} \/ o.candidate = o.before \ {o.of}
  BY <1>1 DEF OwnChange
<1> QED  BY <1>2, <1>3 DEF Others

\* What is sent for an operation is on the head that its graph is based on.
Grounded(o) == ~adopted => Fits(o.authority, o.candidate)

\* finish leaves it so.
LEMMA SoundFinishes ==
    ASSUME IInv, Aware, Inside, NEW e, IsNext(e), NEW o, Finishes(o), Grounded(o),
           UNCHANGED <<graphVars, headVars, pending>>
    PROVE  Sound(e)
<1>1. op' = o \/ op' = None
  BY FinishesTo
<1>2. /\ e.open = open /\ e.project = project /\ e.known = known /\ e.rebase = rebase
      /\ e.adopted = adopted /\ e.pending = pending
  BY DEF IsNext, graphVars, headVars
<1>3. e.op = o \/ e.op = None
  BY <1>1 DEF IsNext
<1> QED  BY <1>2, <1>3, SoundNow DEF Sound, SavedAsKnown, Grounded, Committing

\* What Prepared, Undo and Reconcile send is so.
LEMMA PreparedGrounded ==
    ASSUME IInv, Aware, Inside, Prepared
    PROVE  \/ Finishes(PreparedOperation) /\ Grounded(PreparedOperation)
           \/ op' = None
<1> SUFFICES ASSUME op' # None
             PROVE  Finishes(PreparedOperation) /\ Grounded(PreparedOperation)
  OBVIOUS
<1>1. /\ flow = "preparing" /\ Finishes(PreparedOperation)
      /\ open /\ project = work.before /\ known = work.authority /\ ~rebase
  BY DEF Prepared, PreparedOperation, OwnsBase, Blocked, AuthorityMatches
<1>2. work # None
  BY <1>1 DEF IInv, Placed
<1>3. OperationOk(work)
  BY <1>2 DEF IInv, Held
<1>4. PreparedOperation.authority = known /\ PreparedOperation.candidate = work.candidate
  BY <1>1, <1>3 DEF OperationOk, KeptOperations, PreparedOperation
<1>5. Others(work.candidate) = Others(project)
  BY <1>1, <1>3, OperationOthers
<1>6. ~adopted => Fits(known, project)
  BY <1>1, SoundNow
<1> QED  BY <1>1, <1>4, <1>5, <1>6 DEF Grounded, Fits

LEMMA UndoGrounded ==
    ASSUME IInv, Aware, Inside, Undo
    PROVE  Finishes(UndoOperation) /\ Grounded(UndoOperation)
<1>1. /\ open /\ project = undo.applied /\ known = undo.authority /\ ~rebase /\ undo # None
  BY DEF Undo, CanUndo, Blocked
<1>2. UndoOk(undo)
  BY <1>1 DEF IInv, Held
<1>3. undo.of \in Nat /\ undo.before = undo.applied \ {undo.of}
  BY <1>2 DEF UndoOk
<1>4. Others(undo.before) = Others(project)
  BY <1>1, <1>3, ChangeAssumption DEF Others
<1>5. UndoOperation.authority = known /\ UndoOperation.candidate = undo.before
  BY <1>1 DEF UndoOperation
<1>6. ~adopted => Fits(known, project)
  BY <1>1, SoundNow
<1> QED  BY <1>4, <1>5, <1>6, UndoMakes DEF Grounded, Fits

LEMMA ReconcileGrounded ==
    ASSUME Aware, Reconcile
    PROVE  Finishes(op) /\ Grounded(op)
BY SoundNow DEF Reconcile, Grounded

\* So they leave what the editor knows true.
LEMMA SoundSent ==
    ASSUME IInv, Aware, Inside, NEW e, IsNext(e), Prepared \/ Undo \/ Reconcile
    PROVE  Sound(e)
<1>1. UNCHANGED <<graphVars, headVars, pending>>
  BY DEF Prepared, Undo, Reconcile, OperationStep
<1>2. CASE \E o : Finishes(o) /\ Grounded(o)
  BY <1>1, <1>2, SoundFinishes
<1>3. CASE op' = None
  <2>1. UNCHANGED <<open, project, known, adopted, rebase, pending>> /\ known \in Nat
    BY <1>1 DEF graphVars, headVars, IInv, Typed
  <2> QED  BY <1>3, <2>1, SoundNext DEF Committing
<1> QED  BY <1>2, <1>3, PreparedGrounded, UndoGrounded, ReconcileGrounded


\* The head that is read again is the one the answer named, or the operation is
\* not published.
LEMMA HeadsConfirmed ==
    ASSUME IInv, Aware, Inside
    PROVE  HeadsMeet'
<1>1. CASE Confirm
  <2>1. PICK latest \in {0, Newest} :
           work' = [work EXCEPT !.head = Confirmed(latest), !.summary = Later(@, latest)]
    BY <1>1 DEF Confirm
  <2>2. work \in KeptOperations
    BY <1>1 DEF Confirm, IInv, Placed, Held, OperationOk
  <2>3. work'.head = Confirmed(latest) /\ work'.summary = Later(work.summary, latest)
    BY <2>1, <2>2 DEF KeptOperations
  <2>4. work.summary \in 0..Newest /\ work.head \in 0..Newest /\ Newest \in Nat
    BY <2>2, LenProperties DEF KeptOperations, IInv, Counted, Newest
  <2>5. CASE latest = Newest
    BY <2>3, <2>4, <2>5 DEF HeadsMeet, Confirmed, Later
  <2>6. CASE latest = 0
    BY <2>3, <2>4, <2>6 DEF HeadsMeet, Confirmed
  <2> QED  BY <2>1, <2>5, <2>6
<1>2. CASE Aside
  BY <1>2, AsideStays DEF IInv, Aware, HeadsMeet
<1>3. ASSUME Inside, ~Confirm, ~Aside PROVE flow' # "publishing"
  <2>1. ASSUME NEW o, Finishes(o) PROVE flow' # "publishing"
    BY <2>1, FinishesTo
  <2>2. CASE Undo \/ Reconcile \/ Prepared
    BY <2>1, <2>2 DEF Undo, Reconcile, Prepared, Ends
  <2>3. CASE Apply
    BY <2>3, ApplyMakes
  <2>4. CASE Save \/ Leave \/ Reload \/ Replayed \/ Saved
    BY <2>4 DEF Save, Leave, Saving, Reload, Replayed, Saved, Ends
  <2>5. CASE Ending
    BY <2>5 DEF Ending, Reload, SaveDone, SaveConflict, SaveFails, SaveEnds, ReplayFails,
       PrepareFails, Published, NotPublished, Conflict, NotSaved, Ends
  <2> QED  BY <1>3, <2>2, <2>3, <2>4, <2>5 DEF Inside, Aside, User, FlowStep, Ending
<1> QED  BY <1>1, <1>2, <1>3 DEF HeadsMeet

\* What is published is what was saved, or on the same head as before.
LEMMA SoundPublished ==
    ASSUME IInv, Aware, Inside, NEW e, IsNext(e), Published
    PROVE  Sound(e)
<1>1. /\ flow = "publishing" /\ work.head # 0 /\ project = work.before
      /\ project' = work.candidate /\ known' = Later(known, work.summary) /\ op' = None
      /\ UNCHANGED <<open, rebase, adopted, pending>>
  BY DEF Published, MayPublish, OwnsBase, Ends
<1>2. work # None /\ Committing(work) /\ OperationOk(work)
  BY <1>1 DEF IInv, Placed, Held, Committing
<1>3. Others(project') = Others(project)
  BY <1>1, <1>2, OperationOthers
<1>4. work.summary = work.head
  BY <1>1 DEF Aware, HeadsMeet
<1>5. Newest \in Nat /\ known \in 1..Newest /\ work.head \in 1..Newest
  BY <1>1, <1>2, LenProperties DEF OperationOk, KeptOperations, IInv, Typed, Counted, Newest
<1>6. revisions[work.head].content = work.candidate
  <2>1. revisions[work.head].key = AskOf(work).key
    BY <1>1, <1>2, AskParts DEF IInv, Held
  <2>2. AskOf(work) \in Asks
    BY <1>2, Counts
  <2> QED  BY <1>5, <2>1, <2>2, AskParts DEF IInv, Keyed
<1>7. known' >= known /\ (known' = known \/ known' = work.head)
  BY <1>1, <1>4, <1>5 DEF Later
<1> SUFFICES ASSUME ~adopted' PROVE Sound(e)
  BY DEF Sound, IsNext
<1>8. open /\ ~rebase => Fits(known', project')
  <2>1. CASE known' = work.head
    BY <1>1, <1>6, <2>1 DEF Fits, HeadContent
  <2>2. CASE known' = known
    BY <1>1, <1>3, <2>2, SoundNow DEF Fits
  <2> QED  BY <1>7, <2>1, <2>2
<1>9. pending # None => pending.expected <= known'
  <2>1. pending # None => pending.expected <= known /\ pending.expected \in 1..Newest
    BY <1>1, SoundNow, Counts DEF IInv, Typed, Requested
  <2>2. known' \in Nat
    BY <1>5, <1>7
  <2> QED  BY <1>5, <1>7, <2>1, <2>2
<1>10. open /\ ~rebase /\ pending # None /\ ~pending.blind /\ revisions[Newest].key = pending.key
         => Others(project') = Others(HeadContent)
  BY <1>1, <1>3, SoundNow
<1> QED  BY <1>1, <1>8, <1>9, <1>10 DEF Sound, IsNext, SavedAsKnown, Committing

\* Where it is not published, the editor asks for a rebase.
LEMMA SoundRebased ==
    ASSUME IInv, Aware, Inside, NEW e, IsNext(e), NotPublished \/ Conflict
    PROVE  Sound(e)
<1>1. /\ UNCHANGED <<open, project, adopted, pending>> /\ op' = None /\ rebase'
      /\ \/ known' \in {known, Later(known, Newest)}
         \/ NotPublished /\ known' = Later(known, work.summary)
  BY DEF NotPublished, Conflict, OperationStep, Ends, Rebase, graphVars
<1>2. known \in Nat /\ Newest \in Nat
  BY LenProperties DEF IInv, Typed, Counted, Newest
<1>3. NotPublished => work.summary \in Nat
  <2> SUFFICES ASSUME NotPublished PROVE work.summary \in Nat
    OBVIOUS
  <2>1. work \in KeptOperations
    BY DEF NotPublished, IInv, Placed, Held, OperationOk
  <2> QED  BY <1>2, <2>1 DEF KeptOperations
<1>4. known' >= known
  <2>1. \A b \in Nat : Later(known, b) >= known
    BY <1>2 DEF Later
  <2> QED  BY <1>1, <1>2, <1>3, <2>1
<1> QED  BY <1>1, <1>4, SoundNext DEF Committing

\* Nothing of it changes while the answer to an operation is looked at.
LEMMA SoundConfirms ==
    ASSUME IInv, Aware, Inside, NEW e, IsNext(e), Saved \/ Confirm
    PROVE  Sound(e)
<1>1. UNCHANGED <<open, project, known, rebase, adopted, op, pending>> /\ known \in Nat
  BY DEF Saved, Confirm, graphVars, headVars, opVars, IInv, Typed
<1> QED  BY <1>1, SoundNext

\* So after any step of the editor its state is sound, and so is the storage.
LEMMA InsideSound ==
    ASSUME IInv, Aware, Inside
    PROVE  Sound(Now)' /\ Sound(disk)'
<1>1. ASSUME NEW e, IsNext(e) PROVE Sound(e)
  <2>1. CASE Save \/ Leave
    BY <1>1, <2>1, SoundSaving DEF Save, Leave
  <2>2. CASE \E c \in Edit : EditGraph(c)
    BY <1>1, <2>2, SoundEdited
  <2>3. CASE Silent /\ ~\E c \in Edit : EditGraph(c)
    BY <1>1, <2>3, SoundLoaded, SoundReloaded, SoundAside, SoundSaved, SoundGivenUp,
       SoundPublished, SoundRebased, SoundConfirms DEF Silent
  <2>4. CASE Apply
    BY <1>1, <2>4, SoundGivenUp
  <2>5. CASE Undo \/ Reconcile \/ Prepared
    BY <1>1, <2>5, SoundSent
  <2> QED  BY <2>1, <2>2, <2>3, <2>4, <2>5, InsideSplit DEF Sending
<1>2. revisions' = revisions
  BY InsideMakes DEF IInv
<1>3. ASSUME NEW e, e = Now' PROVE Sound(e)'
  BY <1>1, <1>2, <1>3, NowParts, SoundStays
<1>4. ASSUME NEW e, e = disk' PROVE Sound(e)'
  <2>1. CASE disk' = disk
    BY <1>2, <1>4, <2>1, SoundStays DEF Aware
  <2>2. CASE disk' # disk
    <3>1. IsNext(e)
      BY <1>4, <2>2, DiskMade DEF IsNext
    <3> QED  BY <1>1, <1>2, <3>1, SoundStays
  <2> QED  BY <2>1, <2>2
<1> QED  BY <1>3, <1>4

\* What the editor sends takes nothing away that it knows to be there.
LEMMA InsideFit ==
    ASSUME IInv, Aware, Inside
    PROVE  RequestsFit'
<1>1. Counted /\ Held /\ Placed /\ Typed
  BY DEF IInv
<1>2. revisions' = revisions
  BY <1>1, InsideMakes
<1>3. ASSUME NEW r \in Requests, ~r.blind
      PROVE  Fits(r.expected, r.content)
  BY <1>3 DEF Aware, RequestsFit
<1>4. ASSUME NEW o, Finishes(o), Grounded(o), Persist, UNCHANGED <<orphans, pending>>,
             NEW r \in Requests', ~r.blind
      PROVE  Fits(r.expected, r.content)
  <2>1. r \in Requests \/ r = Input(o)
    BY <1>4, FinishAsks
  <2>2. Input(o).expected = o.authority /\ Input(o).content = o.candidate /\ Input(o).blind = adopted
    BY DEF Input, Request
  <2> QED  BY <1>3, <1>4, <2>1, <2>2 DEF Grounded
<1>5. ASSUME NEW r \in Requests', ~r.blind PROVE Fits(r.expected, r.content)
  <2>1. CASE Silent \/ Apply
    BY <1>1, <1>3, <1>5, <2>1, SilentAsks, ApplyAsks
  <2>2. CASE Save \/ Leave
    <3>1. Saving
      BY <2>2 DEF Save, Leave
    <3>2. r \in Requests \/ r = SaveRequest
      BY <1>1, <3>1, SaveAsks
    <3>3. /\ SaveRequest.expected = known /\ SaveRequest.content = project
          /\ SaveRequest.blind = adopted
      BY DEF SaveRequest, Request
    <3>4. open /\ ~rebase
      BY <3>1 DEF Saving
    <3> QED  BY <1>3, <1>5, <3>2, <3>3, <3>4, SoundNow
  <2>3. CASE Undo
    BY <1>4, <1>5, <2>3, UndoGrounded, UndoMakes
  <2>4. CASE Reconcile
    BY <1>4, <1>5, <2>4, ReconcileGrounded DEF Reconcile, OperationStep, serverVars
  <2>5. CASE Prepared
    <3>1. Persist /\ UNCHANGED <<orphans, pending>>
      BY <2>5 DEF Prepared, OperationStep, serverVars
    <3>2. CASE Finishes(PreparedOperation) /\ Grounded(PreparedOperation)
      BY <1>4, <1>5, <3>1, <3>2
    <3>3. CASE op' = None
      <4>1. \A q \in Requests' : q \in Requests
        <5>1. CASE OwnsBase(work) /\ ~Blocked /\ AuthorityMatches(work)
          <6>1. Finishes(PreparedOperation)
            BY <2>5, <5>1 DEF Prepared, PreparedOperation
          <6>2. PreparedOperation # None
            BY <1>1, <2>5, PreparedIsOk, RecordsMade DEF Prepared
          <6>3. call' = None /\ work' = None
            BY <3>3, <6>1, <6>2, FinishesTo
          <6> QED  BY <3>1, <3>3, <6>3, NothingAsked DEF Committing
        <5>2. CASE ~(OwnsBase(work) /\ ~Blocked /\ AuthorityMatches(work))
          <6>1. call' = None /\ work' = None
            BY <2>5, <5>2 DEF Prepared, Ends
          <6> QED  BY <3>1, <3>3, <6>1, NothingAsked DEF Committing
        <5> QED  BY <5>1, <5>2
      <4> QED  BY <1>3, <1>5, <4>1
    <3> QED  BY <2>5, <3>2, <3>3, PreparedGrounded
  <2> QED  BY <2>1, <2>2, <2>3, <2>4, <2>5, InsideSplit DEF Sending
<1> QED  BY <1>2, <1>5, SoundStays DEF RequestsFit

\* The editor keeps it all.
LEMMA InsideAware ==
    ASSUME IInv, Aware, Inside
    PROVE  Aware'
<1>1. KeepsOthers'
  BY InsideMakes, SoundStays DEF Aware, IInv
<1> QED  BY <1>1, InsideSound, InsideFit, HeadsConfirmed DEF Aware

\* Nothing changes when nothing happens.
LEMMA StutterAware ==
    ASSUME Aware, UNCHANGED vars
    PROVE  Aware'
<1>1. UNCHANGED <<revisions, orphans, open, project, rev, known, rebase, adopted, op, undo, pending,
                  flow, work, call, disk>>
  BY DEF vars, serverVars, graphVars, headVars, opVars, flowVars
<1>2. Now' = Now /\ Requests' = Requests
  BY <1>1 DEF Now, Stored, Requests
<1>3. HeadsMeet'
  BY <1>1 DEF Aware, HeadsMeet
<1>4. Sound(Now)' /\ Sound(disk)' /\ RequestsFit' /\ KeepsOthers'
  BY <1>1, <1>2, SoundStays DEF Aware, RequestsFit
<1> QED  BY <1>3, <1>4 DEF Aware

\* At first there is one revision, and the editor has it.
LEMMA InitAware == Init => Aware
<1> SUFFICES ASSUME Init PROVE Aware
  OBVIOUS
<1>1. /\ revisions = <<[content |-> {}, key |-> <<"other", 0>>, blind |-> FALSE]>>
      /\ Newest = 1 /\ HeadContent = {}
  BY DEF Init, Newest, HeadContent
<1>2. Now = disk
  BY DEF Init, Now
<1>3. disk.project = {} /\ disk.op = None /\ disk.pending = None
  BY DEF Init, Stored
<1>4. Sound(disk)
  BY <1>1, <1>3 DEF Sound, Fits, SavedAsKnown, Committing
<1>5. RequestsFit
  BY <1>3 DEF Init, RequestsFit, Requests
<1>6. HeadsMeet /\ KeepsOthers
  BY <1>1 DEF Init, HeadsMeet, KeepsOthers
<1> QED  BY <1>2, <1>4, <1>5, <1>6 DEF Aware

\* Whatever the editor saves keeps what the others have saved and undoes only
\* what it means to, unless it took over a head without its graph.
THEOREM SavesOwnWorkCorrect == Spec => []SavesOwnWork
<1>1. IInv /\ Aware /\ [Next]_vars => Aware'
  BY Sides, OutsideAware, InsideAware, StutterAware
<1>2. IInv /\ Aware => SavesOwnWork
  BY DEF IInv, Aware, SavesOwnWork
<1> QED  BY <1>1, <1>2, InitAware, Invariant, PTL DEF Spec
=============================================================================
