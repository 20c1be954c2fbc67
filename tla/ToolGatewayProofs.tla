------------------------- MODULE ToolGatewayProofs -------------------------
(***************************************************************************)
(* Proofs about ToolGateway, for any calls, sessions and bounds.           *)
(*                                                                         *)
(* The inductive invariant Inv has four parts.  Book says what a session   *)
(* that executes a call knows of its receipt, and gives the refinement of  *)
(* CallOnce.  Fence says which recovering sessions no longer know the log, *)
(* and gives the action properties: the effect of a call never meets a     *)
(* successor.  Desk is about manual edits.  They need each other: that a   *)
(* recovery reconciles the finish that is durable (Book) holds because no  *)
(* other finish is left open in its epoch (Fence).                         *)
(***************************************************************************)
EXTENDS ToolGateway, TLAPS

-----------------------------------------------------------------------------
(* The receipt of the call that is executed.                                *)

Executing(s) == pc[s] # "idle"
Recovering == {"reconciling", "loaded", "acquired"}

\* Nothing has taken effect yet.
Early == {"decide", "refuse", "mark", "announce", "run", "verified", "sealed"}
\* Nothing is recorded yet.
Open == Early \cup {"ran"}

\* The result is there exactly when the state is terminal, and with its state.
Terminal == \A c \in Call :
    /\ receipt[c].result # None <=> receipt[c].state \in {"completed", "failed"}
    /\ receipt[c].result # None => receipt[c].state = StateFor(receipt[c].result)
    /\ receipt[c].state = "none" => landed[c] = 0

\* A session executes only when it is live, a call it has reserved itself, and
\* nobody else executes it.
Reserved == \A s \in Session : Executing(s) =>
    /\ st[s] = "live" /\ cur[s] \in Call
    /\ receipt[cur[s]].state # "none" /\ receipt[cur[s]].epoch = own[s]
    /\ \A t \in Session : Executing(t) /\ cur[t] = cur[s] => t = s

\* What it has done so far.
Progress == \A s \in Session :
    /\ pc[s] \in Early => landed[cur[s]] = 0
    /\ pc[s] \in Open =>
         receipt[cur[s]].result = None /\ (fin # None => fin.call # cur[s])
    /\ pc[s] = "refuse" => res[s] \in FailedCodes \ {"failed"}
    /\ pc[s] \in {"verified", "sealed"} => cur[s] \in FinishCall
    /\ pc[s] = "run" => before[s] <= revision[s]
    /\ pc[s] = "ran" => before[s] < revision[s] /\ Mutator(cur[s])
    /\ pc[s] = "kept" => fin # None /\ fin.call = cur[s]

\* What it is about to record, or has recorded.
Answering == \A s \in Session :
    /\ pc[s] \in {"persist", "report"} =>
         /\ res[s] \in Codes
         /\ res[s] \in Codes \ {"applied", "failed", "verified"} => landed[cur[s]] = 0
    /\ pc[s] = "persist" =>
         /\ res[s] = "verified" <=> fin # None /\ fin.call = cur[s]
         /\ receipt[cur[s]].result # None => receipt[cur[s]].result = res[s]
    /\ pc[s] = "report" => receipt[cur[s]].result = res[s]

\* A reconciliation is about the finish that is durable.
Finishing ==
    /\ fin # None => receipt[fin.call].state # "none"
    /\ fin # None /\ receipt[fin.call].result # None => receipt[fin.call].result = "verified"
    /\ \A s \in Session : st[s] = "reconciling" => fin # None /\ cur[s] = fin.call

Book == Terminal /\ Reserved /\ Progress /\ Answering /\ Finishing /\ AnswerTrue

-----------------------------------------------------------------------------
(* Who still knows the log.                                                 *)

\* tool_call is published, and the effect may come at any time.
Announced(s) == pc[s] \in {"run", "ran", "verified", "sealed"}

\* Epochs only grow, and nobody has an epoch that has not begun.
Epochs ==
    /\ epoch = 0 => fin = None /\ \A s \in Session : st[s] = "off"
    /\ \A s \in Session : own[s] <= epoch
    /\ fin # None => fin.epoch <= epoch

\* A live session is alone in its epoch; recoveries it has overtaken do not
\* know the log.
Alone ==
    \A s, t \in Session : s # t /\ st[s] = "live" =>
        /\ st[t] = "live" => own[t] # own[s]
        /\ st[t] \in {"reconciling", "loaded"} /\ own[t] < own[s] => behind[t]
        /\ st[t] = "acquired" /\ own[t] <= own[s] => behind[t]

\* While an effect may come, whoever could succeed the session does not know
\* the log, and nobody has.
Waits ==
    \A s, t \in Session : s # t /\ Announced(s) =>
        /\ st[t] = "live" => own[t] <= own[s]
        /\ st[t] \in {"reconciling", "loaded"} /\ own[t] >= own[s] => behind[t]
        /\ st[t] = "acquired" /\ own[t] > own[s] => behind[t]

\* A durable finish seals whoever may act on the project.
Seals ==
    /\ \A s \in Session :
        /\ pc[s] \in {"mark", "announce", "run", "ran", "verified"} => ~seal[s]
        /\ pc[s] = "sealed" => seal[s]
        /\ Announced(s) => fin = None
        /\ st[s] \in Recovering /\ seal[s] => fin # None
        /\ st[s] \in Recovering /\ fin # None /\ ~seal[s] => behind[s]
        /\ st[s] = "live" /\ fin # None /\ own[s] >= fin.epoch => seal[s]
        /\ st[s] = "acquired" /\ fin # None /\ seal[s] => own[s] = fin.epoch + 1
    /\ OneSuccessor

\* Between the verification and the durable receipt nothing else is begun.
Quiet ==
    \A s \in Session :
        pc[s] \in {"verified", "sealed"} /\ own[s] = epoch =>
            \A c \in Call : c # cur[s] => Settled(c)

\* No finish but the durable one is left unsettled in its epoch with a
\* checkpoint that names it: what a recovery reconciles is the durable one.
Named ==
    /\ active # None => receipt[active].state # "none"
    /\ fin # None =>
         \A c \in FinishCall :
            c # fin.call /\ active = c /\ receipt[c].epoch = fin.epoch => Settled(c)

Fence == Epochs /\ Alone /\ Waits /\ Seals /\ Quiet /\ Named

-----------------------------------------------------------------------------
(* Manual edits.                                                            *)

Desk ==
    \A s \in Session :
        /\ expected[s] <= revision[s]
        /\ unseen[s] => expected[s] < revision[s]
        /\ pc[s] \in {"mark", "announce", "run", "ran"} /\ Fenced(cur[s]) => ~unseen[s]

\* The parts of TypeOK.
DurableType ==
    /\ receipt \in [Call -> [state : ReceiptStates, epoch : Nat, result : Codes \cup {None}]]
    /\ epoch \in Nat
    /\ fin \in {None} \cup [call : FinishCall, epoch : Nat]
    /\ active \in Call \cup {None}
SessionType ==
    /\ st \in [Session -> {"off", "live", "reconciling", "loaded", "acquired", "failed"}]
    /\ own \in [Session -> Nat]
    /\ behind \in [Session -> BOOLEAN]
ExecType ==
    /\ pc \in [Session -> PCs]
    /\ cur \in [Session -> Call \cup {None}]
    /\ res \in [Session -> Codes \cup {None}]
    /\ before \in [Session -> Nat]
GateType ==
    /\ revision \in [Session -> Nat]
    /\ expected \in [Session -> Nat]
    /\ seal \in [Session -> BOOLEAN]
    /\ finishing \in [Session -> BOOLEAN]
    /\ aborted \in [Session -> BOOLEAN]
SeenType ==
    /\ landed \in [Call -> Nat]
    /\ told \subseteq Call \X Codes
    /\ unseen \in [Session -> BOOLEAN]
    /\ edits \in Nat

Inv == TypeOK /\ Book /\ Fence /\ Desk

USE DEF durable, session, exec, gate, seen, At, Go, GoWith, Idle

-----------------------------------------------------------------------------
(* What the steps have in common.                                           *)

\* Names of places and codes, so that no proof need enumerate them.
LEMMA Names ==
    /\ "idle" \in PCs /\ "decide" \in PCs /\ "refuse" \in PCs /\ "mark" \in PCs /\ "announce" \in PCs
    /\ "run" \in PCs /\ "ran" \in PCs /\ "verified" \in PCs /\ "sealed" \in PCs /\ "kept" \in PCs
    /\ "persist" \in PCs /\ "stop" \in PCs /\ "report" \in PCs
    /\ "applied" \in Codes /\ "done" \in Codes /\ "verified" \in Codes /\ "failed" \in Codes /\ "stale" \in Codes
    /\ "cancelled" \in Codes /\ "sealed" \in Codes /\ "refused" \in Codes
    /\ \A r \in {"stale", "cancelled", "sealed", "refused"} : r \in FailedCodes \ {"failed"}
    /\ \A r \in FailedCodes : StateFor(r) = "failed" /\ r \in Codes
    /\ StateFor("verified") = "completed"
    /\ \A r \in Codes : StateFor(r) \in {"completed", "failed"}
  BY DEF PCs, Codes, CompletedCodes, FailedCodes, StateFor

LEMMA Sorts == FinishCall \subseteq Call /\ None \notin Codes /\ None \notin Call
  BY CallsAssumption, NoneIsNothing

LEMMA Moves ==
    ASSUME TypeOK, NEW s \in Session, NEW p \in PCs, Go(s, p) \/ Idle(s)
    PROVE  ExecType'
<1>1. CASE Go(s, p)
  BY <1>1 DEF TypeOK, ExecType
<1>2. CASE Idle(s)
  BY <1>2, Names DEF TypeOK, ExecType
<1> QED
  BY <1>1, <1>2

\* A written receipt: in its own epoch, which is the current one, and never
\* from one terminal state to another.
Written(s, c, to, r) ==
    /\ own[s] = epoch /\ receipt[c].epoch = epoch
    /\ receipt[c].state # "none"
    /\ receipt[c].state \in {"completed", "failed"} => receipt[c].state = to
    /\ receipt'[c].state = to /\ receipt'[c].result = r /\ receipt'[c].epoch = epoch
    /\ \A d \in Call : d # c => receipt'[d] = receipt[d]
    /\ receipt' \in [Call -> [state : ReceiptStates, epoch : Nat, result : Codes \cup {None}]]

LEMMA PutWrites ==
    ASSUME TypeOK, NEW s \in Session, NEW c \in Call, NEW to \in ReceiptStates,
           NEW r \in Codes \cup {None}, Put(s, c, to, r)
    PROVE  Written(s, c, to, r)
<1>1. /\ own[s] = epoch /\ receipt[c].epoch = epoch
      /\ to \in Forward(receipt[c].state)
      /\ receipt' = [receipt EXCEPT ![c].state = to, ![c].result = r]
  BY DEF Put, CanPut
<1>2. receipt \in [Call -> [state : ReceiptStates, epoch : Nat, result : Codes \cup {None}]]
  BY DEF TypeOK
<1>3. receipt[c].state # "none"
      /\ (receipt[c].state \in {"completed", "failed"} => receipt[c].state = to)
  BY <1>1, <1>2 DEF Forward, ReceiptStates
<1>4. /\ receipt'[c].state = to /\ receipt'[c].result = r
      /\ receipt'[c].epoch = receipt[c].epoch
      /\ \A d \in Call : d # c => receipt'[d] = receipt[d]
      /\ receipt' \in [Call -> [state : ReceiptStates, epoch : Nat, result : Codes \cup {None}]]
  BY <1>1, <1>2
<1> QED
  BY <1>1, <1>3, <1>4 DEF Written

\* Writing a receipt disturbs neither a finish that is being verified in the
\* same epoch, for there is none, nor what the checkpoint names: a settled
\* receipt stays settled.
LEMMA WriteKeeps ==
    ASSUME Inv, NEW s \in Session, NEW c \in Call, NEW to, NEW r,
           UNCHANGED receipt \/ Written(s, c, to, r),
           to # "none", UNCHANGED <<own, epoch, fin, active>>,
           pc'[s] \notin {"verified", "sealed"},
           \A t \in Session : t # s => pc'[t] = pc[t] /\ cur'[t] = cur[t]
    PROVE  Quiet' /\ Named'
<1>1. ASSUME NEW d \in Call, Settled(d) PROVE Settled(d)'
  BY <1>1 DEF Settled, Written
<1>2. Quiet'
  <2> SUFFICES ASSUME NEW t \in Session, pc'[t] \in {"verified", "sealed"}, own[t] = epoch,
                      NEW d \in Call, d # cur'[t]
               PROVE  Settled(d)'
    BY DEF Quiet
  <2>1. pc[t] \in {"verified", "sealed"} /\ cur'[t] = cur[t]
    OBVIOUS
  <2> QED
    BY <1>1, <2>1 DEF Inv, Fence, Quiet
<1>3. Named'
  <2>1. active # None => receipt'[active].state # "none"
    BY DEF Inv, TypeOK, Fence, Named, Written
  <2>2. ASSUME fin # None, NEW d \in FinishCall, d # fin.call, active = d,
               receipt'[d].epoch = fin.epoch
        PROVE  Settled(d)'
    <3>1. d \in Call /\ receipt[d].epoch = fin.epoch
      BY <2>2, Sorts DEF Written
    <3> QED
      BY <1>1, <2>2, <3>1 DEF Inv, Fence, Named
  <2> QED
    BY <2>1, <2>2 DEF Named
<1> QED
  BY <1>2, <1>3

\* An append, done or not, makes nobody else know the log.
Forgotten(s) ==
    /\ behind' \in [Session -> BOOLEAN]
    /\ \A t \in Session : t # s /\ behind[t] => behind'[t]

LEMMA LogGrows ==
    ASSUME TypeOK, NEW s \in Session, Published(s) \/ NotPublished(s)
    PROVE  Forgotten(s)
  BY DEF TypeOK, Published, NotPublished, Behind, Forgotten

LEMMA GiveUpGrows ==
    ASSUME TypeOK, NEW s \in Session, GiveUp(s)
    PROVE  Forgotten(s) /\ st' = [st EXCEPT ![s] = "failed"]
  BY DEF TypeOK, GiveUp, Behind, Forgotten

\* One that is done makes everybody else not know it.
LEMMA PublishedOver ==
    ASSUME TypeOK, NEW s \in Session, Published(s)
    PROVE  /\ own[s] = epoch /\ ~behind[s] /\ ~behind'[s]
           /\ \A t \in Session : t # s /\ st[t] # "off" => behind'[t]
  BY DEF TypeOK, Published, Behind

\* A live session that appends and is not about to have an effect.
LEMMA AppendFence ==
    ASSUME Inv, NEW s \in Session, st[s] = "live", Forgotten(s),
           UNCHANGED <<epoch, st, own, seal, fin>>,
           \A t \in Session \ {s} : pc'[t] = pc[t],
           pc'[s] \in {"idle", "persist", "stop"}
    PROVE  Epochs' /\ Alone' /\ Waits' /\ Seals'
<1>1. Epochs'
  BY DEF Inv, Fence, Epochs
<1>2. Alone'
  BY DEF Inv, Fence, Alone, Forgotten
<1>3. Waits'
  BY DEF Inv, Fence, Waits, Announced, Forgotten
<1>4. Seals'
  BY DEF Inv, Fence, Seals, Announced, Recovering, OneSuccessor, Forgotten
<1> QED
  BY <1>1, <1>2, <1>3, <1>4

\* A recovery that gives up.
LEMMA GiveUpFence ==
    ASSUME Inv, NEW s \in Session, pc[s] = "idle", Forgotten(s),
           st' = [st EXCEPT ![s] = "failed"],
           own' \in [Session -> Nat], epoch' \in Nat, own'[s] <= epoch', epoch <= epoch', 0 < epoch',
           \A t \in Session \ {s} : own'[t] = own[t],
           UNCHANGED <<seal, fin, pc>>
    PROVE  Epochs' /\ Alone' /\ Waits' /\ Seals'
<1>1. st \in [Session -> {"off", "live", "reconciling", "loaded", "acquired", "failed"}]
  BY DEF Inv, TypeOK
<1>2. Epochs'
  BY <1>1 DEF Inv, TypeOK, Fence, Epochs
<1>3. Alone'
  BY <1>1 DEF Inv, Fence, Alone, Forgotten
<1>4. Waits'
  BY <1>1 DEF Inv, Fence, Waits, Announced, Forgotten
<1>5. Seals'
  BY <1>1 DEF Inv, Fence, Seals, Announced, Recovering, OneSuccessor, Forgotten
<1> QED
  BY <1>2, <1>3, <1>4, <1>5


-----------------------------------------------------------------------------
(* Every step preserves the invariant.                                      *)

\* The first session: nothing has happened yet.
LEMMA StartStep ==
    ASSUME Inv, NEW s \in Session, Start(s)
    PROVE  Inv'
<1>1. TypeOK'
  BY DEF Start, Inv, TypeOK
<1>2. Terminal'
  BY DEF Start, Inv, Book, Terminal
<1>3. Reserved'
  BY DEF Start, Inv, Book, Reserved, Executing, Fence, Epochs
<1>4. Progress'
  BY DEF Start, Inv, Book, Progress, Early, Open
<1>5. Answering' /\ Finishing' /\ AnswerTrue'
  BY DEF Start, Inv, Book, Answering, Finishing, AnswerTrue
<1>6. Epochs' /\ Alone' /\ Waits' /\ Seals'
  BY DEF Start, Inv, Fence, Epochs, Alone, Waits, Seals, Announced, Recovering, OneSuccessor,
     TypeOK, Book, Reserved, Executing
<1>7. Quiet' /\ Named'
  BY Names, CallsAssumption, NoneIsNothing DEF Start, Inv, Fence, Quiet, Named, Settled, TypeOK,
     Book, Reserved, Executing, Epochs, Alone, Waits, Seals, Announced, Recovering
<1>8. Desk'
  BY DEF Start, Inv, Desk, Fenced
<1> QED
  BY <1>1, <1>2, <1>3, <1>4, <1>5, <1>6, <1>7, <1>8 DEF Inv, Book, Fence

\* A fresh call is executed by nobody and is not the durable finish.
LEMMA BeginStep ==
    ASSUME Inv, NEW s \in Session, NEW c \in Call, Begin(s, c)
    PROVE  Inv'
<1> DEFINE Reserve == receipt' = [receipt EXCEPT ![c] = [state |-> "reserved", epoch |-> own[s], result |-> None]]
<1>a. /\ receipt[c].state = "none" /\ Reserve /\ pc[s] = "idle" /\ st[s] = "live"
      /\ \/ /\ pc' = [pc EXCEPT ![s] = "decide"] /\ cur' = [cur EXCEPT ![s] = c]
            /\ UNCHANGED <<res, before>>
         \/ UNCHANGED <<pc, cur, res, before>>
  BY DEF Begin, Fresh
<1>b. \A t \in Session : Executing(t) => cur[t] # c
  BY <1>a DEF Inv, Book, Reserved
<1>c. fin # None => fin.call # c
  BY <1>a DEF Inv, Book, Finishing
<1>1. TypeOK'
  <2>1. SessionType' /\ GateType' /\ SeenType'
    BY DEF Begin, Inv, TypeOK, SessionType, GateType, SeenType
  <2>2. DurableType'
    BY DEF Begin, Inv, TypeOK, DurableType, ReceiptStates
  <2>3. ExecType'
    <3>1. CASE UNCHANGED <<pc, cur, res, before>>
      BY <3>1 DEF Inv, TypeOK, ExecType
    <3>2. CASE pc' = [pc EXCEPT ![s] = "decide"] /\ cur' = [cur EXCEPT ![s] = c] /\ UNCHANGED <<res, before>>
      BY <3>2, Names DEF Inv, TypeOK, ExecType
    <3> QED
      BY <1>a, <3>1, <3>2
  <2> QED
    BY <2>1, <2>2, <2>3 DEF TypeOK, DurableType, SessionType, ExecType, GateType, SeenType
<1>2. Terminal'
  BY DEF Begin, Fresh, Inv, Book, Terminal
<1>3. Reserved'
  <2>1. \A t \in Session : t # s => pc'[t] = pc[t] /\ cur'[t] = cur[t]
    BY <1>a DEF Inv, TypeOK
  <2>2. \A d \in Call : receipt'[d].state # "none" => receipt'[d] = receipt[d] \/ d = c
    BY <1>a DEF Inv, TypeOK
  <2>3. \A d \in Call : receipt[d].state # "none" => receipt'[d] = receipt[d]
    BY <1>a DEF Inv, TypeOK
  <2>4. Executing(s)' => cur'[s] = c /\ receipt'[c].state = "reserved" /\ receipt'[c].epoch = own[s]
    BY <1>a DEF Inv, TypeOK, Executing
  <2> QED
    BY <1>a, <1>b, <2>1, <2>3, <2>4 DEF Inv, TypeOK, Book, Reserved, Executing, Begin
<1>4. Progress'
  BY <1>a, <1>b, <1>c, Names, CallsAssumption, NoneIsNothing DEF Begin, Fresh, Inv, Book,
     Progress, Early, Open, TypeOK, Reserved, Executing, Terminal, Answering, Finishing,
     AnswerTrue
<1>5. Answering'
  BY DEF Begin, Fresh, Inv, Book, Answering, TypeOK, Reserved, Executing
<1>6. Finishing'
  BY <1>a, <1>c DEF Begin, Fresh, Inv, Book, Finishing, TypeOK
<1>7. AnswerTrue'
  BY Names, CallsAssumption, NoneIsNothing DEF Begin, Fresh, Inv, Book, AnswerTrue, TypeOK,
     Reserved, Executing
<1>8. Epochs' /\ Alone' /\ Waits' /\ Seals'
  BY DEF Begin, Fresh, Inv, Fence, Epochs, Alone, Waits, Seals, Announced, Recovering,
     OneSuccessor, TypeOK
<1>9. Quiet'
  BY <1>a DEF Inv, TypeOK, Book, Reserved, Executing, Fence, Quiet, Alone, Settled, Begin
<1>10. Named'
  BY Names, CallsAssumption, NoneIsNothing DEF Begin, Fresh, Inv, Fence, Named, Settled, TypeOK,
     Book, Reserved, Executing
<1>11. Desk'
  BY DEF Begin, Fresh, Inv, Desk, Fenced, TypeOK
<1> QED
  BY <1>1, <1>2, <1>3, <1>4, <1>5, <1>6, <1>7, <1>8, <1>9, <1>10, <1>11 DEF Inv, Book, Fence

\* A recorded result is settled, so naming it in the checkpoint is harmless.
LEMMA ReplayStep ==
    ASSUME Inv, NEW s \in Session, NEW c \in Call, Replay(s, c)
    PROVE  Inv'
<1>a. st[s] = "live" /\ pc[s] = "idle" /\ receipt[c].result # None
  BY DEF Replay, Inv, TypeOK, Book, Reserved, Executing
<1>b. Forgotten(s)
  BY LogGrows DEF Replay, Inv, TypeOK, Forgotten
<1>c. active' = active \/ (own[s] = epoch /\ active' \in {None, c})
  BY DEF Replay, Published, ActiveFor, ActiveAfterFailure
<1>1. TypeOK'
  <2>1. ExecType' /\ GateType'
    BY DEF Replay, Inv, TypeOK, ExecType, GateType
  <2>2. DurableType'
    BY <1>a DEF Replay, Inv, TypeOK, DurableType, ActiveFor, ActiveAfterFailure
  <2>3. SessionType'
    BY <1>b DEF Replay, Inv, TypeOK, SessionType, Forgotten
  <2>4. SeenType'
    BY <1>a DEF Replay, Inv, TypeOK, SeenType, Tell
  <2> QED
    BY <2>1, <2>2, <2>3, <2>4 DEF TypeOK, DurableType, SessionType, ExecType, GateType, SeenType
<1>2. Terminal'
  BY DEF Replay, Inv, Book, Terminal
<1>3. Reserved'
  BY DEF Replay, Inv, TypeOK, Book, Reserved, Executing
<1>4. Progress'
  BY <1>a DEF Replay, Inv, TypeOK, Book, Reserved, Progress, Executing, Early, Open
<1>5. Answering'
  BY <1>a, Names DEF Replay, Inv, TypeOK, Book, Reserved, Answering, Progress, Executing, Early,
     Open
<1>6. Finishing'
  BY <1>a DEF Replay, Inv, TypeOK, Book, Finishing, Reserved
<1>7. AnswerTrue'
  BY DEF Replay, Inv, Book, AnswerTrue
<1>8. Epochs' /\ Alone' /\ Waits' /\ Seals'
  BY <1>a, <1>b, AppendFence DEF Replay, Inv, TypeOK
<1>9. Quiet'
  BY <1>a DEF Replay, Inv, TypeOK, Book, Fence, Quiet, Settled
<1>10. Named'
  <2>1. Settled(c) /\ receipt[c].state # "none"
    BY <1>a, NoneIsNothing DEF Replay, Inv, Book, Terminal, Answering, Settled
  <2> QED
    BY <1>c, <2>1, CallsAssumption DEF Replay, Inv, TypeOK, Fence, Named, Settled
<1>11. Desk'
  BY DEF Replay, Inv, Desk, Fenced
<1> QED
  BY <1>1, <1>2, <1>3, <1>4, <1>5, <1>6, <1>7, <1>8, <1>9, <1>10, <1>11 DEF Inv, Book, Fence

\* A call goes on only when no edit is unreported and no seal is set.
LEMMA DecideStep ==
    ASSUME Inv, NEW s \in Session, Decide(s)
    PROVE  Inv'
<1>1. TypeOK'
  <2>1. DurableType'
    BY DEF Decide, Inv, TypeOK, DurableType
  <2>2. SessionType'
    BY DEF Decide, Inv, TypeOK, SessionType
  <2>3. ExecType'
    BY Names DEF Decide, Inv, TypeOK, ExecType
  <2>4. GateType'
    BY DEF Decide, Inv, TypeOK, GateType
  <2>5. SeenType'
    BY DEF Decide, Inv, TypeOK, SeenType
  <2> QED
    BY <2>1, <2>2, <2>3, <2>4, <2>5 DEF TypeOK, DurableType, SessionType, ExecType, GateType,
       SeenType
<1>2. Terminal'
  BY DEF Decide, Inv, Book, Terminal
<1>3. Reserved'
  BY DEF Decide, Inv, Book, Reserved, Executing, TypeOK
<1>4. Progress'
  BY Names DEF Decide, Inv, Book, Progress, Early, Open, TypeOK
<1>5. Answering' /\ Finishing' /\ AnswerTrue'
  BY DEF Decide, Inv, Book, Answering, Finishing, AnswerTrue, TypeOK
<1>6. Epochs' /\ Alone' /\ Waits' /\ Seals'
  BY DEF Decide, Inv, Fence, Epochs, Alone, Waits, Seals, Announced, Recovering, OneSuccessor,
     TypeOK
<1>7. Quiet' /\ Named'
  BY DEF Decide, Inv, Fence, Quiet, Named, Settled, TypeOK
<1>8. Desk'
  BY DEF Decide, Inv, Desk, Fenced, TypeOK
<1> QED
  BY <1>1, <1>2, <1>3, <1>4, <1>5, <1>6, <1>7, <1>8 DEF Inv, Book, Fence

\* Nothing has taken effect, and the receipt says so.
LEMMA RefuseStep ==
    ASSUME Inv, NEW s \in Session, Refuse(s)
    PROVE  Inv'
<1>a. /\ Executing(s) /\ st[s] = "live" /\ cur[s] \in Call
      /\ \A t \in Session : t # s /\ Executing(t) => cur[t] \in Call \ {cur[s]}
  BY DEF Refuse, Inv, TypeOK, Book, Reserved, Executing
<1>b. UNCHANGED receipt \/ Written(s, cur[s], "failed", res[s])
  BY <1>a, PutWrites, Names DEF Refuse, Inv, TypeOK, ReceiptStates, Book, Progress, Codes
<1>c. Forgotten(s)
  BY LogGrows DEF Refuse, Inv, TypeOK, Forgotten
<1>d. /\ res[s] \in Codes \ {"applied", "failed", "verified"}
      /\ landed[cur[s]] = 0 /\ StateFor(res[s]) = "failed"
      /\ receipt[cur[s]].result = None /\ (fin # None => fin.call # cur[s])
  BY Names DEF Refuse, Inv, Book, Progress, Early, Open, FailedCodes
<1>e. /\ UNCHANGED <<landed, fin, active, epoch, st, own>>
      /\ pc'[s] \in {"idle", "announce", "report", "stop"}
      /\ pc'[s] # "idle" => cur'[s] = cur[s]
      /\ \A t \in Session : t # s => pc'[t] = pc[t] /\ cur'[t] = cur[t] /\ res'[t] = res[t]
  BY DEF Refuse, Inv, TypeOK
<1>1. TypeOK'
  <2>1. DurableType'
    BY <1>a, <1>b DEF Refuse, Inv, TypeOK, DurableType, Written
  <2>2. SessionType'
    BY <1>a, <1>c DEF Refuse, Inv, TypeOK, SessionType, Forgotten
  <2>3. ExecType'
    BY Names DEF Refuse, Inv, TypeOK, ExecType
  <2>4. GateType'
    BY DEF Refuse, Inv, TypeOK, GateType
  <2>5. SeenType'
    BY <1>a, <1>d DEF Refuse, Inv, TypeOK, SeenType, Tell
  <2> QED
    BY <2>1, <2>2, <2>3, <2>4, <2>5 DEF TypeOK, DurableType, SessionType, ExecType, GateType,
       SeenType
<1>2. Terminal'
  BY <1>a, <1>b, <1>d, <1>e, Sorts DEF Inv, TypeOK, Written, Book, Terminal
<1>3. Reserved'
  BY <1>a, <1>b, <1>e DEF Inv, Written, Book, Reserved, Executing
<1>4. Progress'
  BY <1>a, <1>b, <1>d DEF Refuse, Inv, TypeOK, Written, Book, Reserved, Progress, Executing,
     Early, Open
<1>5. Answering'
  <2>1. pc'[s] = "idle"
    BY DEF Refuse, Inv, TypeOK
  <2> QED
    BY <1>a, <1>b, <1>e, <2>1 DEF Inv, Written, Book, Reserved, Answering, Executing
<1>6. Finishing'
  BY <1>a, <1>b, <1>d, <1>e, Sorts DEF Inv, TypeOK, Written, Book, Finishing
<1>7. AnswerTrue'
  BY <1>a, <1>b, <1>d, <1>e DEF Written, Inv, Book, AnswerTrue
<1>8. Epochs' /\ Alone' /\ Waits' /\ Seals'
  BY <1>a, <1>c, AppendFence DEF Refuse, Inv, TypeOK
<1>9. Quiet' /\ Named'
  BY <1>a, <1>b, <1>e, WriteKeeps
<1>10. Desk'
  BY DEF Refuse, Inv, Desk, Fenced
<1> QED
  BY <1>1, <1>2, <1>3, <1>4, <1>5, <1>6, <1>7, <1>8, <1>9, <1>10 DEF Inv, Book, Fence

\* The receipt is in flight; it was unsettled before.
LEMMA MarkStep ==
    ASSUME Inv, NEW s \in Session, Mark(s)
    PROVE  Inv'
<1>a. /\ Executing(s) /\ st[s] = "live" /\ cur[s] \in Call
      /\ \A t \in Session : t # s /\ Executing(t) => cur[t] \in Call \ {cur[s]}
  BY DEF Mark, Inv, TypeOK, Book, Reserved, Executing
<1>b. UNCHANGED receipt \/ Written(s, cur[s], "in_flight", None)
  BY <1>a, PutWrites, Names DEF Mark, Inv, TypeOK, ReceiptStates
<1>e. /\ UNCHANGED <<landed, fin, active, epoch, st, own>>
      /\ pc'[s] \in {"idle", "announce", "report", "stop"}
      /\ pc'[s] # "idle" => cur'[s] = cur[s]
      /\ \A t \in Session : t # s => pc'[t] = pc[t] /\ cur'[t] = cur[t] /\ res'[t] = res[t]
  BY DEF Mark, Inv, TypeOK
<1>1. TypeOK'
  <2>1. SessionType' /\ GateType' /\ SeenType'
    BY DEF Mark, Inv, TypeOK, SessionType, GateType, SeenType
  <2>2. DurableType'
    BY <1>a, <1>b DEF Mark, Inv, TypeOK, DurableType, Written
  <2>3. ExecType'
    BY Names, Moves DEF Mark, Inv
  <2> QED
    BY <2>1, <2>2, <2>3 DEF TypeOK, DurableType, SessionType, ExecType, GateType, SeenType
<1>2. Terminal'
  BY <1>a, <1>b, <1>e, Sorts DEF Inv, TypeOK, Written, Book, Terminal
<1>3. Reserved'
  BY <1>a, <1>b, <1>e DEF Inv, Written, Book, Reserved, Executing
<1>4. Progress'
  BY <1>a, <1>b DEF Mark, Inv, TypeOK, Written, Book, Reserved, Progress, Executing, Early, Open
<1>5. Answering'
  <2>1. pc'[s] \in {"idle", "announce"}
    BY DEF Mark, Inv, TypeOK
  <2> QED
    BY <1>a, <1>b, <1>e, <2>1 DEF Inv, Written, Book, Reserved, Answering, Executing
<1>6. Finishing'
  BY <1>a, <1>b, <1>e, Sorts DEF Inv, TypeOK, Written, Book, Finishing
<1>7. AnswerTrue'
  BY <1>a, <1>b, <1>e, Sorts, Names DEF Inv, TypeOK, Written, Book, AnswerTrue
<1>8. Epochs' /\ Alone' /\ Waits' /\ Seals'
  BY <1>a, <1>b DEF Mark, Inv, Fence, Epochs, Alone, Waits, Seals, Announced, Recovering,
     OneSuccessor, Written, TypeOK
<1>9. Quiet' /\ Named'
  BY <1>a, <1>b, <1>e, WriteKeeps
<1>10. Desk'
  BY DEF Mark, Inv, Desk, Fenced, TypeOK
<1> QED
  BY <1>1, <1>2, <1>3, <1>4, <1>5, <1>6, <1>7, <1>8, <1>9, <1>10 DEF Inv, Book, Fence

\* The decisive step: the event is appended, so this session is of the current
\* epoch, knows the log, is not sealed, and everybody else is behind from now on.
LEMMA AnnounceStep ==
    ASSUME Inv, NEW s \in Session, Announce(s)
    PROVE  Inv'
<1>a. st[s] = "live" /\ cur[s] \in Call
  BY DEF Announce, Inv, TypeOK, Book, Reserved, Executing
<1>b. Forgotten(s)
  BY LogGrows DEF Announce, Inv, TypeOK, Forgotten
<1>c. active' = active \/ (own[s] = epoch /\ active' \in {None, cur[s]})
  BY DEF Announce, Published, ActiveFor, ActiveAfterFailure
<1>d. own[s] = epoch => fin = None
  BY DEF Announce, Inv, TypeOK, Fence, Epochs, Seals
<1>1. TypeOK'
  <2>1. GateType' /\ SeenType'
    BY DEF Announce, Inv, TypeOK, GateType, SeenType
  <2>2. DurableType'
    BY <1>a DEF Announce, Inv, TypeOK, DurableType, ActiveFor, ActiveAfterFailure
  <2>3. SessionType'
    BY <1>b DEF Announce, Inv, TypeOK, SessionType, Forgotten
  <2>4. ExecType'
    <3>1. CASE Idle(s)
      BY <3>1, Names, Moves DEF Inv
    <3>2. CASE ~Idle(s)
      <4>1. /\ cur' = cur /\ before' = [before EXCEPT ![s] = revision[s]]
            /\ pc' = [pc EXCEPT ![s] = "persist"] \/ pc' = [pc EXCEPT ![s] = "run"]
            /\ res' = [res EXCEPT ![s] = "cancelled"] \/ res' = res
        BY <3>2 DEF Announce
      <4>2. cur' \in [Session -> Call \cup {None}] /\ before' \in [Session -> Nat]
        BY <4>1 DEF Inv, TypeOK
      <4>3. pc' \in [Session -> PCs] /\ res' \in [Session -> Codes \cup {None}]
        BY <4>1, Names DEF Inv, TypeOK
      <4> QED
        BY <4>2, <4>3 DEF ExecType
    <3> QED
      BY <3>1, <3>2
  <2> QED
    BY <2>1, <2>2, <2>3, <2>4 DEF TypeOK, DurableType, SessionType, ExecType, GateType, SeenType
<1>2. Terminal'
  BY DEF Announce, Inv, Book, Terminal
<1>3. Reserved'
  <2>1. \A t \in Session : Executing(t)' => Executing(t) /\ cur'[t] = cur[t]
    BY DEF Announce, Inv, TypeOK, Executing
  <2>2. UNCHANGED <<receipt, st, own>>
    BY DEF Announce
  <2> QED
    BY <2>1, <2>2 DEF Inv, Book, Reserved
<1>4. Progress'
  BY <1>a DEF Announce, Inv, TypeOK, Book, Reserved, Progress, Executing, Early, Open
<1>5. Answering'
  BY <1>a, Names DEF Announce, Inv, TypeOK, Book, Reserved, Answering, Progress, Executing, Early,
     Open
<1>6. Finishing'
  BY <1>a DEF Announce, Inv, TypeOK, Book, Finishing, Reserved
<1>7. AnswerTrue'
  BY DEF Announce, Inv, Book, AnswerTrue
<1>8. Epochs' /\ Alone' /\ Waits' /\ Seals'
  <2>1. CASE pc'[s] # "run"
    <3>1. pc'[s] \in {"idle", "persist"} /\ \A t \in Session \ {s} : pc'[t] = pc[t]
      BY <2>1 DEF Announce, Inv, TypeOK
    <3> QED
      BY <1>a, <1>b, <3>1, AppendFence DEF Announce
  <2>2. CASE pc'[s] = "run"
    <3>1. Published(s) /\ pc' = [pc EXCEPT ![s] = "run"] /\ pc[s] = "announce"
      BY <2>2 DEF Announce, Inv, TypeOK
    <3>2. /\ own[s] = epoch
          /\ \A t \in Session : t # s /\ st[t] # "off" => behind'[t]
      BY <3>1, PublishedOver DEF Inv
    <3>3. fin = None
      BY <1>d, <3>2
    <3>4. UNCHANGED <<epoch, st, own, seal, fin>>
      BY DEF Announce
    <3>5. Epochs'
      BY <3>4 DEF Inv, Fence, Epochs
    <3>6. Alone'
      BY <1>a, <1>b, <3>4 DEF Inv, Fence, Alone, Forgotten
    <3>7. Waits'
      BY <1>a, <1>b, <3>1, <3>2, <3>4 DEF Inv, TypeOK, Fence, Epochs, Waits, Announced, Forgotten
    <3>8. Seals'
      BY <1>a, <1>b, <3>1, <3>3, <3>4 DEF Inv, TypeOK, Fence, Seals, Announced, Recovering,
         OneSuccessor, Forgotten
    <3> QED
      BY <3>5, <3>6, <3>7, <3>8
  <2> QED
    BY <2>1, <2>2
<1>9. Quiet'
  BY <1>a DEF Announce, Inv, TypeOK, Book, Fence, Quiet, Settled
<1>10. Named'
  <2>1. receipt[cur[s]].state # "none"
    BY <1>a DEF Announce, Inv, Book, Reserved, Executing
  <2> QED
    BY <1>c, <1>d, <2>1 DEF Announce, Inv, TypeOK, Fence, Named, Settled
<1>11. Desk'
  BY DEF Announce, Inv, Desk, Fenced, TypeOK
<1> QED
  BY <1>1, <1>2, <1>3, <1>4, <1>5, <1>6, <1>7, <1>8, <1>9, <1>10, <1>11 DEF Inv, Book, Fence

\* The effect.
LEMMA LandStep ==
    ASSUME Inv, NEW s \in Session, Land(s)
    PROVE  Inv'
<1>1. TypeOK'
  BY Names DEF Land, Mutator, Inv, TypeOK, Book, Reserved, Executing
<1>2. Terminal' /\ Reserved' /\ Progress'
  BY DEF Land, Mutator, Inv, Book, Terminal, Reserved, Progress, Executing, Early, Open, TypeOK
<1>3. Answering'
  BY DEF Land, Mutator, Inv, Book, Answering, TypeOK, Reserved, Executing
<1>4. Finishing'
  BY DEF Land, Mutator, Inv, Book, Finishing
<1>5. AnswerTrue'
  BY Names, CallsAssumption, NoneIsNothing DEF Land, Mutator, Inv, Book, AnswerTrue, TypeOK,
     Reserved, Executing, Terminal, Progress, Answering, Finishing, Early, Open
<1>6. Epochs' /\ Alone' /\ Waits' /\ Seals'
  BY DEF Land, Mutator, Inv, Fence, Epochs, Alone, Waits, Seals, Announced, Recovering,
     OneSuccessor
<1>7. Quiet' /\ Named'
  BY DEF Land, Mutator, Inv, Fence, Quiet, Named, Settled
<1>8. Desk'
  BY DEF Land, Mutator, Inv, Desk, Fenced, TypeOK
<1> QED
  BY <1>1, <1>2, <1>3, <1>4, <1>5, <1>6, <1>7, <1>8 DEF Inv, Book, Fence

\* A success without change has not landed; what it acknowledges is its own
\* revision, and no edit was unreported when it began.
LEMMA SucceedStep ==
    ASSUME Inv, NEW s \in Session, Succeed(s)
    PROVE  Inv'
<1>1. TypeOK'
  <2>1. DurableType' /\ SessionType'
    BY DEF Succeed, Inv, TypeOK, DurableType, SessionType
  <2>2. ExecType'
    BY Names DEF Succeed, Inv, TypeOK, ExecType
  <2>3. GateType'
    BY DEF Succeed, Inv, TypeOK, GateType, Acknowledge
  <2>4. SeenType'
    BY DEF Succeed, Inv, TypeOK, SeenType, Acknowledge
  <2> QED
    BY <2>1, <2>2, <2>3, <2>4 DEF TypeOK, DurableType, SessionType, ExecType, GateType, SeenType
<1>2. Terminal' /\ Reserved' /\ Progress'
  BY DEF Succeed, Running, Inv, Book, Terminal, Reserved, Progress, Executing, Early, Open
<1>3. Answering'
  BY Names, NoneIsNothing DEF Succeed, Running, Mutator, Inv, TypeOK, Book, Reserved, Executing,
     Progress, Answering, Early, Open
<1>4. Finishing'
  BY DEF Succeed, Inv, TypeOK, Book, Finishing
<1>5. AnswerTrue'
  BY DEF Succeed, Running, Inv, Book, AnswerTrue
<1>6. Epochs' /\ Alone' /\ Waits' /\ Seals'
  BY DEF Succeed, Running, Inv, Fence, Epochs, Alone, Waits, Seals, Announced, Recovering,
     OneSuccessor
<1>7. Quiet' /\ Named'
  BY DEF Succeed, Running, Inv, Fence, Quiet, Named, Settled
<1>8. Desk'
  <2>1. UNCHANGED <<expected, unseen>> \/ (cur[s] \notin ReadCall /\ Acknowledge(s))
    BY CallsAssumption DEF Succeed
  <2>2. UNCHANGED revision /\ pc' = [pc EXCEPT ![s] = "persist"] /\ UNCHANGED cur
    BY DEF Succeed
  <2>3. cur[s] \notin ReadCall /\ Acknowledge(s) => unseen'[s] = FALSE
    BY DEF Acknowledge, Succeed, Inv, TypeOK, Desk, Fenced, Running
  <2> QED
    BY <2>1, <2>2, <2>3 DEF Acknowledge, Inv, TypeOK, Desk
<1> QED
  BY <1>1, <1>2, <1>3, <1>4, <1>5, <1>6, <1>7, <1>8 DEF Inv, Book, Fence

LEMMA FailStep ==
    ASSUME Inv, NEW s \in Session, Fail(s)
    PROVE  Inv'
<1>1. TypeOK'
  <2>1. DurableType' /\ SessionType'
    BY DEF Fail, Inv, TypeOK, DurableType, SessionType
  <2>2. ExecType'
    BY Names DEF Fail, Inv, TypeOK, ExecType, FailureCode
  <2>3. GateType'
    BY DEF Fail, Inv, TypeOK, GateType, Acknowledge
  <2>4. SeenType'
    BY DEF Fail, Inv, TypeOK, SeenType, Acknowledge
  <2> QED
    BY <2>1, <2>2, <2>3, <2>4 DEF TypeOK, DurableType, SessionType, ExecType, GateType, SeenType
<1>2. Terminal' /\ Reserved' /\ Progress'
  BY DEF Fail, Running, Inv, Book, Terminal, Reserved, Progress, Executing, Early, Open
<1>3. Answering'
  BY Names, CallsAssumption, NoneIsNothing DEF Inv, TypeOK, Book, Terminal, Reserved, Progress,
     Answering, Finishing, AnswerTrue, Executing, Early, Open, Settled, Fresh, Mutator, Running,
     Fenced, Acknowledge, FailureCode, Fail
<1>4. Finishing'
  BY DEF Fail, Running, Inv, Book, Finishing
<1>5. AnswerTrue'
  BY DEF Fail, Running, Inv, Book, AnswerTrue
<1>6. Epochs' /\ Alone' /\ Waits' /\ Seals'
  BY DEF Fail, Running, Inv, Fence, Epochs, Alone, Waits, Seals, Announced, Recovering,
     OneSuccessor
<1>7. Quiet' /\ Named'
  BY DEF Fail, Running, Inv, Fence, Quiet, Named, Settled
<1>8. Desk'
  <2>1. UNCHANGED <<expected, unseen>> \/ (cur[s] \notin ReadCall /\ Acknowledge(s))
    BY CallsAssumption DEF Fail
  <2>2. UNCHANGED revision /\ pc' = [pc EXCEPT ![s] = "persist"] /\ UNCHANGED cur
    BY DEF Fail
  <2>3. cur[s] \notin ReadCall /\ Acknowledge(s) => unseen'[s] = FALSE
    BY DEF Acknowledge, Fail, Inv, TypeOK, Desk, Fenced, Running
  <2> QED
    BY <2>1, <2>2, <2>3 DEF Acknowledge, Inv, TypeOK, Desk
<1> QED
  BY <1>1, <1>2, <1>3, <1>4, <1>5, <1>6, <1>7, <1>8 DEF Inv, Book, Fence

LEMMA ThrowStep ==
    ASSUME Inv, NEW s \in Session, Throw(s)
    PROVE  Inv'
<1>1. TypeOK'
  <2>1. DurableType' /\ SessionType' /\ GateType' /\ SeenType'
    BY DEF Throw, Inv, TypeOK, DurableType, SessionType, GateType, SeenType
  <2>2. ExecType'
    BY Names DEF Throw, Inv, TypeOK, ExecType, Book, Reserved, Executing
  <2> QED
    BY <2>1, <2>2 DEF TypeOK, DurableType, SessionType, ExecType, GateType, SeenType
<1>2. Terminal' /\ Reserved' /\ Progress'
  BY DEF Throw, Running, Inv, Book, Terminal, Reserved, Progress, Executing, Early, Open, TypeOK
<1>3. Answering'
  BY Names, CallsAssumption, NoneIsNothing DEF Throw, Running, Inv, Book, Answering, TypeOK,
     Reserved, Executing, Terminal, Progress, Finishing, AnswerTrue, Early, Open
<1>4. Finishing'
  BY DEF Throw, Running, Inv, Book, Finishing
<1>5. AnswerTrue'
  BY DEF Throw, Running, Inv, Book, AnswerTrue
<1>6. Epochs' /\ Alone' /\ Waits' /\ Seals'
  BY DEF Throw, Running, Inv, Fence, Epochs, Alone, Waits, Seals, Announced, Recovering,
     OneSuccessor, TypeOK
<1>7. Quiet' /\ Named'
  BY DEF Throw, Running, Inv, Fence, Quiet, Named, Settled, TypeOK
<1>8. Desk'
  BY DEF Throw, Running, Inv, Desk, Fenced, TypeOK
<1> QED
  BY <1>1, <1>2, <1>3, <1>4, <1>5, <1>6, <1>7, <1>8 DEF Inv, Book, Fence

\* All other calls are settled, and stay so: nobody else writes in this epoch.
LEMMA VerifyStep ==
    ASSUME Inv, NEW s \in Session, Verify(s)
    PROVE  Inv'
<1>1. TypeOK'
  BY Names DEF Verify, Inv, TypeOK
<1>2. Terminal' /\ Reserved' /\ Progress'
  BY DEF Verify, Inv, Book, Terminal, Reserved, Progress, Executing, Early, Open
<1>3. Answering' /\ Finishing' /\ AnswerTrue'
  BY DEF Verify, Inv, Book, Answering, Finishing, AnswerTrue
<1>4. Epochs' /\ Alone' /\ Waits' /\ Seals'
  BY DEF Verify, Inv, Fence, Epochs, Alone, Waits, Seals, Announced, Recovering, OneSuccessor
<1>5. Quiet'
  BY DEF Verify, Inv, Fence, Quiet, Settled, OthersSettled
<1>6. Named'
  BY DEF Verify, Inv, Fence, Named, Settled
<1>7. Desk'
  BY DEF Verify, Inv, Desk, Fenced
<1> QED
  BY <1>1, <1>2, <1>3, <1>4, <1>5, <1>6, <1>7 DEF Inv, Book, Fence

LEMMA SealFinishStep ==
    ASSUME Inv, NEW s \in Session, SealFinish(s)
    PROVE  Inv'
<1>1. TypeOK'
  <2>1. DurableType' /\ SessionType' /\ GateType' /\ SeenType'
    BY DEF SealFinish, Inv, TypeOK, DurableType, SessionType, GateType, SeenType
  <2>2. ExecType'
    BY Names DEF SealFinish, Inv, TypeOK, ExecType
  <2> QED
    BY <2>1, <2>2 DEF TypeOK, DurableType, SessionType, ExecType, GateType, SeenType
<1>2. Terminal' /\ Reserved' /\ Progress'
  BY DEF SealFinish, Inv, Book, Terminal, Reserved, Progress, Executing, Early, Open, TypeOK
<1>3. Answering'
  BY Names, CallsAssumption, NoneIsNothing DEF SealFinish, Inv, Book, Answering, TypeOK, Reserved,
     Executing, Terminal, Progress, Finishing, AnswerTrue, Early, Open
<1>4. Finishing'
  BY DEF SealFinish, Inv, Book, Finishing
<1>5. AnswerTrue'
  BY DEF SealFinish, Inv, Book, AnswerTrue
<1>6. Epochs' /\ Alone' /\ Waits' /\ Seals'
  BY DEF SealFinish, Inv, Fence, Epochs, Alone, Waits, Seals, Announced, Recovering, OneSuccessor,
     TypeOK, Book, Reserved, Executing
<1>7. Quiet' /\ Named'
  BY DEF SealFinish, Inv, Fence, Quiet, Named, Settled, TypeOK
<1>8. Desk'
  BY DEF SealFinish, Inv, Desk, Fenced, TypeOK
<1> QED
  BY <1>1, <1>2, <1>3, <1>4, <1>5, <1>6, <1>7, <1>8 DEF Inv, Book, Fence

\* The finish becomes durable: no other session of this epoch or a later one is
\* live, whoever else recovers is behind, and everything else is settled.
LEMMA KeepFinishStep ==
    ASSUME Inv, NEW s \in Session, KeepFinish(s)
    PROVE  Inv'
<1>1. TypeOK'
  <2>1. SessionType' /\ GateType'
    BY DEF KeepFinish, Inv, TypeOK, SessionType, GateType
  <2>2. DurableType'
    BY DEF KeepFinish, Inv, TypeOK, DurableType, Book, Progress
  <2>3. ExecType'
    BY Names DEF KeepFinish, Inv, TypeOK, ExecType
  <2>4. SeenType'
    BY DEF KeepFinish, Inv, TypeOK, SeenType, Progress
  <2> QED
    BY <2>1, <2>2, <2>3, <2>4 DEF TypeOK, DurableType, SessionType, ExecType, GateType, SeenType
<1>2. Terminal'
  BY DEF KeepFinish, Inv, Book, Terminal, TypeOK, Reserved, Executing
<1>3. Reserved'
  BY DEF KeepFinish, Inv, Book, Reserved, Executing, TypeOK
<1>4. Progress'
  BY Names, CallsAssumption, NoneIsNothing DEF KeepFinish, Inv, Book, Progress, Early, Open,
     TypeOK, Reserved, Executing
<1>5. Answering'
  BY DEF KeepFinish, Inv, Book, Answering, TypeOK, Reserved, Executing
<1>6. Finishing'
  BY Names, CallsAssumption, NoneIsNothing DEF KeepFinish, Inv, Book, Finishing, TypeOK, Reserved,
     Executing, Terminal, Progress, Answering, AnswerTrue, Early, Open
<1>7. AnswerTrue'
  BY Names, CallsAssumption, NoneIsNothing DEF KeepFinish, Inv, Book, AnswerTrue, TypeOK,
     Reserved, Executing, Terminal, Progress, Answering, Finishing, Early, Open
<1>8. Epochs' /\ Alone' /\ Waits' /\ Seals'
  BY DEF KeepFinish, Inv, Fence, Epochs, Alone, Waits, Seals, Announced, Recovering, OneSuccessor,
     TypeOK, Book, Reserved, Executing
<1>9. Quiet'
  BY DEF Inv, TypeOK, Fence, Quiet, Settled, KeepFinish
<1>10. Named'
  BY CallsAssumption DEF KeepFinish, Inv, TypeOK, Fence, Quiet, Named, Settled
<1>11. Desk'
  BY DEF KeepFinish, Inv, Desk, Fenced, TypeOK
<1> QED
  BY <1>1, <1>2, <1>3, <1>4, <1>5, <1>6, <1>7, <1>8, <1>9, <1>10, <1>11 DEF Inv, Book, Fence

LEMMA CheckFinishStep ==
    ASSUME Inv, NEW s \in Session, CheckFinish(s)
    PROVE  Inv'
<1>a. st[s] = "live" /\ cur[s] \in Call
  BY DEF CheckFinish, Inv, TypeOK, Book, Reserved, Executing
<1>b. Forgotten(s)
  BY LogGrows DEF CheckFinish, Inv, TypeOK, Forgotten
<1>1. TypeOK'
  <2>1. GateType' /\ SeenType'
    BY DEF CheckFinish, Inv, TypeOK, GateType, SeenType
  <2>2. DurableType'
    BY <1>a DEF CheckFinish, Inv, TypeOK, DurableType, ActiveFor, ActiveAfterFailure
  <2>3. SessionType'
    BY <1>b DEF CheckFinish, Inv, TypeOK, SessionType, Forgotten
  <2>4. ExecType'
    <3>a. /\ cur' = cur /\ before' = before
          /\ pc' = [pc EXCEPT ![s] = "persist"] \/ pc' = [pc EXCEPT ![s] = "stop"]
          /\ res' = [res EXCEPT ![s] = "verified"] \/ res' = res
      BY DEF CheckFinish
    <3>b. cur' \in [Session -> Call \cup {None}] /\ before' \in [Session -> Nat]
      BY <3>a DEF Inv, TypeOK
    <3>c. pc' \in [Session -> PCs] /\ res' \in [Session -> Codes \cup {None}]
      BY <3>a, Names DEF Inv, TypeOK
    <3> QED
      BY <3>b, <3>c DEF ExecType
  <2> QED
    BY <2>1, <2>2, <2>3, <2>4 DEF TypeOK, DurableType, SessionType, ExecType, GateType, SeenType
<1>2. Terminal'
  BY DEF CheckFinish, Inv, Book, Terminal
<1>3. Reserved'
  BY DEF CheckFinish, Inv, TypeOK, Book, Reserved, Executing
<1>4. Progress'
  BY <1>a DEF CheckFinish, Inv, TypeOK, Book, Reserved, Progress, Executing, Early, Open
<1>5. Answering'
  BY <1>a, Names, NoneIsNothing DEF CheckFinish, Inv, TypeOK, Book, Reserved, Answering,
     Finishing, Progress, Executing
<1>6. Finishing'
  BY <1>a DEF CheckFinish, Inv, TypeOK, Book, Finishing, Reserved
<1>7. AnswerTrue'
  BY DEF CheckFinish, Inv, Book, AnswerTrue
<1>8. Epochs' /\ Alone' /\ Waits' /\ Seals'
  BY <1>a, <1>b, AppendFence DEF CheckFinish, Inv, TypeOK
<1>9. Quiet'
  BY <1>a DEF CheckFinish, Inv, TypeOK, Book, Fence, Quiet, Settled
<1>10. Named'
  BY <1>a DEF CheckFinish, Inv, TypeOK, Book, Reserved, Terminal, Executing, Fence, Named,
     Settled, ActiveFor, ActiveAfterFailure
<1>11. Desk'
  BY DEF CheckFinish, Inv, Desk, Fenced, TypeOK
<1> QED
  BY <1>1, <1>2, <1>3, <1>4, <1>5, <1>6, <1>7, <1>8, <1>9, <1>10, <1>11 DEF Inv, Book, Fence

\* The result is written, unless it is there already, and then it is the same.
LEMMA PersistStep ==
    ASSUME Inv, NEW s \in Session, Persist(s)
    PROVE  Inv'
<1>a. /\ Executing(s) /\ st[s] = "live" /\ cur[s] \in Call
      /\ \A t \in Session : t # s /\ Executing(t) => cur[t] \in Call \ {cur[s]}
  BY DEF Persist, Inv, TypeOK, Book, Reserved, Executing
<1>b. (UNCHANGED receipt /\ pc'[s] = "stop") \/ Written(s, cur[s], StateFor(res[s]), res[s])
  <2>1. res[s] \in Codes /\ StateFor(res[s]) \in ReceiptStates
    BY Names DEF Persist, Inv, Book, Answering, ReceiptStates
  <2>2. (UNCHANGED receipt /\ pc'[s] = "stop") \/ Put(s, cur[s], StateFor(res[s]), res[s])
    BY DEF Persist, Inv, TypeOK
  <2> QED
    BY <1>a, <2>1, <2>2, PutWrites DEF Inv
<1>c. /\ res[s] \in Codes
      /\ StateFor(res[s]) \in {"completed", "failed"}
      /\ (res[s] \in Codes \ {"applied", "failed", "verified"} => landed[cur[s]] = 0)
      /\ (res[s] = "verified" <=> (fin # None /\ fin.call = cur[s]))
  BY Names DEF Persist, Inv, Book, Answering
<1>d. \A t \in Session : t # s /\ Executing(t) => cur[t] # cur[s]
  BY DEF Persist, Inv, Book, Reserved, Executing
<1>e. /\ UNCHANGED <<landed, fin, active, epoch, st, own>>
      /\ pc'[s] \in {"idle", "announce", "report", "stop"}
      /\ pc'[s] # "idle" => cur'[s] = cur[s]
      /\ \A t \in Session : t # s => pc'[t] = pc[t] /\ cur'[t] = cur[t] /\ res'[t] = res[t]
  BY DEF Persist, Inv, TypeOK
<1>1. TypeOK'
  <2>1. SessionType' /\ GateType' /\ SeenType'
    BY DEF Persist, Inv, TypeOK, SessionType, GateType, SeenType
  <2>2. DurableType'
    BY <1>a, <1>b DEF Persist, Inv, TypeOK, DurableType, Written
  <2>3. ExecType'
    BY Names DEF Persist, Inv, TypeOK, ExecType
  <2> QED
    BY <2>1, <2>2, <2>3 DEF TypeOK, DurableType, SessionType, ExecType, GateType, SeenType
<1>2. Terminal'
  BY <1>a, <1>b, <1>c, <1>d, <1>e, Sorts DEF Inv, TypeOK, Written, Book, Terminal
<1>3. Reserved'
  BY <1>a, <1>b, <1>c, <1>e DEF Inv, Written, Book, Reserved, Executing
<1>4. Progress'
  BY <1>a, <1>b, <1>c, <1>d DEF Persist, Inv, TypeOK, Written, Book, Reserved, Progress,
     Executing, Early, Open
<1>5. Answering'
  <2>1. \A t \in Session : t # s => pc'[t] = pc[t] /\ cur'[t] = cur[t]
    BY DEF Persist, Inv, TypeOK
  <2>2. \A t \in Session : t # s /\ Executing(t) => receipt'[cur[t]] = receipt[cur[t]]
    BY <1>b, <1>d DEF Written, Inv, Book, Reserved
  <2>3. pc'[s] = "report" => receipt'[cur[s]].result = res[s]
    BY <1>b DEF Written
  <2>4. pc'[s] \in {"report", "stop"}
    BY DEF Persist, Inv, TypeOK
  <2> QED
    BY <1>c, <2>1, <2>2, <2>3, <2>4 DEF Persist, Inv, Book, Answering, Executing
<1>6. Finishing'
  BY <1>a, <1>b, <1>c, <1>d, <1>e, Sorts DEF Inv, TypeOK, Written, Book, Finishing
<1>7. AnswerTrue'
  BY <1>a, <1>b, <1>c, <1>d, <1>e, Sorts, Names DEF Inv, TypeOK, Written, Book, AnswerTrue
<1>8. Epochs' /\ Alone' /\ Waits' /\ Seals'
  BY <1>a, <1>b DEF Persist, Inv, Fence, Epochs, Alone, Waits, Seals, Announced, Recovering,
     OneSuccessor, Written, TypeOK
<1>9. Quiet' /\ Named'
  BY <1>a, <1>b, <1>c, <1>e, WriteKeeps
<1>10. Desk'
  BY DEF Persist, Inv, Desk, Fenced, TypeOK
<1> QED
  BY <1>1, <1>2, <1>3, <1>4, <1>5, <1>6, <1>7, <1>8, <1>9, <1>10 DEF Inv, Book, Fence

\* An ambiguous receipt replaces no terminal one.
LEMMA StopStep ==
    ASSUME Inv, NEW s \in Session, Stop(s)
    PROVE  Inv'
<1>a. /\ Executing(s) /\ st[s] = "live" /\ cur[s] \in Call
      /\ \A t \in Session : t # s /\ Executing(t) => cur[t] \in Call \ {cur[s]}
  BY DEF Stop, Inv, TypeOK, Book, Reserved, Executing
<1>b. UNCHANGED receipt \/ Written(s, cur[s], "ambiguous", None)
  BY <1>a, PutWrites, Names DEF Stop, Inv, TypeOK, ReceiptStates
<1>c. Forgotten(s)
  BY LogGrows DEF Stop, Inv, TypeOK, Forgotten
<1>e. /\ UNCHANGED <<landed, fin, active, epoch, st, own>>
      /\ pc'[s] \in {"idle", "announce", "report", "stop"}
      /\ pc'[s] # "idle" => cur'[s] = cur[s]
      /\ \A t \in Session : t # s => pc'[t] = pc[t] /\ cur'[t] = cur[t] /\ res'[t] = res[t]
  BY DEF Stop, Inv, TypeOK
<1>1. TypeOK'
  <2>1. GateType' /\ SeenType'
    BY DEF Stop, Inv, TypeOK, GateType, SeenType
  <2>2. DurableType'
    BY <1>a, <1>b DEF Stop, Inv, TypeOK, DurableType, Written
  <2>3. SessionType'
    BY <1>a, <1>c DEF Stop, Inv, TypeOK, SessionType, Forgotten
  <2>4. ExecType'
    BY Names DEF Stop, Inv, TypeOK, ExecType
  <2> QED
    BY <2>1, <2>2, <2>3, <2>4 DEF TypeOK, DurableType, SessionType, ExecType, GateType, SeenType
<1>2. Terminal'
  BY <1>a, <1>b, <1>e, Sorts DEF Inv, TypeOK, Written, Book, Terminal
<1>3. Reserved'
  BY <1>a, <1>b, <1>e DEF Inv, Written, Book, Reserved, Executing
<1>4. Progress'
  BY <1>a, <1>b DEF Stop, Inv, TypeOK, Written, Book, Reserved, Progress, Executing, Early, Open
<1>5. Answering'
  <2>1. pc'[s] = "idle"
    BY DEF Stop, Inv, TypeOK
  <2> QED
    BY <1>a, <1>b, <1>e, <2>1 DEF Inv, Written, Book, Reserved, Answering, Executing
<1>6. Finishing'
  BY <1>a, <1>b, <1>e, Sorts DEF Inv, TypeOK, Written, Book, Finishing
<1>7. AnswerTrue'
  BY <1>a, <1>b, <1>e, Sorts, Names DEF Inv, TypeOK, Written, Book, AnswerTrue
<1>8. Epochs' /\ Alone' /\ Waits' /\ Seals'
  BY <1>a, <1>c, AppendFence DEF Stop, Inv, TypeOK
<1>9. Quiet' /\ Named'
  BY <1>a, <1>b, <1>e, WriteKeeps
<1>10. Desk'
  BY DEF Stop, Inv, Desk, Fenced
<1> QED
  BY <1>1, <1>2, <1>3, <1>4, <1>5, <1>6, <1>7, <1>8, <1>9, <1>10 DEF Inv, Book, Fence

\* The result that is published is the recorded one.
LEMMA ReportStep ==
    ASSUME Inv, NEW s \in Session, Report(s)
    PROVE  Inv'
<1>a. st[s] = "live" /\ cur[s] \in Call
  BY DEF Report, Inv, TypeOK, Book, Reserved, Executing
<1>b. Forgotten(s)
  BY LogGrows DEF Report, Inv, TypeOK, Forgotten
<1>c. active' = active \/ (own[s] = epoch /\ active' \in {None, cur[s]})
  BY DEF Report, Published, ActiveFor, ActiveAfterFailure
<1>1. TypeOK'
  <2>1. DurableType'
    BY <1>a DEF Report, Inv, TypeOK, DurableType, ActiveFor, ActiveAfterFailure
  <2>2. SessionType'
    BY <1>b DEF Report, Inv, TypeOK, SessionType, Forgotten
  <2>3. ExecType'
    BY Names DEF Report, Inv, TypeOK, ExecType
  <2>4. GateType'
    BY DEF Report, Inv, TypeOK, GateType
  <2>5. SeenType'
    BY <1>a DEF Report, Inv, TypeOK, SeenType, Tell, Book, Answering
  <2> QED
    BY <2>1, <2>2, <2>3, <2>4, <2>5 DEF TypeOK, DurableType, SessionType, ExecType, GateType,
       SeenType
<1>2. Terminal'
  BY DEF Report, Inv, Book, Terminal
<1>3. Reserved'
  BY DEF Report, Inv, TypeOK, Book, Reserved, Executing
<1>4. Progress'
  BY <1>a DEF Report, Inv, TypeOK, Book, Reserved, Progress, Executing, Early, Open
<1>5. Answering'
  BY <1>a, Names DEF Report, Inv, TypeOK, Book, Reserved, Answering, Progress, Executing, Early,
     Open
<1>6. Finishing'
  BY <1>a DEF Report, Inv, TypeOK, Book, Finishing, Reserved
<1>7. AnswerTrue'
  BY DEF Report, Inv, Book, AnswerTrue
<1>8. Epochs' /\ Alone' /\ Waits' /\ Seals'
  BY <1>a, <1>b, AppendFence DEF Report, Inv, TypeOK
<1>9. Quiet'
  BY <1>a DEF Report, Inv, TypeOK, Book, Fence, Quiet, Settled
<1>10. Named'
  <2>1. Settled(cur[s]) /\ receipt[cur[s]].state # "none"
    BY <1>a, NoneIsNothing DEF Report, Inv, Book, Terminal, Answering, Settled
  <2> QED
    BY <1>c, <2>1, CallsAssumption DEF Report, Inv, TypeOK, Fence, Named, Settled
<1>11. Desk'
  BY DEF Report, Inv, Desk, Fenced
<1> QED
  BY <1>1, <1>2, <1>3, <1>4, <1>5, <1>6, <1>7, <1>8, <1>9, <1>10, <1>11 DEF Inv, Book, Fence

LEMMA ManualEditStep ==
    ASSUME Inv, NEW s \in Session, ManualEdit(s)
    PROVE  Inv'
<1>1. TypeOK'
  BY DEF ManualEdit, Inv, TypeOK
<1>2. Terminal' /\ Reserved' /\ Progress'
  BY DEF ManualEdit, Inv, Book, Terminal, Reserved, Progress, Executing, Early, Open, TypeOK
<1>3. Answering' /\ Finishing' /\ AnswerTrue'
  BY DEF ManualEdit, Inv, Book, Answering, Finishing, AnswerTrue
<1>4. Epochs' /\ Alone' /\ Waits' /\ Seals'
  BY DEF ManualEdit, Inv, Fence, Epochs, Alone, Waits, Seals, Announced, Recovering, OneSuccessor
<1>5. Quiet' /\ Named'
  BY DEF ManualEdit, Inv, Fence, Quiet, Named, Settled
<1>6. Desk'
  BY DEF ManualEdit, Inv, Desk, Fenced, TypeOK
<1> QED
  BY <1>1, <1>2, <1>3, <1>4, <1>5, <1>6 DEF Inv, Book, Fence

LEMMA CancelStep ==
    ASSUME Inv, NEW s \in Session, Cancel(s)
    PROVE  Inv'
<1>1. TypeOK'
  BY DEF Cancel, Inv, TypeOK
<1>2. Terminal' /\ Reserved' /\ Progress'
  BY DEF Cancel, Inv, Book, Terminal, Reserved, Progress, Executing, Early, Open
<1>3. Answering' /\ Finishing' /\ AnswerTrue'
  BY DEF Cancel, Inv, Book, Answering, Finishing, AnswerTrue
<1>4. Epochs' /\ Alone' /\ Waits' /\ Seals'
  BY DEF Cancel, Inv, Fence, Epochs, Alone, Waits, Seals, Announced, Recovering, OneSuccessor
<1>5. Quiet' /\ Named'
  BY DEF Cancel, Inv, Fence, Quiet, Named, Settled
<1>6. Desk'
  BY DEF Cancel, Inv, Desk, Fenced
<1> QED
  BY <1>1, <1>2, <1>3, <1>4, <1>5, <1>6 DEF Inv, Book, Fence

LEMMA CrashStep ==
    ASSUME Inv, NEW s \in Session, Crash(s)
    PROVE  Inv'
<1>1. TypeOK'
  BY Names DEF Crash, Inv, TypeOK
<1>2. Terminal' /\ Reserved' /\ Progress'
  BY DEF Crash, Inv, Book, Terminal, Reserved, Progress, Executing, Early, Open, TypeOK
<1>3. Answering' /\ Finishing' /\ AnswerTrue'
  BY DEF Crash, Inv, Book, Answering, Finishing, AnswerTrue, TypeOK
<1>4. Epochs' /\ Alone' /\ Waits' /\ Seals'
  BY DEF Crash, Inv, Fence, Epochs, Alone, Waits, Seals, Announced, Recovering, OneSuccessor,
     TypeOK
<1>5. Quiet' /\ Named'
  BY DEF Crash, Inv, Fence, Quiet, Named, Settled, TypeOK
<1>6. Desk'
  BY DEF Crash, Inv, Desk, Fenced, TypeOK
<1> QED
  BY <1>1, <1>2, <1>3, <1>4, <1>5, <1>6 DEF Inv, Book, Fence

\* What can be reconciled is the durable finish.  While a call is announced its
\* receipt is unsettled and no finish is durable, so nobody loads anything.
LEMMA RecoverLoadStep ==
    ASSUME Inv, NEW s \in Session, RecoverLoad(s)
    PROVE  Inv'
<1>a. ~Executing(s)
  BY DEF RecoverLoad, Inv, Book, Reserved
<1>b. \A c \in Call : Reconcilable(c) => c = fin.call
  BY DEF Reconcilable, Inv, Fence, Named
<1>c. \A t \in Session : ~Announced(t)
  <2> SUFFICES ASSUME NEW t \in Session, Announced(t) PROVE FALSE
    OBVIOUS
  <2>1. cur[t] \in Call /\ ~Settled(cur[t])
    BY DEF Inv, Book, Terminal, Reserved, Progress, Executing, Announced, Open, Early, Settled
  <2>2. fin = None
    BY DEF Inv, Fence, Seals
  <2> QED
    BY <2>1, <2>2 DEF RecoverLoad, Reconcilable
<1>1. TypeOK'
  BY <1>a, Names DEF RecoverLoad, FinishDurable, Inv, TypeOK, Book, Reserved, Executing
<1>2. Terminal' /\ Reserved' /\ Progress'
  BY <1>a, <1>b, <1>c DEF RecoverLoad, Inv, Book, Terminal, Reserved, Progress, Executing, Early,
     Open, FinishDurable
<1>3. Answering'
  BY <1>a DEF RecoverLoad, Inv, TypeOK, Book, Answering, Executing
<1>4. Finishing'
  BY <1>b DEF RecoverLoad, Inv, TypeOK, Book, Finishing, Reconcilable
<1>5. AnswerTrue'
  BY DEF RecoverLoad, Inv, Book, AnswerTrue
<1>6. Epochs'
  BY DEF RecoverLoad, Inv, TypeOK, Fence, Epochs
<1>7. Alone'
  BY DEF RecoverLoad, Inv, TypeOK, Fence, Epochs, Alone
<1>8. Waits'
  BY <1>a, <1>c DEF RecoverLoad, Inv, TypeOK, Waits, Announced
<1>9. Seals'
  BY <1>a DEF RecoverLoad, Inv, TypeOK, Fence, Seals, Announced, Executing, Recovering,
     FinishDurable, OneSuccessor
<1>10. Quiet'
  BY <1>a DEF RecoverLoad, Inv, TypeOK, Fence, Quiet, Executing, Settled
<1>11. Named'
  BY DEF RecoverLoad, Inv, TypeOK, Fence, Named, Settled
<1>12. Desk'
  BY DEF RecoverLoad, Inv, Desk, Fenced, TypeOK, Book, Reserved, Executing
<1> QED
  BY <1>1, <1>2, <1>3, <1>4, <1>5, <1>6, <1>7, <1>8, <1>9, <1>10, <1>11, <1>12 DEF Inv, Book,
     Fence

LEMMA RecoverRefuseStep ==
    ASSUME Inv, NEW s \in Session, RecoverRefuse(s)
    PROVE  Inv'
<1>a. ~Executing(s)
  BY DEF RecoverRefuse, Inv, Book, Reserved
<1>b. Forgotten(s) /\ st' = [st EXCEPT ![s] = "failed"]
  BY GiveUpGrows DEF RecoverRefuse, Inv
<1>1. TypeOK'
  <2>1. DurableType' /\ ExecType' /\ GateType' /\ SeenType'
    BY DEF RecoverRefuse, Inv, TypeOK, DurableType, ExecType, GateType, SeenType
  <2>2. SessionType'
    BY <1>b DEF RecoverRefuse, Inv, TypeOK, SessionType, Forgotten
  <2> QED
    BY <2>1, <2>2 DEF TypeOK, DurableType, SessionType, ExecType, GateType, SeenType
<1>2. Terminal'
  BY DEF RecoverRefuse, Inv, Book, Terminal
<1>3. Reserved'
  BY <1>a, <1>b DEF RecoverRefuse, Inv, TypeOK, Book, Reserved, Executing
<1>4. Progress'
  BY DEF RecoverRefuse, Inv, Book, Progress
<1>5. Answering'
  BY DEF RecoverRefuse, Inv, Book, Answering
<1>6. Finishing'
  BY <1>b DEF RecoverRefuse, Inv, TypeOK, Book, Finishing
<1>7. AnswerTrue'
  BY DEF RecoverRefuse, Inv, Book, AnswerTrue
<1>8. Epochs' /\ Alone' /\ Waits' /\ Seals'
  <2>1. pc[s] = "idle" /\ UNCHANGED <<seal, fin, pc>>
    BY <1>a DEF RecoverRefuse, Executing
  <2>2. /\ own' \in [Session -> Nat] /\ \A t \in Session \ {s} : own'[t] = own[t]
        /\ epoch' \in Nat /\ own'[s] <= epoch' /\ epoch <= epoch' /\ 0 < epoch'
    BY DEF RecoverRefuse, Inv, TypeOK, Fence, Epochs
  <2> QED
    BY <1>b, <2>1, <2>2, GiveUpFence
<1>9. Quiet'
  BY <1>a DEF RecoverRefuse, Inv, TypeOK, Fence, Quiet, Executing, Settled
<1>10. Named'
  BY DEF RecoverRefuse, Inv, TypeOK, Fence, Named, Settled
<1>11. Desk'
  BY DEF RecoverRefuse, Inv, Desk, Fenced
<1> QED
  BY <1>1, <1>2, <1>3, <1>4, <1>5, <1>6, <1>7, <1>8, <1>9, <1>10, <1>11 DEF Inv, Book, Fence

\* The receipt of the durable finish is completed, whoever else writes it.
LEMMA ReconcileStep ==
    ASSUME Inv, NEW s \in Session, Reconcile(s)
    PROVE  Inv'
<1>a. /\ st[s] = "reconciling" /\ ~Executing(s) /\ fin # None /\ cur[s] = fin.call /\ cur[s] \in Call
      /\ fin.call \in FinishCall
  BY CallsAssumption DEF Reconcile, Inv, TypeOK, Book, Reserved, Finishing
<1>b. Written(s, cur[s], "completed", "verified")
  BY <1>a, PutWrites, Names DEF Reconcile, Inv, ReceiptStates
<1>c. /\ Forgotten(s)
      /\ \/ st' = [st EXCEPT ![s] = "loaded"] /\ UNCHANGED behind
         \/ st' = [st EXCEPT ![s] = "failed"]
  BY GiveUpGrows DEF Reconcile, Inv, TypeOK, Forgotten
<1>d. pc' = pc
  BY <1>a DEF Reconcile, Executing, Inv, TypeOK
<1>e. \A t \in Session : t # s => cur'[t] = cur[t] /\ res'[t] = res[t] /\ before'[t] = before[t]
  BY DEF Reconcile, Inv, TypeOK
<1>f. /\ \A t \in Session : Executing(t) => t # s /\ cur[t] \in Call
      /\ \A d \in Call : d # fin.call => receipt'[d] = receipt[d]
      /\ receipt'[fin.call].state = "completed" /\ receipt'[fin.call].result = "verified"
      /\ receipt'[fin.call].epoch = receipt[fin.call].epoch
      /\ receipt[fin.call].state # "none"
      /\ UNCHANGED <<fin, landed, own, seal, epoch, active, revision>>
  BY <1>a, <1>b DEF Reconcile, Written, Inv, Book, Reserved
<1>1. TypeOK'
  <2>1. GateType' /\ SeenType'
    BY DEF Reconcile, Inv, TypeOK, GateType, SeenType
  <2>2. DurableType'
    BY <1>b DEF Reconcile, Written, Inv, TypeOK, DurableType
  <2>3. SessionType'
    BY <1>c DEF Reconcile, Forgotten, Inv, TypeOK, SessionType
  <2>4. ExecType'
    BY Names DEF Reconcile, Inv, TypeOK, ExecType
  <2> QED
    BY <2>1, <2>2, <2>3, <2>4 DEF TypeOK, DurableType, SessionType, ExecType, GateType, SeenType
<1>2. Terminal'
  BY <1>f, Names, NoneIsNothing DEF Inv, Book, Terminal
<1>3. Reserved'
  BY <1>c, <1>d, <1>e, <1>f DEF Inv, TypeOK, Book, Reserved, Executing
<1>4. Progress'
  BY <1>a, <1>d, <1>e, <1>f DEF Inv, Book, Progress, Executing, Early, Open
<1>5. Answering'
  BY <1>a, <1>d, <1>e, <1>f, Names, NoneIsNothing DEF Inv, Book, Answering, Finishing, Executing
<1>6. Finishing'
  BY <1>c, <1>e, <1>f DEF Inv, TypeOK, Book, Finishing
<1>7. AnswerTrue'
  BY <1>a, <1>f, Names DEF Inv, Book, AnswerTrue
<1>8. Epochs' /\ Alone' /\ Waits' /\ Seals'
  <2>1. CASE st' = [st EXCEPT ![s] = "failed"]
    <3>1. /\ pc[s] = "idle" /\ own' \in [Session -> Nat] /\ UNCHANGED <<seal, fin, pc>>
          /\ \A t \in Session \ {s} : own'[t] = own[t]
          /\ epoch' \in Nat /\ own'[s] <= epoch' /\ epoch <= epoch' /\ 0 < epoch'
      BY <1>a, <1>d, <1>f DEF Reconcile, Executing, Inv, TypeOK, Fence, Epochs
    <3> QED
      BY <1>c, <2>1, <3>1, GiveUpFence
  <2>2. CASE st' = [st EXCEPT ![s] = "loaded"] /\ UNCHANGED behind
    <3>1. Epochs'
      BY <1>a, <1>f, <2>2 DEF Inv, TypeOK, Fence, Epochs
    <3>2. Alone'
      BY <1>a, <1>c, <1>f, <2>2 DEF Inv, TypeOK, Fence, Alone, Forgotten
    <3>3. Waits'
      BY <1>a, <1>c, <1>d, <1>f, <2>2 DEF Inv, TypeOK, Fence, Waits, Announced, Forgotten
    <3>4. Seals'
      BY <1>a, <1>c, <1>d, <1>f, <2>2 DEF Inv, TypeOK, Fence, Seals, Announced, Recovering,
         OneSuccessor, Forgotten
    <3> QED
      BY <3>1, <3>2, <3>3, <3>4
  <2> QED
    BY <1>c, <2>1, <2>2
<1>9. Quiet'
  BY <1>a, <1>d, <1>f DEF Inv, Fence, Seals, Quiet, Announced
<1>10. Named'
  BY <1>a, <1>f, CallsAssumption DEF Inv, TypeOK, Fence, Named, Settled
<1>11. Desk'
  BY DEF Reconcile, Inv, Desk, Fenced, TypeOK
<1> QED
  BY <1>1, <1>2, <1>3, <1>4, <1>5, <1>6, <1>7, <1>8, <1>9, <1>10, <1>11 DEF Inv, Book, Fence

\* The next epoch.  A recovery that a live session has overtaken, or that an
\* announced call outlives, does not know the log; a sealed one is the exact successor.
LEMMA AcquireStep ==
    ASSUME Inv, NEW s \in Session, Acquire(s)
    PROVE  Inv'
<1>a. ~Executing(s) /\ pc[s] = "idle"
  BY DEF Acquire, Inv, Book, Reserved, Executing
<1>b. /\ Forgotten(s)
      /\ \/ st' = [st EXCEPT ![s] = "failed"] /\ UNCHANGED own
         \/ /\ st' = [st EXCEPT ![s] = "acquired"] /\ own' = [own EXCEPT ![s] = own[s] + 1]
            /\ UNCHANGED behind
  BY GiveUpGrows DEF Acquire, Inv, TypeOK, Forgotten
<1>c. /\ epoch' = own[s] + 1 /\ own[s] \in Nat /\ (epoch = own[s] \/ epoch = own[s] + 1)
      /\ (seal[s] => fin.epoch = own[s]) /\ st[s] = "loaded" /\ active' = None
      /\ UNCHANGED <<receipt, fin, exec, gate, landed>>
  BY DEF Acquire, RetrySafe, Inv, TypeOK
<1>1. TypeOK'
  <2>1. ExecType' /\ GateType' /\ SeenType'
    BY DEF Acquire, Inv, TypeOK, ExecType, GateType, SeenType
  <2>2. DurableType'
    BY <1>c DEF Inv, TypeOK, DurableType
  <2>3. SessionType'
    BY <1>b, <1>c DEF Forgotten, Inv, TypeOK, SessionType
  <2> QED
    BY <2>1, <2>2, <2>3 DEF TypeOK, DurableType, SessionType, ExecType, GateType, SeenType
<1>2. Terminal'
  BY <1>c DEF Inv, Book, Terminal
<1>3. Reserved'
  BY <1>a, <1>b, <1>c DEF Inv, TypeOK, Book, Reserved, Executing
<1>4. Progress'
  BY <1>c DEF Inv, Book, Progress
<1>5. Answering'
  BY <1>c DEF Inv, Book, Answering
<1>6. Finishing'
  BY <1>b, <1>c DEF Inv, TypeOK, Book, Finishing
<1>7. AnswerTrue'
  BY <1>c DEF Inv, Book, AnswerTrue
<1>8. Epochs' /\ Alone' /\ Waits' /\ Seals'
  <2>1. CASE st' = [st EXCEPT ![s] = "failed"] /\ UNCHANGED own
    <3>1. /\ own' \in [Session -> Nat] /\ UNCHANGED <<seal, fin, pc>>
          /\ \A t \in Session \ {s} : own'[t] = own[t]
          /\ epoch' \in Nat /\ own'[s] <= epoch' /\ epoch <= epoch' /\ 0 < epoch'
      BY <1>c, <2>1 DEF Inv, TypeOK, Fence, Epochs
    <3> QED
      BY <1>a, <1>b, <2>1, <3>1, GiveUpFence
  <2>2. CASE /\ st' = [st EXCEPT ![s] = "acquired"] /\ own' = [own EXCEPT ![s] = own[s] + 1]
             /\ UNCHANGED behind
    <3>1. Epochs'
      BY <1>c, <2>2 DEF Inv, TypeOK, Fence, Epochs
    <3>2. Alone'
      BY <1>c, <2>2 DEF Inv, TypeOK, Fence, Epochs, Alone
    <3>3. Waits'
      BY <1>a, <1>c, <2>2 DEF Inv, TypeOK, Fence, Waits, Announced
    <3>4. Seals'
      BY <1>a, <1>c, <2>2 DEF Inv, TypeOK, Fence, Seals, Announced, Recovering, OneSuccessor
    <3> QED
      BY <3>1, <3>2, <3>3, <3>4
  <2> QED
    BY <1>b, <2>1, <2>2
<1>9. Quiet'
  BY <1>a, <1>b, <1>c DEF Inv, TypeOK, Fence, Epochs, Quiet, Settled
<1>10. Named'
  BY <1>c, CallsAssumption DEF Inv, TypeOK, Fence, Named, Settled
<1>11. Desk'
  BY DEF Acquire, Inv, Desk, Fenced
<1> QED
  BY <1>1, <1>2, <1>3, <1>4, <1>5, <1>6, <1>7, <1>8, <1>9, <1>10, <1>11 DEF Inv, Book, Fence

\* A recovery that knows the log in the current epoch is the only one that does.
LEMMA ResumeStep ==
    ASSUME Inv, NEW s \in Session, Resume(s)
    PROVE  Inv'
<1>a. ~Executing(s)
  BY DEF Resume, Inv, Book, Reserved
<1>b. /\ own[s] = epoch /\ ~behind[s] /\ ~behind'[s]
      /\ \A t \in Session : t # s /\ st[t] # "off" => behind'[t]
  BY PublishedOver DEF Resume, Inv
<1>c. Forgotten(s)
  BY LogGrows DEF Resume, Inv
<1>1. TypeOK'
  <2>1. DurableType' /\ ExecType' /\ GateType' /\ SeenType'
    BY DEF Resume, Inv, TypeOK, DurableType, ExecType, GateType, SeenType
  <2>2. SessionType'
    BY <1>c DEF Resume, Inv, TypeOK, SessionType, Forgotten
  <2> QED
    BY <2>1, <2>2 DEF TypeOK, DurableType, SessionType, ExecType, GateType, SeenType
<1>2. Terminal' /\ Reserved' /\ Progress'
  BY DEF Resume, Inv, Book, Terminal, Reserved, Progress, Executing, Early, Open
<1>3. Answering' /\ Finishing' /\ AnswerTrue'
  BY DEF Resume, Inv, Book, Answering, Finishing, AnswerTrue
<1>4. Epochs'
  BY <1>a, <1>b, <1>c DEF Resume, Inv, TypeOK, Forgotten, Executing, Fence, Epochs, Alone, Waits,
     Seals, Announced, Recovering, OneSuccessor
<1>5. Alone'
  BY <1>a, <1>b, <1>c DEF Resume, Inv, TypeOK, Forgotten, Executing, Fence, Epochs, Alone, Waits,
     Seals, Announced, Recovering, OneSuccessor
<1>6. Waits'
  BY <1>a, <1>b, <1>c DEF Resume, Inv, TypeOK, Forgotten, Executing, Fence, Epochs, Alone, Waits,
     Seals, Announced, Recovering, OneSuccessor
<1>7. Seals'
  BY <1>a, <1>b, <1>c DEF Resume, Inv, TypeOK, Forgotten, Executing, Fence, Epochs, Alone, Waits,
     Seals, Announced, Recovering, OneSuccessor
<1>8. Quiet' /\ Named'
  BY DEF Resume, Inv, Fence, Quiet, Named, Settled
<1>9. Desk'
  BY DEF Resume, Inv, Desk, Fenced
<1> QED
  BY <1>1, <1>2, <1>3, <1>4, <1>5, <1>6, <1>7, <1>8, <1>9 DEF Inv, Book, Fence

LEMMA RecoverFailStep ==
    ASSUME Inv, NEW s \in Session, RecoverFail(s)
    PROVE  Inv'
<1>a. ~Executing(s)
  BY DEF RecoverFail, Inv, Book, Reserved
<1>b. Forgotten(s) /\ st' = [st EXCEPT ![s] = "failed"]
  BY GiveUpGrows DEF RecoverFail, Inv
<1>1. TypeOK'
  <2>1. DurableType' /\ ExecType' /\ GateType' /\ SeenType'
    BY DEF RecoverFail, Inv, TypeOK, DurableType, ExecType, GateType, SeenType
  <2>2. SessionType'
    BY <1>b DEF RecoverFail, Inv, TypeOK, SessionType, Forgotten
  <2> QED
    BY <2>1, <2>2 DEF TypeOK, DurableType, SessionType, ExecType, GateType, SeenType
<1>2. Terminal'
  BY DEF RecoverFail, Inv, Book, Terminal
<1>3. Reserved'
  BY <1>a, <1>b DEF RecoverFail, Inv, TypeOK, Book, Reserved, Executing
<1>4. Progress'
  BY DEF RecoverFail, Inv, Book, Progress
<1>5. Answering'
  BY DEF RecoverFail, Inv, Book, Answering
<1>6. Finishing'
  BY <1>b DEF RecoverFail, Inv, TypeOK, Book, Finishing
<1>7. AnswerTrue'
  BY DEF RecoverFail, Inv, Book, AnswerTrue
<1>8. Epochs' /\ Alone' /\ Waits' /\ Seals'
  <2>1. pc[s] = "idle" /\ UNCHANGED <<seal, fin, pc>>
    BY <1>a DEF RecoverFail, Executing
  <2>2. /\ own' \in [Session -> Nat] /\ \A t \in Session \ {s} : own'[t] = own[t]
        /\ epoch' \in Nat /\ own'[s] <= epoch' /\ epoch <= epoch' /\ 0 < epoch'
    BY DEF RecoverFail, Inv, TypeOK, Fence, Epochs
  <2> QED
    BY <1>b, <2>1, <2>2, GiveUpFence
<1>9. Quiet'
  BY <1>a DEF RecoverFail, Inv, TypeOK, Fence, Quiet, Executing, Settled
<1>10. Named'
  BY DEF RecoverFail, Inv, TypeOK, Fence, Named, Settled
<1>11. Desk'
  BY DEF RecoverFail, Inv, Desk, Fenced
<1> QED
  BY <1>1, <1>2, <1>3, <1>4, <1>5, <1>6, <1>7, <1>8, <1>9, <1>10, <1>11 DEF Inv, Book, Fence


-----------------------------------------------------------------------------
(* The invariant.                                                           *)

\* It holds initially.
LEMMA InitInv == Init => Inv
<1> SUFFICES ASSUME Init PROVE Inv
  OBVIOUS
<1>1. TypeOK
  BY Names DEF Init, TypeOK, ReceiptStates
<1>2. Book
  BY Names, NoneIsNothing DEF Init, Book, Terminal, Reserved, Progress, Answering, Finishing,
     AnswerTrue, Executing, Early, Open
<1>3. Fence
  BY DEF Init, Fence, Epochs, Alone, Waits, Seals, Quiet, Named, Announced, Recovering,
     OneSuccessor
<1>4. Desk
  BY DEF Init, Desk
<1> QED
  BY <1>1, <1>2, <1>3, <1>4 DEF Inv

\* A stuttering step.
LEMMA StutterInv ==
    ASSUME Inv, UNCHANGED vars
    PROVE  Inv'
<1>1. TypeOK' /\ Desk'
  BY DEF vars, Inv, TypeOK, Desk
<1>2. Terminal' /\ Reserved' /\ Progress' /\ Answering'
  BY DEF vars, Inv, Book, Terminal, Reserved, Progress, Answering, Executing
<1>3. Finishing' /\ AnswerTrue' /\ Epochs' /\ Alone'
  BY DEF vars, Inv, Book, Finishing, AnswerTrue, Fence, Epochs, Alone
<1>4. Waits' /\ Seals' /\ Quiet' /\ Named'
  BY DEF vars, Inv, Fence, Waits, Seals, Quiet, Named, Announced, OneSuccessor, Settled
<1> QED
  BY <1>1, <1>2, <1>3, <1>4 DEF Inv, Book, Fence

\* The invariant is inductive.
LEMMA StepInv == Inv /\ [Next]_vars => Inv'
<1> SUFFICES ASSUME Inv, [Next]_vars PROVE Inv'
  OBVIOUS
<1>1. CASE UNCHANGED vars
  BY <1>1, StutterInv
<1>2. ASSUME NEW s \in Session, NEW c \in Call, Begin(s, c) \/ Replay(s, c)
      PROVE  Inv'
  BY <1>2, BeginStep, ReplayStep
<1>3. ASSUME NEW s \in Session, Start(s) \/ Decide(s) \/ Refuse(s) \/ Mark(s) \/ Announce(s)
      PROVE  Inv'
  BY <1>3, StartStep, DecideStep, RefuseStep, MarkStep, AnnounceStep
<1>4. ASSUME NEW s \in Session, Land(s) \/ Succeed(s) \/ Fail(s) \/ Throw(s)
      PROVE  Inv'
  BY <1>4, LandStep, SucceedStep, FailStep, ThrowStep
<1>5. ASSUME NEW s \in Session, Verify(s) \/ SealFinish(s) \/ KeepFinish(s) \/ CheckFinish(s)
      PROVE  Inv'
  BY <1>5, VerifyStep, SealFinishStep, KeepFinishStep, CheckFinishStep
<1>6. ASSUME NEW s \in Session, Persist(s) \/ Stop(s) \/ Report(s) \/ ManualEdit(s) \/ Cancel(s)
      PROVE  Inv'
  BY <1>6, PersistStep, StopStep, ReportStep, ManualEditStep, CancelStep
<1>7. ASSUME NEW s \in Session, Crash(s) \/ RecoverLoad(s) \/ RecoverRefuse(s) \/ Reconcile(s)
      PROVE  Inv'
  BY <1>7, CrashStep, RecoverLoadStep, RecoverRefuseStep, ReconcileStep
<1>8. ASSUME NEW s \in Session, Acquire(s) \/ Resume(s) \/ RecoverFail(s)
      PROVE  Inv'
  BY <1>8, AcquireStep, ResumeStep, RecoverFailStep
<1> QED
  BY <1>1, <1>2, <1>3, <1>4, <1>5, <1>6, <1>7, <1>8 DEF Next

\* The invariant holds in every reachable state.
THEOREM Invariant == Spec => []Inv
  BY InitInv, StepInv, PTL DEF Spec

-----------------------------------------------------------------------------
(* The state properties.                                                    *)

\* Every variable keeps its type, for any calls, sessions and bounds.
THEOREM TypeCorrect == Spec => []TypeOK
<1>1. Inv => TypeOK
  BY DEF Inv
<1> QED
  BY <1>1, Invariant, PTL

\* A recorded refusal, or success without change, stands for a call that has
\* changed nothing, and a verified answer for the durable finish.
THEOREM AnswersAreTrue == Spec => []AnswerTrue
<1>1. Inv => AnswerTrue
  BY DEF Inv, Book
<1> QED
  BY <1>1, Invariant, PTL

\* An edit between two calls is not lost: the gateway holds an older revision
\* until a call has been told.
THEOREM EditsAreReported == Spec => []EditsReported
<1>1. Inv => EditsReported
  BY DEF Inv, TypeOK, Desk, EditsReported
<1> QED
  BY <1>1, Invariant, PTL

\* A verified finish is taken over by its exact successor, and nobody else.
THEOREM SuccessorIsExact == Spec => []OneSuccessor
<1>1. Inv => OneSuccessor
  BY DEF Inv, Fence, Seals
<1> QED
  BY <1>1, Invariant, PTL

-----------------------------------------------------------------------------
(* The action properties.                                                   *)

\* Two actions have an effect, and one of them makes a finish durable.
LEMMA Effects ==
    ASSUME [Next]_vars
    PROVE  \/ UNCHANGED <<landed, fin>>
           \/ \E s \in Session : KeepFinish(s) \/ (Land(s) /\ UNCHANGED fin)
<1>1. ASSUME NEW s \in Session, NEW c \in Call, Begin(s, c) \/ Replay(s, c)
      PROVE  UNCHANGED <<landed, fin>>
  BY <1>1 DEF Begin, Replay
<1>2. ASSUME NEW s \in Session,
             Start(s) \/ Decide(s) \/ Refuse(s) \/ Mark(s) \/ Announce(s) \/ Succeed(s) \/ Fail(s)
      PROVE  UNCHANGED <<landed, fin>>
  BY <1>2 DEF Start, Decide, Refuse, Mark, Announce, Succeed, Fail
<1>3. ASSUME NEW s \in Session,
             Throw(s) \/ Verify(s) \/ SealFinish(s) \/ CheckFinish(s) \/ Persist(s) \/ Stop(s) \/ Report(s)
      PROVE  UNCHANGED <<landed, fin>>
  BY <1>3 DEF Throw, Verify, SealFinish, CheckFinish, Persist, Stop, Report
<1>4. ASSUME NEW s \in Session,
             \/ ManualEdit(s) \/ Cancel(s) \/ Crash(s) \/ RecoverLoad(s) \/ RecoverRefuse(s)
             \/ Reconcile(s) \/ Acquire(s) \/ Resume(s) \/ RecoverFail(s)
      PROVE  UNCHANGED <<landed, fin>>
  BY <1>4 DEF ManualEdit, Cancel, Crash, RecoverLoad, RecoverRefuse, Reconcile, Acquire, Resume,
     RecoverFail
<1>5. ASSUME NEW s \in Session, Land(s)
      PROVE  UNCHANGED fin
  BY <1>5 DEF Land
<1>6. CASE UNCHANGED vars
  BY <1>6 DEF vars
<1> QED
  BY <1>1, <1>2, <1>3, <1>4, <1>5, <1>6 DEF Next

\* Only an announced call takes effect, and only in its own session.
LEMMA LandsAnnounced ==
    ASSUME Inv, [Next]_vars, NEW s \in Session, LandsNow(s)
    PROVE  /\ Announced(s) /\ st[s] = "live"
           /\ Mutator(cur[s]) => ~seal[s]
<1>1. PICK t \in Session : Land(t) \/ KeepFinish(t)
  BY Effects DEF LandsNow
<1>2. s = t
  BY <1>1 DEF Land, KeepFinish, LandsNow, Inv, TypeOK
<1>3. CASE Land(s)
  BY <1>3 DEF Land, Announced, Inv, Fence, Seals
<1>4. CASE KeepFinish(s)
  BY <1>4 DEF KeepFinish, Announced, Mutator, Inv, Book, Progress
<1> QED
  BY <1>1, <1>2, <1>3, <1>4

\* The effect of a call never takes place once a later session is live.
THEOREM NoOverlapHolds == Spec => NoOverlap
<1>1. ASSUME Inv, [Next]_vars, NEW s \in Session, NEW t \in Session, LandsNow(s)
      PROVE  ~(st[t] = "live" /\ own[t] > own[s])
  BY <1>1, LandsAnnounced DEF Inv, TypeOK, Fence, Waits
<1>2. Inv /\ [Next]_vars =>
        [\A s, t \in Session : LandsNow(s) => ~(st[t] = "live" /\ own[t] > own[s])]_vars
  BY <1>1
<1> QED
  BY <1>2, Invariant, PTL DEF Spec, NoOverlap

\* Nothing changes the project a durable finish speaks of.
THEOREM SealedHeadHolds == Spec => SealedHead
<1>1. ASSUME Inv, [Next]_vars, NEW s \in Session, LandsNow(s)
      PROVE  fin = None /\ ~(Mutator(cur[s]) /\ seal[s])
  BY <1>1, LandsAnnounced DEF Inv, Fence, Seals
<1>2. Inv /\ [Next]_vars =>
        [\A s \in Session : LandsNow(s) => fin = None /\ ~(Mutator(cur[s]) /\ seal[s])]_vars
  BY <1>1
<1> QED
  BY <1>2, Invariant, PTL DEF Spec, SealedHead

\* When a finish becomes durable every other call is settled.
THEOREM NothingUnsettledHolds == Spec => NothingUnsettled
<1>1. ASSUME Inv, [Next]_vars, fin = None, fin' # None, NEW c \in Call, c # fin'.call
      PROVE  Settled(c)
  <2>1. PICK s \in Session : KeepFinish(s)
    BY <1>1, Effects
  <2> QED
    BY <1>1, <2>1 DEF KeepFinish, Inv, Fence, Quiet
<1>2. Inv /\ [Next]_vars =>
        [fin = None /\ fin' # None => \A c \in Call : c # fin'.call => Settled(c)]_vars
  BY <1>1
<1> QED
  BY <1>2, Invariant, PTL DEF Spec, NothingUnsettled

-----------------------------------------------------------------------------
(* The refinement of CallOnce.                                              *)

Admitted == {c \in Call : receipt[c].state # "none"}
Answer == [c \in Call |-> receipt[c].result]

\* A written receipt records its answer, or leaves it; and it may be given.
LEMMA WriteRefines ==
    ASSUME TypeOK, NEW s \in Session, NEW c \in Call, NEW to \in ReceiptStates \ {"none"},
           NEW r \in Codes \cup {None}, Written(s, c, to, r),
           receipt[c].result # None => receipt[c].result = r,
           UNCHANGED landed,
           told' = told \/ (r # None /\ told' = told \cup {<<c, r>>})
    PROVE  [Once!Next]_(Once!vars)
<1>1. Admitted' = Admitted
  BY DEF Written, Admitted
<1>2. Answer' = [Answer EXCEPT ![c] = r]
  BY DEF Written, Answer
<1>3. CASE receipt[c].result = r /\ told' = told
  <2>1. Answer' = Answer
    BY <1>2, <1>3 DEF Answer
  <2> QED
    BY <1>1, <1>3, <2>1 DEF Admitted, Answer, Once!vars
<1>4. CASE receipt[c].result = r /\ told' # told
  <2>1. Answer' = Answer
    BY <1>2, <1>4 DEF Answer
  <2> QED
    BY <1>1, <1>4, <2>1 DEF Admitted, Answer, Once!Next, Once!Tell
<1>5. CASE receipt[c].result = None /\ r # None
  <2>1. Once!Record(c, r)
    BY <1>1, <1>2, <1>5 DEF Written, Admitted, Answer, Once!Record, Once!Open
  <2> QED
    BY <1>5, <2>1 DEF Once!Next
<1> QED
  BY <1>3, <1>4, <1>5

\* The recorded answer is given, or nothing is.
LEMMA TellRefines ==
    ASSUME NEW c \in Call, NEW r \in Codes, UNCHANGED <<receipt, landed>>,
           receipt[c].result = r, r # None,
           told' = told \/ told' = told \cup {<<c, r>>}
    PROVE  [Once!Next]_(Once!vars)
<1>1. Admitted' = Admitted /\ Answer' = Answer
  BY DEF Admitted, Answer
<1> QED
  BY <1>1 DEF Admitted, Answer, Once!Next, Once!Tell, Once!vars

\* The effect takes place, for the first time and before the answer.
LEMMA LandRefines ==
    ASSUME Inv, NEW s \in Session, Executing(s), pc[s] \in Early, UNCHANGED <<receipt, told>>,
           landed' = [landed EXCEPT ![cur[s]] = @ + 1]
    PROVE  [Once!Next]_(Once!vars)
<1>1. /\ cur[s] \in Call /\ landed[cur[s]] = 0 /\ receipt[cur[s]].result = None
      /\ cur[s] \in Admitted
  BY DEF Inv, Book, Reserved, Progress, Open, Admitted
<1>2. Admitted' = Admitted /\ Answer' = Answer
  BY DEF Admitted, Answer
<1>3. Once!Land(cur[s])
  BY <1>1, <1>2 DEF Admitted, Answer, Once!Land, Once!Open, Inv, TypeOK
<1> QED
  BY <1>1, <1>3 DEF Once!Next

\* Everything else is invisible.
LEMMA QuietRefines ==
    ASSUME UNCHANGED <<receipt, landed, told>>
    PROVE  [Once!Next]_(Once!vars)
  BY DEF Once!vars

\* A reserved identifier is taken.
LEMMA BeginRefines ==
    ASSUME Inv, NEW s \in Session, NEW c \in Call, Begin(s, c)
    PROVE  [Once!Next]_(Once!vars)
<1>1. c \notin Admitted /\ Admitted' = Admitted \cup {c}
  BY DEF Begin, Fresh, Admitted, Inv, TypeOK
<1>2. receipt[c].result = None
  BY DEF Begin, Fresh, Inv, Book, Terminal
<1>3. Answer' = Answer
  BY <1>2 DEF Begin, Answer, Inv, TypeOK
<1>4. Once!Admit(c)
  BY <1>1, <1>3 DEF Begin, Admitted, Answer, Once!Admit
<1> QED
  BY <1>4 DEF Once!Next

\* Every step is one of CallOnce, or invisible.
LEMMA StepRefines ==
    ASSUME Inv, [Next]_vars
    PROVE  [Once!Next]_(Once!vars)
<1>1. ASSUME NEW s \in Session, Refuse(s) \/ Mark(s) \/ Persist(s) \/ Stop(s)
      PROVE  [Once!Next]_(Once!vars)
  <2>1. cur[s] \in Call
    BY <1>1 DEF Refuse, Mark, Persist, Stop, Inv, Book, Reserved, Executing
  <2>2. CASE Refuse(s)
    <3>1. res[s] \in Codes /\ res[s] # None /\ receipt[cur[s]].result = None
      BY <2>2, NoneIsNothing DEF Refuse, Inv, Book, Progress, Early, Open, Codes
    <3>2. CASE UNCHANGED <<receipt, told>>
      BY <2>2, <3>2, QuietRefines DEF Refuse
    <3>3. CASE Put(s, cur[s], "failed", res[s]) /\ (UNCHANGED told \/ Tell(cur[s], res[s]))
      <4>1. Written(s, cur[s], "failed", res[s])
        BY <2>1, <3>1, <3>3, PutWrites DEF Inv, ReceiptStates
      <4> QED
        BY <2>1, <2>2, <3>1, <3>3, <4>1, WriteRefines DEF Refuse, Inv, ReceiptStates, Tell
    <3> QED
      BY <2>2, <3>2, <3>3 DEF Refuse
  <2>3. CASE (Mark(s) \/ Stop(s) \/ Persist(s)) /\ UNCHANGED receipt
    BY <2>3, QuietRefines DEF Mark, Stop, Persist
  <2>4. CASE Mark(s) /\ receipt' # receipt
    <3>1. Written(s, cur[s], "in_flight", None)
      BY <2>1, <2>4, PutWrites DEF Mark, Inv, ReceiptStates
    <3>2. receipt[cur[s]].result = None
      BY <2>1, <3>1 DEF Written, Inv, Book, Terminal
    <3> QED
      BY <2>1, <2>4, <3>1, <3>2, WriteRefines DEF Mark, Inv, ReceiptStates
  <2>5. CASE Stop(s) /\ receipt' # receipt
    <3>1. Written(s, cur[s], "ambiguous", None)
      BY <2>1, <2>5, PutWrites DEF Stop, Inv, ReceiptStates
    <3>2. receipt[cur[s]].result = None
      BY <2>1, <3>1 DEF Written, Inv, Book, Terminal
    <3> QED
      BY <2>1, <2>5, <3>1, <3>2, WriteRefines DEF Stop, Inv, ReceiptStates
  <2>6. CASE Persist(s) /\ receipt' # receipt
    <3>1. /\ res[s] \in Codes /\ StateFor(res[s]) \in ReceiptStates \ {"none"}
          /\ receipt[cur[s]].result # None => receipt[cur[s]].result = res[s]
      BY <2>6, Names DEF Persist, Inv, Book, Answering, ReceiptStates
    <3>2. Written(s, cur[s], StateFor(res[s]), res[s])
      BY <2>1, <2>6, <3>1, PutWrites DEF Persist, Inv
    <3> QED
      BY <2>1, <2>6, <3>1, <3>2, WriteRefines DEF Persist, Inv
  <2> QED
    BY <1>1, <2>2, <2>3, <2>4, <2>5, <2>6
<1>2. ASSUME NEW s \in Session, Report(s) \/ \E c \in Call : Replay(s, c)
      PROVE  [Once!Next]_(Once!vars)
  <2>1. CASE Report(s)
    <3>1. cur[s] \in Call /\ res[s] \in Codes /\ receipt[cur[s]].result = res[s] /\ res[s] # None
      BY <2>1, NoneIsNothing DEF Report, Inv, Book, Reserved, Executing, Answering
    <3> QED
      BY <2>1, <3>1, TellRefines DEF Report, Tell
  <2>2. ASSUME NEW c \in Call, Replay(s, c)
        PROVE  [Once!Next]_(Once!vars)
    <3>1. receipt[c].result \in Codes /\ receipt[c].result # None
      BY <2>2 DEF Replay, Inv, TypeOK
    <3> QED
      BY <2>2, <3>1, TellRefines DEF Replay, Tell
  <2> QED
    BY <1>2, <2>1, <2>2
<1>3. ASSUME NEW s \in Session, Reconcile(s)
      PROVE  [Once!Next]_(Once!vars)
  <2>1. /\ cur[s] \in Call
        /\ receipt[cur[s]].result # None => receipt[cur[s]].result = "verified"
    BY <1>3, CallsAssumption DEF Reconcile, Inv, TypeOK, Book, Finishing
  <2>2. Written(s, cur[s], "completed", "verified")
    BY <1>3, <2>1, Names, PutWrites DEF Reconcile, Inv, ReceiptStates
  <2> QED
    BY <1>3, <2>1, <2>2, Names, WriteRefines DEF Reconcile, Inv, ReceiptStates
<1>4. ASSUME NEW s \in Session, Land(s) \/ KeepFinish(s)
      PROVE  [Once!Next]_(Once!vars)
  <2>1. Executing(s) /\ pc[s] \in Early /\ UNCHANGED <<receipt, told>>
    BY <1>4 DEF Land, KeepFinish, Executing, Early
  <2>2. landed' = [landed EXCEPT ![cur[s]] = @ + 1] \/ UNCHANGED landed
    BY <1>4 DEF Land, KeepFinish
  <2> QED
    BY <2>1, <2>2, LandRefines, QuietRefines
<1>5. ASSUME NEW s \in Session,
             \/ Start(s) \/ Decide(s) \/ Announce(s) \/ Succeed(s) \/ Fail(s) \/ Throw(s)
             \/ Verify(s) \/ SealFinish(s) \/ CheckFinish(s) \/ ManualEdit(s) \/ Cancel(s)
             \/ Crash(s) \/ RecoverLoad(s) \/ RecoverRefuse(s) \/ Acquire(s) \/ Resume(s)
             \/ RecoverFail(s)
      PROVE  [Once!Next]_(Once!vars)
  <2>1. UNCHANGED <<receipt, landed, told>>
    BY <1>5 DEF Start, Decide, Announce, Succeed, Fail, Throw, Verify, SealFinish, CheckFinish,
       ManualEdit, Cancel, Crash, RecoverLoad, RecoverRefuse, Acquire, Resume, RecoverFail
  <2> QED
    BY <2>1, QuietRefines
<1>6. CASE UNCHANGED vars
  BY <1>6, QuietRefines DEF vars
<1> QED
  BY <1>1, <1>2, <1>3, <1>4, <1>5, <1>6, BeginRefines DEF Next

\* The gateway implements CallOnce: across repetitions, crashes, recoveries and
\* lost acknowledgements a call takes effect at most once, before its answer is
\* recorded, and nobody is told another answer than the recorded one.
THEOREM Refinement == Spec => ImplementsOnce
<1>1. Init => Once!Init
  BY DEF Init, Once!Init
<1>2. Inv /\ [Next]_vars => [Once!Next]_(Once!vars)
  BY StepRefines
<1> QED
  BY <1>1, <1>2, Invariant, PTL DEF Spec, ImplementsOnce, Once!Spec

\* What a durable finish speaks of is settled before it and stays as it is.
THEOREM FinishHoldsCorrect == Spec => FinishHolds
<1> QED
  BY SealedHeadHolds, NothingUnsettledHolds DEF FinishHolds
=============================================================================
