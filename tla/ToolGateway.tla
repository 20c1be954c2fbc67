---------------------------- MODULE ToolGateway ----------------------------
(***************************************************************************)
(* The tool gateway of one agent run (tool-gateway.ts), its receipts       *)
(* (tool-gateway-persistence.ts and the SQLite form of the persistence     *)
(* port), the finish request of the supervisor and the recovery that reads *)
(* them (run-supervisor.ts).                                               *)
(*                                                                         *)
(* A session is one supervisor with its gateway, in a process of its own.  *)
(* A call is executed in a fixed order: reserve a receipt, decide whether  *)
(* it may run, mark the receipt in flight, publish tool_call with a        *)
(* checkpoint, run, write the terminal receipt, publish tool_result.       *)
(* Between any two of these the process may die, the user may edit the     *)
(* project or cancel, another session may recover the run, and a write may *)
(* fail or be committed though its acknowledgement is lost.                *)
(*                                                                         *)
(* The event log is reduced to behind[s]: whether it has an event that the *)
(* outbox of s does not know, so that its next append is refused           *)
(* (EventOutbox models the log itself).  The arguments of a call are left  *)
(* out: the answers CALL_ID_REUSE and AMBIGUOUS_TOOL_CALL change nothing.  *)
(***************************************************************************)
EXTENDS Naturals, FiniteSets

CONSTANTS
    Call,           \* externalCallIds of the engine and of the control plane
    ReadCall,       \* calls of tools that do not mutate the project
    ControlCall,    \* trusted control operations: an approved proposal
    FinishCall,     \* calls of run.request_finish
    Session,
    None,
    MaxEpoch,       \* bound on recoveries
    MaxEdits        \* bound on manual edits

ASSUME CallsAssumption ==
    /\ ReadCall \subseteq Call /\ ControlCall \subseteq Call /\ FinishCall \subseteq Call
    /\ ReadCall \cap (ControlCall \cup FinishCall) = {}
    /\ ControlCall \cap FinishCall = {}
    /\ None \notin Call
ASSUME BoundsAssumption == MaxEpoch \in Nat /\ MaxEdits \in Nat

VARIABLES
    \* durable
    receipt,    \* the latest transition of every call's receipt
    epoch,      \* the session epoch, 0 before the binding
    fin,        \* None, or the verified finish receipt: its call and epoch
    active,     \* activeToolCall of the latest checkpoint
    \* one per session
    st,         \* off, live, a step of recover(), or failed
    own,        \* the epoch of its binding
    behind,
    pc,         \* where executeSerialized stands
    cur,        \* the call it executes
    res,        \* the result it is about to record
    before,     \* revisionBeforeExecute
    revision,   \* of its project builder
    expected,   \* expectedProjectRevision
    seal,       \* verifiedFinishSeal
    finishing,  \* the supervisor's status is finishing
    aborted,    \* the abort signal
    \* what happened, for the properties
    landed,     \* how often the effect of a call took place
    told,       \* the answers the callers got
    unseen,     \* an edit between two calls that no call has been told of
    edits

durable == <<receipt, epoch, fin, active>>
session == <<st, own, behind>>
exec == <<pc, cur, res, before>>
gate == <<revision, expected, seal, finishing, aborted>>
seen == <<landed, told, unseen, edits>>
vars == <<durable, session, exec, gate, seen>>

\* Result codes, as far as anything depends on them.  applied and done are a
\* successful tool with and without projectChanged.
CompletedCodes == {"applied", "done", "verified"}
FailedCodes == {"failed", "stale", "cancelled", "sealed", "refused"}
Codes == CompletedCodes \cup FailedCodes

ASSUME NoneIsNothing == None \notin Codes \cup [call : FinishCall, epoch : Nat]

ReceiptStates == {"none", "reserved", "in_flight", "completed", "failed", "ambiguous"}

\* Neither reserved, in flight nor ambiguous.
NotAmbiguous(c) == receipt[c].state # "ambiguous"                  \* mutant
Settled(c) == receipt[c].state \in {"none", "completed", "failed"}

\* reserveToolOperationReceipt acquires an identifier nobody has used.
NotTerminal(c) == receipt[c].result = None                         \* mutant
Fresh(c) == receipt[c].state = "none"
StateFor(r) == IF r \in CompletedCodes THEN "completed" ELSE "failed"

\* Tools that mutate, and the finish, are checked against the revision.
FinishFenced(c) == c \in FinishCall                                 \* mutant
Fenced(c) == c \notin ReadCall \cup ControlCall

-----------------------------------------------------------------------------
(* The receipts and the event log.                                          *)

\* assertForwardState of appendToolOperationReceipt.
Forward(from) ==
    CASE from = "reserved"  -> {"reserved", "in_flight", "completed", "failed", "ambiguous"}
      [] from = "in_flight" -> {"in_flight", "completed", "failed", "ambiguous"}
      [] from = "ambiguous" -> {"ambiguous", "completed", "failed"}
      [] from \in {"completed", "failed"} -> {from}
      [] from = "none" -> {}

\* A receipt is written in the epoch it was reserved in, while that is the
\* current one.
CanPut(s, c, to) ==
    /\ own[s] = epoch /\ receipt[c].epoch = epoch
    /\ to \in Forward(receipt[c].state)

Put(s, c, to, r) ==
    /\ CanPut(s, c, to)
    /\ receipt' = [receipt EXCEPT ![c].state = to, ![c].result = r]

\* appendGatewayEvent succeeds: in the current epoch, over the log it knows.
\* All others no longer know the whole log.
Behind(s, own_) ==
    [t \in Session |-> IF t = s THEN own_ ELSE behind[t] \/ st[t] # "off"]
Published(s) ==
    /\ own[s] = epoch /\ ~behind[s]
    /\ behind' = Behind(s, FALSE)
\* It fails: at once, or after the event was committed, with or without the
\* outbox of s knowing it.
NotPublished(s) ==
    \/ UNCHANGED behind
    \/ /\ own[s] = epoch /\ ~behind[s]
       /\ \E b \in BOOLEAN : behind' = Behind(s, b)

Tell(c, r) == told' = told \cup {<<c, r>>}

\* The engine names the call in its checkpoint; a control operation runs
\* while the engine waits.
ActiveFor(c) == IF c \in ControlCall THEN None ELSE c
\* When the event that follows the checkpoint fails, the checkpoint may stand.
ActiveAfterFailure(s, c) == IF own[s] = epoch THEN {active, ActiveFor(c)} ELSE {active}

Idle(s) ==
    /\ pc' = [pc EXCEPT ![s] = "idle"]
    /\ cur' = [cur EXCEPT ![s] = None]
    /\ res' = [res EXCEPT ![s] = None]
    /\ before' = [before EXCEPT ![s] = 0]

Go(s, to) == pc' = [pc EXCEPT ![s] = to] /\ UNCHANGED <<cur, res, before>>
GoWith(s, to, r) ==
    /\ pc' = [pc EXCEPT ![s] = to]
    /\ res' = [res EXCEPT ![s] = r]
    /\ UNCHANGED <<cur, before>>

At(s, where) == st[s] = "live" /\ pc[s] = where

-----------------------------------------------------------------------------
Init ==
    /\ receipt = [c \in Call |-> [state |-> "none", epoch |-> 0, result |-> None]]
    /\ epoch = 0 /\ fin = None /\ active = None
    /\ st = [s \in Session |-> "off"]
    /\ own = [s \in Session |-> 0]
    /\ behind = [s \in Session |-> FALSE]
    /\ pc = [s \in Session |-> "idle"]
    /\ cur = [s \in Session |-> None]
    /\ res = [s \in Session |-> None]
    /\ before = [s \in Session |-> 0]
    /\ revision = [s \in Session |-> 0]
    /\ expected = [s \in Session |-> 0]
    /\ seal = [s \in Session |-> FALSE]
    /\ finishing = [s \in Session |-> FALSE]
    /\ aborted = [s \in Session |-> FALSE]
    /\ landed = [c \in Call |-> 0]
    /\ told = {}
    /\ unseen = [s \in Session |-> FALSE]
    /\ edits = 0

\* start(): the binding is durable before the gateway is used.
Start(s) ==
    /\ epoch = 0 /\ MaxEpoch > 0
    /\ epoch' = 1
    /\ own' = [own EXCEPT ![s] = 1]
    /\ st' = [st EXCEPT ![s] = "live"]
    /\ UNCHANGED <<receipt, fin, active, behind, exec, gate, seen>>

-----------------------------------------------------------------------------
(* executeSerialized and executeTrustedControlSerialized.                   *)

\* A call with a new identifier: the reservation is atomic in the database.
\* Its acknowledgement may be lost, and then the call rejects.
Begin(s, c) ==
    /\ At(s, "idle")
    /\ Fresh(c) /\ own[s] = epoch
    /\ receipt' = [receipt EXCEPT ![c] = [state |-> "reserved", epoch |-> own[s], result |-> None]]
    /\ \/ /\ pc' = [pc EXCEPT ![s] = "decide"]
          /\ cur' = [cur EXCEPT ![s] = c]
          /\ UNCHANGED <<res, before>>
       \/ UNCHANGED exec
    /\ UNCHANGED <<epoch, fin, active, session, gate, seen>>

\* resultForExistingReceipt: the recorded result, published again.
Replay(s, c) ==
    /\ At(s, "idle")
    /\ receipt[c].result # None
    /\ \/ Published(s) /\ active' = ActiveFor(c) /\ Tell(c, receipt[c].result)
       \/ NotPublished(s) /\ active' \in ActiveAfterFailure(s, c) /\ UNCHANGED told
    /\ UNCHANGED <<receipt, epoch, fin, st, own, exec, gate, landed, unseen, edits>>

\* policyFailure, or the check of a control operation: the first reason that
\* applies.  A tool may also be outside the catalog or the phase.
Decide(s) ==
    LET c == cur[s]
        stale == Fenced(c) /\ revision[s] # expected[s]
    IN
    /\ At(s, "decide")
    /\ \/ /\ aborted[s]
          /\ GoWith(s, "refuse", "cancelled")
          /\ UNCHANGED <<expected, unseen>>
       \/ /\ ~aborted[s] /\ seal[s]
          /\ GoWith(s, "refuse", "sealed")
          /\ UNCHANGED <<expected, unseen>>
       \/ /\ ~aborted[s] /\ ~seal[s] /\ stale
          /\ GoWith(s, "refuse", "stale")
          /\ expected' = [expected EXCEPT ![s] = revision[s]]
          /\ unseen' = [unseen EXCEPT ![s] = FALSE]
       \/ /\ ~aborted[s] /\ c \notin ControlCall
          /\ GoWith(s, "refuse", "refused")
          /\ UNCHANGED <<expected, unseen>>
       \/ /\ ~aborted[s] /\ ~seal[s] /\ ~stale
          /\ Go(s, "mark")
          /\ UNCHANGED <<expected, unseen>>
    /\ UNCHANGED <<durable, session, revision, seal, finishing, aborted, landed, told, edits>>

\* The refusal is recorded; a tool's is also published before it is given.
Refuse(s) ==
    LET c == cur[s] IN
    /\ At(s, "refuse")
    /\ \/ UNCHANGED <<receipt, behind, told>>
       \/ /\ Put(s, c, "failed", res[s])
          /\ \/ c \in ControlCall /\ Tell(c, res[s]) /\ UNCHANGED behind
             \/ c \notin ControlCall /\ Published(s) /\ Tell(c, res[s])
             \/ c \notin ControlCall /\ NotPublished(s) /\ UNCHANGED told
             \/ UNCHANGED <<behind, told>>
    /\ Idle(s)
    /\ UNCHANGED <<epoch, fin, active, st, own, gate, landed, unseen, edits>>

\* The receipt is in flight.  A failure, acknowledged or not, leaves it as it
\* is: nothing has run.
Mark(s) ==
    LET c == cur[s] IN
    /\ At(s, "mark")
    /\ \/ Put(s, c, "in_flight", None) /\ (Go(s, "announce") \/ Idle(s))
       \/ UNCHANGED receipt /\ Idle(s)
    /\ UNCHANGED <<epoch, fin, active, session, gate, seen>>

\* publish("tool_call"), outside the try block, with its checkpoint; then the
\* second look at the abort signal, which a control operation does not take.
Announce(s) ==
    LET c == cur[s] IN
    /\ At(s, "announce")
    /\ \/ /\ Published(s)
          /\ active' = ActiveFor(c)
          /\ before' = [before EXCEPT ![s] = revision[s]]
          /\ IF aborted[s] /\ c \notin ControlCall
             THEN /\ pc' = [pc EXCEPT ![s] = "persist"]
                  /\ res' = [res EXCEPT ![s] = "cancelled"]
             ELSE /\ pc' = [pc EXCEPT ![s] = "run"]
                  /\ UNCHANGED res
          /\ UNCHANGED cur
       \/ /\ NotPublished(s)
          /\ active' \in ActiveAfterFailure(s, c)
          /\ Idle(s)
    /\ UNCHANGED <<receipt, epoch, fin, st, own, gate, seen>>

-----------------------------------------------------------------------------
(* The tool, or the callback of a control operation.                        *)

Mutator(c) == c \notin ReadCall \cup FinishCall

\* The change set is applied to the builder.
Land(s) ==
    /\ At(s, "run") /\ Mutator(cur[s])
    /\ revision' = [revision EXCEPT ![s] = @ + 1]
    /\ landed' = [landed EXCEPT ![cur[s]] = @ + 1]
    /\ Go(s, "ran")
    /\ UNCHANGED <<durable, session, expected, seal, finishing, aborted, told, unseen, edits>>

\* A successful mutating tool acknowledges its own revision; a control
\* operation acknowledges whatever is there, success or not.
AcknowledgeNothing(s) ==                                           \* mutant
    /\ expected' = [expected EXCEPT ![s] = None]
    /\ UNCHANGED unseen
Acknowledge(s) ==
    /\ expected' = [expected EXCEPT ![s] = revision[s]]
    /\ unseen' = [unseen EXCEPT ![s] = @ /\ cur[s] \notin ControlCall]

\* The code of the failed envelope.
CancelledIfAborted(s) == IF aborted[s] THEN "cancelled" ELSE "failed"  \* mutant
FailureCode(s) == "failed"

Running(s) == At(s, "run") \/ At(s, "ran")

Succeed(s) ==
    LET c == cur[s] IN
    /\ Running(s) /\ c \notin FinishCall
    /\ c \in ControlCall => pc[s] = "ran"
    /\ GoWith(s, "persist",
              IF c \notin ReadCall /\ revision[s] # before[s] THEN "applied" ELSE "done")
    /\ IF c \notin ReadCall THEN Acknowledge(s) ELSE UNCHANGED <<expected, unseen>>
    /\ UNCHANGED <<durable, session, revision, seal, finishing, aborted, landed, told, edits>>

\* ToolRegistry.run turns whatever a tool throws, before or after its effect,
\* into a failed envelope.  A control operation fails in this way only before
\* its effect.
Fail(s) ==
    LET c == cur[s] IN
    /\ Running(s)
    /\ c \in FinishCall => pc[s] = "run"
    /\ c \in ControlCall => pc[s] = "run"
    /\ GoWith(s, "persist", FailureCode(s))
    /\ IF c \in ControlCall THEN Acknowledge(s) ELSE UNCHANGED <<expected, unseen>>
    /\ UNCHANGED <<durable, session, revision, seal, finishing, aborted, landed, told, edits>>

\* What escapes: for a tool or a finish, failed if the revision is what it was
\* and no seal was set, ambiguous otherwise; for a control operation always
\* ambiguous.
Throw(s) ==
    LET c == cur[s] IN
    /\ Running(s)
    /\ IF c \in ControlCall \/ revision[s] # before[s]
       THEN Go(s, "stop")
       ELSE GoWith(s, "persist", "failed")
    /\ UNCHANGED <<durable, session, gate, seen>>

-----------------------------------------------------------------------------
(* The finish: executeFinish and handleFinishRequest.                       *)

\* hasUnsettledOperation, of all calls but the finish itself.
OthersNotAmbiguous(f) == \A c \in Call \ {f} : NotAmbiguous(c)     \* mutant
OthersSettled(f) == \A c \in Call \ {f} : Settled(c)

\* The deterministic verifier: the head is the acknowledged one, and no other
\* operation is unsettled.
Verify(s) ==
    /\ At(s, "run") /\ cur[s] \in FinishCall
    /\ revision[s] = expected[s]
    /\ OthersSettled(cur[s])
    /\ Go(s, "verified")
    /\ UNCHANGED <<durable, session, gate, seen>>

\* After the verifier's awaits the head is compared once more, and sealed.
SealFinish(s) ==
    /\ At(s, "verified")
    /\ IF revision[s] = expected[s]
       THEN /\ seal' = [seal EXCEPT ![s] = TRUE]
            /\ finishing' = [finishing EXCEPT ![s] = TRUE]
            /\ Go(s, "sealed")
       ELSE /\ GoWith(s, "persist", "failed")
            /\ UNCHANGED <<seal, finishing>>
    /\ UNCHANGED <<durable, session, revision, expected, aborted, seen>>

\* appendFinishReceipt: the effect of the finish.  One that is there already
\* may only be repeated as it is.
KeepFinish(s) ==
    LET c == cur[s] IN
    /\ At(s, "sealed")
    /\ \/ /\ own[s] = epoch /\ fin = None
          /\ fin' = [call |-> c, epoch |-> own[s]]
          /\ landed' = [landed EXCEPT ![c] = @ + 1]
          /\ \/ Go(s, "kept") /\ UNCHANGED finishing
             \/ Go(s, "stop") /\ finishing' = [finishing EXCEPT ![s] = FALSE]
       \/ /\ Go(s, "stop")
          /\ finishing' = [finishing EXCEPT ![s] = FALSE]
          /\ UNCHANGED <<fin, landed>>
    /\ UNCHANGED <<receipt, epoch, active, session, revision, expected, seal, aborted,
                   told, unseen, edits>>

\* verifiedFinishHeadMatches, then the checkpoint finish_verified.
CheckFinish(s) ==
    /\ At(s, "kept")
    /\ \/ /\ revision[s] = expected[s] /\ Published(s)
          /\ GoWith(s, "persist", "verified")
          /\ UNCHANGED finishing
       \/ /\ revision[s] = expected[s] /\ NotPublished(s)
          /\ Go(s, "stop")
          /\ UNCHANGED finishing
       \/ /\ revision[s] # expected[s]
          /\ Go(s, "stop")
          /\ finishing' = [finishing EXCEPT ![s] = FALSE]
          /\ UNCHANGED behind
    /\ UNCHANGED <<durable, st, own, revision, expected, seal, aborted, seen>>

-----------------------------------------------------------------------------
(* Recording the result.                                                    *)

\* persistTerminalReceipt.  A write whose acknowledgement was lost is found by
\* reading it back, unless that fails too; a failed result is written twice
\* before giving up.
Persist(s) ==
    LET c == cur[s] IN
    /\ At(s, "persist")
    /\ \/ Put(s, c, StateFor(res[s]), res[s]) /\ (Go(s, "report") \/ Go(s, "stop"))
       \/ UNCHANGED receipt /\ Go(s, "stop")
    /\ UNCHANGED <<epoch, fin, active, session, gate, seen>>

\* stopOnAmbiguousExecution: record it, publish it, reject.  Neither write is
\* needed to stop.
Stop(s) ==
    /\ At(s, "stop")
    /\ Put(s, cur[s], "ambiguous", None) \/ UNCHANGED receipt
    /\ Published(s) \/ NotPublished(s)
    /\ Idle(s)
    /\ UNCHANGED <<epoch, fin, active, st, own, gate, seen>>

\* publish("tool_result") and the answer.  Without the event the call rejects;
\* only a result that was thrown is given all the same.
Report(s) ==
    LET c == cur[s] IN
    /\ At(s, "report")
    /\ \/ Published(s) /\ active' = ActiveFor(c) /\ Tell(c, res[s])
       \/ /\ NotPublished(s) /\ active' \in ActiveAfterFailure(s, c)
          /\ \/ UNCHANGED told
             \/ res[s] = "failed" /\ c \notin ControlCall /\ Tell(c, res[s])
    /\ Idle(s)
    /\ UNCHANGED <<receipt, epoch, fin, st, own, gate, landed, unseen, edits>>

-----------------------------------------------------------------------------
(* The user.                                                                *)

\* manual_project_change, refused only while the supervisor is finishing.
ManualEdit(s) ==
    /\ st[s] = "live" /\ ~finishing[s] /\ edits < MaxEdits
    /\ edits' = edits + 1
    /\ revision' = [revision EXCEPT ![s] = @ + 1]
    /\ unseen' = [unseen EXCEPT ![s] = @ \/ pc[s] = "idle"]
    /\ UNCHANGED <<durable, session, exec, expected, seal, finishing, aborted, landed, told>>

\* cancel(): the signal, and the status, which a finish under verification
\* will overwrite.
Cancel(s) ==
    /\ st[s] = "live" /\ ~aborted[s]
    /\ aborted' = [aborted EXCEPT ![s] = TRUE]
    /\ finishing' = [finishing EXCEPT ![s] = FALSE]
    /\ UNCHANGED <<durable, session, exec, revision, expected, seal, seen>>

-----------------------------------------------------------------------------
(* Crash and recovery.                                                      *)

Crash(s) ==
    /\ st[s] # "off"
    /\ st' = [st EXCEPT ![s] = "off"]
    /\ own' = [own EXCEPT ![s] = 0]
    /\ behind' = [behind EXCEPT ![s] = FALSE]
    /\ Idle(s)
    /\ revision' = [revision EXCEPT ![s] = 0]
    /\ expected' = [expected EXCEPT ![s] = 0]
    /\ seal' = [seal EXCEPT ![s] = FALSE]
    /\ finishing' = [finishing EXCEPT ![s] = FALSE]
    /\ aborted' = [aborted EXCEPT ![s] = FALSE]
    /\ unseen' = [unseen EXCEPT ![s] = FALSE]
    /\ UNCHANGED <<durable, landed, told, edits>>

\* The one unsettled call a recovery may resolve: the finish whose receipt is
\* durable, if the checkpoint says it was being executed.
Reconcilable(c) ==
    /\ fin # None /\ active = c /\ c \in FinishCall
    /\ receipt[c].epoch = fin.epoch /\ ~Settled(c)

\* hydrateFinishRecovery seals the gateway by the durable receipt, whatever
\* the checkpoint says.
FinishAnswered == fin # None /\ <<fin.call, "verified">> \in told   \* mutant
FinishDurable == fin # None

\* recover() on a fresh supervisor: load, and the log read twice and equal.
\* It goes on if every call is settled or reconcilable.
RecoverLoad(s) ==
    /\ st[s] = "off" /\ epoch > 0
    /\ \A c \in Call : Settled(c) \/ Reconcilable(c)
    /\ st' = [st EXCEPT ![s] =
                IF \E c \in Call : Reconcilable(c) THEN "reconciling" ELSE "loaded"]
    /\ own' = [own EXCEPT ![s] = epoch]
    /\ seal' = [seal EXCEPT ![s] = FinishDurable]
    /\ cur' = [cur EXCEPT ![s] = IF \E c \in Call : Reconcilable(c) THEN active ELSE None]
    /\ UNCHANGED <<durable, behind, pc, res, before, revision, expected, finishing, aborted,
                   seen>>

\* The catch of recover(): an error event, over the log it has loaded.
GiveUp(s) ==
    /\ st' = [st EXCEPT ![s] = "failed"]
    /\ UNCHANGED behind \/ (~behind[s] /\ behind' = Behind(s, FALSE))

\* AMBIGUOUS_OPERATION_RECOVERY.
RecoverRefuse(s) ==
    /\ st[s] = "off" /\ epoch > 0
    /\ \E c \in Call : ~Settled(c) /\ ~Reconcilable(c)
    /\ own' = [own EXCEPT ![s] = epoch]
    /\ GiveUp(s)
    /\ UNCHANGED <<durable, exec, gate, seen>>

\* reconcileVerifiedFinishToolReceipt.
Reconcile(s) ==
    /\ st[s] = "reconciling"
    /\ Put(s, cur[s], "completed", "verified")
    /\ \/ st' = [st EXCEPT ![s] = "loaded"] /\ UNCHANGED behind
       \/ GiveUp(s)
    /\ Idle(s)
    /\ UNCHANGED <<epoch, fin, active, own, gate, seen>>

\* FINISH_RECOVERY_RETRY_UNSAFE: a finish verified in an earlier epoch than
\* the loaded one is not resumed again.
AnyEpoch(s) == TRUE                                                \* mutant
RetrySafe(s) == seal[s] => fin.epoch = own[s]

\* saveCheckpoint in the next epoch, and createBinding.  The row the recovery
\* started from is not compared with the latest one.  (Two recoveries of the
\* same row conflict; here they need not.)
Acquire(s) ==
    /\ st[s] = "loaded" /\ own[s] < MaxEpoch
    /\ epoch \in {own[s], own[s] + 1}
    /\ RetrySafe(s)
    /\ epoch' = own[s] + 1
    /\ active' = None
    /\ \/ /\ st' = [st EXCEPT ![s] = "acquired"]
          /\ own' = [own EXCEPT ![s] = own[s] + 1]
          /\ UNCHANGED behind
       \/ GiveUp(s) /\ UNCHANGED own
    /\ UNCHANGED <<receipt, fin, exec, gate, seen>>

\* SESSION_RESUMING is appended, and the engine session resumes.
Resume(s) ==
    /\ st[s] = "acquired" /\ Published(s)
    /\ st' = [st EXCEPT ![s] = "live"]
    /\ finishing' = [finishing EXCEPT ![s] = seal[s]]
    /\ UNCHANGED <<durable, own, exec, revision, expected, seal, aborted, seen>>

\* Any of these steps is refused or fails.
RecoverFail(s) ==
    /\ st[s] \in {"reconciling", "loaded", "acquired"}
    /\ GiveUp(s)
    /\ UNCHANGED <<durable, own, exec, gate, seen>>

-----------------------------------------------------------------------------
Next == \E s \in Session :
    \/ Start(s)
    \/ \E c \in Call : Begin(s, c) \/ Replay(s, c)
    \/ Decide(s) \/ Refuse(s) \/ Mark(s) \/ Announce(s)
    \/ Land(s) \/ Succeed(s) \/ Fail(s) \/ Throw(s)
    \/ Verify(s) \/ SealFinish(s) \/ KeepFinish(s) \/ CheckFinish(s)
    \/ Persist(s) \/ Stop(s) \/ Report(s)
    \/ ManualEdit(s) \/ Cancel(s)
    \/ Crash(s) \/ RecoverLoad(s) \/ RecoverRefuse(s) \/ Reconcile(s)
    \/ Acquire(s) \/ Resume(s) \/ RecoverFail(s)

Spec == Init /\ [][Next]_vars

-----------------------------------------------------------------------------
(* Properties.                                                              *)

PCs == {"idle", "decide", "refuse", "mark", "announce", "run", "ran", "verified",
        "sealed", "kept", "persist", "stop", "report"}

\* Type correctness.
TypeOK ==
    /\ receipt \in [Call -> [state : ReceiptStates, epoch : Nat, result : Codes \cup {None}]]
    /\ epoch \in Nat
    /\ fin \in {None} \cup [call : FinishCall, epoch : Nat]
    /\ active \in Call \cup {None}
    /\ st \in [Session -> {"off", "live", "reconciling", "loaded", "acquired", "failed"}]
    /\ own \in [Session -> Nat]
    /\ behind \in [Session -> BOOLEAN]
    /\ pc \in [Session -> PCs]
    /\ cur \in [Session -> Call \cup {None}]
    /\ res \in [Session -> Codes \cup {None}]
    /\ before \in [Session -> Nat]
    /\ revision \in [Session -> Nat]
    /\ expected \in [Session -> Nat]
    /\ seal \in [Session -> BOOLEAN]
    /\ finishing \in [Session -> BOOLEAN]
    /\ aborted \in [Session -> BOOLEAN]
    /\ landed \in [Call -> Nat]
    /\ told \subseteq Call \X Codes
    /\ unseen \in [Session -> BOOLEAN]
    /\ edits \in Nat

\* Refinement: however often a call is repeated, by whichever session, across
\* crashes, recoveries and lost acknowledgements, it takes effect at most once
\* and before its answer is recorded; the recorded answer never changes, and
\* nobody is told another.
Once == INSTANCE CallOnce WITH
    Answer <- Codes,
    admitted <- {c \in Call : receipt[c].state # "none"},
    count <- landed,
    answer <- [c \in Call |-> receipt[c].result]
ImplementsOnce == Once!Spec

\* A recorded answer tells the truth about the effect: a call that is recorded
\* as refused, or as done without change, changed nothing, and a verified
\* finish has its finish receipt.
AnswerTrue ==
    \A c \in Call :
        /\ receipt[c].result \in (Codes \ {"applied", "failed", "verified"}) => landed[c] = 0
        /\ receipt[c].result = "verified" => fin # None /\ fin.call = c

\* The same for a call recorded as failed.  The code does not have this
\* property: a tool that throws after its effect is recorded as failed.
FailedNotLanded == \A c \in Call : receipt[c].result = "failed" => landed[c] = 0

\* An edit made while no call is running is reported: until some call has been
\* refused as stale, or a control operation has looked, the gateway holds an
\* older revision than the project's.
EditsReported == \A s \in Session : unseen[s] => expected[s] # revision[s]

LandsNow(s) == landed' # landed /\ pc'[s] # pc[s]

\* Action property: the effect of a call never takes place once a session of a
\* later epoch is live.  No receipt is checked when the effect takes place; it
\* is the published tool_call that keeps a recovery from resuming.
NoOverlap ==
    [][\A s, t \in Session :
         LandsNow(s) => ~(st[t] = "live" /\ own[t] > own[s])]_vars

\* Action property: once a finish receipt is durable, in whatever session, no
\* call changes the project it speaks of.
SealedHead ==
    [][\A s \in Session : LandsNow(s) => fin = None /\ ~(Mutator(cur[s]) /\ seal[s])]_vars

\* Action property: a finish becomes durable only when every other call is
\* settled, although that was checked some awaits earlier.
NothingUnsettled ==
    [][fin = None /\ fin' # None =>
         \A c \in Call : c # fin'.call => Settled(c)]_vars

\* What a durable finish speaks of is settled before it and stays as it is.
FinishHolds == SealedHead /\ NothingUnsettled

\* A verified finish is taken over at most once: whoever is live is the session
\* that verified it, an earlier one, or its exact successor, the only one that
\* may finalize it.
OneSuccessor ==
    \A s \in Session : st[s] = "live" /\ fin # None => own[s] <= fin.epoch + 1

\* Action property: a recovered session resumes only when every call is
\* settled.  The code does not have this property: the check is made on what
\* was loaded, and a call may be reserved before the next epoch begins.
ResumedSettled ==
    [][\A s \in Session :
         st[s] = "acquired" /\ st'[s] = "live" => \A c \in Call : Settled(c)]_vars

=============================================================================
