-------------------------- MODULE RunConversation --------------------------
(****************************************************************************)
(* The conversation of one agent run: the supervisor (run-supervisor.ts)    *)
(* that consumes the event stream of an in-product engine session           *)
(* (in-product-model-agent-engine.ts), the provider that answers its turns, *)
(* the people who send input or cancel, and the durable authority from      *)
(* which a dead run is recovered.                                           *)
(*                                                                          *)
(* The consumer is a for-await loop over an async generator: one thread of  *)
(* control that runs through the engine, the gateway and the supervisor's   *)
(* handlers.  pc says at which await it stands or, before there is a        *)
(* consumer, where start() or recover() stands.  Input and cancellation     *)
(* come from other requests and run whenever this thread awaits.            *)
(*                                                                          *)
(* How long an await lasts.  The provider's turn and a tool that does work  *)
(* take time.  The persistence port is asynchronous by type, but the stores *)
(* of this repository commit before they return, and then nobody else runs  *)
(* before the code after the await.  yields says which of the two holds of  *)
(* the store and of openSession (an external engine does take time there).  *)
(*                                                                          *)
(* Every saveCheckpoint takes its snapshot and commits it in one step.  The *)
(* order of inputs, the text of turns and the event log are left out.       *)
(****************************************************************************)
EXTENDS Naturals, FiniteSets

CONSTANTS
    Input,          \* what people send
    Answer,         \* of these, answers to a question set
    Approval,       \* and the instructions that an approval becomes
    YieldModes,     \* the values of yields to consider
    MaxTurns,       \* the engine's maxTurns
    QueueLimit,     \* 20 in the code
    MaxRecoveries   \* bound on recoveries

ASSUME InputAssumption ==
    Answer \subseteq Input /\ Approval \subseteq Input /\ Answer \cap Approval = {}
ASSUME YieldAssumption == YieldModes \subseteq BOOLEAN
ASSUME BoundsAssumption == MaxTurns \in Nat /\ QueueLimit \in Nat /\ MaxRecoveries \in Nat

VARIABLES
    yields,
    \* durable: checkpoint, receipts, events
    ckpt,       \* the latest checkpoint: inputs, exchange, tool, turn
    doubt,      \* an exchange receipt of this run is ambiguous
    receipt,    \* the finish receipt
    sealedIn,   \* its sessionEpoch
    final,      \* the final event
    outcome,    \* RUN_SUCCEEDED and RUN_CANCELLED
    epoch,
    \* the supervisor
    alive, open,    \* its process; it has a session
    status,
    aborted,
    committing,     \* finalCommitStarted
    verified,       \* verifiedFinish is set
    pc, act,        \* the consumer, and the action of the turn it carries out
    question,       \* the host's questionSetId
    \* the engine session
    paused, terminal,
    pending,        \* the kind of pendingDelta
    human,          \* its inputs, when they are a human's
    queued,         \* queuedInputs
    sending,        \* the inputs of the turn that is being sent
    exchange, tool, turn,
    \* submit(): the requests that found the run waiting
    returning,      \* saving the checkpoint
    starting,       \* appending HUMAN_INPUT_ACCEPTED
    \* what happened, for the properties
    accepted,   \* inputs whose submit() was acknowledged
    heard,      \* inputs of turns that came back valid
    spoilt,     \* inputs of turns that came back invalid
    unknown     \* inputs of turns of which nobody knows whether they were read

durable == <<ckpt, doubt, receipt, sealedIn, final, outcome, epoch>>
supervisor == <<alive, open, status, aborted, committing, verified, question>>
consumer == <<pc, act>>
session == <<paused, terminal, pending, human, queued, sending, exchange, tool, turn>>
clients == <<returning, starting>>
history == <<accepted, heard, spoilt, unknown>>
vars == <<yields, durable, supervisor, consumer, session, clients, history>>

Acts == {"ask", "approve", "finish", "work", "final"}
Terminal == {"succeeded", "failed", "cancelled"}
Waiting == {"waiting_user", "waiting_approval"}

NoCheckpoint == [inputs |-> {}, exchange |-> "absent", tool |-> FALSE, turn |-> 0]

Init ==
    /\ yields \in YieldModes
    /\ ckpt = NoCheckpoint /\ doubt = FALSE /\ epoch = 0
    /\ receipt = "none" /\ sealedIn = 0 /\ final = FALSE /\ outcome = {}
    /\ alive = FALSE /\ open = FALSE /\ status = "idle"
    /\ aborted = FALSE /\ committing = FALSE /\ verified = FALSE /\ question = FALSE
    /\ pc = "off" /\ act = "work"
    /\ paused = FALSE /\ terminal = FALSE
    /\ pending = "context" /\ human = {} /\ queued = {} /\ sending = {}
    /\ exchange = "none" /\ tool = FALSE /\ turn = 0
    /\ returning = {} /\ starting = {}
    /\ accepted = {} /\ heard = {} /\ spoilt = {} /\ unknown = {}

\* Another request may run now.
Quiet ==
    \/ yields
    \/ /\ returning = {} /\ starting = {}
       /\ \/ pc \in {"off", "exchange"}
          \/ pc = "tool" /\ act = "work"

\* What session.checkpoint() returns, for the primed session.
Snapshot ==
    [inputs |-> human' \cup queued', exchange |-> exchange', tool |-> tool', turn |-> turn']
Save == ckpt' = Snapshot

----------------------------------------------------------------------------
(* start() and recover()                                                    *)

Start ==
    /\ ~alive /\ epoch = 0
    /\ alive' = TRUE /\ status' = "opening" /\ epoch' = 1
    /\ pc' = "opening"
    /\ UNCHANGED <<yields, ckpt, doubt, receipt, sealedIn, final, outcome, open, aborted,
                   committing, verified, question, act, session, clients, history>>

\* A new supervisor begins to load what is durable.  (One that has appended an
\* event cannot recover: its outbox refuses to be hydrated.)
RecoverBegins ==
    /\ ~alive /\ epoch > 0
    /\ final \/ epoch <= MaxRecoveries
    /\ alive' = TRUE /\ pc' = "loading"
    /\ UNCHANGED <<yields, durable, open, status, aborted, committing, verified, question, act,
                   session, clients, history>>

\* load() returns, then getEvents(): each hydrates the outbox, which an append
\* that has begun (that of a cancellation) forbids.
Hydrated ==
    /\ pc \in {"loading", "hydrating"} /\ ~aborted
    /\ pc' = IF pc = "loading" THEN "hydrating" ELSE "recovering"
    /\ UNCHANGED <<yields, durable, supervisor, act, session, clients, history>>

\* getFinishReceipt() returns and there is a final event: completeDurableFinal,
\* whoever has cancelled meanwhile.
RecoverFinal ==
    /\ pc = "recovering" /\ final
    /\ verified' = TRUE /\ committing' = TRUE
    /\ pc' = "finalizing"
    /\ UNCHANGED <<yields, durable, alive, open, status, aborted, question, act, session,
                   clients, history>>

ReceiptsSettled ==
    /\ ~doubt
    /\ ckpt.tool => receipt = "verified"
    /\ receipt = "verified" => sealedIn = epoch

\* There is a checkpoint, and assertRecoveryOperationsSettled, after
\* reconcileVerifiedFinishToolReceipt.
Settled ==
    /\ ckpt.exchange \in {"none", "completed", "failed"} /\ ~doubt
    /\ ckpt.tool => receipt = "verified"
    /\ receipt = "verified" => sealedIn = epoch

\* No final: the next epoch is committed and the session is to be resumed.
\* The awaits since getFinishReceipt are one, since a cancellation there is
\* overwritten by the status "opening" in any case.
Recover ==
    /\ pc = "recovering" /\ ~final /\ Settled
    /\ ckpt' = [ckpt EXCEPT !.exchange = "none", !.tool = FALSE]
    /\ epoch' = epoch + 1
    /\ verified' = (receipt = "verified")
    /\ status' = "opening" /\ pc' = "opening"
    /\ pending' = "context" /\ queued' = ckpt.inputs /\ turn' = ckpt.turn
    /\ UNCHANGED <<yields, doubt, receipt, sealedIn, final, outcome, alive, open, aborted,
                   committing, question, act, paused, terminal, human, sending, exchange, tool,
                   clients, history>>

\* recover() throws: the outbox was in use, or something is not settled.
RecoveryFails ==
    /\ \/ pc \in {"loading", "hydrating"} /\ aborted
       \/ pc = "recovering" /\ ~final /\ ~Settled
    /\ verified' = (pc = "recovering" /\ receipt # "none")
    /\ status' = "recovery_required"
    /\ pc' = "off"
    /\ UNCHANGED <<yields, durable, alive, open, aborted, committing, question, act, session,
                   clients, history>>

\* openSession or resumeSession returns.
Opened ==
    /\ pc = "opening"
    /\ open' = TRUE
    /\ status' = IF verified THEN "finishing" ELSE "running"
    /\ pc' = "top"
    /\ UNCHANGED session
    /\ Save
    /\ UNCHANGED <<yields, doubt, receipt, sealedIn, final, outcome, epoch, alive, aborted,
                   committing, verified, question, act, clients, history>>

\* The process dies.  What a request had saved stays accepted.
Crash ==
    /\ alive
    /\ alive' = FALSE /\ open' = FALSE /\ status' = "idle"
    /\ aborted' = FALSE /\ committing' = FALSE /\ verified' = FALSE /\ question' = FALSE
    /\ pc' = "off" /\ act' = "work"
    /\ paused' = FALSE /\ terminal' = FALSE /\ pending' = "context"
    /\ human' = {} /\ queued' = {} /\ sending' = {}
    /\ exchange' = "none" /\ tool' = FALSE /\ turn' = 0
    /\ returning' = {} /\ starting' = {}
    /\ unknown' = unknown \cup sending
    /\ UNCHANGED <<yields, durable, accepted, heard, spoilt>>

----------------------------------------------------------------------------
(* A turn                                                                   *)

Goto(p) == pc' = p /\ act' = act

\* The conditions of the loop in events().
Loops == ~(terminal \/ paused \/ aborted \/ pending = "none")

TurnOrOneMore == turn <= MaxTurns

TurnsLeft == turn < MaxTurns

AlwaysListens == TRUE

\* consume() looks at the abort signal before it handles an event.
Listens == ~aborted

\* events() leaves its loop.
StreamEnds ==
    /\ pc = "top" /\ ~Loops
    /\ Goto("ending")
    /\ UNCHANGED <<yields, durable, supervisor, session, clients, history>>

\* maxTurns: a terminal transport_error that cannot be retried.
TurnsExhausted ==
    /\ pc = "top" /\ Loops /\ ~TurnsLeft
    /\ terminal' = TRUE /\ queued' = {} /\ status' = "failed"
    /\ Goto("off")
    /\ UNCHANGED <<yields, durable, alive, open, aborted, committing, verified, question,
                   paused, pending, human, sending, exchange, tool, turn, clients, history>>

\* The queued inputs move into the delta of the turn; pendingDelta stays.
SendTurn ==
    /\ pc = "top" /\ Loops /\ TurnsLeft
    /\ turn' = turn + 1
    /\ sending' = human \cup queued
    /\ queued' = {}
    /\ exchange' = "in_flight"
    /\ UNCHANGED <<paused, terminal, pending, human, tool>>
    /\ Save
    /\ Goto("exchange")
    /\ UNCHANGED <<yields, doubt, receipt, sealedIn, final, outcome, epoch, supervisor,
                   clients, history>>

\* A valid turn: the provider has read what was sent.
TurnCompleted(a) ==
    /\ pc = "exchange" /\ Listens
    /\ exchange' = "completed" /\ pending' = "none" /\ human' = {}
    /\ sending' = {}
    /\ UNCHANGED <<paused, terminal, queued, tool, turn>>
    /\ Save
    /\ heard' = heard \cup sending
    /\ pc' = "answered" /\ act' = a
    /\ UNCHANGED <<yields, doubt, receipt, sealedIn, final, outcome, epoch, supervisor,
                   clients, accepted, spoilt, unknown>>

\* completeTurn throws (ambiguous), or what came back is not a turn (failed).
TurnLost(state) ==
    /\ pc = "exchange" /\ Listens
    /\ exchange' = state /\ sending' = {}
    /\ UNCHANGED <<paused, terminal, pending, human, queued, tool, turn>>
    /\ Save
    /\ doubt' = (doubt \/ state = "ambiguous")
    /\ IF state = "failed"
       THEN spoilt' = spoilt \cup sending /\ UNCHANGED unknown
       ELSE unknown' = unknown \cup sending /\ UNCHANGED spoilt
    /\ Goto("erring")
    /\ UNCHANGED <<yields, receipt, sealedIn, final, outcome, epoch, supervisor, clients,
                   accepted, heard>>

\* The retryable transport_error that follows.
TransportError ==
    /\ pc = "erring" /\ Listens
    /\ status' = "recovery_required"
    /\ Goto("off")
    /\ UNCHANGED <<yields, durable, alive, open, aborted, committing, verified, question,
                   session, clients, history>>

\* The engine gives up: the first turn said nothing to the user, a question
\* is not one (both retryable), or a tool call was repeated too often.
GiveUp(retryable) ==
    /\ Listens
    /\ \/ pc = "answered" /\ retryable
       \/ pc = "pausing" /\ (retryable => act = "ask")
       \/ pc = "top" /\ Loops /\ pending = "context" /\ turn > 0 /\ ~retryable
    /\ terminal' = TRUE
    /\ status' = IF retryable THEN "recovery_required" ELSE "failed"
    /\ Goto("off")
    /\ UNCHANGED <<yields, durable, alive, open, aborted, committing, verified, question,
                   paused, pending, human, queued, sending, exchange, tool, turn, clients,
                   history>>

\* consume() sees the abort at the next event and returns.
Abandon ==
    /\ aborted
    /\ \/ pc \in {"exchange", "erring", "answered", "pausing"}
       \/ pc = "tool" /\ act = "work"
    /\ unknown' = unknown \cup sending
    /\ sending' = {}
    /\ Goto("off")
    /\ UNCHANGED <<yields, durable, supervisor, paused, terminal, pending, human, queued,
                   exchange, tool, turn, clients, accepted, heard, spoilt>>

----------------------------------------------------------------------------
(* Tools                                                                    *)

\* executeTool: the gateway publishes tool_call with a checkpoint.
CallTool ==
    /\ pc = "answered" /\ Listens /\ act # "final"
    /\ tool' = TRUE
    /\ UNCHANGED <<paused, terminal, pending, human, queued, sending, exchange, turn>>
    /\ Save
    /\ Goto("tool")
    /\ UNCHANGED <<yields, doubt, receipt, sealedIn, final, outcome, epoch, supervisor,
                   clients, history>>

\* A result, of whatever tool, that does not pause the run.
ToolResult ==
    /\ pc = "tool" /\ Listens
    /\ tool' = FALSE /\ pending' = "context"
    /\ UNCHANGED <<paused, terminal, human, queued, sending, exchange, turn>>
    /\ Save
    /\ Goto("top")
    /\ UNCHANGED <<yields, doubt, receipt, sealedIn, final, outcome, epoch, supervisor,
                   clients, history>>

\* user.ask, or a mutation that needs approval: the gateway's event sets the
\* status before the engine knows that it is paused.
ToolPauses ==
    /\ pc = "tool" /\ act \in {"ask", "approve"}
    /\ status' = IF act = "ask" THEN "waiting_user" ELSE "waiting_approval"
    /\ tool' = FALSE /\ pending' = "context"
    /\ UNCHANGED <<paused, terminal, human, queued, sending, exchange, turn>>
    /\ Save
    /\ Goto("pausing")
    /\ UNCHANGED <<yields, doubt, receipt, sealedIn, final, outcome, epoch, alive, open,
                   aborted, committing, verified, question, clients, history>>

EnginePauses ==
    /\ pc = "pausing" /\ Listens
    /\ paused' = TRUE
    /\ UNCHANGED <<terminal, pending, human, queued, sending, exchange, tool, turn>>
    /\ Save
    /\ Goto(IF act = "ask" THEN "asking" ELSE "ending")
    /\ UNCHANGED <<yields, doubt, receipt, sealedIn, final, outcome, epoch, supervisor,
                   clients, history>>

QuestionNotKept ==
    /\ pc = "asking"
    /\ status' = "waiting_user"
    /\ Goto("ending")
    /\ UNCHANGED <<yields, durable, alive, open, aborted, committing, verified, question,
                   session, clients, history>>

\* The question event; the host keeps its question set.
QuestionAsked ==
    /\ pc = "asking"
    /\ status' = "waiting_user" /\ question' = TRUE
    /\ Goto("ending")
    /\ UNCHANGED <<yields, durable, alive, open, aborted, committing, verified, session,
                   clients, history>>

\* consume() after its loop.
StreamEnded ==
    /\ pc = "ending"
    /\ status' = IF status \in {"running", "finishing"} THEN "recovery_required" ELSE status
    /\ Goto("off")
    /\ UNCHANGED <<yields, durable, alive, open, aborted, committing, verified, question,
                   session, clients, history>>

\* run.request_finish: the verifier accepts, and the receipt is appended.  The
\* gateway refuses every call once a receipt sealed the project.
FinishAccepted ==
    /\ pc = "tool" /\ act = "finish" /\ receipt = "none"
    /\ status' = "finishing"
    /\ receipt' = "verified" /\ sealedIn' = epoch
    /\ Goto("sealed")
    /\ UNCHANGED <<yields, ckpt, doubt, final, outcome, epoch, alive, open, aborted,
                   committing, verified, question, session, clients, history>>

\* verifiedFinish is set, the checkpoint saved, and the result returned.
FinishReturned ==
    /\ pc = "sealed"
    /\ verified' = TRUE
    /\ tool' = FALSE /\ pending' = "context"
    /\ UNCHANGED <<paused, terminal, human, queued, sending, exchange, turn>>
    /\ Save
    /\ Goto(IF aborted THEN "off" ELSE "top")
    /\ UNCHANGED <<yields, doubt, receipt, sealedIn, final, outcome, epoch, alive, open,
                   status, aborted, committing, question, clients, history>>

\* stopForSecurityBreach: a forbidden tool was called.
Breach ==
    /\ pc = "tool" /\ act = "work" /\ Listens
    /\ aborted' = TRUE /\ terminal' = TRUE /\ status' = "failed"
    /\ Goto("off")
    /\ UNCHANGED <<yields, durable, alive, open, committing, verified, question, paused,
                   pending, human, queued, sending, exchange, tool, turn, clients, history>>

----------------------------------------------------------------------------
(* The final                                                                *)

QueueNeverWins == FALSE

QueueWins == queued # {}

\* Input that came during the final turn wins: the turn's final is dropped.
FinalSuperseded ==
    /\ pc = "answered" /\ act = "final" /\ Listens /\ QueueWins
    /\ pending' = "human" /\ human' = queued /\ queued' = {}
    /\ UNCHANGED <<paused, terminal, sending, exchange, tool, turn>>
    /\ Save
    /\ Goto("top")
    /\ UNCHANGED <<yields, doubt, receipt, sealedIn, final, outcome, epoch, supervisor,
                   clients, history>>

FinalYielded ==
    /\ pc = "answered" /\ act = "final" /\ Listens /\ ~QueueWins
    /\ terminal' = TRUE
    /\ Goto("final")
    /\ UNCHANGED <<yields, durable, supervisor, paused, pending, human, queued, sending,
                   exchange, tool, turn, clients, history>>

\* acceptFinal refuses: no verified finish, or the project has moved.
FinalRefused ==
    /\ pc = "final" /\ ~(aborted \/ status = "cancelled")
    /\ status' = "recovery_required"
    /\ Goto("off")
    /\ UNCHANGED <<yields, durable, alive, open, aborted, committing, verified, question,
                   session, clients, history>>

FinalCancelled ==
    /\ pc = "final" /\ (aborted \/ status = "cancelled")
    /\ Goto("off")
    /\ UNCHANGED <<yields, durable, supervisor, session, clients, history>>

AnyFinal == TRUE

FinishVerified == verified /\ receipt # "none"

\* finalCommitStarted, and the final event.
FinalAccepted ==
    /\ pc = "final" /\ ~(aborted \/ status = "cancelled")
    /\ FinishVerified
    /\ committing' = TRUE /\ final' = TRUE
    /\ Goto("finalizing")
    /\ UNCHANGED <<yields, ckpt, doubt, receipt, sealedIn, outcome, epoch, alive, open, status,
                   aborted, verified, question, session, clients, history>>

\* completeDurableFinal, also on recovery: the receipt, then the success.
FinishPersisted ==
    /\ pc = "finalizing"
    /\ receipt' = "final_persisted"
    /\ Goto("completing")
    /\ UNCHANGED <<yields, ckpt, doubt, sealedIn, final, outcome, epoch, supervisor, session,
                   clients, history>>

Succeeded ==
    /\ pc = "completing"
    /\ status' = "succeeded" /\ outcome' = outcome \cup {"succeeded"}
    /\ Goto("off")
    /\ UNCHANGED <<yields, ckpt, doubt, receipt, sealedIn, final, epoch, alive, open, aborted,
                   committing, verified, question, session, clients, history>>

----------------------------------------------------------------------------
(* Other requests                                                           *)

\* What the host lets through (handleStructuredModelAgentMessage).
Admitted(i) ==
    CASE i \in Answer -> question
      [] i \in Approval -> status = "waiting_approval"
      [] OTHER -> ~question /\ status # "waiting_approval"

\* submit() up to its checkpoint.  Every refusal leaves all as it was.
Submit(i) ==
    /\ open /\ Quiet /\ i \notin accepted
    /\ Admitted(i)
    /\ status \in Waiting \/ (status = "running" /\ i \notin Answer)
    /\ ~terminal
    /\ ~paused => i \notin Answer /\ Cardinality(queued) < QueueLimit
    /\ IF paused
       THEN pending' = "human" /\ human' = {i} /\ UNCHANGED queued
       ELSE queued' = queued \cup {i} /\ UNCHANGED <<pending, human>>
    /\ paused' = FALSE
    /\ UNCHANGED <<terminal, sending, exchange, tool, turn>>
    /\ Save
    /\ accepted' = accepted \cup {i}
    /\ returning' = IF status \in Waiting THEN returning \cup {i} ELSE returning
    /\ UNCHANGED <<yields, doubt, receipt, sealedIn, final, outcome, epoch, supervisor,
                   consumer, starting, heard, spoilt, unknown>>

\* After the checkpoint: the status, whatever it has become.
SubmitSaved(i) ==
    /\ i \in returning
    /\ status' = "running"
    /\ returning' = returning \ {i} /\ starting' = starting \cup {i}
    /\ UNCHANGED <<yields, durable, alive, open, aborted, committing, verified, question,
                   consumer, session, history>>

ConsumesAnswers == pc = "off" /\ status \notin Terminal /\ question

MayConsume == pc = "off" /\ status \notin Terminal

\* startConsumer: at most one consumer, none for a terminal run.
SubmitStarts(i) ==
    /\ i \in starting
    /\ starting' = starting \ {i}
    /\ question' = FALSE
    /\ pc' = IF MayConsume THEN "top" ELSE pc
    /\ UNCHANGED <<yields, durable, alive, open, status, aborted, committing, verified, act,
                   session, returning, history>>

CancellableAnyTime == status \notin Terminal

Cancellable == status \notin Terminal /\ ~committing

\* Before the outbox is hydrated the store refuses the RUN_CANCELLED event.
Cancel ==
    /\ alive /\ Quiet /\ Cancellable
    /\ aborted' = TRUE /\ status' = "cancelled"
    /\ terminal' = (terminal \/ open)
    /\ outcome' = IF pc = "loading" THEN outcome ELSE outcome \cup {"cancelled"}
    /\ UNCHANGED <<yields, ckpt, doubt, receipt, sealedIn, final, epoch, alive, open,
                   committing, verified, question, consumer, paused, pending, human, queued,
                   sending, exchange, tool, turn, clients, history>>

----------------------------------------------------------------------------

\* The provider answers or the transport gives up; tools return.
ConsumerStep ==
    \/ Hydrated \/ RecoverFinal \/ Recover \/ RecoveryFails \/ Opened
    \/ StreamEnds \/ TurnsExhausted \/ SendTurn
    \/ \E a \in Acts : TurnCompleted(a)
    \/ \E s \in {"ambiguous", "failed"} : TurnLost(s)
    \/ TransportError \/ Abandon
    \/ \E retryable \in BOOLEAN : GiveUp(retryable)
    \/ CallTool \/ ToolResult \/ ToolPauses \/ EnginePauses \/ QuestionAsked \/ StreamEnded
    \/ FinishAccepted \/ FinishReturned \/ Breach
    \/ FinalSuperseded \/ FinalYielded \/ FinalRefused \/ FinalCancelled \/ FinalAccepted
    \/ FinishPersisted \/ Succeeded

SubmitStep == \E i \in Input : SubmitSaved(i) \/ SubmitStarts(i)

Next ==
    \/ Start \/ RecoverBegins \/ Crash
    \/ ConsumerStep
    \/ SubmitStep
    \/ \E i \in Input : Submit(i)
    \/ Cancel

\* A live process runs: the consumer and the requests it has begun go on.
\* Nobody has to send input, cancel, start or begin a recovery.
Spec == Init /\ [][Next]_vars /\ WF_vars(ConsumerStep) /\ WF_vars(SubmitStep)

----------------------------------------------------------------------------
(* Properties                                                               *)

DurableTypes ==
    /\ ckpt \in [inputs : SUBSET Input, tool : BOOLEAN, turn : 0..MaxTurns,
                 exchange : {"absent", "none", "in_flight", "completed", "failed", "ambiguous"}]
    /\ doubt \in BOOLEAN /\ final \in BOOLEAN
    /\ receipt \in {"none", "verified", "final_persisted"}
    /\ epoch \in 0..(MaxRecoveries + 1) /\ sealedIn \in 0..(MaxRecoveries + 1)
    /\ outcome \subseteq {"succeeded", "cancelled"}

SupervisorTypes ==
    /\ yields \in BOOLEAN
    /\ alive \in BOOLEAN /\ open \in BOOLEAN /\ aborted \in BOOLEAN
    /\ committing \in BOOLEAN /\ verified \in BOOLEAN /\ question \in BOOLEAN
    /\ status \in {"idle", "opening", "running", "finishing", "recovery_required"}
                    \cup Terminal \cup Waiting
    /\ pc \in {"loading", "hydrating", "recovering", "opening", "off", "top", "exchange",
               "erring", "answered", "tool", "pausing", "asking", "ending", "sealed",
               "final", "finalizing", "completing"}
    /\ act \in Acts

SessionTypes ==
    /\ paused \in BOOLEAN /\ terminal \in BOOLEAN /\ tool \in BOOLEAN
    /\ pending \in {"none", "context", "human"}
    /\ human \subseteq Input /\ queued \subseteq Input /\ sending \subseteq Input
    /\ human # {} => pending = "human"
    /\ exchange \in {"none", "in_flight", "completed", "failed", "ambiguous"}
    /\ turn \in 0..MaxTurns

HistoryTypes ==
    /\ returning \subseteq Input /\ starting \subseteq Input
    /\ accepted \subseteq Input /\ heard \subseteq Input
    /\ spoilt \subseteq Input /\ unknown \subseteq Input

\* The types of the variables; at most one human delta is pending.
TypeOK == DurableTypes /\ SupervisorTypes /\ SessionTypes /\ HistoryTypes

\* A final is published only when the model has read every input the run had
\* accepted, across cancellation, late input, pauses, crashes and recoveries.
\* Only what a turn carried that came back invalid may be missing and, with a
\* store that yields, what a turn carried that was lost.
FinalHeardAll ==
    /\ final => accepted \subseteq heard \cup spoilt \cup unknown
    /\ final /\ ~yields => accepted \cap unknown = {}

\* With the synchronous stores: what a turn carried that was answered, or of
\* which nobody knows whether it was, is never sent again, also when a
\* checkpoint still lists it.
SentOnce == ~yields => sending \cap (heard \cup unknown) = {}

\* Every accepted input reaches the model, and reaches it once.
ReadOnce == FinalHeardAll /\ SentOnce

\* In the life of a process a run does not end both ways, whichever of the
\* final and a cancellation comes first and at whatever await the other finds
\* it: a process that was told to cancel has no final to publish, and one that
\* published it, or found it when it recovered, cannot be told any more.  With
\* a store that yields, only a recovery that found the final may be cancelled
\* before it completes the run.
OneEnding == final /\ aborted => yields /\ ~open

\* What is reported as a success has its final event and its persisted finish
\* receipt; a final event has at least the verified one.
SuccessBacked ==
    /\ final => receipt # "none"
    /\ "succeeded" \in outcome => final /\ receipt = "final_persisted"

\* What a process says has become of the run is what became of it.
OutcomeTrue == OneEnding /\ SuccessBacked

\* With the synchronous stores of this repository: a run that nobody drives
\* says so.  It is not running, and when it waits for a person the session does
\* accept what the person sends.
NoneStranded ==
    ~yields /\ open /\ pc = "off" /\ returning = {} /\ starting = {}
        => /\ status \notin {"running", "finishing"}
           /\ status \in Waiting => paused /\ ~terminal
           /\ status = "waiting_user" => question

\* With the synchronous stores: a cancelled run stays cancelled.
CancelStays == [][~yields /\ status = "cancelled" /\ alive' => status' = "cancelled"]_vars

\* With the synchronous stores: accepted input is read by the model, or the run
\* stops or waits for a person, and says so, or its process dies.
HeardEventually ==
    \A i \in Input :
        ~yields /\ i \in accepted ~>
            \/ i \in heard
            \/ ~alive
            \/ status \in Terminal \cup Waiting \cup {"recovery_required"}

\* What the recovery test expects ("Keep the accepted instruction after
\* restart."), of every way a turn can end.
AcceptedKept == final => accepted \subseteq heard

\* What OneEnding would be of more than one process: what was cancelled is not
\* recovered and finished.
NeverBoth == ~(final /\ "cancelled" \in outcome)

=============================================================================
