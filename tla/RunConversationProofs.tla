----------------------- MODULE RunConversationProofs -----------------------
(***************************************************************************)
(* Proofs about RunConversation, for any inputs, any number of turns and   *)
(* any number of recoveries.                                               *)
(*                                                                         *)
(* The inductive invariant has three parts.  Base is about where the       *)
(* consumer stands and where every accepted input is: it gives the types   *)
(* and that a final has heard all.  Ends is about the finish receipt, the  *)
(* final event and the two endings.   Synchronous is about the stores that *)
(* commit before they return: which status goes with which step of the     *)
(* consumer, and why what has been sent never comes back into the queue.   *)
(***************************************************************************)
EXTENDS RunConversation, TLAPS

-----------------------------------------------------------------------------
(* Where the consumer stands, and where the inputs are.                     *)

\* The turn has been sent, and the engine has not gone back to its loop.
InTurn == {"exchange", "answered", "tool", "pausing", "asking", "sealed"}

\* Where a consumer can be when its session is terminal but not aborted.
Over == {"off", "top", "ending", "final", "finalizing", "completing"}

\* Where a supervisor is that recovers and has not decided.
Reading == {"loading", "hydrating", "recovering"}

Done == heard \cup spoilt \cup unknown

\* No consumer without a process and, but to complete a final, without a
\* session; an engine that has given up stays there.
Placed ==
    /\ open => alive
    /\ alive => epoch > 0
    /\ pc \in Reading => final \/ epoch <= MaxRecoveries
    /\ ~open => pc \in Reading \cup {"off", "opening", "finalizing", "completing"}
    /\ pc \in Reading \cup {"opening"} => ~open
    /\ ~open => human = {} /\ sending = {} /\ ~terminal /\ ~paused /\ exchange = "none"
    /\ ~alive => pc = "off" /\ status = "idle" /\ queued = {} /\ ~aborted
    /\ returning \cup starting # {} => open
    /\ epoch = 0 => ~final /\ outcome = {} /\ accepted = {}
    /\ terminal /\ ~aborted => pc \in Over
    /\ pc = "final" => terminal
    /\ pc = "pausing" => act \in {"ask", "approve"}
    /\ final => pc \in (Over \ {"final"}) \cup Reading
    /\ final /\ open => terminal

\* An accepted input is in the checkpoint, on its way to the model, or has
\* been there; a session that goes on holds it itself.
Held ==
    /\ human \cup queued \cup sending \cup Done \cup ckpt.inputs \subseteq accepted
    /\ accepted \subseteq ckpt.inputs \cup Done \cup sending
    /\ (open /\ ~terminal) \/ pc \in InTurn
          => accepted \subseteq Done \cup human \cup queued \cup sending
    /\ pc = "opening" => accepted \subseteq Done \cup queued
    /\ sending # {} => pc = "exchange"
    /\ pc = "exchange" => human \subseteq sending
    /\ paused => human = {}
    /\ pc \in InTurn \ {"exchange", "asking"} => human = {}
    /\ pc \in InTurn \ {"asking"} => ~paused
    /\ pc = "final" \/ final => accepted \subseteq Done

Base == TypeOK /\ Placed /\ Held

-----------------------------------------------------------------------------
(* The finish, the final event and the endings.                             *)

Backed ==
    /\ verified => receipt # "none"
    /\ pc = "sealed" => receipt # "none"
    /\ pc = "finalizing" => final
    /\ pc = "completing" => final /\ receipt = "final_persisted"

\* A process that published the final is committing it; one that recovers and
\* finds it can be cancelled only while it reads, with a store that yields.
Decided ==
    /\ final /\ open => committing
    /\ final /\ alive /\ ~yields => committing \/ pc \in Reading

Ends == Backed /\ SuccessBacked /\ Decided /\ OneEnding

-----------------------------------------------------------------------------
(* Stores that commit before they return.                                   *)

Busy == {"running", "finishing"}

\* The session waits for a person, and takes what the person sends.
Asked == paused /\ ~terminal /\ (status = "waiting_user" => question)

\* No request is between its checkpoint and the consumer it starts.
Settling == returning \cup starting # {}

\* The status belongs to the step of the consumer.
Told ==
    /\ open => status \notin {"opening", "idle"}
    /\ ~open /\ pc # "off" => ~aborted
    /\ pc = "opening" => status = "opening"
    /\ ~open /\ pc = "off" => status \notin Busy \cup {"opening"}
    /\ alive /\ ~open => status \in {"opening", "idle", "succeeded", "recovery_required",
                                     "cancelled"}
    /\ aborted /\ open => terminal
    /\ status = "cancelled" => aborted
    /\ open /\ pc \in {"top", "erring", "answered", "final", "finalizing", "completing"}
          => ~aborted /\ status \in Busy
    /\ pc \in {"exchange", "tool"} => IF aborted THEN status = "cancelled" ELSE status \in Busy
    /\ pc = "tool" /\ act # "work" => ~aborted
    /\ pc = "sealed" => ~aborted /\ status = "finishing"
    /\ pc = "pausing" =>
          ~aborted /\ status = (IF act = "ask" THEN "waiting_user" ELSE "waiting_approval")
    /\ pc = "asking" => ~aborted /\ paused /\ ~terminal /\ status = "waiting_user"
    /\ pc = "ending" => ~aborted /\ status \in Busy \cup Waiting /\ (status \in Waiting => Asked)
    /\ open /\ pc = "off" /\ ~Settling
          => status \notin Busy /\ (status \in Waiting => Asked)

\* One request at a time sets the run going, with the run waiting until then.
Prompt ==
    /\ \A i, j \in returning \cup starting : i = j
    /\ returning = {} \/ starting = {}
    /\ Settling => pc = "off" /\ ~paused /\ ~terminal /\ ~aborted
    /\ returning # {} => status \in Waiting
    /\ starting # {} => status = "running"

\* What the engine holds may still be sent.
Going ==
    \/ pc = "opening"
    \/ open /\ pc \notin {"off", "erring"}
    \/ open /\ status \in Waiting
    \/ Settling

\* What may be sent, now or after a recovery, has not been sent.
Unsent ==
    /\ Going => unknown = {} /\ (human \cup queued \cup sending) \cap heard = {}
    /\ queued \cap sending = {}
    /\ ~doubt /\ ckpt.exchange \notin {"in_flight", "ambiguous"}
          => unknown = {} /\ ckpt.inputs \cap heard = {}
    /\ open => ckpt.exchange = exchange
    /\ pc = "exchange" => exchange = "in_flight"
    /\ final => unknown = {}

Synchronous == ~yields => Told /\ Prompt /\ Unsent

IInv == Base /\ Ends /\ Synchronous


-----------------------------------------------------------------------------
(* What every step keeps.                                                   *)

\* Every step keeps the types.
LEMMA TypeStep ==
    ASSUME TypeOK, Placed, Held, [Next]_vars
    PROVE  TypeOK'
<1> USE DEF durable, supervisor, consumer, session, clients, history, Acts, Terminal,
            Waiting, TypeOK, DurableTypes, SupervisorTypes, SessionTypes, HistoryTypes
<1>0. /\ pc \in {"tool", "sealed", "recovering"} \/ ~alive => human = {}
      /\ pc = "recovering" /\ ~final => epoch <= MaxRecoveries
  BY DEF Placed, Held, InTurn, Reading
<1>1. CASE Start
  BY <1>1, BoundsAssumption DEF Start
<1>2. CASE Recover
  <2>1. DurableTypes'
    <3>1. /\ ckpt'.inputs = ckpt.inputs /\ ckpt'.turn = ckpt.turn
          /\ ckpt'.exchange = "none" /\ ckpt'.tool = FALSE
      BY <1>2, <1>0, BoundsAssumption DEF Recover, Settled
    <3>2. ckpt' \in [inputs : SUBSET Input, tool : BOOLEAN, turn : 0..MaxTurns,
                     exchange : {"absent", "none", "in_flight", "completed", "failed",
                                 "ambiguous"}]
      BY <1>2, <1>0, BoundsAssumption DEF Recover, Settled
    <3>3. epoch' \in 0..(MaxRecoveries + 1)
      BY <1>2, <1>0, BoundsAssumption DEF Recover, Settled
    <3> QED
      BY <3>2, <3>3, <1>2, <1>0, BoundsAssumption DEF Recover, Settled
  <2>2. SupervisorTypes'
    BY <1>2, <1>0, BoundsAssumption DEF Recover, Settled
  <2>3. SessionTypes'
    BY <1>2, <1>0, BoundsAssumption DEF Recover, Settled
  <2>4. HistoryTypes'
    BY <1>2, <1>0, BoundsAssumption DEF Recover, Settled
  <2>5. QED
    BY <2>1, <2>2, <2>3, <2>4
<1>3. CASE RecoverFinal
  BY <1>3 DEF RecoverFinal
<1>35. CASE RecoverBegins
  BY <1>35 DEF RecoverBegins
<1>36. CASE Hydrated
  BY <1>36 DEF Hydrated
<1>37. CASE RecoveryFails
  BY <1>37 DEF RecoveryFails, Settled
<1>4. CASE Crash
  <2>1. DurableTypes'
    BY <1>4 DEF Crash
  <2>2. SupervisorTypes'
    BY <1>4 DEF Crash
  <2>3. SessionTypes'
    <3>1. human' = {} /\ queued' = {} /\ sending' = {}
      BY <1>4 DEF Crash
    <3>2. paused' = FALSE /\ terminal' = FALSE /\ pending' = "context" /\ exchange' = "none"
      BY <1>4 DEF Crash
    <3>3. tool' = FALSE /\ turn' = 0 /\ turn' \in 0..MaxTurns
      BY BoundsAssumption, <1>4 DEF Crash
    <3> QED
      BY <3>1, <3>2, <3>3
  <2>4. HistoryTypes'
    BY <1>4 DEF Crash
  <2>5. QED
    BY <2>1, <2>2, <2>3, <2>4
<1>5. CASE Opened
  BY <1>5 DEF Opened, Save, Snapshot
<1>6. CASE StreamEnds
  BY <1>6 DEF StreamEnds, Goto, Loops
<1>7. CASE TurnsExhausted
  BY <1>7 DEF TurnsExhausted, Goto, Loops
<1>8. CASE SendTurn
  BY <1>8, BoundsAssumption DEF SendTurn, Save, Snapshot, Goto, Loops, TurnsLeft
<1>9. ASSUME NEW a \in Acts, TurnCompleted(a) PROVE TypeOK'
  BY <1>9 DEF TurnCompleted, Save, Snapshot, Listens
<1>10. ASSUME NEW s \in {"ambiguous", "failed"}, TurnLost(s) PROVE TypeOK'
  BY <1>10 DEF TurnLost, Save, Snapshot, Goto, Listens
<1>11. CASE TransportError
  BY <1>11 DEF TransportError, Goto, Listens
<1>12. CASE Abandon
  BY <1>12 DEF Abandon, Goto
<1>13. ASSUME NEW retryable \in BOOLEAN, GiveUp(retryable) PROVE TypeOK'
  BY <1>13 DEF GiveUp, Goto, Listens, Loops
<1>14. CASE CallTool
  BY <1>14 DEF CallTool, Save, Snapshot, Goto, Listens
<1>15. CASE ToolResult
  <2>1. DurableTypes'
    BY <1>15, <1>0 DEF ToolResult, Save, Snapshot, Goto, Listens
  <2>2. SupervisorTypes'
    BY <1>15, <1>0 DEF ToolResult, Save, Snapshot, Goto, Listens
  <2>3. SessionTypes'
    BY <1>15, <1>0 DEF ToolResult, Save, Snapshot, Goto, Listens
  <2>4. HistoryTypes'
    BY <1>15, <1>0 DEF ToolResult, Save, Snapshot, Goto, Listens
  <2>5. QED
    BY <2>1, <2>2, <2>3, <2>4
<1>16. CASE ToolPauses
  <2>1. DurableTypes'
    BY <1>16, <1>0 DEF ToolPauses, Save, Snapshot, Goto
  <2>2. SupervisorTypes'
    BY <1>16, <1>0 DEF ToolPauses, Save, Snapshot, Goto
  <2>3. SessionTypes'
    BY <1>16, <1>0 DEF ToolPauses, Save, Snapshot, Goto
  <2>4. HistoryTypes'
    BY <1>16, <1>0 DEF ToolPauses, Save, Snapshot, Goto
  <2>5. QED
    BY <2>1, <2>2, <2>3, <2>4
<1>17. CASE EnginePauses
  BY <1>17 DEF EnginePauses, Save, Snapshot, Goto, Listens
<1>18. CASE QuestionAsked
  BY <1>18 DEF QuestionAsked, Goto
<1>19. CASE StreamEnded
  BY <1>19 DEF StreamEnded, Goto
<1>20. CASE FinishAccepted
  BY <1>20 DEF FinishAccepted, Goto
<1>21. CASE FinishReturned
  <2>1. DurableTypes'
    BY <1>21, <1>0 DEF FinishReturned, Save, Snapshot, Goto
  <2>2. SupervisorTypes'
    BY <1>21, <1>0 DEF FinishReturned, Save, Snapshot, Goto
  <2>3. SessionTypes'
    BY <1>21, <1>0 DEF FinishReturned, Save, Snapshot, Goto
  <2>4. HistoryTypes'
    BY <1>21, <1>0 DEF FinishReturned, Save, Snapshot, Goto
  <2>5. QED
    BY <2>1, <2>2, <2>3, <2>4
<1>22. CASE Breach
  BY <1>22 DEF Breach, Goto, Listens
<1>23. CASE FinalSuperseded
  BY <1>23 DEF FinalSuperseded, Save, Snapshot, Goto, Listens, QueueWins
<1>24. CASE FinalYielded
  BY <1>24 DEF FinalYielded, Goto, Listens, QueueWins
<1>25. CASE FinalRefused
  BY <1>25 DEF FinalRefused, Goto
<1>26. CASE FinalCancelled
  BY <1>26 DEF FinalCancelled, Goto
<1>27. CASE FinalAccepted
  BY <1>27 DEF FinalAccepted, Goto, FinishVerified
<1>28. CASE FinishPersisted
  BY <1>28 DEF FinishPersisted, Goto
<1>29. CASE Succeeded
  BY <1>29 DEF Succeeded, Goto
<1>30. ASSUME NEW i \in Input, SubmitSaved(i) PROVE TypeOK'
  BY <1>30 DEF SubmitSaved
<1>31. ASSUME NEW i \in Input, SubmitStarts(i) PROVE TypeOK'
  <2>1. DurableTypes'
    BY <1>31 DEF SubmitStarts, MayConsume
  <2>2. SupervisorTypes'
    <3>1. pc' \in {"loading", "hydrating", "recovering", "opening", "off", "top", "exchange",
                   "erring", "answered", "tool", "pausing", "asking", "ending", "sealed",
                   "final", "finalizing", "completing"}
      BY <1>31 DEF SubmitStarts, MayConsume
    <3>2. yields' \in BOOLEAN /\ alive' \in BOOLEAN /\ open' \in BOOLEAN
      BY <1>31 DEF SubmitStarts, MayConsume
    <3>3. aborted' \in BOOLEAN /\ committing' \in BOOLEAN /\ verified' \in BOOLEAN
      BY <1>31 DEF SubmitStarts, MayConsume
    <3>4. question' \in BOOLEAN
      BY <1>31 DEF SubmitStarts, MayConsume
    <3>5. status' = status /\ act' = act
      BY <1>31 DEF SubmitStarts, MayConsume
    <3> QED
      BY <3>1, <3>2, <3>3, <3>4, <3>5
  <2>3. SessionTypes'
    BY <1>31 DEF SubmitStarts, MayConsume
  <2>4. HistoryTypes'
    BY <1>31 DEF SubmitStarts, MayConsume
  <2>5. QED
    BY <2>1, <2>2, <2>3, <2>4
<1>32. ASSUME NEW i \in Input, Submit(i) PROVE TypeOK'
  <2>1. DurableTypes'
    BY <1>32 DEF Submit, Save, Snapshot, Quiet
  <2>2. SupervisorTypes'
    BY <1>32 DEF Submit, Save, Snapshot, Quiet
  <2>3. SessionTypes'
    BY <1>32 DEF Submit, Save, Snapshot, Quiet
  <2>4. HistoryTypes'
    BY <1>32 DEF Submit, Save, Snapshot, Quiet
  <2>5. QED
    BY <2>1, <2>2, <2>3, <2>4
<1>33. CASE Cancel
  BY <1>33 DEF Cancel, Quiet, Cancellable
<1>34. CASE UNCHANGED vars
  BY <1>34 DEF vars
<1> QED
  BY <1>1, <1>2, <1>3, <1>4, <1>5, <1>6, <1>7, <1>8, <1>9, <1>10, <1>11, <1>12, <1>13,
     <1>14, <1>15, <1>16, <1>17, <1>18, <1>19, <1>20, <1>21, <1>22, <1>23, <1>24, <1>25,
     <1>26, <1>27, <1>28, <1>29, <1>30, <1>31, <1>32, <1>33, <1>34, <1>35, <1>36, <1>37
     DEF Next, ConsumerStep, SubmitStep

\* Every step leaves the consumer, its process and its session in agreement.
LEMMA PlacedStep ==
    ASSUME TypeOK, Placed, Decided, [Next]_vars
    PROVE  Placed'
<1> USE DEF durable, supervisor, consumer, session, clients, history, Acts, Terminal,
            Waiting, TypeOK, DurableTypes, SupervisorTypes, SessionTypes, HistoryTypes,
            Placed, Decided, Over, Reading
<1>1. CASE Start
  BY <1>1 DEF Start
<1>2. CASE Recover
  BY <1>2 DEF Recover, Settled
<1>3. CASE RecoverFinal
  BY <1>3 DEF RecoverFinal
<1>35. CASE RecoverBegins
  BY <1>35 DEF RecoverBegins
<1>36. CASE Hydrated
  BY <1>36 DEF Hydrated
<1>37. CASE RecoveryFails
  BY <1>37 DEF RecoveryFails, Settled
<1>4. CASE Crash
  BY <1>4 DEF Crash
<1>5. CASE Opened
  BY <1>5 DEF Opened, Save, Snapshot
<1>6. CASE StreamEnds
  BY <1>6 DEF StreamEnds, Goto, Loops
<1>7. CASE TurnsExhausted
  BY <1>7 DEF TurnsExhausted, Goto, Loops
<1>8. CASE SendTurn
  BY <1>8 DEF SendTurn, Save, Snapshot, Goto, Loops, TurnsLeft
<1>9. ASSUME NEW a \in Acts, TurnCompleted(a) PROVE Placed'
  BY <1>9 DEF TurnCompleted, Save, Snapshot, Listens
<1>10. ASSUME NEW s \in {"ambiguous", "failed"}, TurnLost(s) PROVE Placed'
  BY <1>10 DEF TurnLost, Save, Snapshot, Goto, Listens
<1>11. CASE TransportError
  BY <1>11 DEF TransportError, Goto, Listens
<1>12. CASE Abandon
  BY <1>12 DEF Abandon, Goto
<1>13. ASSUME NEW retryable \in BOOLEAN, GiveUp(retryable) PROVE Placed'
  BY <1>13 DEF GiveUp, Goto, Listens, Loops
<1>14. CASE CallTool
  BY <1>14 DEF CallTool, Save, Snapshot, Goto, Listens
<1>15. CASE ToolResult
  BY <1>15 DEF ToolResult, Save, Snapshot, Goto, Listens
<1>16. CASE ToolPauses
  BY <1>16 DEF ToolPauses, Save, Snapshot, Goto
<1>17. CASE EnginePauses
  BY <1>17 DEF EnginePauses, Save, Snapshot, Goto, Listens
<1>18. CASE QuestionAsked
  BY <1>18 DEF QuestionAsked, Goto
<1>19. CASE StreamEnded
  BY <1>19 DEF StreamEnded, Goto
<1>20. CASE FinishAccepted
  BY <1>20 DEF FinishAccepted, Goto
<1>21. CASE FinishReturned
  BY <1>21 DEF FinishReturned, Save, Snapshot, Goto
<1>22. CASE Breach
  BY <1>22 DEF Breach, Goto, Listens
<1>23. CASE FinalSuperseded
  BY <1>23 DEF FinalSuperseded, Save, Snapshot, Goto, Listens, QueueWins
<1>24. CASE FinalYielded
  BY <1>24 DEF FinalYielded, Goto, Listens, QueueWins
<1>25. CASE FinalRefused
  BY <1>25 DEF FinalRefused, Goto
<1>26. CASE FinalCancelled
  BY <1>26 DEF FinalCancelled, Goto
<1>27. CASE FinalAccepted
  BY <1>27 DEF FinalAccepted, Goto, FinishVerified
<1>28. CASE FinishPersisted
  BY <1>28 DEF FinishPersisted, Goto
<1>29. CASE Succeeded
  BY <1>29 DEF Succeeded, Goto
<1>30. ASSUME NEW i \in Input, SubmitSaved(i) PROVE Placed'
  BY <1>30 DEF SubmitSaved
<1>31. ASSUME NEW i \in Input, SubmitStarts(i) PROVE Placed'
  BY <1>31 DEF SubmitStarts, MayConsume
<1>32. ASSUME NEW i \in Input, Submit(i) PROVE Placed'
  BY <1>32 DEF Submit, Save, Snapshot, Quiet
<1>33. CASE Cancel
  <2>1. CASE open
    BY <1>33, <2>1 DEF Cancel, Quiet, Cancellable
  <2>2. CASE ~open
    BY <1>33, <2>2 DEF Cancel, Quiet, Cancellable
  <2> QED
    BY <2>1, <2>2
<1>34. CASE UNCHANGED vars
  BY <1>34 DEF vars
<1> QED
  BY <1>1, <1>2, <1>3, <1>4, <1>5, <1>6, <1>7, <1>8, <1>9, <1>10, <1>11, <1>12, <1>13,
     <1>14, <1>15, <1>16, <1>17, <1>18, <1>19, <1>20, <1>21, <1>22, <1>23, <1>24, <1>25,
     <1>26, <1>27, <1>28, <1>29, <1>30, <1>31, <1>32, <1>33, <1>34, <1>35, <1>36, <1>37
     DEF Next, ConsumerStep, SubmitStep

\* Every step keeps every accepted input in the checkpoint, in the session, on its
\* way to the model, or among what has been there.
LEMMA HeldStep ==
    ASSUME TypeOK, Placed, Held, [Next]_vars
    PROVE  Held'
<1> USE DEF durable, supervisor, consumer, session, clients, history, Acts, Terminal,
            Waiting, TypeOK, DurableTypes, SupervisorTypes, SessionTypes, HistoryTypes,
            Placed, Held, InTurn, Over, Done, Reading
<1>1. CASE Start
  BY <1>1 DEF Start
<1>2. CASE Recover
  BY <1>2 DEF Recover, Settled
<1>3. CASE RecoverFinal
  BY <1>3 DEF RecoverFinal
<1>35. CASE RecoverBegins
  BY <1>35 DEF RecoverBegins
<1>36. CASE Hydrated
  BY <1>36 DEF Hydrated
<1>37. CASE RecoveryFails
  BY <1>37 DEF RecoveryFails, Settled
<1>4. CASE Crash
  BY <1>4 DEF Crash
<1>5. CASE Opened
  BY <1>5 DEF Opened, Save, Snapshot
<1>6. CASE StreamEnds
  BY <1>6 DEF StreamEnds, Goto, Loops
<1>7. CASE TurnsExhausted
  BY <1>7 DEF TurnsExhausted, Goto, Loops
<1>8. CASE SendTurn
  BY <1>8 DEF SendTurn, Save, Snapshot, Goto, Loops, TurnsLeft
<1>9. ASSUME NEW a \in Acts, TurnCompleted(a) PROVE Held'
  BY <1>9 DEF TurnCompleted, Save, Snapshot, Listens
<1>10. ASSUME NEW s \in {"ambiguous", "failed"}, TurnLost(s) PROVE Held'
  BY <1>10 DEF TurnLost, Save, Snapshot, Goto, Listens
<1>11. CASE TransportError
  BY <1>11 DEF TransportError, Goto, Listens
<1>12. CASE Abandon
  BY <1>12 DEF Abandon, Goto
<1>13. ASSUME NEW retryable \in BOOLEAN, GiveUp(retryable) PROVE Held'
  BY <1>13 DEF GiveUp, Goto, Listens, Loops
<1>14. CASE CallTool
  BY <1>14 DEF CallTool, Save, Snapshot, Goto, Listens
<1>15. CASE ToolResult
  BY <1>15 DEF ToolResult, Save, Snapshot, Goto, Listens
<1>16. CASE ToolPauses
  BY <1>16 DEF ToolPauses, Save, Snapshot, Goto
<1>17. CASE EnginePauses
  BY <1>17 DEF EnginePauses, Save, Snapshot, Goto, Listens
<1>18. CASE QuestionAsked
  BY <1>18 DEF QuestionAsked, Goto
<1>19. CASE StreamEnded
  BY <1>19 DEF StreamEnded, Goto
<1>20. CASE FinishAccepted
  BY <1>20 DEF FinishAccepted, Goto
<1>21. CASE FinishReturned
  BY <1>21 DEF FinishReturned, Save, Snapshot, Goto
<1>22. CASE Breach
  BY <1>22 DEF Breach, Goto, Listens
<1>23. CASE FinalSuperseded
  BY <1>23 DEF FinalSuperseded, Save, Snapshot, Goto, Listens, QueueWins
<1>24. CASE FinalYielded
  BY <1>24 DEF FinalYielded, Goto, Listens, QueueWins
<1>25. CASE FinalRefused
  BY <1>25 DEF FinalRefused, Goto
<1>26. CASE FinalCancelled
  BY <1>26 DEF FinalCancelled, Goto
<1>27. CASE FinalAccepted
  BY <1>27 DEF FinalAccepted, Goto, FinishVerified
<1>28. CASE FinishPersisted
  BY <1>28 DEF FinishPersisted, Goto
<1>29. CASE Succeeded
  BY <1>29 DEF Succeeded, Goto
<1>30. ASSUME NEW i \in Input, SubmitSaved(i) PROVE Held'
  BY <1>30 DEF SubmitSaved
<1>31. ASSUME NEW i \in Input, SubmitStarts(i) PROVE Held'
  BY <1>31 DEF SubmitStarts, MayConsume
<1>32. ASSUME NEW i \in Input, Submit(i) PROVE Held'
  BY <1>32 DEF Submit, Save, Snapshot, Quiet
<1>33. CASE Cancel
  BY <1>33 DEF Cancel, Quiet, Cancellable
<1>34. CASE UNCHANGED vars
  BY <1>34 DEF vars
<1> QED
  BY <1>1, <1>2, <1>3, <1>4, <1>5, <1>6, <1>7, <1>8, <1>9, <1>10, <1>11, <1>12, <1>13,
     <1>14, <1>15, <1>16, <1>17, <1>18, <1>19, <1>20, <1>21, <1>22, <1>23, <1>24, <1>25,
     <1>26, <1>27, <1>28, <1>29, <1>30, <1>31, <1>32, <1>33, <1>34, <1>35, <1>36, <1>37
     DEF Next, ConsumerStep, SubmitStep

\* Every step keeps what the outcomes and the final event stand on.
LEMMA EndsStep ==
    ASSUME Base, Ends, [Next]_vars
    PROVE  Ends'
<1> USE DEF durable, supervisor, consumer, session, clients, history, Acts, Terminal,
            Waiting, Base, TypeOK, DurableTypes, SupervisorTypes, SessionTypes,
            HistoryTypes, Placed, Ends, Backed, SuccessBacked, Decided, OneEnding, Over, Reading
<1>1. CASE Start
  BY <1>1 DEF Start
<1>2. CASE Recover
  BY <1>2 DEF Recover, Settled
<1>3. CASE RecoverFinal
  BY <1>3 DEF RecoverFinal
<1>35. CASE RecoverBegins
  BY <1>35 DEF RecoverBegins
<1>36. CASE Hydrated
  BY <1>36 DEF Hydrated
<1>37. CASE RecoveryFails
  BY <1>37 DEF RecoveryFails, Settled
<1>4. CASE Crash
  BY <1>4 DEF Crash
<1>5. CASE Opened
  BY <1>5 DEF Opened, Save, Snapshot
<1>6. CASE StreamEnds
  BY <1>6 DEF StreamEnds, Goto, Loops
<1>7. CASE TurnsExhausted
  BY <1>7 DEF TurnsExhausted, Goto, Loops
<1>8. CASE SendTurn
  BY <1>8 DEF SendTurn, Save, Snapshot, Goto, Loops, TurnsLeft
<1>9. ASSUME NEW a \in Acts, TurnCompleted(a) PROVE Ends'
  BY <1>9 DEF TurnCompleted, Save, Snapshot, Listens
<1>10. ASSUME NEW s \in {"ambiguous", "failed"}, TurnLost(s) PROVE Ends'
  BY <1>10 DEF TurnLost, Save, Snapshot, Goto, Listens
<1>11. CASE TransportError
  BY <1>11 DEF TransportError, Goto, Listens
<1>12. CASE Abandon
  BY <1>12 DEF Abandon, Goto
<1>13. ASSUME NEW retryable \in BOOLEAN, GiveUp(retryable) PROVE Ends'
  BY <1>13 DEF GiveUp, Goto, Listens, Loops
<1>14. CASE CallTool
  BY <1>14 DEF CallTool, Save, Snapshot, Goto, Listens
<1>15. CASE ToolResult
  BY <1>15 DEF ToolResult, Save, Snapshot, Goto, Listens
<1>16. CASE ToolPauses
  BY <1>16 DEF ToolPauses, Save, Snapshot, Goto
<1>17. CASE EnginePauses
  BY <1>17 DEF EnginePauses, Save, Snapshot, Goto, Listens
<1>18. CASE QuestionAsked
  BY <1>18 DEF QuestionAsked, Goto
<1>19. CASE StreamEnded
  BY <1>19 DEF StreamEnded, Goto
<1>20. CASE FinishAccepted
  BY <1>20 DEF FinishAccepted, Goto
<1>21. CASE FinishReturned
  BY <1>21 DEF FinishReturned, Save, Snapshot, Goto
<1>22. CASE Breach
  BY <1>22 DEF Breach, Goto, Listens
<1>23. CASE FinalSuperseded
  BY <1>23 DEF FinalSuperseded, Save, Snapshot, Goto, Listens, QueueWins
<1>24. CASE FinalYielded
  BY <1>24 DEF FinalYielded, Goto, Listens, QueueWins
<1>25. CASE FinalRefused
  BY <1>25 DEF FinalRefused, Goto
<1>26. CASE FinalCancelled
  BY <1>26 DEF FinalCancelled, Goto
<1>27. CASE FinalAccepted
  BY <1>27 DEF FinalAccepted, Goto, FinishVerified
<1>28. CASE FinishPersisted
  BY <1>28 DEF FinishPersisted, Goto
<1>29. CASE Succeeded
  BY <1>29 DEF Succeeded, Goto
<1>30. ASSUME NEW i \in Input, SubmitSaved(i) PROVE Ends'
  BY <1>30 DEF SubmitSaved
<1>31. ASSUME NEW i \in Input, SubmitStarts(i) PROVE Ends'
  BY <1>31 DEF SubmitStarts, MayConsume
<1>32. ASSUME NEW i \in Input, Submit(i) PROVE Ends'
  BY <1>32 DEF Submit, Save, Snapshot, Quiet
<1>33. CASE Cancel
  BY <1>33 DEF Cancel, Quiet, Cancellable
<1>34. CASE UNCHANGED vars
  BY <1>34 DEF vars
<1> QED
  BY <1>1, <1>2, <1>3, <1>4, <1>5, <1>6, <1>7, <1>8, <1>9, <1>10, <1>11, <1>12, <1>13,
     <1>14, <1>15, <1>16, <1>17, <1>18, <1>19, <1>20, <1>21, <1>22, <1>23, <1>24, <1>25,
     <1>26, <1>27, <1>28, <1>29, <1>30, <1>31, <1>32, <1>33, <1>34, <1>35, <1>36, <1>37
     DEF Next, ConsumerStep, SubmitStep

\* With a store that does not yield, every step keeps the status true to where the
\* consumer stands.
LEMMA ToldStep ==
    ASSUME Base, ~yields, Told, Prompt, [Next]_vars
    PROVE  Told'
<1> USE DEF durable, supervisor, consumer, session, clients, history, Acts, Terminal,
            Waiting, Base, TypeOK, DurableTypes, SupervisorTypes, SessionTypes,
            HistoryTypes, Placed, Told, Prompt, Busy, Asked, Settling, Over, Reading
<1>1. CASE Start
  BY <1>1 DEF Start
<1>2. CASE Recover
  BY <1>2 DEF Recover, Settled
<1>3. CASE RecoverFinal
  BY <1>3 DEF RecoverFinal
<1>35. CASE RecoverBegins
  BY <1>35 DEF RecoverBegins
<1>36. CASE Hydrated
  BY <1>36 DEF Hydrated
<1>37. CASE RecoveryFails
  BY <1>37 DEF RecoveryFails, Settled
<1>4. CASE Crash
  BY <1>4 DEF Crash
<1>5. CASE Opened
  BY <1>5 DEF Opened, Save, Snapshot
<1>6. CASE StreamEnds
  BY <1>6 DEF StreamEnds, Goto, Loops
<1>7. CASE TurnsExhausted
  BY <1>7 DEF TurnsExhausted, Goto, Loops
<1>8. CASE SendTurn
  BY <1>8 DEF SendTurn, Save, Snapshot, Goto, Loops, TurnsLeft
<1>9. ASSUME NEW a \in Acts, TurnCompleted(a) PROVE Told'
  BY <1>9 DEF TurnCompleted, Save, Snapshot, Listens
<1>10. ASSUME NEW s \in {"ambiguous", "failed"}, TurnLost(s) PROVE Told'
  BY <1>10 DEF TurnLost, Save, Snapshot, Goto, Listens
<1>11. CASE TransportError
  BY <1>11 DEF TransportError, Goto, Listens
<1>12. CASE Abandon
  BY <1>12 DEF Abandon, Goto
<1>13. ASSUME NEW retryable \in BOOLEAN, GiveUp(retryable) PROVE Told'
  BY <1>13 DEF GiveUp, Goto, Listens, Loops
<1>14. CASE CallTool
  BY <1>14 DEF CallTool, Save, Snapshot, Goto, Listens
<1>15. CASE ToolResult
  BY <1>15 DEF ToolResult, Save, Snapshot, Goto, Listens
<1>16. CASE ToolPauses
  BY <1>16 DEF ToolPauses, Save, Snapshot, Goto
<1>17. CASE EnginePauses
  BY <1>17 DEF EnginePauses, Save, Snapshot, Goto, Listens
<1>18. CASE QuestionAsked
  BY <1>18 DEF QuestionAsked, Goto
<1>19. CASE StreamEnded
  BY <1>19 DEF StreamEnded, Goto
<1>20. CASE FinishAccepted
  BY <1>20 DEF FinishAccepted, Goto
<1>21. CASE FinishReturned
  BY <1>21 DEF FinishReturned, Save, Snapshot, Goto
<1>22. CASE Breach
  BY <1>22 DEF Breach, Goto, Listens
<1>23. CASE FinalSuperseded
  BY <1>23 DEF FinalSuperseded, Save, Snapshot, Goto, Listens, QueueWins
<1>24. CASE FinalYielded
  BY <1>24 DEF FinalYielded, Goto, Listens, QueueWins
<1>25. CASE FinalRefused
  BY <1>25 DEF FinalRefused, Goto
<1>26. CASE FinalCancelled
  BY <1>26 DEF FinalCancelled, Goto
<1>27. CASE FinalAccepted
  BY <1>27 DEF FinalAccepted, Goto, FinishVerified
<1>28. CASE FinishPersisted
  BY <1>28 DEF FinishPersisted, Goto
<1>29. CASE Succeeded
  BY <1>29 DEF Succeeded, Goto
<1>30. ASSUME NEW i \in Input, SubmitSaved(i) PROVE Told'
  BY <1>30 DEF SubmitSaved
<1>31. ASSUME NEW i \in Input, SubmitStarts(i) PROVE Told'
  BY <1>31 DEF SubmitStarts, MayConsume
<1>32. ASSUME NEW i \in Input, Submit(i) PROVE Told'
  BY <1>32 DEF Submit, Save, Snapshot, Quiet
<1>33. CASE Cancel
  BY <1>33 DEF Cancel, Quiet, Cancellable
<1>34. CASE UNCHANGED vars
  BY <1>34 DEF vars
<1> HIDE DEF Told
<1> QED
  BY <1>1, <1>2, <1>3, <1>4, <1>5, <1>6, <1>7, <1>8, <1>9, <1>10, <1>11, <1>12, <1>13,
     <1>14, <1>15, <1>16, <1>17, <1>18, <1>19, <1>20, <1>21, <1>22, <1>23, <1>24, <1>25,
     <1>26, <1>27, <1>28, <1>29, <1>30, <1>31, <1>32, <1>33, <1>34, <1>35, <1>36, <1>37
     DEF Next, ConsumerStep, SubmitStep

\* With a store that does not yield, a request that sets the run going finds it as
\* its checkpoint left it.
LEMMA PromptStep ==
    ASSUME Base, ~yields, Told, Prompt, [Next]_vars
    PROVE  Prompt'
<1> USE DEF durable, supervisor, consumer, session, clients, history, Acts, Terminal,
            Waiting, Base, TypeOK, DurableTypes, SupervisorTypes, SessionTypes,
            HistoryTypes, Placed, Told, Prompt, Busy, Asked, Settling, Reading
<1>1. CASE Start
  BY <1>1 DEF Start
<1>2. CASE Recover
  BY <1>2 DEF Recover, Settled
<1>3. CASE RecoverFinal
  BY <1>3 DEF RecoverFinal
<1>35. CASE RecoverBegins
  BY <1>35 DEF RecoverBegins
<1>36. CASE Hydrated
  BY <1>36 DEF Hydrated
<1>37. CASE RecoveryFails
  BY <1>37 DEF RecoveryFails, Settled
<1>4. CASE Crash
  BY <1>4 DEF Crash
<1>5. CASE Opened
  BY <1>5 DEF Opened, Save, Snapshot
<1>6. CASE StreamEnds
  BY <1>6 DEF StreamEnds, Goto, Loops
<1>7. CASE TurnsExhausted
  BY <1>7 DEF TurnsExhausted, Goto, Loops
<1>8. CASE SendTurn
  BY <1>8 DEF SendTurn, Save, Snapshot, Goto, Loops, TurnsLeft
<1>9. ASSUME NEW a \in Acts, TurnCompleted(a) PROVE Prompt'
  BY <1>9 DEF TurnCompleted, Save, Snapshot, Listens
<1>10. ASSUME NEW s \in {"ambiguous", "failed"}, TurnLost(s) PROVE Prompt'
  BY <1>10 DEF TurnLost, Save, Snapshot, Goto, Listens
<1>11. CASE TransportError
  BY <1>11 DEF TransportError, Goto, Listens
<1>12. CASE Abandon
  BY <1>12 DEF Abandon, Goto
<1>13. ASSUME NEW retryable \in BOOLEAN, GiveUp(retryable) PROVE Prompt'
  BY <1>13 DEF GiveUp, Goto, Listens, Loops
<1>14. CASE CallTool
  BY <1>14 DEF CallTool, Save, Snapshot, Goto, Listens
<1>15. CASE ToolResult
  BY <1>15 DEF ToolResult, Save, Snapshot, Goto, Listens
<1>16. CASE ToolPauses
  BY <1>16 DEF ToolPauses, Save, Snapshot, Goto
<1>17. CASE EnginePauses
  BY <1>17 DEF EnginePauses, Save, Snapshot, Goto, Listens
<1>18. CASE QuestionAsked
  BY <1>18 DEF QuestionAsked, Goto
<1>19. CASE StreamEnded
  BY <1>19 DEF StreamEnded, Goto
<1>20. CASE FinishAccepted
  BY <1>20 DEF FinishAccepted, Goto
<1>21. CASE FinishReturned
  BY <1>21 DEF FinishReturned, Save, Snapshot, Goto
<1>22. CASE Breach
  BY <1>22 DEF Breach, Goto, Listens
<1>23. CASE FinalSuperseded
  BY <1>23 DEF FinalSuperseded, Save, Snapshot, Goto, Listens, QueueWins
<1>24. CASE FinalYielded
  BY <1>24 DEF FinalYielded, Goto, Listens, QueueWins
<1>25. CASE FinalRefused
  BY <1>25 DEF FinalRefused, Goto
<1>26. CASE FinalCancelled
  BY <1>26 DEF FinalCancelled, Goto
<1>27. CASE FinalAccepted
  BY <1>27 DEF FinalAccepted, Goto, FinishVerified
<1>28. CASE FinishPersisted
  BY <1>28 DEF FinishPersisted, Goto
<1>29. CASE Succeeded
  BY <1>29 DEF Succeeded, Goto
<1>30. ASSUME NEW i \in Input, SubmitSaved(i) PROVE Prompt'
  <2>1. starting = {} /\ Settling
    BY <1>30 DEF SubmitSaved
  <2>2. pc = "off" /\ ~paused /\ ~terminal /\ ~aborted
    BY <2>1
  <2>3. returning \ {i} = {}
    BY <1>30 DEF SubmitSaved
  <2> QED
    BY <1>30, <2>1, <2>2, <2>3 DEF SubmitSaved
<1>31. ASSUME NEW i \in Input, SubmitStarts(i) PROVE Prompt'
  <2>1. returning = {} /\ Settling
    BY <1>31 DEF SubmitStarts
  <2>2. starting \ {i} = {}
    BY <1>31 DEF SubmitStarts
  <2> QED
    BY <1>31, <2>1, <2>2 DEF SubmitStarts
<1>32. ASSUME NEW i \in Input, Submit(i) PROVE Prompt'
  <2>1. returning = {} /\ starting = {}
    BY <1>32 DEF Submit, Quiet
  <2>2. CASE status \in Waiting
    BY <1>32, <2>1, <2>2 DEF Submit, Quiet
  <2>3. CASE status \notin Waiting
    BY <1>32, <2>1, <2>3 DEF Submit, Quiet
  <2> QED
    BY <2>2, <2>3
<1>33. CASE Cancel
  BY <1>33 DEF Cancel, Quiet, Cancellable
<1>34. CASE UNCHANGED vars
  BY <1>34 DEF vars
<1> QED
  BY <1>1, <1>2, <1>3, <1>4, <1>5, <1>6, <1>7, <1>8, <1>9, <1>10, <1>11, <1>12, <1>13,
     <1>14, <1>15, <1>16, <1>17, <1>18, <1>19, <1>20, <1>21, <1>22, <1>23, <1>24, <1>25,
     <1>26, <1>27, <1>28, <1>29, <1>30, <1>31, <1>32, <1>33, <1>34, <1>35, <1>36, <1>37
     DEF Next, ConsumerStep, SubmitStep

\* With a store that does not yield, no step brings back into the queue what has
\* been sent, unless recovery is barred.
LEMMA UnsentStep ==
    ASSUME Base, ~yields, Told, Prompt, Unsent, [Next]_vars
    PROVE  Unsent'
<1> USE DEF durable, supervisor, consumer, session, clients, history, Acts, Terminal,
            Waiting, Base, TypeOK, DurableTypes, SupervisorTypes, SessionTypes,
            HistoryTypes, Placed, Held, Told, Prompt, Unsent, Going, Busy, Asked,
            Settling, InTurn, Over, Done, Reading
<1>1. CASE Start
  BY <1>1 DEF Start
<1>2. CASE Recover
  BY <1>2 DEF Recover, Settled
<1>3. CASE RecoverFinal
  BY <1>3 DEF RecoverFinal
<1>35. CASE RecoverBegins
  BY <1>35 DEF RecoverBegins
<1>36. CASE Hydrated
  BY <1>36 DEF Hydrated
<1>37. CASE RecoveryFails
  BY <1>37 DEF RecoveryFails, Settled
<1>4. CASE Crash
  BY <1>4 DEF Crash
<1>5. CASE Opened
  BY <1>5 DEF Opened, Save, Snapshot
<1>6. CASE StreamEnds
  BY <1>6 DEF StreamEnds, Goto, Loops
<1>7. CASE TurnsExhausted
  BY <1>7 DEF TurnsExhausted, Goto, Loops
<1>8. CASE SendTurn
  BY <1>8 DEF SendTurn, Save, Snapshot, Goto, Loops, TurnsLeft
<1>9. ASSUME NEW a \in Acts, TurnCompleted(a) PROVE Unsent'
  BY <1>9 DEF TurnCompleted, Save, Snapshot, Listens
<1>10. ASSUME NEW s \in {"ambiguous", "failed"}, TurnLost(s) PROVE Unsent'
  BY <1>10 DEF TurnLost, Save, Snapshot, Goto, Listens
<1>11. CASE TransportError
  BY <1>11 DEF TransportError, Goto, Listens
<1>12. CASE Abandon
  BY <1>12 DEF Abandon, Goto
<1>13. ASSUME NEW retryable \in BOOLEAN, GiveUp(retryable) PROVE Unsent'
  BY <1>13 DEF GiveUp, Goto, Listens, Loops
<1>14. CASE CallTool
  BY <1>14 DEF CallTool, Save, Snapshot, Goto, Listens
<1>15. CASE ToolResult
  BY <1>15 DEF ToolResult, Save, Snapshot, Goto, Listens
<1>16. CASE ToolPauses
  BY <1>16 DEF ToolPauses, Save, Snapshot, Goto
<1>17. CASE EnginePauses
  BY <1>17 DEF EnginePauses, Save, Snapshot, Goto, Listens
<1>18. CASE QuestionAsked
  BY <1>18 DEF QuestionAsked, Goto
<1>19. CASE StreamEnded
  BY <1>19 DEF StreamEnded, Goto
<1>20. CASE FinishAccepted
  BY <1>20 DEF FinishAccepted, Goto
<1>21. CASE FinishReturned
  BY <1>21 DEF FinishReturned, Save, Snapshot, Goto
<1>22. CASE Breach
  BY <1>22 DEF Breach, Goto, Listens
<1>23. CASE FinalSuperseded
  BY <1>23 DEF FinalSuperseded, Save, Snapshot, Goto, Listens, QueueWins
<1>24. CASE FinalYielded
  BY <1>24 DEF FinalYielded, Goto, Listens, QueueWins
<1>25. CASE FinalRefused
  BY <1>25 DEF FinalRefused, Goto
<1>26. CASE FinalCancelled
  BY <1>26 DEF FinalCancelled, Goto
<1>27. CASE FinalAccepted
  BY <1>27 DEF FinalAccepted, Goto, FinishVerified
<1>28. CASE FinishPersisted
  BY <1>28 DEF FinishPersisted, Goto
<1>29. CASE Succeeded
  BY <1>29 DEF Succeeded, Goto
<1>30. ASSUME NEW i \in Input, SubmitSaved(i) PROVE Unsent'
  BY <1>30 DEF SubmitSaved
<1>31. ASSUME NEW i \in Input, SubmitStarts(i) PROVE Unsent'
  BY <1>31 DEF SubmitStarts, MayConsume
<1>32. ASSUME NEW i \in Input, Submit(i) PROVE Unsent'
  BY <1>32 DEF Submit, Save, Snapshot, Quiet
<1>33. CASE Cancel
  BY <1>33 DEF Cancel, Quiet, Cancellable
<1>34. CASE UNCHANGED vars
  BY <1>34 DEF vars
<1> QED
  BY <1>1, <1>2, <1>3, <1>4, <1>5, <1>6, <1>7, <1>8, <1>9, <1>10, <1>11, <1>12, <1>13,
     <1>14, <1>15, <1>16, <1>17, <1>18, <1>19, <1>20, <1>21, <1>22, <1>23, <1>24, <1>25,
     <1>26, <1>27, <1>28, <1>29, <1>30, <1>31, <1>32, <1>33, <1>34, <1>35, <1>36, <1>37
     DEF Next, ConsumerStep, SubmitStep

\* No step changes whether the store yields.
LEMMA StoreStep ==
    ASSUME [Next]_vars
    PROVE  yields' = yields
<1> USE DEF durable
<1>1. CASE Start
  BY <1>1 DEF Start
<1>2. CASE Recover
  BY <1>2 DEF Recover, Settled
<1>3. CASE RecoverFinal
  BY <1>3 DEF RecoverFinal
<1>35. CASE RecoverBegins
  BY <1>35 DEF RecoverBegins
<1>36. CASE Hydrated
  BY <1>36 DEF Hydrated
<1>37. CASE RecoveryFails
  BY <1>37 DEF RecoveryFails, Settled
<1>4. CASE Crash
  BY <1>4 DEF Crash
<1>5. CASE Opened
  BY <1>5 DEF Opened, Save, Snapshot
<1>6. CASE StreamEnds
  BY <1>6 DEF StreamEnds, Goto, Loops
<1>7. CASE TurnsExhausted
  BY <1>7 DEF TurnsExhausted, Goto, Loops
<1>8. CASE SendTurn
  BY <1>8 DEF SendTurn, Save, Snapshot, Goto, Loops, TurnsLeft
<1>9. ASSUME NEW a \in Acts, TurnCompleted(a) PROVE yields' = yields
  BY <1>9 DEF TurnCompleted, Save, Snapshot, Listens
<1>10. ASSUME NEW s \in {"ambiguous", "failed"}, TurnLost(s) PROVE yields' = yields
  BY <1>10 DEF TurnLost, Save, Snapshot, Goto, Listens
<1>11. CASE TransportError
  BY <1>11 DEF TransportError, Goto, Listens
<1>12. CASE Abandon
  BY <1>12 DEF Abandon, Goto
<1>13. ASSUME NEW retryable \in BOOLEAN, GiveUp(retryable) PROVE yields' = yields
  BY <1>13 DEF GiveUp, Goto, Listens, Loops
<1>14. CASE CallTool
  BY <1>14 DEF CallTool, Save, Snapshot, Goto, Listens
<1>15. CASE ToolResult
  BY <1>15 DEF ToolResult, Save, Snapshot, Goto, Listens
<1>16. CASE ToolPauses
  BY <1>16 DEF ToolPauses, Save, Snapshot, Goto
<1>17. CASE EnginePauses
  BY <1>17 DEF EnginePauses, Save, Snapshot, Goto, Listens
<1>18. CASE QuestionAsked
  BY <1>18 DEF QuestionAsked, Goto
<1>19. CASE StreamEnded
  BY <1>19 DEF StreamEnded, Goto
<1>20. CASE FinishAccepted
  BY <1>20 DEF FinishAccepted, Goto
<1>21. CASE FinishReturned
  BY <1>21 DEF FinishReturned, Save, Snapshot, Goto
<1>22. CASE Breach
  BY <1>22 DEF Breach, Goto, Listens
<1>23. CASE FinalSuperseded
  BY <1>23 DEF FinalSuperseded, Save, Snapshot, Goto, Listens, QueueWins
<1>24. CASE FinalYielded
  BY <1>24 DEF FinalYielded, Goto, Listens, QueueWins
<1>25. CASE FinalRefused
  BY <1>25 DEF FinalRefused, Goto
<1>26. CASE FinalCancelled
  BY <1>26 DEF FinalCancelled, Goto
<1>27. CASE FinalAccepted
  BY <1>27 DEF FinalAccepted, Goto, FinishVerified
<1>28. CASE FinishPersisted
  BY <1>28 DEF FinishPersisted, Goto
<1>29. CASE Succeeded
  BY <1>29 DEF Succeeded, Goto
<1>30. ASSUME NEW i \in Input, SubmitSaved(i) PROVE yields' = yields
  BY <1>30 DEF SubmitSaved
<1>31. ASSUME NEW i \in Input, SubmitStarts(i) PROVE yields' = yields
  BY <1>31 DEF SubmitStarts, MayConsume
<1>32. ASSUME NEW i \in Input, Submit(i) PROVE yields' = yields
  BY <1>32 DEF Submit, Save, Snapshot, Quiet
<1>33. CASE Cancel
  BY <1>33 DEF Cancel, Quiet, Cancellable
<1>34. CASE UNCHANGED vars
  BY <1>34 DEF vars
<1> QED
  BY <1>1, <1>2, <1>3, <1>4, <1>5, <1>6, <1>7, <1>8, <1>9, <1>10, <1>11, <1>12, <1>13,
     <1>14, <1>15, <1>16, <1>17, <1>18, <1>19, <1>20, <1>21, <1>22, <1>23, <1>24, <1>25,
     <1>26, <1>27, <1>28, <1>29, <1>30, <1>31, <1>32, <1>33, <1>34, <1>35, <1>36, <1>37
     DEF Next, ConsumerStep, SubmitStep

\* With a store that does not yield, no step but the death of the process takes a
\* run out of "cancelled".
LEMMA CancelStaysStep ==
    ASSUME Base, ~yields, Told, Prompt, status = "cancelled", alive', [Next]_vars
    PROVE  status' = "cancelled"
<1> USE DEF durable, supervisor, consumer, session, clients, history, Acts, Terminal,
            Waiting, Base, TypeOK, DurableTypes, SupervisorTypes, SessionTypes,
            HistoryTypes, Placed, Told, Prompt, Busy, Asked, Settling, Over, Reading
<1>1. CASE Start
  BY <1>1 DEF Start
<1>2. CASE Recover
  BY <1>2 DEF Recover, Settled
<1>3. CASE RecoverFinal
  BY <1>3 DEF RecoverFinal
<1>35. CASE RecoverBegins
  BY <1>35 DEF RecoverBegins
<1>36. CASE Hydrated
  BY <1>36 DEF Hydrated
<1>37. CASE RecoveryFails
  BY <1>37 DEF RecoveryFails, Settled
<1>4. CASE Crash
  BY <1>4 DEF Crash
<1>5. CASE Opened
  BY <1>5 DEF Opened, Save, Snapshot
<1>6. CASE StreamEnds
  BY <1>6 DEF StreamEnds, Goto, Loops
<1>7. CASE TurnsExhausted
  BY <1>7 DEF TurnsExhausted, Goto, Loops
<1>8. CASE SendTurn
  BY <1>8 DEF SendTurn, Save, Snapshot, Goto, Loops, TurnsLeft
<1>9. ASSUME NEW a \in Acts, TurnCompleted(a) PROVE status' = "cancelled"
  BY <1>9 DEF TurnCompleted, Save, Snapshot, Listens
<1>10. ASSUME NEW s \in {"ambiguous", "failed"}, TurnLost(s) PROVE status' = "cancelled"
  BY <1>10 DEF TurnLost, Save, Snapshot, Goto, Listens
<1>11. CASE TransportError
  BY <1>11 DEF TransportError, Goto, Listens
<1>12. CASE Abandon
  BY <1>12 DEF Abandon, Goto
<1>13. ASSUME NEW retryable \in BOOLEAN, GiveUp(retryable) PROVE status' = "cancelled"
  BY <1>13 DEF GiveUp, Goto, Listens, Loops
<1>14. CASE CallTool
  BY <1>14 DEF CallTool, Save, Snapshot, Goto, Listens
<1>15. CASE ToolResult
  BY <1>15 DEF ToolResult, Save, Snapshot, Goto, Listens
<1>16. CASE ToolPauses
  BY <1>16 DEF ToolPauses, Save, Snapshot, Goto
<1>17. CASE EnginePauses
  BY <1>17 DEF EnginePauses, Save, Snapshot, Goto, Listens
<1>18. CASE QuestionAsked
  BY <1>18 DEF QuestionAsked, Goto
<1>19. CASE StreamEnded
  BY <1>19 DEF StreamEnded, Goto
<1>20. CASE FinishAccepted
  BY <1>20 DEF FinishAccepted, Goto
<1>21. CASE FinishReturned
  BY <1>21 DEF FinishReturned, Save, Snapshot, Goto
<1>22. CASE Breach
  BY <1>22 DEF Breach, Goto, Listens
<1>23. CASE FinalSuperseded
  BY <1>23 DEF FinalSuperseded, Save, Snapshot, Goto, Listens, QueueWins
<1>24. CASE FinalYielded
  BY <1>24 DEF FinalYielded, Goto, Listens, QueueWins
<1>25. CASE FinalRefused
  BY <1>25 DEF FinalRefused, Goto
<1>26. CASE FinalCancelled
  BY <1>26 DEF FinalCancelled, Goto
<1>27. CASE FinalAccepted
  BY <1>27 DEF FinalAccepted, Goto, FinishVerified
<1>28. CASE FinishPersisted
  BY <1>28 DEF FinishPersisted, Goto
<1>29. CASE Succeeded
  BY <1>29 DEF Succeeded, Goto
<1>30. ASSUME NEW i \in Input, SubmitSaved(i) PROVE status' = "cancelled"
  BY <1>30 DEF SubmitSaved
<1>31. ASSUME NEW i \in Input, SubmitStarts(i) PROVE status' = "cancelled"
  BY <1>31 DEF SubmitStarts, MayConsume
<1>32. ASSUME NEW i \in Input, Submit(i) PROVE status' = "cancelled"
  BY <1>32 DEF Submit, Save, Snapshot, Quiet
<1>33. CASE Cancel
  BY <1>33 DEF Cancel, Quiet, Cancellable
<1>34. CASE UNCHANGED vars
  BY <1>34 DEF vars
<1> QED
  BY <1>1, <1>2, <1>3, <1>4, <1>5, <1>6, <1>7, <1>8, <1>9, <1>10, <1>11, <1>12, <1>13,
     <1>14, <1>15, <1>16, <1>17, <1>18, <1>19, <1>20, <1>21, <1>22, <1>23, <1>24, <1>25,
     <1>26, <1>27, <1>28, <1>29, <1>30, <1>31, <1>32, <1>33, <1>34, <1>35, <1>36, <1>37
     DEF Next, ConsumerStep, SubmitStep

-----------------------------------------------------------------------------
(* The invariant.                                                           *)

\* The invariant holds before the run is started.
LEMMA InitInvariant == Init => IInv
<1> SUFFICES ASSUME Init PROVE IInv
  OBVIOUS
<1> USE DEF Init, NoCheckpoint
<1>1. TypeOK
  <2>1. DurableTypes
    <3>1. 0 \in 0..MaxTurns /\ 0 \in 0..(MaxRecoveries + 1)
      BY BoundsAssumption
    <3>2. ckpt \in [inputs : SUBSET Input, tool : BOOLEAN, turn : 0..MaxTurns,
                   exchange : {"absent", "none", "in_flight", "completed", "failed",
                                 "ambiguous"}]
      BY <3>1
    <3> QED
      BY <3>1, <3>2 DEF DurableTypes
  <2>2. SupervisorTypes
    BY YieldAssumption DEF SupervisorTypes, Acts
  <2>3. SessionTypes
    <3>1. turn \in 0..MaxTurns
      BY BoundsAssumption
    <3>2. human = {} /\ queued = {} /\ sending = {} /\ pending = "context" /\ exchange = "none"
      OBVIOUS
    <3> QED
      BY <3>1, <3>2 DEF SessionTypes
  <2>4. HistoryTypes
    BY DEF HistoryTypes
  <2> QED
    BY <2>1, <2>2, <2>3, <2>4 DEF TypeOK
<1>2. Placed
  BY DEF Placed, Over, Reading
<1>3. Held
  BY DEF Held, Done, InTurn
<1>4. Ends
  BY DEF Ends, Backed, SuccessBacked, Decided, OneEnding
<1>5. Told /\ Prompt
  BY DEF Told, Prompt, Busy, Asked, Settling, Waiting
<1>6. Unsent
  BY DEF Unsent, Going, Settling, Waiting
<1> QED
  BY <1>1, <1>2, <1>3, <1>4, <1>5, <1>6 DEF IInv, Base, Synchronous

\* Every step keeps the invariant; yields is the nature of the store and never changes.
LEMMA NextInvariant == IInv /\ [Next]_vars => IInv'
<1> SUFFICES ASSUME IInv, [Next]_vars PROVE IInv'
  OBVIOUS
<1>1. Base /\ Ends
  BY DEF IInv
<1>2. Base'
  BY <1>1, TypeStep, PlacedStep, HeldStep DEF Base, Ends
<1>3. Ends'
  BY <1>1, EndsStep
<1>4. Synchronous'
  <2> SUFFICES ASSUME ~yields' PROVE (Told /\ Prompt /\ Unsent)'
    BY DEF Synchronous
  <2>1. yields' = yields
    BY StoreStep
  <2>2. ~yields /\ Told /\ Prompt /\ Unsent
    BY <2>1 DEF IInv, Synchronous
  <2> QED
    BY <1>1, <2>2, ToldStep, PromptStep, UnsentStep
<1> QED
  BY <1>2, <1>3, <1>4 DEF IInv

\* In every reachable state the parts of the invariant hold.
THEOREM Invariant == Spec => []IInv
<1> QED
  BY InitInvariant, NextInvariant, PTL DEF Spec

-----------------------------------------------------------------------------
(* The theorems.                                                            *)

\* The variables of the supervisor, the session and the checkpoint keep their types.
THEOREM TypeCorrect == Spec => []TypeOK
<1>1. IInv => TypeOK
  BY DEF IInv, Base
<1> QED
  BY <1>1, Invariant, PTL

\* A final is published only when the model has read, or was sent in a turn that came
\* back invalid or not at all, every input that submit() had accepted.
THEOREM FinalHeard == Spec => []FinalHeardAll
<1>1. IInv => FinalHeardAll
  BY DEF IInv, Base, Ends, Held, Done, Synchronous, Unsent, FinalHeardAll
<1> QED
  BY <1>1, Invariant, PTL

\* With a store that does not yield, an input that a turn carried is in no later turn,
\* not even of a session recovered from a checkpoint that still lists it.
THEOREM NothingSentTwice == Spec => []SentOnce
<1>1. IInv => SentOnce
  <2> SUFFICES ASSUME IInv, ~yields, sending # {} PROVE sending \cap (heard \cup unknown) = {}
    BY DEF SentOnce
  <2>1. pc = "exchange" /\ open
    BY DEF IInv, Base, Held, Placed
  <2>2. Going
    BY <2>1 DEF Going
  <2> QED
    BY <2>2 DEF IInv, Synchronous, Unsent
<1> QED
  BY <1>1, Invariant, PTL

\* A live process that was told to cancel has no final and will publish none; one that has
\* the final cannot be told any more, but for a recovery before it completes the run, with
\* a store that yields.
THEOREM OneEnd == Spec => []OneEnding
<1>1. IInv => OneEnding
  BY DEF IInv, Ends
<1> QED
  BY <1>1, Invariant, PTL

\* A success stands on the persisted finish receipt and the final event.
THEOREM SuccessIsBacked == Spec => []SuccessBacked
<1>1. IInv => SuccessBacked
  BY DEF IInv, Ends
<1> QED
  BY <1>1, Invariant, PTL

\* With a store that does not yield, a run that no consumer drives has a status that
\* says so, and a waiting one takes what the person sends.
THEOREM NoneLeftBehind == Spec => []NoneStranded
<1>1. IInv => NoneStranded
  BY DEF IInv, Synchronous, Told, Asked, Settling, Busy, Waiting, NoneStranded
<1> QED
  BY <1>1, Invariant, PTL

\* With a store that does not yield, a cancelled run stays cancelled while its process
\* lives, whatever the consumer and late requests do.
THEOREM CancelIsFinal == Spec => CancelStays
<1>1. IInv /\ [Next]_vars => [~yields /\ status = "cancelled" /\ alive' => status' = "cancelled"]_vars
  BY CancelStaysStep DEF IInv, Synchronous
<1> QED
  BY <1>1, Invariant, PTL DEF Spec, CancelStays

\* Every accepted input reaches the model before the final, and reaches it once.
THEOREM InputReadOnce == Spec => []ReadOnce
<1>1. FinalHeardAll /\ SentOnce => ReadOnce
  BY DEF ReadOnce
<1> QED
  BY <1>1, FinalHeard, NothingSentTwice, PTL

\* What a process says has become of the run is what became of it.
THEOREM OutcomeIsTrue == Spec => []OutcomeTrue
<1>1. OneEnding /\ SuccessBacked => OutcomeTrue
  BY DEF OutcomeTrue
<1> QED
  BY <1>1, OneEnd, SuccessIsBacked, PTL
=============================================================================
