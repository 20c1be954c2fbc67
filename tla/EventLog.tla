------------------------------ MODULE EventLog ------------------------------
(****************************************************************************)
(* What the event outbox promises the readers of one run: a log that only   *)
(* grows at its end, written by one session epoch at a time, with at most   *)
(* one final event, and readers that hold nothing but what the log holds.   *)
(*                                                                          *)
(* A process's memory, its queue of appends, its lost acknowledgements, the *)
(* recovery of another process and the way a reader is connected are all    *)
(* invisible here; EventOutbox has them.                                    *)
(****************************************************************************)
EXTENDS Naturals, Sequences

CONSTANTS
    Event,      \* what may happen in a run
    Final,      \* those of them that end it
    Reader

VARIABLES
    log,        \* the events of the run, oldest first
    logEpoch,   \* the session epoch each of them was written in
    epoch,      \* the session epoch that may write now; 0 before the run starts
    seen        \* seen[r]: the <<sequence number, event>> pairs reader r was given

vars == <<log, logEpoch, epoch, seen>>

Init ==
    /\ log = <<>>
    /\ logEpoch = <<>>
    /\ epoch = 0
    /\ seen = [r \in Reader |-> {}]

HasFinal == \E i \in 1..Len(log) : log[i] \in Final

\* One event enters the log, under the current epoch.
Append1(e) ==
    /\ epoch > 0
    /\ e \in Final => ~HasFinal
    /\ log' = Append(log, e)
    /\ logEpoch' = Append(logEpoch, epoch)
    /\ UNCHANGED <<epoch, seen>>

\* The next epoch begins: nobody of the epoch before writes any more.
NextEpoch ==
    /\ epoch' = epoch + 1
    /\ UNCHANGED <<log, logEpoch, seen>>

\* Readers receive events the log already holds, whichever and in any order.
Deliver ==
    /\ seen' \in [Reader -> SUBSET {<<i, log[i]>> : i \in 1..Len(log)}]
    /\ \A r \in Reader : seen[r] \subseteq seen'[r]
    /\ UNCHANGED <<log, logEpoch, epoch>>

Next == (\E e \in Event : Append1(e)) \/ NextEpoch \/ Deliver

Spec == Init /\ [][Next]_vars
=============================================================================
