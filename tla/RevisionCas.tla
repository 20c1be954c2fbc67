----------------------------- MODULE RevisionCas -----------------------------
(****************************************************************************)
(* What packages/vdt-storage promises the callers of one VDT's revisions:   *)
(* a compare-and-set register with exactly one final answer per request.    *)
(*                                                                          *)
(* A request is identified by its idempotency key.  Once asked, its basis   *)
(* (the head the client believes current) never changes.  It is answered at *)
(* most once: either the head still equals the basis at one instant, and    *)
(* the request becomes the head at that instant, or it is refused for good. *)
(*                                                                          *)
(* AtomicRevisions reaches this through five durable states, two files and  *)
(* any number of processes that may die between any two of those steps.     *)
(****************************************************************************)
EXTENDS Naturals

CONSTANTS
    Keys,       \* idempotency keys; a key also names the revision it creates
    None        \* "no revision": the head of a VDT nothing was committed to

VARIABLES
    basis,      \* basis[k]: the head request k was built on, or None if unasked
    outcome,    \* outcome[k]: "open", "committed" or "refused"
    active,     \* the committed head: a key, or None
    generation  \* how many revisions were committed

vars == <<basis, outcome, active, generation>>

Head == [active : Keys \cup {None}, generation : Nat]

Init ==
    /\ basis = [k \in Keys |-> None]
    /\ outcome = [k \in Keys |-> "open"]
    /\ active = None
    /\ generation = 0

\* A client builds a request on some head it has read, perhaps long ago.
Ask(k) ==
    /\ basis[k] = None
    /\ basis' \in [Keys -> Head \cup {None}]
    /\ basis'[k] # None
    /\ \A j \in Keys \ {k} : basis'[j] = basis[j]
    /\ UNCHANGED <<outcome, active, generation>>

\* The request's basis is the head: it becomes the head, atomically.
Commit(k) ==
    /\ outcome[k] = "open"
    /\ basis[k] = [active |-> active, generation |-> generation]
    /\ outcome' = [outcome EXCEPT ![k] = "committed"]
    /\ active' = k
    /\ generation' = generation + 1
    /\ UNCHANGED basis

\* The request is refused for good; the head does not move.
Refuse(k) ==
    /\ outcome[k] = "open"
    /\ outcome' = [outcome EXCEPT ![k] = "refused"]
    /\ UNCHANGED <<basis, active, generation>>

Next == \E k \in Keys : Ask(k) \/ Commit(k) \/ Refuse(k)

Spec == Init /\ [][Next]_vars
=============================================================================
