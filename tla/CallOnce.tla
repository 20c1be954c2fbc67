------------------------------ MODULE CallOnce ------------------------------
(***************************************************************************)
(* What the tool gateway promises to an engine that may repeat a call: the *)
(* call takes effect at most once and before it is answered, its recorded  *)
(* answer is never replaced, and every answer the engine gets is that one. *)
(***************************************************************************)
EXTENDS Naturals

CONSTANTS
    Call,       \* identifiers of calls
    Answer,     \* the answers that can be recorded
    None        \* "no answer yet"

VARIABLES
    admitted,   \* calls whose identifier has been taken
    count,      \* how often the effect of a call took place
    answer,     \* the recorded answer
    told        \* pairs <<call, answer>> the engine has received

vars == <<admitted, count, answer, told>>

Init ==
    /\ admitted = {}
    /\ count = [c \in Call |-> 0]
    /\ answer = [c \in Call |-> None]
    /\ told = {}

Open(c) == c \in admitted /\ answer[c] = None

Admit(c) ==
    /\ c \notin admitted
    /\ admitted' = admitted \cup {c}
    /\ UNCHANGED <<count, answer, told>>

Land(c) ==
    /\ Open(c) /\ count[c] = 0
    /\ count' = [count EXCEPT ![c] = 1]
    /\ UNCHANGED <<admitted, answer, told>>

\* The answer is recorded, and may be given in the same step.
Record(c, r) ==
    /\ Open(c)
    /\ answer' = [answer EXCEPT ![c] = r]
    /\ told' \in {told, told \cup {<<c, r>>}}
    /\ UNCHANGED <<admitted, count>>

Tell(c) ==
    /\ answer[c] # None
    /\ told' = told \cup {<<c, answer[c]>>}
    /\ UNCHANGED <<admitted, count, answer>>

Next == \E c \in Call :
    Admit(c) \/ Land(c) \/ Tell(c) \/ \E r \in Answer : Record(c, r)

Spec == Init /\ [][Next]_vars

=============================================================================
