------------------------- MODULE MCRunConversation -------------------------
(* Instances of RunConversation: inputs as model values.                    *)
EXTENDS RunConversation

CONSTANTS q1, p1, u1

BothStores == BOOLEAN

=============================================================================
