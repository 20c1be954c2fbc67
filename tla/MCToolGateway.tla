--------------------------- MODULE MCToolGateway ---------------------------
(* Instances of ToolGateway: model values; sessions are interchangeable.    *)
EXTENDS ToolGateway, TLC

CONSTANTS m1, x1, f1, s1, s2

Sessions == Permutations({s1, s2})

\* Bound: a run that the user edits is recovered once, any other one twice.
EditedRunsAreShorter == edits = 0 \/ epoch <= 2

=============================================================================
