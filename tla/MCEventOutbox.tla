--------------------------- MODULE MCEventOutbox ---------------------------
(* Instances of EventOutbox: model values, and clocks that never coincide.  *)
EXTENDS EventOutbox

CONSTANTS s1, s2, r1, r2, t1, t2

OwnClocks == [s \in Supervisor |-> IF s = s1 THEN {t1} ELSE {t2}]

=============================================================================
