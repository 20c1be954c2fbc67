------------------------- MODULE MCStorageMigration -------------------------
(* Instances of StorageMigration: which sequences meet which flaw.          *)
EXTENDS StorageMigration

Sound == [n \in 1 .. Top |-> "none"]

\* What follows a sequence with a flaw is not reached: one at a time is enough.
OneFlaw == {Sound,
            [Sound EXCEPT ![2] = "foreign_key"], [Sound EXCEPT ![2] = "sql"],
            [Sound EXCEPT ![3] = "foreign_key"], [Sound EXCEPT ![3] = "sql"]}
=============================================================================
