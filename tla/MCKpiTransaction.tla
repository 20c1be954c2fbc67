-------------------------- MODULE MCKpiTransaction --------------------------
(* Instances of KpiTransaction: changes as model values.                    *)
EXTENDS KpiTransaction

CONSTANTS e1, w1

=============================================================================
