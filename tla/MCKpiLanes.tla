----------------------------- MODULE MCKpiLanes -----------------------------
(* Instances of KpiLanes: settings as model values.                         *)
EXTENDS KpiLanes, TLC

CONSTANTS a, b, g1, g2, t1, t2, w1, w2, e1

\* Two canvases and two workspaces with one execution.  The first canvas is
\* moved to another setting.
TwoWorkspaces == (g1 :> w1) @@ (g2 :> w2)
TwoExecutions == [g \in {g1, g2} |-> e1]
FirstMoves == (a :> 2) @@ (b :> 1)
Hovered == t1 :> {0}
TheirEvents == (a :> {"dispose", "display"}) @@ (b :> {"known", "background"})

\* Bound: there is no background while the first canvas is elsewhere or gone.
BackgroundEarly == (latest[a].n <= 1 /\ ~gone[a]) \/ \A s \in Scheduler : ~off[s]

\* One canvas, one setting, and two KPIs that compete.
OneWorkspace == g1 :> w1
OneExecution == g1 :> e1
HoverOrVisible == (t1 :> {0, 3}) @@ (t2 :> {3})
SetTwice == a :> 2
Interrupted == a :> {"stop", "expiry", "no_context", "update_failure"}

=============================================================================
