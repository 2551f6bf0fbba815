-------------------------------- MODULE MCOrca --------------------------------
(* Small instances of Orca for TLC.                                         *)
EXTENDS Orca

CONSTANTS j1, r1, r2

OneJob == [r \in Ranks |-> j1]
Action(t, S) == [type |-> t, job |-> j1, ladder |-> S]

\* A place, a swap that keeps or replaces ranks, a preemption, and a plan of two actions.
SomePlans == {<<Action("place", {r1})>>, <<Action("swap", {r2})>>, <<Action("swap", {r1, r2})>>,
              <<Action("preempt", {})>>, <<Action("preempt", {}), Action("place", {r2})>>}

\* One plan of two actions, for the liveness properties.
LongPlans == {<<Action("place", {r1}), Action("swap", {r2})>>,
              <<Action("preempt", {}), Action("place", {r2})>>}
===============================================================================
