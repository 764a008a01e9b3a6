--------------------------- MODULE MCOrchestrator ---------------------------
(* Small instances of Orchestrator for TLC.                                *)
EXTENDS Orchestrator, TLC

CONSTANTS a, b, c, d, e, Unknown

Join == (a :> {} @@ b :> {} @@ c :> {a, b})
Fork == (a :> {} @@ b :> {a} @@ c :> {a})
Free == (a :> {} @@ b :> {} @@ c :> {})
(* A cycle, a dependency on an id that is not in the plan, a template that *)
(* cannot be formatted (e), a role without configuration (d), no task.     *)
Cycle == (a :> {} @@ b :> {c} @@ c :> {b})
Stray == (d :> {} @@ b :> {Unknown})
Torn == (a :> {} @@ b :> {} @@ e :> {a})

AllPlans == {Join, Fork, Free, Cycle, Stray, Torn, NoPlan}
=============================================================================
