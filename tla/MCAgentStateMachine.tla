------------------------- MODULE MCAgentStateMachine -------------------------
(***************************************************************************)
(* Instances of AgentStateMachine: valid plans of up to three tasks, a     *)
(* plan with a dependency that does not exist and a cyclic one, so that    *)
(* the first plan or the plan after a mutation may be rejected.            *)
(***************************************************************************)
EXTENDS AgentStateMachine, TLC

CONSTANTS a, b, c, default_task

MCBase == {a, b, c, default_task}

Chain    == (a :> {}) @@ (b :> {a}) @@ (c :> {b})
Fork     == (a :> {}) @@ (b :> {a}) @@ (c :> {a})
Pair     == (a :> {}) @@ (b :> {})
Dangling == (a :> {}) @@ (b :> {c})
Cyclic   == (a :> {b}) @@ (b :> {a}) @@ (c :> {})

MCPlans == {Chain, Fork, Pair, Dangling, Cyclic, NoPlan}

\* LangGraph's default of 25 supersteps, and exactly the room the longest run
\* needs with three replans, for releases and callers with a higher limit.
DefaultLimit == {25}
AmpleLimit   == {41}
BothLimits   == {25, 41}
=============================================================================
