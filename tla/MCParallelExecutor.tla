------------------------- MODULE MCParallelExecutor -------------------------
(***************************************************************************)
(* Instances of ParallelExecutor.  The graphs are those of every acyclic   *)
(* plan of four tasks (up to renaming: a task may depend on any tasks that *)
(* come before it), as the builder leaves them, as every possible first    *)
(* call leaves them, and as update_dag mutates them after such a call, with *)
(* the levels of the graph before the mutation still in the attribute.     *)
(***************************************************************************)
EXTENDS ParallelExecutor, TLC

CONSTANTS a, b, c, d, e

Plans ==
  {(a :> {}) @@ (b :> B) @@ (c :> C) @@ (d :> D) :
     B \in SUBSET {a}, C \in SUBSET {a, b}, D \in SUBSET {a, b, c}}

Fresh == {Build(p) : p \in Plans}

\* One call later, and scheduled again.
SecondCall(g) ==
  {[g EXCEPT !.status = StatusAfter(g, F), !.state = "EXECUTING"] : F \in FailureSets(g)}

\* One call later, the failed task f replaced by its retry e.
Mutated(g) ==
  UNION {{MutateOnFailure([g EXCEPT !.status = StatusAfter(g, F)], f, e :> Dependencies(g, f)) :
            f \in F} : F \in FailureSets(g)}

\* No levels at all: state.add_task and state.add_edge do not compute any.
Unlevelled(g) == [g EXCEPT !.levels = EmptyFunction, !.meta = EmptyFunction]

MCTasks == {a, b, c, d, e}

MCGraphs ==
  {EmptyGraph} \cup Fresh \cup {Unlevelled(g) : g \in Fresh}
    \cup UNION {SecondCall(g) \cup Mutated(g) : g \in Fresh}
=============================================================================
