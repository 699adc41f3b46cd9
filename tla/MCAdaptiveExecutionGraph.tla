---------------------- MODULE MCAdaptiveExecutionGraph ----------------------
(***************************************************************************)
(* Plans of three tasks; replacements of up to two tasks that depend on    *)
(* surviving tasks, on each other, on tasks that have just been removed,   *)
(* on themselves in a circle, or that are no tasks at all.                 *)
(***************************************************************************)
EXTENDS AdaptiveExecutionGraph, TLC

CONSTANTS a, b, c, m, n

MCIds == {a, b, c, m, n}

MCPlans ==
  {(a :> {}) @@ (b :> B) @@ (c :> C) : B \in SUBSET {a}, C \in SUBSET {a, b}}

FreshReplacements ==
  {EmptyFunction, m :> {}, m :> {a}, m :> {b}, m :> {a, b}, n :> {m}, n :> {c},
   m :> {m}, (m :> {}) @@ (n :> {m}), (m :> {a}) @@ (n :> {a, m}),
   (m :> {n}) @@ (n :> {}), (m :> {n}) @@ (n :> {m})}
=============================================================================
