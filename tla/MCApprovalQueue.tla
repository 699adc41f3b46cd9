--------------------------- MODULE MCApprovalQueue ---------------------------
(***************************************************************************)
(* One request made directly, which may be enqueued while it is pending or *)
(* after, an object of enqueue_new, and two consumers.                     *)
(***************************************************************************)
EXTENDS ApprovalQueue, TLC

CONSTANTS direct, again, r1, new1, s1, s2, k1, k2

MCRequests == {direct, again, r1}
MCSessions == {s1, s2}
MCSessionOf == (direct :> s1) @@ (again :> s1) @@ (r1 :> s2)
MCItems == {direct, new1}
MCHandedTo == (direct :> again) @@ (new1 :> r1)
MCConsumers == {k1, k2}
=============================================================================
