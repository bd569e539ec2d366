----------------------------- MODULE MCWorkQueue -----------------------------
(***************************************************************************)
(* Small queues for TLC. Every instance has one work type, so that the     *)
(* type is enabled or not, and the shortest lease in which a claim can be  *)
(* renewed, disposed of in time, and expire.                               *)
(***************************************************************************)
EXTENDS WorkQueue, TLC

CONSTANTS s1, b1, b2, t1, g1

With(mode, priority, max, base, cap) ==
  [type |-> t1, group |-> g1, priority |-> priority, mode |-> mode,
   maxAttempts |-> max, base |-> base, cap |-> cap]

Shared(max) == With("SHARED", 0, max, 1, 1)
Barrier(priority, max) == With("DRAIN_BARRIER", priority, max, 1, 1)

\* A normal item and two barriers that must not overlap.
Ranked == s1 :> Shared(1) @@ b1 :> Barrier(0, 1) @@ b2 :> Barrier(1, 1)

\* A barrier that is retried and requeued beside a normal item.
Rearmed == s1 :> Shared(1) @@ b1 :> Barrier(0, 2)

\* A normal item whose retry delay grows and is then capped.
Disposed == s1 :> With("SHARED", 0, 3, 1, 2)
=============================================================================
