-------------------------- MODULE MCWorkerExecution --------------------------
(***************************************************************************)
(* Small instances of managed operation for TLC.                           *)
(***************************************************************************)
EXTENDS WorkerExecution, TLC

CONSTANTS w1, w2

\* Two workers that could execute two items together.
Pair == w1 :> 1 @@ w2 :> 1
=============================================================================
