----------------------------- MODULE MCJobControl -----------------------------
(***************************************************************************)
(* Setups for TLC: a job that goes through sessions and successors, from   *)
(* nothing or from the session that registers it, one that is asked for    *)
(* checkpoints and research and tells somebody, and two jobs that share a  *)
(* budget and a bound on dispatches.                                       *)
(***************************************************************************)
EXTENDS JobControl, TLC

CONSTANTS j1, j2

Quiet == [tokens |-> None, window |-> None, since |-> None, soft |-> 60, hard |-> 80, delta |-> 10, boundary |-> "NONE"]

Rotating ==
  [capability |-> j1 :> {"START_SESSION", "RESUME_SESSION", "SUCCESSOR_SESSION"} @@ j2 :> {},
   limit |-> None, budget |-> [soft |-> None, hard |-> 3, next |-> 1],
   events |-> Event, session |-> [j \in Job |-> None], lifecycle |-> {[Quiet EXCEPT !.boundary = "USER_REQUESTED"]},
   actions |-> j1 :> 3 @@ j2 :> 0, last |-> j1 :> 2 @@ j2 :> 0]

\* The session that registers the job is already there, as in control.example.py.
Adopted == [Rotating EXCEPT !.session = j1 :> 0 @@ j2 :> None, !.actions = j1 :> 2 @@ j2 :> 0]

Telling ==
  [capability |-> j1 :> {"START_SESSION", "RESUME_SESSION", "NOTIFY"} @@ j2 :> {},
   limit |-> 2, budget |-> None, events |-> Event,
   session |-> [j \in Job |-> None], lifecycle |-> {[Quiet EXCEPT !.since = 10]},
   actions |-> j1 :> 2 @@ j2 :> 0, last |-> j1 :> 1 @@ j2 :> 0]

Sharing ==
  [capability |-> [j \in Job |-> {"RESEARCH"}],
   limit |-> None, budget |-> [soft |-> None, hard |-> 2, next |-> 1], events |-> {"REGISTER", "SOURCE_FAILED"},
   session |-> [j \in Job |-> 0], lifecycle |-> {},
   actions |-> [j \in Job |-> 1], last |-> [j \in Job |-> 1]]

MCSetups == {Rotating, Adopted, Telling, Sharing}
===============================================================================
