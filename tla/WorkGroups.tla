------------------------------ MODULE WorkGroups ------------------------------
(***************************************************************************)
(* What the work queue promises the callers that enqueue into it, without  *)
(* tokens, leases, locks, epochs or blocker rows: every item has turns;    *)
(* items that may not run together never do; a turn is given only while    *)
(* tries are left in the round and ends once; what is settled stays        *)
(* settled.                                                                *)
(***************************************************************************)
EXTENDS Naturals

CONSTANTS
  Item,
  Compatible,  \* the pairs of items that may run at the same time
  Limit,       \* tries per round
  MaxRounds    \* bound: rounds per item

VARIABLES
  phase,  \* "absent", "waiting", "running", "settled" or "dead"
  turn,   \* turns given so far
  tries,  \* turns given in this round
  round

vars == <<phase, turn, tries, round>>

Init ==
  /\ phase = [i \in Item |-> "absent"]
  /\ turn = [i \in Item |-> 0]
  /\ tries = [i \in Item |-> 0]
  /\ round = [i \in Item |-> 1]

Submit(i) ==
  /\ phase[i] = "absent"
  /\ phase' = [phase EXCEPT ![i] = "waiting"]
  /\ UNCHANGED <<turn, tries, round>>

(***************************************************************************)
(* An item starts beside running items it is compatible with.              *)
(***************************************************************************)
Start(i) ==
  /\ phase[i] = "waiting"
  /\ tries[i] < Limit[i]
  /\ \A j \in Item : phase[j] = "running" => <<i, j>> \in Compatible
  /\ phase' = [phase EXCEPT ![i] = "running"]
  /\ turn' = [turn EXCEPT ![i] = @ + 1]
  /\ tries' = [tries EXCEPT ![i] = @ + 1]
  /\ UNCHANGED round

Settle(i) ==
  /\ phase[i] = "running"
  /\ phase' = [phase EXCEPT ![i] = "settled"]
  /\ UNCHANGED <<turn, tries, round>>

(***************************************************************************)
(* Running items lose their turns without a result: they wait for another  *)
(* while tries are left, and are dead otherwise.                           *)
(***************************************************************************)
Return(S) ==
  /\ \A i \in S : phase[i] = "running"
  /\ phase' = [i \in Item |-> IF i \notin S THEN phase[i]
                              ELSE IF tries[i] < Limit[i] THEN "waiting" ELSE "dead"]
  /\ UNCHANGED <<turn, tries, round>>

(***************************************************************************)
(* A dead item is given a new round.                                       *)
(***************************************************************************)
Reopen(i) ==
  /\ phase[i] = "dead"
  /\ round[i] < MaxRounds
  /\ phase' = [phase EXCEPT ![i] = "waiting"]
  /\ tries' = [tries EXCEPT ![i] = 0]
  /\ round' = [round EXCEPT ![i] = @ + 1]
  /\ UNCHANGED turn

Next ==
  \/ \E i \in Item : Submit(i) \/ Start(i) \/ Settle(i) \/ Reopen(i)
  \/ \E S \in SUBSET Item : Return(S)

Spec == Init /\ [][Next]_vars
=============================================================================
