------------------------- MODULE WorkExecutorProofs -------------------------
(***************************************************************************)
(* What the executor promises of a checkpoint, for any plan, catalog,      *)
(* number of crashes and length of the run: it can be loaded again, an     *)
(* operation that must not be repeated takes effect once, and what was     *)
(* decided stays decided. The attempts are looked at one by one; that at   *)
(* most one is open ties them to the process that works on it. A task that *)
(* is reported as completed was validated as it asks for: second part.     *)
(***************************************************************************)
EXTENDS WorkExecutor, FiniteSetTheorems, SequenceTheorems, TLAPS

IsAttempt(a) ==
  a = [step |-> a.step, capability |-> a.capability, status |-> a.status,
       ambiguous |-> a.ambiguous, used |-> a.used]

Recorded ==
  /\ \E S : attempts \in Seq(S)
  /\ \A n \in DOMAIN attempts : IsAttempt(attempts[n])
  /\ flight \in Seq(Int) /\ Len(flight) = Len(attempts)
  /\ effect \in Seq(Int) /\ Len(effect) = Len(attempts)
  /\ process = [pc |-> process.pc, approved |-> process.approved, replay |-> process.replay]
  /\ process.pc = "NONE" => process = NoProcess

Single == \A m, n \in Pending : m = n

\* What the process takes for granted of the open attempt.
Stage ==
  /\ process.pc = "STEP" => \A n \in Pending : attempts[n].status = "PREPARED"
  /\ process.pc = "CANDIDATE" => Pending = {}
  /\ process.pc = "PREPARED" => Pending # {} /\ \A n \in Pending : attempts[n].status = "PREPARED"
  /\ process.pc \in {"CALL", "LATE"} => Pending # {}

\* A process only runs where nothing is decided.
Undone == state \notin Terminal /\ \A n \in DOMAIN attempts : ~attempts[n].ambiguous

Running == process.pc # "NONE" => Undone

\* An attempt that is prepared has not been called, if it must not be repeated.
Once ==
  \A n \in DOMAIN attempts : External /\ ~Descriptor(n).idempotent =>
    /\ effect[n] + flight[n] <= 1
    /\ attempts[n].status = "PREPARED" => effect[n] + flight[n] <= 0

IInv == Recorded /\ Single /\ Stage /\ Running /\ Once

LEMMA InitHolds == Init => IInv
<1> SUFFICES ASSUME Init PROVE IInv
  OBVIOUS
<1>1. attempts = << >> /\ flight = << >> /\ effect = << >> /\ process = NoProcess
  BY DEF Init
<1>2. Recorded
  BY <1>1 DEF Recorded, NoProcess
<1>3. process.pc = "NONE" /\ Pending = {}
  BY <1>1 DEF NoProcess, Pending
<1> QED
  BY <1>1, <1>2, <1>3 DEF IInv, Single, Stage, Running, Once

LEMMA LatestIsOpen ==
  ASSUME Recorded, Pending # {}
  PROVE  /\ Latest \in Pending /\ Latest \in DOMAIN attempts /\ Latest \in 1 .. Len(attempts)
         /\ attempts[Latest].status \in Open
BY DEF Latest, Pending, Recorded

-----------------------------------------------------------------------------
(* Changes of the attempts that keep what they are of.                     *)

Like ==
  /\ \E S : attempts' \in Seq(S)
  /\ Len(attempts') = Len(attempts) /\ DOMAIN attempts' = DOMAIN attempts
  /\ \A n \in DOMAIN attempts : IsAttempt(attempts'[n]) /\ attempts'[n].capability = attempts[n].capability

LEMMA SameIsLike == Recorded /\ UNCHANGED attempts => Like
BY DEF Recorded, Like

LEMMA UpdateIsLike ==
  ASSUME Recorded, NEW n \in DOMAIN attempts, NEW a, IsAttempt(a),
         a.capability = attempts[n].capability, attempts' = [attempts EXCEPT ![n] = a]
  PROVE  /\ Like
         /\ \A m \in DOMAIN attempts : attempts'[m] = IF m = n THEN a ELSE attempts[m]
<1>1. PICK S : attempts \in Seq(S)
  BY DEF Recorded
<1>2. attempts \in Seq(S \cup {a}) /\ n \in 1 .. Len(attempts)
  BY <1>1
<1>3. /\ attempts' \in Seq(S \cup {a}) /\ Len(attempts') = Len(attempts)
      /\ DOMAIN attempts' = DOMAIN attempts
      /\ \A m \in DOMAIN attempts : attempts'[m] = IF m = n THEN a ELSE attempts[m]
  BY <1>2
<1>4. \A m \in DOMAIN attempts : IsAttempt(attempts'[m]) /\ attempts'[m].capability = attempts[m].capability
  BY <1>3 DEF Recorded
<1> QED
  BY <1>3, <1>4 DEF Like

LEMMA CloseIsLike ==
  ASSUME Recorded, NEW n \in DOMAIN attempts, NEW status, Close(n, status)
  PROVE  /\ Like
         /\ \A m \in DOMAIN attempts :
              /\ attempts'[m].status = IF m = n THEN status ELSE attempts[m].status
              /\ attempts'[m].ambiguous = attempts[m].ambiguous
<1> DEFINE a == [attempts[n] EXCEPT !.status = status]
<1>1. IsAttempt(attempts[n])
  BY DEF Recorded
<1>2. /\ IsAttempt(a) /\ a.capability = attempts[n].capability
      /\ a.status = status /\ a.ambiguous = attempts[n].ambiguous
  BY <1>1 DEF IsAttempt
<1>3. attempts' = [attempts EXCEPT ![n] = a]
  BY DEF Close
<1> HIDE DEF a
<1> QED
  BY <1>2, <1>3, UpdateIsLike

\* The counts of an attempt go up together only when a prepared one is called.
LEMMA LikeKeepsOnce ==
  ASSUME Recorded, Once, Like, UNCHANGED task,
         flight' \in Seq(Int), effect' \in Seq(Int),
         Len(flight') = Len(flight), Len(effect') = Len(effect),
         \A n \in DOMAIN attempts :
           /\ attempts'[n].status = "PREPARED" =>
                attempts[n].status = "PREPARED" \/ Repeatable(n)
           /\ \/ effect'[n] + flight'[n] <= effect[n] + flight[n]
              \/ /\ attempts[n].status = "PREPARED" /\ attempts'[n].status # "PREPARED"
                 /\ effect'[n] + flight'[n] <= effect[n] + flight[n] + 1
  PROVE  Once'
<1> SUFFICES ASSUME NEW n \in DOMAIN attempts, External, ~Descriptor(n).idempotent
             PROVE  /\ effect'[n] + flight'[n] <= 1
                    /\ attempts'[n].status = "PREPARED" => effect'[n] + flight'[n] <= 0
  BY DEF Once, Like, External, request, Descriptor
<1>1. /\ effect[n] \in Int /\ flight[n] \in Int /\ effect'[n] \in Int /\ flight'[n] \in Int
  BY DEF Recorded, Like
<1>2. ~Repeatable(n)
  BY DEF Repeatable
<1> DEFINE before == effect[n] + flight[n]
           after == effect'[n] + flight'[n]
<1>3. before \in Int /\ after \in Int
  BY <1>1
<1>4. before <= 1 /\ (attempts[n].status = "PREPARED" => before <= 0)
  BY DEF Once
<1>5. /\ attempts'[n].status = "PREPARED" => attempts[n].status = "PREPARED"
      /\ \/ after <= before
         \/ attempts[n].status = "PREPARED" /\ attempts'[n].status # "PREPARED" /\ after <= before + 1
  BY <1>2
<1> HIDE DEF before, after
<1>6. after <= 1 /\ (attempts'[n].status = "PREPARED" => after <= 0)
  BY <1>3, <1>4, <1>5
<1> QED
  BY <1>6 DEF after

LEMMA LikeKeepsRecorded ==
  ASSUME Recorded, Like, flight' \in Seq(Int), effect' \in Seq(Int),
         Len(flight') = Len(flight), Len(effect') = Len(effect),
         \/ process' = NoProcess
         \/ process' = [pc |-> process'.pc, approved |-> process'.approved, replay |-> process'.replay]
            /\ process'.pc # "NONE"
  PROVE  Recorded'
BY DEF Recorded, Like, NoProcess

LEMMA CountStep ==
  ASSUME NEW f \in Seq(Int), NEW n \in DOMAIN f, NEW v \in Int
  PROVE  /\ [f EXCEPT ![n] = v] \in Seq(Int) /\ Len([f EXCEPT ![n] = v]) = Len(f)
         /\ \A m \in DOMAIN f : [f EXCEPT ![n] = v][m] = IF m = n THEN v ELSE f[m]
OBVIOUS

\* A process that has ended takes nothing for granted.
LEMMA EndKeeps == Recorded' /\ Single' /\ Once' /\ process' = NoProcess => IInv'
BY DEF IInv, Stage, Running, NoProcess

LEMMA GotoIsProcess ==
  ASSUME Recorded, NEW pc, pc # "NONE", Goto(pc)
  PROVE  /\ process' = [pc |-> process'.pc, approved |-> process'.approved, replay |-> process'.replay]
         /\ process'.pc = pc
<1>1. process' = [process EXCEPT !.pc = pc, !.replay = FALSE]
  BY DEF Goto
<1>2. process = [pc |-> process.pc, approved |-> process.approved, replay |-> process.replay]
  BY DEF Recorded
<1> QED
  BY <1>1, <1>2

-----------------------------------------------------------------------------
(* Starting a process.                                                     *)

LEMMA ExecuteKeeps == ASSUME IInv, NEW receipts, Execute(receipts) PROVE IInv'
<1> DEFINE broken == {n \in Pending : attempts[n].status = "IN_PROGRESS"}
<1>1. /\ process = NoProcess /\ Undecided /\ UNCHANGED <<task, flight, effect>> /\ Recorded /\ Single /\ Once
  BY DEF Execute, IInv
<1>2. flight' \in Seq(Int) /\ effect' \in Seq(Int) /\ Len(flight') = Len(flight) /\ Len(effect') = Len(effect)
  BY <1>1 DEF Recorded
<1>3. CASE cancelled
  <2>1. process' = NoProcess /\ UNCHANGED attempts
    BY <1>3 DEF Execute, Report
  <2>2. Recorded' /\ Single' /\ Once'
    BY <1>1, <2>1 DEF Recorded, Single, Pending, Once, External, request, Descriptor
  <2> QED
    BY <2>1, <2>2, EndKeeps
<1>4. CASE ~cancelled /\ \E n \in broken : ~Repeatable(n)
  <2>1. /\ process' = NoProcess
        /\ attempts' = [n \in DOMAIN attempts |->
             IF n \in broken THEN [attempts[n] EXCEPT !.status = "UNKNOWN", !.ambiguous = TRUE]
             ELSE attempts[n]]
    BY <1>4 DEF Execute, Report
  <2>2. /\ Like
        /\ \A n \in DOMAIN attempts :
             attempts'[n].status = IF n \in broken THEN "UNKNOWN" ELSE attempts[n].status
    <3>1. ASSUME NEW n \in DOMAIN attempts
          PROVE  /\ IsAttempt(attempts'[n]) /\ attempts'[n].capability = attempts[n].capability
                 /\ attempts'[n].status = IF n \in broken THEN "UNKNOWN" ELSE attempts[n].status
      <4>1. IsAttempt(attempts[n])
        BY <1>1 DEF Recorded
      <4>2. CASE n \notin broken
        BY <2>1, <4>1, <4>2
      <4>3. CASE n \in broken
        <5>1. attempts'[n] = [attempts[n] EXCEPT !.status = "UNKNOWN", !.ambiguous = TRUE]
          BY <2>1, <4>3
        <5>2. attempts'[n] = [step |-> attempts[n].step, capability |-> attempts[n].capability,
                              status |-> "UNKNOWN", ambiguous |-> TRUE, used |-> attempts[n].used]
          BY <4>1, <5>1 DEF IsAttempt
        <5> QED
          BY <4>3, <5>2 DEF IsAttempt
      <4> QED
        BY <4>2, <4>3
    <3>2. DOMAIN attempts = 1 .. Len(attempts) /\ Len(attempts) \in Nat
      BY <1>1 DEF Recorded
    <3>3. attempts' \in [1 .. Len(attempts) -> {attempts'[n] : n \in DOMAIN attempts}]
      BY <2>1, <3>2
    <3>4. /\ attempts' \in Seq({attempts'[n] : n \in DOMAIN attempts})
          /\ Len(attempts') = Len(attempts) /\ DOMAIN attempts' = DOMAIN attempts
      BY <3>2, <3>3
    <3> QED
      BY <3>1, <3>4 DEF Like
  <2>3. Recorded'
    BY <1>1, <1>2, <2>1, <2>2, LikeKeepsRecorded
  <2>4. Once'
    BY <1>1, <1>2, <2>2, LikeKeepsOnce DEF Recorded
  <2>5. Pending' \subseteq Pending
    BY <2>2 DEF Pending, Like, Open
  <2>6. Single'
    BY <1>1, <2>5 DEF Single
  <2> QED
    BY <2>1, <2>3, <2>4, <2>6, EndKeeps
<1>5. CASE ~cancelled /\ \A n \in broken : Repeatable(n)
  <2>1. /\ attempts' = [n \in DOMAIN attempts |->
             IF n \in broken THEN [attempts[n] EXCEPT !.status = "PREPARED"] ELSE attempts[n]]
        /\ \/ process' = NoProcess
           \/ process' = [pc |-> "STEP", approved |-> receipts # {}, replay |-> FALSE] /\ UNCHANGED state
    BY <1>5 DEF Execute, Report
  <2>2. /\ Like
        /\ \A n \in DOMAIN attempts :
             /\ attempts'[n].status = IF n \in broken THEN "PREPARED" ELSE attempts[n].status
             /\ attempts'[n].ambiguous = attempts[n].ambiguous
    <3>1. \A n \in DOMAIN attempts :
            /\ IsAttempt(attempts'[n]) /\ attempts'[n].capability = attempts[n].capability
            /\ attempts'[n].status = IF n \in broken THEN "PREPARED" ELSE attempts[n].status
            /\ attempts'[n].ambiguous = attempts[n].ambiguous
      BY <1>1, <2>1 DEF Recorded, IsAttempt
    <3>2. DOMAIN attempts = 1 .. Len(attempts) /\ Len(attempts) \in Nat
      BY <1>1 DEF Recorded
    <3>3. attempts' \in [1 .. Len(attempts) -> {attempts'[n] : n \in DOMAIN attempts}]
      BY <2>1, <3>2
    <3>4. /\ attempts' \in Seq({attempts'[n] : n \in DOMAIN attempts})
          /\ Len(attempts') = Len(attempts) /\ DOMAIN attempts' = DOMAIN attempts
      BY <3>2, <3>3
    <3> QED
      BY <3>1, <3>4 DEF Like
  <2>3. Recorded'
    BY <1>1, <1>2, <2>1, <2>2, LikeKeepsRecorded
  <2>4. Once'
    <3>1. \A n \in DOMAIN attempts : attempts'[n].status = "PREPARED" =>
            attempts[n].status = "PREPARED" \/ Repeatable(n)
      BY <1>5, <2>2
    <3>2. \A n \in DOMAIN attempts : effect'[n] + flight'[n] <= effect[n] + flight[n]
      BY <1>1 DEF Recorded
    <3> QED
      BY <1>1, <1>2, <2>2, <3>1, <3>2, LikeKeepsOnce
  <2>5. Pending' \subseteq Pending /\ \A n \in Pending' : attempts'[n].status = "PREPARED"
    BY <2>2 DEF Pending, Like, Open
  <2>6. Single'
    BY <1>1, <2>5 DEF Single
  <2>7. CASE process' = NoProcess
    BY <2>3, <2>4, <2>6, <2>7, EndKeeps
  <2>8. CASE process'.pc = "STEP" /\ UNCHANGED state
    <3>1. Stage'
      BY <2>5, <2>8 DEF Stage
    <3>2. Running'
      BY <1>1, <2>2, <2>8 DEF Running, Undone, Undecided, Like
    <3> QED
      BY <2>3, <2>4, <2>6, <3>1, <3>2 DEF IInv
  <2> QED
    BY <2>1, <2>7, <2>8
<1> QED
  BY <1>3, <1>4, <1>5

-----------------------------------------------------------------------------
(* Working on the open attempt.                                            *)

\* The process has closed or called the open attempt, and goes on or ends.
LEMMA WorkKeeps ==
  ASSUME IInv, process.pc # "NONE", UNCHANGED task, NEW n \in Pending, NEW s, s # "PREPARED", Like,
         \A m \in DOMAIN attempts :
           /\ attempts'[m].status = IF m = n THEN s ELSE attempts[m].status
           /\ attempts'[m].ambiguous = attempts[m].ambiguous,
         flight' \in Seq(Int), effect' \in Seq(Int),
         Len(flight') = Len(flight), Len(effect') = Len(effect),
         \A m \in DOMAIN attempts :
           \/ effect'[m] + flight'[m] <= effect[m] + flight[m]
           \/ /\ m = n /\ attempts[n].status = "PREPARED"
              /\ effect'[m] + flight'[m] <= effect[m] + flight[m] + 1,
         \/ process' = NoProcess
         \/ /\ process' = [pc |-> process'.pc, approved |-> process'.approved, replay |-> process'.replay]
            /\ UNCHANGED state
            /\ \/ process'.pc \in {"STEP", "CANDIDATE"} /\ s \notin Open
               \/ process'.pc \in {"CALL", "LATE"} /\ s \in Open
  PROVE  IInv'
<1>1. Recorded'
  BY LikeKeepsRecorded DEF IInv
<1>2. Once'
  BY LikeKeepsOnce DEF IInv
<1>3. Pending \subseteq DOMAIN attempts /\ Pending' \subseteq Pending /\ \A m \in Pending : m = n
  BY DEF IInv, Single, Pending, Like
<1>4. Single'
  BY <1>3 DEF Single
<1>5. CASE process' = NoProcess
  BY <1>1, <1>2, <1>4, <1>5, EndKeeps
<1>6. CASE UNCHANGED state /\ process'.pc \in {"STEP", "CANDIDATE"} /\ s \notin Open
  <2>1. Pending' = {}
    BY <1>3, <1>6 DEF Pending, Like
  <2>2. Stage' /\ Running'
    BY <1>6, <2>1 DEF Stage, Running, Undone, IInv, Like
  <2> QED
    BY <1>1, <1>2, <1>4, <2>2 DEF IInv
<1>7. CASE UNCHANGED state /\ process'.pc \in {"CALL", "LATE"} /\ s \in Open
  <2>1. n \in Pending'
    BY <1>3, <1>7 DEF Pending, Like
  <2>2. Stage' /\ Running'
    BY <1>7, <2>1 DEF Stage, Running, Undone, IInv, Like
  <2> QED
    BY <1>1, <1>2, <1>4, <2>2 DEF IInv
<1> QED
  BY <1>5, <1>6, <1>7

\* The same checkpoint, effects and adapters; the process ends, or goes on where it may.
LEMMA StayKeeps ==
  ASSUME IInv, process.pc # "NONE", UNCHANGED <<task, attempts, flight, effect>>,
         \/ process' = NoProcess
         \/ /\ process' = [pc |-> process'.pc, approved |-> process'.approved, replay |-> process'.replay]
            /\ UNCHANGED state
            /\ \/ process'.pc = "CANDIDATE" /\ Pending = {}
               \/ /\ process'.pc = "PREPARED" /\ Pending # {}
                  /\ \A n \in Pending : attempts[n].status = "PREPARED"
  PROVE  IInv'
<1>1. Recorded'
  BY DEF IInv, Recorded, NoProcess
<1>2. Once' /\ Single' /\ Pending' = Pending
  BY DEF IInv, Once, Single, Pending, External, request, Descriptor
<1>3. CASE process' = NoProcess
  BY <1>1, <1>2, <1>3, EndKeeps
<1>4. CASE UNCHANGED state /\ process'.pc = "CANDIDATE" /\ Pending = {}
  BY <1>1, <1>2, <1>4 DEF IInv, Stage, Running, Undone
<1>5. CASE /\ UNCHANGED state /\ process'.pc = "PREPARED" /\ Pending # {}
           /\ \A n \in Pending : attempts[n].status = "PREPARED"
  BY <1>1, <1>2, <1>5 DEF IInv, Stage, Running, Undone
<1> QED
  BY <1>3, <1>4, <1>5

LEMMA FinishKeeps == IInv /\ Finish => IInv'
BY StayKeeps DEF Finish, Report

LEMMA CountsStay ==
  ASSUME Recorded, UNCHANGED <<flight, effect>>
  PROVE  /\ flight' \in Seq(Int) /\ effect' \in Seq(Int)
         /\ Len(flight') = Len(flight) /\ Len(effect') = Len(effect)
         /\ \A m \in DOMAIN attempts : effect'[m] + flight'[m] <= effect[m] + flight[m]
BY DEF Recorded

\* The open attempt is closed without a call, and the process goes on or is cancelled.
LEMMA ClosedKeeps ==
  ASSUME IInv, process.pc # "NONE", Pending # {}, Close(Latest, "FAILED"),
         UNCHANGED <<task, flight, effect>>,
         process' = NoProcess \/ (Goto("CANDIDATE") /\ UNCHANGED state)
  PROVE  IInv'
<1>1. Latest \in Pending /\ Latest \in DOMAIN attempts
  BY LatestIsOpen DEF IInv
<1>2. /\ Like
      /\ \A m \in DOMAIN attempts :
           /\ attempts'[m].status = IF m = Latest THEN "FAILED" ELSE attempts[m].status
           /\ attempts'[m].ambiguous = attempts[m].ambiguous
  BY <1>1, CloseIsLike DEF IInv
<1>3. /\ flight' \in Seq(Int) /\ effect' \in Seq(Int)
      /\ Len(flight') = Len(flight) /\ Len(effect') = Len(effect)
      /\ \A m \in DOMAIN attempts : effect'[m] + flight'[m] <= effect[m] + flight[m]
  BY CountsStay DEF IInv
<1>4. \/ process' = NoProcess
      \/ /\ process' = [pc |-> process'.pc, approved |-> process'.approved, replay |-> process'.replay]
         /\ UNCHANGED state /\ process'.pc = "CANDIDATE"
  BY GotoIsProcess DEF IInv
<1>5. "FAILED" \notin Open
  BY DEF Open
<1> QED
  BY <1>1, <1>2, <1>3, <1>4, <1>5, WorkKeeps

LEMMA StartStepKeeps == ASSUME IInv, StartStep PROVE IInv'
<1>1. /\ process.pc = "STEP" /\ UNCHANGED <<task, flight, effect>> /\ Recorded
      /\ \A n \in Pending : attempts[n].status = "PREPARED"
  BY DEF StartStep, IInv, Stage
<1>2. \/ process' = NoProcess /\ UNCHANGED attempts
      \/ Pending = {} /\ Goto("CANDIDATE") /\ UNCHANGED <<state, attempts>>
      \/ Pending # {} /\ Goto("CANDIDATE") /\ Close(Latest, "FAILED") /\ UNCHANGED state
      \/ /\ Pending # {} /\ process' = [process EXCEPT !.pc = "PREPARED", !.replay = TRUE]
         /\ UNCHANGED <<state, attempts>>
  BY DEF StartStep, Report
<1>3. CASE process' = NoProcess /\ UNCHANGED attempts
  BY <1>1, <1>3, StayKeeps
<1>4. CASE Pending = {} /\ Goto("CANDIDATE") /\ UNCHANGED <<state, attempts>>
  <2>1. /\ process' = [pc |-> process'.pc, approved |-> process'.approved, replay |-> process'.replay]
        /\ process'.pc = "CANDIDATE"
    BY <1>1, <1>4, GotoIsProcess
  <2> QED
    BY <1>1, <1>4, <2>1, StayKeeps
<1>5. CASE Pending # {} /\ Goto("CANDIDATE") /\ Close(Latest, "FAILED") /\ UNCHANGED state
  BY <1>1, <1>5, ClosedKeeps
<1>6. CASE /\ Pending # {} /\ process' = [process EXCEPT !.pc = "PREPARED", !.replay = TRUE]
           /\ UNCHANGED <<state, attempts>>
  <2>1. process = [pc |-> process.pc, approved |-> process.approved, replay |-> process.replay]
    BY <1>1 DEF Recorded
  <2>2. /\ process' = [pc |-> process'.pc, approved |-> process'.approved, replay |-> process'.replay]
        /\ process'.pc = "PREPARED"
    BY <1>6, <2>1
  <2> QED
    BY <1>1, <1>6, <2>2, StayKeeps
<1> QED
  BY <1>2, <1>3, <1>4, <1>5, <1>6

LEMMA InvokeKeeps == ASSUME IInv, Invoke PROVE IInv'
<1>1. /\ process.pc = "PREPARED" /\ UNCHANGED <<task, effect>> /\ Recorded /\ Pending # {}
      /\ \A n \in Pending : attempts[n].status = "PREPARED"
  BY DEF Invoke, IInv, Stage
<1>2. CASE attempts[Latest].capability \notin Bound
  BY <1>1, <1>2, ClosedKeeps DEF Invoke, Proceed, Report
<1>3. CASE attempts[Latest].capability \in Bound
  <2>1. /\ Close(Latest, "IN_PROGRESS") /\ UNCHANGED state
        /\ process' = [process EXCEPT !.pc = IF Late THEN "LATE" ELSE "CALL"]
        /\ flight' = IF Late THEN flight ELSE [flight EXCEPT ![Latest] = @ + 1]
    BY <1>3 DEF Invoke
  <2>2. /\ Latest \in Pending /\ Latest \in DOMAIN attempts /\ attempts[Latest].status = "PREPARED"
        /\ Latest \in DOMAIN flight /\ flight[Latest] \in Int
    BY <1>1, LatestIsOpen DEF Recorded
  <2>3. /\ Like
        /\ \A m \in DOMAIN attempts :
             /\ attempts'[m].status = IF m = Latest THEN "IN_PROGRESS" ELSE attempts[m].status
             /\ attempts'[m].ambiguous = attempts[m].ambiguous
    BY <1>1, <2>1, <2>2, CloseIsLike
  <2>4. /\ flight' \in Seq(Int) /\ Len(flight') = Len(flight)
        /\ \A m \in DOMAIN attempts :
             flight'[m] <= IF m = Latest THEN flight[m] + 1 ELSE flight[m]
    <3>1. CASE Late
      BY <1>1, <2>1, <3>1 DEF Recorded
    <3>2. CASE ~Late
      <4>1. flight \in Seq(Int) /\ DOMAIN flight = DOMAIN attempts
        BY <1>1 DEF Recorded
      <4>2. flight' = [flight EXCEPT ![Latest] = flight[Latest] + 1]
        BY <2>1, <3>2
      <4>3. \A m \in DOMAIN flight : flight[m] \in Int
        BY <4>1
      <4> QED
        BY <2>2, <4>1, <4>2, <4>3, CountStep
    <3> QED
      BY <3>1, <3>2
  <2>5. \A m \in DOMAIN attempts : flight[m] \in Int /\ flight'[m] \in Int /\ effect[m] \in Int
    BY <1>1, <2>4 DEF Recorded
  <2>6. \A m \in DOMAIN attempts :
          \/ effect'[m] + flight'[m] <= effect[m] + flight[m]
          \/ /\ m = Latest /\ attempts[Latest].status = "PREPARED"
             /\ effect'[m] + flight'[m] <= effect[m] + flight[m] + 1
    BY <1>1, <2>2, <2>4, <2>5
  <2>7. process = [pc |-> process.pc, approved |-> process.approved, replay |-> process.replay]
    BY <1>1 DEF Recorded
  <2>8. /\ process' = [pc |-> process'.pc, approved |-> process'.approved, replay |-> process'.replay]
        /\ process'.pc \in {"CALL", "LATE"}
    BY <2>1, <2>7
  <2>9. effect' \in Seq(Int) /\ Len(effect') = Len(effect) /\ "IN_PROGRESS" \in Open
    BY <1>1 DEF Recorded, Open
  <2> HIDE DEF Latest
  <2> QED
    BY <1>1, <2>1, <2>2, <2>3, <2>4, <2>6, <2>8, <2>9, WorkKeeps
<1> QED
  BY <1>2, <1>3

LEMMA CallNotMadeKeeps == ASSUME IInv, CallNotMade PROVE IInv'
BY ClosedKeeps DEF CallNotMade, Proceed, Report, IInv, Stage

LEMMA PrepareKeeps == ASSUME IInv, Prepare PROVE IInv'
<1>1. process.pc = "CANDIDATE" /\ UNCHANGED task /\ Recorded /\ Pending = {}
  BY DEF Prepare, IInv, Stage
<1>2. CASE process' = NoProcess /\ UNCHANGED <<attempts, flight, effect>>
  BY <1>1, <1>2, StayKeeps
<1>3. CASE \E i : /\ attempts' = Append(attempts, NewAttempt(i))
                  /\ flight' = Append(flight, 0) /\ effect' = Append(effect, 0)
                  /\ Goto("PREPARED") /\ UNCHANGED state
  <2>1. PICK i : /\ attempts' = Append(attempts, NewAttempt(i))
                 /\ flight' = Append(flight, 0) /\ effect' = Append(effect, 0)
                 /\ Goto("PREPARED") /\ UNCHANGED state
    BY <1>3
  <2> DEFINE a == NewAttempt(i)
             last == Len(attempts) + 1
  <2>2. IsAttempt(a) /\ a.status = "PREPARED" /\ ~a.ambiguous
    BY DEF IsAttempt, NewAttempt
  <2> HIDE DEF a
  <2>3. PICK S : attempts \in Seq(S)
    BY <1>1 DEF Recorded
  <2>4. /\ attempts \in Seq(S \cup {a}) /\ Len(attempts) \in Nat
        /\ attempts' = Append(attempts, a) /\ a \in S \cup {a}
    BY <2>1, <2>3 DEF a
  <2>5. /\ attempts' \in Seq(S \cup {a}) /\ Len(attempts') = last
        /\ DOMAIN attempts = 1 .. Len(attempts) /\ DOMAIN attempts' = 1 .. last
        /\ \A n \in DOMAIN attempts : attempts'[n] = attempts[n]
        /\ attempts'[last] = a
    BY <2>4
  <2>6. \A n \in DOMAIN attempts' : n \in DOMAIN attempts \/ n = last
    BY <2>4, <2>5
  <2>7. /\ flight' \in Seq(Int) /\ Len(flight') = last /\ flight'[last] = 0
        /\ effect' \in Seq(Int) /\ Len(effect') = last /\ effect'[last] = 0
        /\ \A n \in DOMAIN attempts : flight'[n] = flight[n] /\ effect'[n] = effect[n]
    BY <1>1, <2>1, <2>4 DEF Recorded
  <2>8. /\ process' = [pc |-> process'.pc, approved |-> process'.approved, replay |-> process'.replay]
        /\ process'.pc = "PREPARED"
    BY <1>1, <2>1, GotoIsProcess
  <2>9. Recorded'
    BY <1>1, <2>2, <2>5, <2>6, <2>7, <2>8 DEF Recorded
  <2>10. Pending' = {last}
    BY <1>1, <2>2, <2>4, <2>5, <2>6 DEF Pending, Open
  <2>11. Single' /\ Stage'
    BY <2>2, <2>5, <2>8, <2>10 DEF Single, Stage
  <2>12. Running'
    BY <1>1, <2>1, <2>2, <2>5, <2>6, <2>8 DEF IInv, Running, Undone
  <2>13. Once'
    <3> SUFFICES ASSUME NEW n \in DOMAIN attempts', External', ~Descriptor(n)'.idempotent
                 PROVE  /\ effect'[n] + flight'[n] <= 1
                        /\ attempts'[n].status = "PREPARED" => effect'[n] + flight'[n] <= 0
      BY DEF Once
    <3>1. CASE n = last
      BY <2>7, <3>1
    <3>2. CASE n \in DOMAIN attempts
      <4>1. External /\ ~Descriptor(n).idempotent
        BY <1>1, <2>5, <3>2 DEF External, request, Descriptor
      <4>2. /\ effect[n] + flight[n] <= 1
            /\ attempts[n].status = "PREPARED" => effect[n] + flight[n] <= 0
        BY <3>2, <4>1 DEF IInv, Once
      <4> QED
        BY <2>5, <2>7, <3>2, <4>2
    <3> QED
      BY <2>6, <3>1, <3>2
  <2> QED
    BY <2>9, <2>11, <2>12, <2>13 DEF IInv
<1> QED
  BY <1>2, <1>3 DEF Prepare, Report

\* A call that has ended has not taken effect more often than it ran.
LEMMA CallEnds ==
  ASSUME Recorded, NEW n \in DOMAIN attempts, NEW k \in {0, 1},
         flight' = [flight EXCEPT ![n] = @ - 1],
         effect' = IF k = 1 THEN [effect EXCEPT ![n] = @ + 1] ELSE effect
  PROVE  /\ flight' \in Seq(Int) /\ effect' \in Seq(Int)
         /\ Len(flight') = Len(flight) /\ Len(effect') = Len(effect)
         /\ \A m \in DOMAIN attempts : /\ effect'[m] + flight'[m] <= effect[m] + flight[m]
                                       /\ flight'[m] <= flight[m]
<1>1. /\ flight \in Seq(Int) /\ effect \in Seq(Int)
      /\ DOMAIN flight = DOMAIN attempts /\ DOMAIN effect = DOMAIN attempts
  BY DEF Recorded
<1>2. \A m \in DOMAIN attempts : flight[m] \in Int /\ effect[m] \in Int
  BY <1>1
<1>3. /\ flight' \in Seq(Int) /\ Len(flight') = Len(flight)
      /\ \A m \in DOMAIN attempts : flight'[m] = IF m = n THEN flight[n] - 1 ELSE flight[m]
  <2>1. flight' = [flight EXCEPT ![n] = flight[n] - 1] /\ flight[n] - 1 \in Int
    BY <1>2
  <2> QED
    BY <1>1, <2>1, CountStep
<1>4. /\ effect' \in Seq(Int) /\ Len(effect') = Len(effect)
      /\ \A m \in DOMAIN attempts : effect'[m] = IF m = n THEN effect[n] + k ELSE effect[m]
  <2>1. CASE k = 1
    <3>1. effect' = [effect EXCEPT ![n] = effect[n] + 1] /\ effect[n] + 1 \in Int
      BY <1>2, <2>1
    <3> QED
      BY <1>1, <2>1, <3>1, CountStep
  <2>2. CASE k = 0
    BY <1>1, <1>2, <2>2
  <2> QED
    BY <2>1, <2>2
<1> QED
  BY <1>2, <1>3, <1>4

LEMMA ProceedGoes == ASSUME NEW pc, Proceed(pc) PROVE process' = NoProcess \/ (Goto(pc) /\ UNCHANGED state)
<1>1. CASE cancelled
  BY <1>1 DEF Proceed, Report
<1>2. CASE ~cancelled
  BY <1>2 DEF Proceed, Report
<1> QED
  BY <1>1, <1>2

LEMMA CallFailsKeeps == ASSUME IInv, NEW took \in BOOLEAN, CallFails(took) PROVE IInv'
<1>1. /\ process.pc = "CALL" /\ UNCHANGED task /\ Recorded /\ Pending # {} /\ Close(Latest, "FAILED")
      /\ flight' = [flight EXCEPT ![Latest] = @ - 1]
      /\ effect' = IF took THEN [effect EXCEPT ![Latest] = @ + 1] ELSE effect
      /\ process' = NoProcess \/ (Goto("CANDIDATE") /\ UNCHANGED state)
  <2>1. process.pc = "CALL" /\ Recorded /\ Pending # {}
    BY DEF CallFails, IInv, Stage
  <2>2. process' = NoProcess \/ (Goto("CANDIDATE") /\ UNCHANGED state)
    BY ProceedGoes DEF CallFails
  <2>3. /\ UNCHANGED task /\ Close(Latest, "FAILED")
        /\ flight' = [flight EXCEPT ![Latest] = @ - 1]
        /\ effect' = IF took THEN [effect EXCEPT ![Latest] = @ + 1] ELSE effect
    BY DEF CallFails
  <2> QED
    BY <2>1, <2>2, <2>3
<1>2. Latest \in Pending /\ Latest \in DOMAIN attempts
  BY <1>1, LatestIsOpen
<1>3. /\ Like
      /\ \A m \in DOMAIN attempts :
           /\ attempts'[m].status = IF m = Latest THEN "FAILED" ELSE attempts[m].status
           /\ attempts'[m].ambiguous = attempts[m].ambiguous
  BY <1>1, <1>2, CloseIsLike
<1>4. /\ flight' \in Seq(Int) /\ effect' \in Seq(Int)
      /\ Len(flight') = Len(flight) /\ Len(effect') = Len(effect)
      /\ \A m \in DOMAIN attempts : effect'[m] + flight'[m] <= effect[m] + flight[m]
  <2> DEFINE k == IF took THEN 1 ELSE 0
  <2>1. k \in {0, 1} /\ effect' = IF k = 1 THEN [effect EXCEPT ![Latest] = @ + 1] ELSE effect
    BY <1>1
  <2> HIDE DEF k, Latest
  <2> QED
    BY <1>1, <1>2, <2>1, CallEnds
<1>5. \/ process' = NoProcess
      \/ /\ process' = [pc |-> process'.pc, approved |-> process'.approved, replay |-> process'.replay]
         /\ UNCHANGED state /\ process'.pc = "CANDIDATE"
  BY <1>1, GotoIsProcess
<1>6. "FAILED" \notin Open
  BY DEF Open
<1> HIDE DEF Latest
<1> QED
  BY <1>1, <1>2, <1>3, <1>4, <1>5, <1>6, WorkKeeps

LEMMA CallSucceedsKeeps == ASSUME IInv, NEW extra, NEW items, CallSucceeds(extra, items) PROVE IInv'
<1> DEFINE validating == attempts[Latest].step = "validate"
           good == validating => /\ items # << >>
                                 /\ (IF validating THEN Accepted(items) ELSE {}) = DOMAIN items
           status == IF good THEN "SUCCEEDED" ELSE "FAILED"
           used == Returned(Descriptor(Latest), extra)
<1>1. /\ process.pc = "CALL" /\ UNCHANGED task /\ Recorded /\ Pending # {}
      /\ attempts' = [attempts EXCEPT ![Latest].status = status, ![Latest].used = used]
      /\ flight' = [flight EXCEPT ![Latest] = @ - 1]
      /\ effect' = [effect EXCEPT ![Latest] = @ + 1]
      /\ process' = NoProcess \/ ((\E pc \in {"STEP", "CANDIDATE"} : Goto(pc)) /\ UNCHANGED state)
  <2>1. Recorded /\ process.pc = "CALL" /\ Pending # {}
    BY DEF CallSucceeds, IInv, Stage
  <2>2. attempts' = [attempts EXCEPT ![Latest].status = status, ![Latest].used = used]
    BY Zenon DEF CallSucceeds
  <2>3. process' = NoProcess \/ ((\E pc \in {"STEP", "CANDIDATE"} : Goto(pc)) /\ UNCHANGED state)
    <3>1. Proceed("CANDIDATE") \/ process' = NoProcess \/ (Goto("STEP") /\ UNCHANGED state)
      <4>1. CASE process.replay /\ cancelled
        BY <4>1 DEF CallSucceeds, Report
      <4>2. CASE ~(process.replay /\ cancelled)
        BY <4>2 DEF CallSucceeds, Report
      <4> QED
        BY <4>1, <4>2
    <3> QED
      BY <3>1, ProceedGoes
  <2>4. /\ UNCHANGED task /\ flight' = [flight EXCEPT ![Latest] = @ - 1]
        /\ effect' = [effect EXCEPT ![Latest] = @ + 1]
    BY DEF CallSucceeds
  <2> QED
    BY <2>1, <2>2, <2>3, <2>4
<1>0. status \notin Open /\ status # "PREPARED"
  BY DEF Open
<1> HIDE DEF status, used
<1>2. Latest \in Pending /\ Latest \in DOMAIN attempts
  BY <1>1, LatestIsOpen
<1> HIDE DEF Latest
<1> DEFINE a == [attempts[Latest] EXCEPT !.status = status, !.used = used]
<1>3. /\ IsAttempt(a) /\ a.capability = attempts[Latest].capability
      /\ a.status = status /\ a.ambiguous = attempts[Latest].ambiguous
  <2>1. IsAttempt(attempts[Latest])
    BY <1>1, <1>2 DEF Recorded
  <2>2. a = [step |-> attempts[Latest].step, capability |-> attempts[Latest].capability,
             status |-> status, ambiguous |-> attempts[Latest].ambiguous, used |-> used]
    <3>1. a = [[attempts[Latest] EXCEPT !.status = status] EXCEPT !.used = used]
      OBVIOUS
    <3> HIDE DEF a
    <3> QED
      BY <2>1, <3>1 DEF IsAttempt
  <2> HIDE DEF a
  <2> QED
    BY <2>2 DEF IsAttempt
<1>4. attempts' = [attempts EXCEPT ![Latest] = a]
  BY <1>1, <1>2
<1> HIDE DEF a
<1>5. /\ Like
      /\ \A m \in DOMAIN attempts :
           /\ attempts'[m].status = IF m = Latest THEN status ELSE attempts[m].status
           /\ attempts'[m].ambiguous = attempts[m].ambiguous
  BY <1>1, <1>2, <1>3, <1>4, UpdateIsLike
<1>6. /\ flight' \in Seq(Int) /\ effect' \in Seq(Int)
      /\ Len(flight') = Len(flight) /\ Len(effect') = Len(effect)
      /\ \A m \in DOMAIN attempts : effect'[m] + flight'[m] <= effect[m] + flight[m]
  <2>1. effect' = IF 1 = 1 THEN [effect EXCEPT ![Latest] = @ + 1] ELSE effect
    BY <1>1
  <2> QED
    BY <1>1, <1>2, <2>1, CallEnds
<1>7. \/ process' = NoProcess
      \/ /\ process' = [pc |-> process'.pc, approved |-> process'.approved, replay |-> process'.replay]
         /\ UNCHANGED state /\ process'.pc \in {"STEP", "CANDIDATE"}
  BY <1>1, GotoIsProcess
<1>8. process.pc # "NONE" /\ UNCHANGED task
  BY <1>1
<1> QED
  BY <1>0, <1>2, <1>5, <1>6, <1>7, <1>8, WorkKeeps

-----------------------------------------------------------------------------
(* The environment.                                                        *)

LEMMA CrashKeeps == ASSUME IInv, Crash PROVE IInv'
<1>1. process.pc # "NONE"
  BY DEF Crash, IInv, Recorded
<1> QED
  BY <1>1, StayKeeps DEF Crash, checkpoint

LEMMA OrphanEndsKeeps ==
  ASSUME IInv, NEW n \in DOMAIN attempts, NEW took \in BOOLEAN, OrphanEnds(n, took)
  PROVE  IInv' /\ \A m \in DOMAIN flight : flight'[m] <= flight[m]
<1>1. /\ flight' = [flight EXCEPT ![n] = @ - 1]
      /\ effect' = IF took THEN [effect EXCEPT ![n] = @ + 1] ELSE effect
      /\ UNCHANGED <<task, state, attempts, process>> /\ Recorded
  BY DEF OrphanEnds, checkpoint, IInv
<1>2. /\ flight' \in Seq(Int) /\ effect' \in Seq(Int)
      /\ Len(flight') = Len(flight) /\ Len(effect') = Len(effect)
      /\ \A m \in DOMAIN attempts : /\ effect'[m] + flight'[m] <= effect[m] + flight[m]
                                    /\ flight'[m] <= flight[m]
  <2> DEFINE k == IF took THEN 1 ELSE 0
  <2>1. k \in {0, 1} /\ effect' = IF k = 1 THEN [effect EXCEPT ![n] = @ + 1] ELSE effect
    BY <1>1
  <2> HIDE DEF k
  <2> QED
    BY <1>1, <2>1, CallEnds
<1>3. Recorded' /\ DOMAIN flight = DOMAIN attempts
  BY <1>1, <1>2 DEF Recorded, NoProcess
<1>4. Like
  BY <1>1, SameIsLike
<1>5. Once'
  BY <1>1, <1>2, <1>4, LikeKeepsOnce DEF IInv
<1>6. Single' /\ Stage' /\ Running'
  BY <1>1 DEF IInv, Single, Stage, Running, Undone, Pending
<1> QED
  BY <1>2, <1>3, <1>5, <1>6 DEF IInv

LEMMA SameKeeps ==
  IInv /\ UNCHANGED <<task, state, attempts, process, flight, effect>> => IInv'
BY DEF IInv, Recorded, NoProcess, Single, Stage, Running, Undone, Once, Pending, External, request, Descriptor

LEMMA StepKeeps == IInv /\ [Next]_vars => IInv'
<1> SUFFICES ASSUME IInv, [Next]_vars PROVE IInv'
  OBVIOUS
<1>1. CASE Step
  <2>1. CASE \E receipts \in {{}} \cup {{receipt} : receipt \in Receipts} : Execute(receipts)
    BY <2>1, ExecuteKeeps
  <2>2. CASE \E extra \in Extra, items \in Answers : CallSucceeds(extra, items)
    BY <2>2, CallSucceedsKeeps
  <2>3. CASE \E took \in BOOLEAN : CallFails(took)
    BY <2>3, CallFailsKeeps
  <2> QED
    BY <1>1, <2>1, <2>2, <2>3, FinishKeeps, StartStepKeeps, PrepareKeeps, InvokeKeeps, CallNotMadeKeeps DEF Step
<1>2. CASE Crash
  BY <1>2, CrashKeeps
<1>3. CASE \E n \in DOMAIN attempts, took \in BOOLEAN : OrphanEnds(n, took)
  BY <1>3, OrphanEndsKeeps
<1>4. CASE RequestCancel \/ Tick \/ UNCHANGED vars
  BY <1>4, SameKeeps DEF RequestCancel, Tick, vars, checkpoint
<1> QED
  BY <1>1, <1>2, <1>3, <1>4 DEF Next

LEMMA Invariance == Spec => []IInv
BY InitHolds, StepKeeps, PTL DEF Spec

-----------------------------------------------------------------------------
(* The theorems.                                                           *)

\* The checkpoint that validate_checkpoint reads never has two open attempts.
THEOREM CheckpointsLoad == Spec => []CheckpointLoads
<1>1. IInv => CheckpointLoads
  <2> SUFFICES ASSUME IInv PROVE Cardinality(Pending) <= 1
    BY DEF CheckpointLoads, ValidCheckpoint
  <2>1. CASE Pending = {}
    BY <2>1, FS_EmptySet
  <2>2. CASE Pending # {}
    <3>1. PICK n : n \in Pending
      BY <2>2
    <3>2. Pending = {n}
      BY <3>1 DEF IInv, Single
    <3>3. Cardinality(Pending) = 1
      BY <3>2, FS_Singleton, Zenon
    <3> QED
      BY <3>3
  <2> QED
    BY <2>1, <2>2
<1> QED
  BY <1>1, Invariance, PTL

\* An operation with an external effect that its capability does not recognise as a repetition
\* takes effect at most once, whenever executors die and however often they are started again.
THEOREM EffectsAreNotRepeated == Spec => []NoBlindRepeat
<1>1. IInv => NoBlindRepeat
  BY DEF IInv, Once, NoBlindRepeat
<1> QED
  BY <1>1, Invariance, PTL

\* After a terminal report or an ambiguous outcome no later start changes the checkpoint or calls
\* an adapter.
THEOREM DecisionsStay == Spec => StaysDecided
<1>1. ASSUME IInv, [Next]_vars, state \in Terminal \/ \E n \in DOMAIN attempts : attempts[n].ambiguous
      PROVE  Untouched
  <2>1. process.pc = "NONE"
    BY <1>1 DEF IInv, Running, Undone
  <2>2. \A m \in DOMAIN flight : flight[m] \in Int
    BY <1>1 DEF IInv, Recorded
  <2>3. ~Step
    BY <1>1, <2>1 DEF Step, Execute, Undecided, Finish, StartStep, Prepare, Invoke, CallSucceeds,
                      CallNotMade, CallFails
  <2>4. CASE \E n \in DOMAIN attempts, took \in BOOLEAN : OrphanEnds(n, took)
    BY <1>1, <2>4, OrphanEndsKeeps DEF OrphanEnds, Untouched
  <2>5. CASE RequestCancel \/ Crash \/ Tick \/ UNCHANGED vars
    BY <2>2, <2>5 DEF RequestCancel, Crash, Tick, vars, Untouched
  <2> QED
    BY <1>1, <2>3, <2>4, <2>5 DEF Next
<1> QED
  BY <1>1, Invariance, PTL DEF Spec, StaysDecided

(***************************************************************************)
(* A task that is reported as completed was worked on and validated as it  *)
(* asks for. A validator is only called once the work has succeeded, and   *)
(* the work succeeds once; so the worker every piece of evidence was       *)
(* compared with is the worker of the report.                              *)
(***************************************************************************)
Succeeded(n) == attempts[n].status = "SUCCEEDED"

Shaped(p) ==
  /\ p.status # "COMPLETED"
  /\ \/ p.steps = << >>
     \/ \E c : p.steps = <<[name |-> "work", candidates |-> c]>>
     \/ \E c, d : p.steps = <<[name |-> "work", candidates |-> c], [name |-> "validate", candidates |-> d]>>

Planned == Shaped(plan)

\* The steps are taken one after the other, and none again once it is done.
Ordered ==
  /\ \A n \in DOMAIN attempts :
       /\ attempts[n].step \in Steps
       /\ attempts[n].step # "work" => Done("work")
       /\ attempts[n].status \in Open => ~Done(attempts[n].step)
  /\ \A m, n \in DOMAIN attempts :
       attempts[m].step = "work" /\ Succeeded(m) /\ attempts[n].step = "work" /\ Succeeded(n) => m = n

\* A candidate is looked for only while a step is not done.
Going == process.pc = "CANDIDATE" => \E step \in Steps : ~Done(step)

Sourced ==
  \A e \in evidence :
    /\ e.attempt \in DOMAIN attempts /\ e.scope \in request.scopes
    /\ Done("work")
    /\ request.independent => e.independent /\ attempts[e.attempt].capability # Worker

VInv == Planned /\ Ordered /\ Going /\ Sourced /\ CompletedIsValidated

-----------------------------------------------------------------------------
(* The plan, and the step that is the next one.                            *)

LEMMA PairIsAppended == ASSUME NEW a, NEW b PROVE Append(<<a>>, b) = <<a, b>>
<1> DEFINE s == Append(<<a>>, b)
           t == <<a, b>>
<1>1. <<a>> \in Seq({a, b}) /\ Len(<<a>>) = 1 /\ t \in Seq({a, b}) /\ Len(t) = 2 /\ t[1] = a /\ t[2] = b
  OBVIOUS
<1>2. s \in Seq({a, b}) /\ Len(s) = 2 /\ s[1] = a /\ s[2] = b
  BY <1>1
<1> HIDE DEF s, t
<1>3. \A i \in 1 .. 2 : s[i] = t[i]
  BY <1>1, <1>2
<1>4. s = t
  BY <1>1, <1>2, <1>3, SeqEqual
<1> QED
  BY <1>4 DEF s, t

LEMMA PlansHaveSteps == ASSUME NEW r, NEW catalog, NEW at PROVE Shaped(Plan(r, catalog, at))
<1> DEFINE p == Plan(r, catalog, at)
           work == [name |-> "work", candidates |-> Workers(r, catalog, at)]
           validate == [name |-> "validate", candidates |-> Validators(r, catalog, at)]
           f == Feasibility(r, catalog, at)
<1>1. f # "COMPLETED"
  BY DEF Feasibility
<1>2. p.status = IF (f = "EXECUTABLE" /\ NeedsApproval(r)) /\ "approve:risk-boundary" \notin r.granted
                 THEN "MANUAL_REQUIRED" ELSE f
  BY DEF Plan
<1>3. p.steps = IF f # "EXECUTABLE" THEN << >> ELSE <<work>> \o IF r.scopes = {} THEN << >> ELSE <<validate>>
  BY DEF Plan
<1> HIDE DEF p, work, validate, f
<1>4. <<work>> \o << >> = <<work>> /\ <<work>> \o <<validate>> = <<work, validate>>
  <2>1. <<work>> \in Seq({work, validate})
    OBVIOUS
  <2>2. <<work>> \o << >> = <<work>>
    BY <2>1, ConcatEmptySeq
  <2>3. Append(<<work>>, validate) = <<work>> \o <<validate>>
    BY <2>1, AppendIsConcat
  <2>4. Append(<<work>>, validate) = <<work, validate>>
    BY PairIsAppended
  <2> QED
    BY <2>2, <2>3, <2>4
<1>5. p.steps = << >> \/ p.steps = <<work>> \/ p.steps = <<work, validate>>
  BY <1>3, <1>4
<1> QED
  BY <1>1, <1>2, <1>5 DEF Shaped, work, validate, p

LEMMA InitIsValid == Init => VInv
<1> SUFFICES ASSUME Init PROVE VInv
  OBVIOUS
<1>1. Planned
  <2>1. PICK r \in Requests, raw \in RawCatalogs :
          task = [request |-> r, catalog |-> Catalog(raw), plan |-> Plan(r, Catalog(raw), 0)]
    BY DEF Init
  <2>2. plan = Plan(r, Catalog(raw), 0)
    BY <2>1 DEF plan
  <2> QED
    BY <2>2, PlansHaveSteps DEF Planned
<1>2. attempts = << >> /\ evidence = {} /\ state = "ACTIVE" /\ process.pc = "NONE"
  BY DEF Init, NoProcess
<1> QED
  BY <1>1, <1>2 DEF VInv, Ordered, Going, Sourced, CompletedIsValidated

LEMMA CurrentIsNext ==
  ASSUME Planned, \E step \in Steps : ~Done(step)
  PROVE  /\ Current.name \in Steps /\ ~Done(Current.name)
         /\ Current.name # "work" => Done("work")
<1> DEFINE undone == {k \in DOMAIN plan.steps : ~Done(plan.steps[k].name)}
<1>1. undone # {} /\ undone \subseteq DOMAIN plan.steps
  BY DEF Steps
<1>2. \A step : step \in Steps <=> \E k \in DOMAIN plan.steps : step = plan.steps[k].name
  BY DEF Steps
<1>3. CASE \E c : plan.steps = <<[name |-> "work", candidates |-> c]>>
  <2>1. DOMAIN plan.steps = {1} /\ plan.steps[1].name = "work"
    BY <1>3
  <2>2. undone = {1}
    BY <1>1, <2>1
  <2>3. MinOf(undone) = 1
    BY <2>2 DEF MinOf
  <2> QED
    BY <1>2, <2>1, <2>2, <2>3 DEF Current
<1>4. CASE \E c, d : plan.steps = <<[name |-> "work", candidates |-> c], [name |-> "validate", candidates |-> d]>>
  <2>1. DOMAIN plan.steps = {1, 2} /\ plan.steps[1].name = "work" /\ plan.steps[2].name = "validate"
    BY <1>4
  <2>2. CASE 1 \in undone
    <3>1. \A k \in undone : 1 <= k /\ k \in {1, 2}
      BY <1>1, <2>1
    <3>2. MinOf(undone) = 1
      BY <2>2, <3>1 DEF MinOf
    <3> QED
      BY <1>2, <2>1, <2>2, <3>2 DEF Current
  <2>3. CASE 1 \notin undone
    <3>1. undone = {2} /\ Done("work")
      BY <1>1, <2>1, <2>3
    <3>2. MinOf(undone) = 2
      BY <3>1 DEF MinOf
    <3> QED
      BY <1>2, <2>1, <3>1, <3>2 DEF Current
  <2> QED
    BY <2>2, <2>3
<1>5. plan.steps # << >>
  BY <1>1
<1> QED
  BY <1>3, <1>4, <1>5 DEF Planned, Shaped

\* The worker is the capability of the one attempt that succeeded.
LEMMA WorkerIs ==
  ASSUME Ordered, NEW w \in DOMAIN attempts, attempts[w].step = "work", Succeeded(w)
  PROVE  Worker = attempts[w].capability
BY DEF Ordered, Worker, Of, Succeeded

-----------------------------------------------------------------------------
(* Steps after which the same attempts have succeeded.                     *)

Mild ==
  /\ DOMAIN attempts' = DOMAIN attempts
  /\ \A n \in DOMAIN attempts :
       /\ attempts'[n].step = attempts[n].step /\ attempts'[n].capability = attempts[n].capability
       /\ attempts'[n].status = "SUCCEEDED" <=> attempts[n].status = "SUCCEEDED"
       /\ attempts'[n].status \in Open => attempts[n].status \in Open
  /\ UNCHANGED <<task, evidence>>

LEMMA MildDone == ASSUME Mild, NEW step PROVE Done(step)' <=> Done(step)
BY DEF Mild, Done, Of

LEMMA MildKeeps == ASSUME VInv, Mild PROVE Planned' /\ Ordered' /\ Sourced' /\ Steps' = Steps
<1>1. Planned' /\ Steps' = Steps
  BY DEF VInv, Planned, Mild, plan, Steps
<1>2. Ordered'
  BY <1>1, MildDone DEF VInv, Ordered, Mild, Succeeded
<1>3. Sourced'
  <2> SUFFICES ASSUME NEW e \in evidence'
               PROVE  /\ e.attempt \in DOMAIN attempts' /\ e.scope \in request'.scopes /\ Done("work")'
                      /\ request'.independent => e.independent /\ attempts'[e.attempt].capability # Worker'
    BY DEF Sourced
  <2>1. /\ e \in evidence /\ request' = request
        /\ e.attempt \in DOMAIN attempts /\ e.scope \in request.scopes /\ Done("work")
        /\ request.independent => e.independent /\ attempts[e.attempt].capability # Worker
    BY DEF VInv, Sourced, Mild, request
  <2>2. PICK w \in DOMAIN attempts : attempts[w].step = "work" /\ Succeeded(w)
    BY <2>1 DEF Done, Of, Succeeded
  <2>3. Worker = attempts[w].capability
    BY <2>2, WorkerIs DEF VInv
  <2>4. w \in DOMAIN attempts' /\ attempts'[w].step = "work" /\ Succeeded(w)' /\ attempts'[w].capability = attempts[w].capability
    BY <2>2 DEF Mild, Succeeded
  <2>5. Worker' = attempts'[w].capability
    BY <1>2, <2>4 DEF Ordered, Worker, Of, Succeeded
  <2> QED
    BY <2>1, <2>3, <2>4, <2>5, MildDone DEF Mild
<1> QED
  BY <1>1, <1>2, <1>3

LEMMA SameIsMild == UNCHANGED <<task, attempts, evidence>> => Mild
BY DEF Mild

LEMMA CloseIsMild ==
  ASSUME Recorded, NEW n \in Pending, NEW s, s # "SUCCEEDED", Close(n, s), UNCHANGED <<task, evidence>>
  PROVE  Mild
<1>1. n \in DOMAIN attempts /\ attempts[n].status \in Open
  BY DEF Pending
<1>2. \A m \in DOMAIN attempts : IsAttempt(attempts[m])
  BY DEF Recorded
<1>3. /\ DOMAIN attempts' = DOMAIN attempts
      /\ \A m \in DOMAIN attempts : attempts'[m] = IF m = n THEN [attempts[n] EXCEPT !.status = s] ELSE attempts[m]
  BY <1>1 DEF Close
<1>4. /\ [attempts[n] EXCEPT !.status = s].step = attempts[n].step
      /\ [attempts[n] EXCEPT !.status = s].capability = attempts[n].capability
      /\ [attempts[n] EXCEPT !.status = s].status = s
  BY <1>1, <1>2 DEF IsAttempt
<1> QED
  BY <1>1, <1>3, <1>4 DEF Mild, Open

\* A step of the executor starts from a state that is not terminal.
LEMMA StepsUndecided == IInv /\ Step => state \notin Terminal
BY DEF IInv, Step, Running, Undone, Execute, Undecided, Finish, StartStep, Prepare, Invoke, CallSucceeds, CallNotMade, CallFails

-----------------------------------------------------------------------------
(* The actions.                                                            *)

\* What is left to show of a step that is mild and reports no completion.
LEMMA QuietKeeps ==
  ASSUME VInv, Mild, state' # "COMPLETED",
         process'.pc = "CANDIDATE" => \E step \in Steps : ~Done(step)
  PROVE  VInv'
<1>1. Planned' /\ Ordered' /\ Sourced' /\ Steps' = Steps
  BY MildKeeps
<1>2. Going'
  BY <1>1, MildDone DEF Going
<1>3. CompletedIsValidated'
  BY DEF CompletedIsValidated
<1> QED
  BY <1>1, <1>2, <1>3 DEF VInv

LEMMA ExecuteValid == ASSUME IInv, VInv, NEW receipts, Execute(receipts) PROVE VInv'
<1> DEFINE broken == {n \in Pending : attempts[n].status = "IN_PROGRESS"}
<1>1. Recorded /\ state # "COMPLETED" /\ plan.status # "COMPLETED" /\ UNCHANGED <<task, evidence>>
  BY DEF IInv, Execute, Undecided, Terminal, VInv, Planned, Shaped
<1>2. \/ UNCHANGED attempts
      \/ attempts' = [n \in DOMAIN attempts |->
                        IF n \in broken THEN [attempts[n] EXCEPT !.status = "UNKNOWN", !.ambiguous = TRUE] ELSE attempts[n]]
      \/ attempts' = [n \in DOMAIN attempts |->
                        IF n \in broken THEN [attempts[n] EXCEPT !.status = "PREPARED"] ELSE attempts[n]]
  BY DEF Execute
<1>3. Mild
  <2>1. CASE UNCHANGED attempts
    BY <1>1, <2>1, SameIsMild
  <2>2. ASSUME NEW s, s # "SUCCEEDED",
               DOMAIN attempts' = DOMAIN attempts,
               \A n \in DOMAIN attempts :
                 IF n \in broken
                 THEN /\ attempts'[n].step = attempts[n].step /\ attempts'[n].capability = attempts[n].capability
                      /\ attempts'[n].status = s
                 ELSE attempts'[n] = attempts[n]
        PROVE  Mild
    BY <1>1, <2>2 DEF Mild, Pending, Open
  <2>3. CASE attempts' = [n \in DOMAIN attempts |->
               IF n \in broken THEN [attempts[n] EXCEPT !.status = "UNKNOWN", !.ambiguous = TRUE] ELSE attempts[n]]
    <3>1. ASSUME NEW n \in DOMAIN attempts, n \in broken
          PROVE  /\ attempts'[n].step = attempts[n].step /\ attempts'[n].capability = attempts[n].capability
                 /\ attempts'[n].status = "UNKNOWN"
      <4>1. attempts'[n] = [attempts[n] EXCEPT !.status = "UNKNOWN", !.ambiguous = TRUE] /\ IsAttempt(attempts[n])
        BY <1>1, <2>3, <3>1 DEF Recorded
      <4>2. attempts'[n] = [step |-> attempts[n].step, capability |-> attempts[n].capability,
                            status |-> "UNKNOWN", ambiguous |-> TRUE, used |-> attempts[n].used]
        BY <4>1 DEF IsAttempt
      <4> QED
        BY <4>2
    <3> QED
      BY <2>2, <2>3, <3>1
  <2>4. CASE attempts' = [n \in DOMAIN attempts |->
               IF n \in broken THEN [attempts[n] EXCEPT !.status = "PREPARED"] ELSE attempts[n]]
    <3>1. ASSUME NEW n \in DOMAIN attempts, n \in broken
          PROVE  /\ attempts'[n].step = attempts[n].step /\ attempts'[n].capability = attempts[n].capability
                 /\ attempts'[n].status = "PREPARED"
      BY <1>1, <2>4, <3>1 DEF Recorded, IsAttempt
    <3> QED
      BY <2>2, <2>4, <3>1
  <2> QED
    BY <1>2, <2>1, <2>3, <2>4
<1>4. state' \in {state, "CANCELLED", "MANUAL_REQUIRED", plan.status}
  BY DEF Execute, Report
<1>5. process' = NoProcess \/ process' = [pc |-> "STEP", approved |-> receipts # {}, replay |-> FALSE]
  BY DEF Execute, Report
<1>6. state' # "COMPLETED" /\ process'.pc # "CANDIDATE"
  BY <1>1, <1>4, <1>5 DEF NoProcess
<1> QED
  BY <1>3, <1>6, QuietKeeps

\* The open attempt is closed without success: its step is still to be done.
LEMMA CloseValid ==
  ASSUME IInv, VInv, Pending # {}, NEW s, s # "SUCCEEDED", Close(Latest, s), UNCHANGED <<task, evidence>>,
         state' # "COMPLETED"
  PROVE  VInv'
<1>1. Recorded /\ Latest \in Pending /\ Latest \in DOMAIN attempts /\ attempts[Latest].status \in Open
  BY LatestIsOpen DEF IInv
<1> HIDE DEF Latest
<1>2. Mild
  BY <1>1, CloseIsMild
<1>3. attempts[Latest].step \in Steps /\ ~Done(attempts[Latest].step)
  BY <1>1 DEF VInv, Ordered
<1> QED
  BY <1>2, <1>3, QuietKeeps

LEMMA StartStepValid == ASSUME IInv, VInv, StartStep PROVE VInv'
<1>1. /\ UNCHANGED <<task, evidence>> /\ (\E step \in Steps : ~Done(step)) /\ state # "COMPLETED"
      /\ state' \in {state, "MANUAL_REQUIRED", "BLOCKED"}
      /\ UNCHANGED attempts \/ (Pending # {} /\ Close(Latest, "FAILED"))
  <2>1. state \notin Terminal
    BY StepsUndecided DEF Step
  <2> QED
    BY <2>1 DEF StartStep, Report, Terminal
<1>2. CASE UNCHANGED attempts
  BY <1>1, <1>2, SameIsMild, QuietKeeps
<1>3. CASE Pending # {} /\ Close(Latest, "FAILED")
  BY <1>1, <1>3, CloseValid
<1> QED
  BY <1>1, <1>2, <1>3

LEMMA ProceedState ==
  ASSUME NEW pc, Proceed(pc), state # "COMPLETED"
  PROVE  state' # "COMPLETED"
<1>1. state' \in {state, "CANCELLED"}
  BY DEF Proceed, Report
<1> QED
  BY <1>1

LEMMA FailureValid ==
  ASSUME IInv, VInv, Invoke \/ CallNotMade \/ \E took \in BOOLEAN : CallFails(took)
  PROVE  VInv'
<1>1. state # "COMPLETED" /\ Pending # {}
  BY StepsUndecided DEF Step, Terminal, IInv, Stage, Invoke, CallNotMade, CallFails
<1>2. PICK s \in {"FAILED", "IN_PROGRESS"} : Close(Latest, s)
  BY DEF Invoke, CallNotMade, CallFails
<1>3. UNCHANGED <<task, evidence>>
  BY DEF Invoke, CallNotMade, CallFails
<1>4. Proceed("CANDIDATE") \/ UNCHANGED state
  BY DEF Invoke, CallNotMade, CallFails
<1> QED
  BY <1>1, <1>2, <1>3, <1>4, CloseValid, ProceedState

LEMMA FinishValid == ASSUME IInv, VInv, Finish PROVE VInv'
<1>1. /\ UNCHANGED <<task, attempts, evidence>> /\ process' = NoProcess /\ (\A step \in Steps : Done(step))
      /\ state' = CASE ValidationStatus \in {"PASSED", "NOT_REQUIRED"} -> "COMPLETED"
                    [] ValidationStatus = "FAILED" -> "FAILED"
                    [] OTHER -> "MANUAL_REQUIRED"
  BY DEF Finish, Report
<1>2. /\ Planned' /\ Ordered' /\ Sourced' /\ Steps' = Steps /\ Worker' = Worker
      /\ \A step : Done(step)' <=> Done(step)
  BY <1>1, SameIsMild, MildKeeps, MildDone DEF Worker, Of
<1>3. Going'
  BY <1>1 DEF Going, NoProcess
<1>4. CASE state' # "COMPLETED"
  BY <1>2, <1>3, <1>4 DEF VInv, CompletedIsValidated
<1>5. CASE state' = "COMPLETED"
  <2>1. ValidationStatus \in {"PASSED", "NOT_REQUIRED"}
    BY <1>1, <1>5
  <2>2. /\ \A scope \in request.scopes : \E e \in evidence : e.scope = scope /\ e.result = "PASSED"
        /\ \A e \in evidence : e.result # "FAILED"
    <3>1. CASE request.scopes = {}
      BY <3>1 DEF VInv, Sourced
    <3>2. CASE request.scopes # {}
      <4>1. /\ ~\E e \in evidence : e.result = "FAILED"
            /\ {e.scope : e \in {f \in evidence : f.result = "PASSED"}} = request.scopes
        BY <2>1, <3>2 DEF ValidationStatus
      <4> QED
        BY <4>1
    <3> QED
      BY <3>1, <3>2
  <2>3. request.independent => \A e \in evidence : e.independent /\ attempts[e.attempt].capability # Worker
    BY DEF VInv, Sourced
  <2>4. CompletedIsValidated'
    BY <1>1, <1>2, <2>2, <2>3 DEF CompletedIsValidated, request
  <2> QED
    BY <1>2, <1>3, <2>4 DEF VInv
<1> QED
  BY <1>4, <1>5

LEMMA PrepareValid == ASSUME IInv, VInv, Prepare PROVE VInv'
<1>1. /\ process.pc = "CANDIDATE" /\ UNCHANGED <<task, evidence>> /\ Recorded /\ Pending = {}
      /\ state # "COMPLETED"
  BY StepsUndecided DEF Step, Terminal, Prepare, IInv, Stage
<1>2. CASE UNCHANGED attempts /\ state' \in {"UNAVAILABLE", "BLOCKED"} /\ process' = NoProcess
  <2>1. state' # "COMPLETED" /\ process'.pc # "CANDIDATE"
    BY <1>2 DEF NoProcess
  <2> QED
    BY <1>1, <1>2, <2>1, SameIsMild, QuietKeeps
<1>3. CASE \E i : attempts' = Append(attempts, NewAttempt(i)) /\ Goto("PREPARED") /\ UNCHANGED state
  <2>1. PICK i : attempts' = Append(attempts, NewAttempt(i)) /\ Goto("PREPARED") /\ UNCHANGED state
    BY <1>3
  <2> DEFINE a == NewAttempt(i)
             last == Len(attempts) + 1
  <2>2. /\ a.step \in Steps /\ ~Done(a.step) /\ (a.step # "work" => Done("work"))
        /\ a.status = "PREPARED"
    <3>1. a.step = Current.name /\ a.status = "PREPARED"
      BY DEF NewAttempt
    <3>2. Planned /\ \E step \in Steps : ~Done(step)
      BY <1>1 DEF VInv, Going
    <3> HIDE DEF a
    <3> QED
      BY <3>1, <3>2, CurrentIsNext
  <2> HIDE DEF a
  <2>3. PICK S : attempts \in Seq(S)
    BY <1>1 DEF Recorded
  <2>4. attempts \in Seq(S \cup {a}) /\ attempts' = Append(attempts, a) /\ Len(attempts) \in Nat
    BY <2>1, <2>3 DEF a
  <2>5. /\ DOMAIN attempts = 1 .. Len(attempts) /\ DOMAIN attempts' = 1 .. last
        /\ last \notin DOMAIN attempts /\ attempts'[last] = a
        /\ \A n \in DOMAIN attempts : attempts'[n] = attempts[n]
    BY <2>4
  <2>6. \A n \in DOMAIN attempts' : n \in DOMAIN attempts \/ n = last
    BY <2>4, <2>5
  <2>7. DOMAIN attempts \subseteq DOMAIN attempts'
    BY <2>4, <2>5
  <2> HIDE DEF last
  <2>8. \A step : Done(step)' <=> Done(step)
    BY <2>2, <2>5, <2>6, <2>7 DEF Done, Of
  <2>9. Planned' /\ Steps' = Steps /\ request' = request
    BY <1>1 DEF VInv, Planned, Steps, plan, request
  <2>10. Ordered'
    <3>1. ASSUME NEW n \in DOMAIN attempts'
          PROVE  /\ attempts'[n].step \in Steps' /\ (attempts'[n].step # "work" => Done("work")')
                 /\ attempts'[n].status \in Open => ~Done(attempts[n].step)'
      <4>1. CASE n = last
        BY <2>2, <2>5, <2>8, <2>9, <4>1
      <4>2. CASE n \in DOMAIN attempts
        BY <2>5, <2>8, <2>9, <4>2 DEF VInv, Ordered
      <4> QED
        BY <2>6, <4>1, <4>2
    <3>2. ASSUME NEW m \in DOMAIN attempts', NEW n \in DOMAIN attempts',
                 attempts'[m].step = "work", Succeeded(m)', attempts'[n].step = "work", Succeeded(n)'
          PROVE  m = n
      <4>1. m \in DOMAIN attempts /\ n \in DOMAIN attempts
        BY <2>2, <2>5, <2>6, <3>2 DEF Succeeded
      <4> QED
        BY <2>5, <3>2, <4>1 DEF VInv, Ordered, Succeeded
    <3> QED
      BY <3>1, <3>2 DEF Ordered
  <2>11. Sourced'
    <3> SUFFICES ASSUME NEW e \in evidence'
                 PROVE  /\ e.attempt \in DOMAIN attempts' /\ e.scope \in request'.scopes /\ Done("work")'
                        /\ request'.independent => e.independent /\ attempts'[e.attempt].capability # Worker'
      BY DEF Sourced
    <3>1. /\ e.attempt \in DOMAIN attempts /\ e.scope \in request.scopes /\ Done("work")
          /\ request.independent => e.independent /\ attempts[e.attempt].capability # Worker
      BY <1>1 DEF VInv, Sourced
    <3>2. PICK w \in DOMAIN attempts : attempts[w].step = "work" /\ Succeeded(w)
      BY <3>1 DEF Done, Of, Succeeded
    <3>3. Worker = attempts[w].capability
      BY <3>2, WorkerIs DEF VInv
    <3>4. w \in DOMAIN attempts' /\ attempts'[w].step = "work" /\ Succeeded(w)'
      BY <2>5, <2>7, <3>2 DEF Succeeded
    <3>5. Worker' = attempts'[w].capability
      BY <2>10, <3>4 DEF Ordered, Worker, Of, Succeeded
    <3> QED
      BY <2>5, <2>7, <2>8, <2>9, <3>1, <3>2, <3>3, <3>5
  <2>12. Going'
    BY <1>1, <2>1, GotoIsProcess DEF Going
  <2>13. CompletedIsValidated'
    BY <1>1, <2>1 DEF CompletedIsValidated
  <2> QED
    BY <2>9, <2>10, <2>11, <2>12, <2>13 DEF VInv
<1> QED
  BY <1>2, <1>3 DEF Prepare, Report

\* The adapter has answered, and its answer is taken, in part or not at all.
LEMMA CallSucceedsValid == ASSUME IInv, VInv, NEW extra, NEW items \in Answers, CallSucceeds(extra, items) PROVE VInv'
<1> DEFINE validating == attempts[Latest].step = "validate"
           accepted == IF validating THEN Accepted(items) ELSE {}
           good == validating => items # << >> /\ accepted = DOMAIN items
           status == IF good THEN "SUCCEEDED" ELSE "FAILED"
           used == Returned(Descriptor(Latest), extra)
           taken == {[scope |-> items[k].scope, result |-> items[k].result,
                      independent |-> items[k].independent, attempt |-> Latest] : k \in accepted}
<1>1. /\ process.pc = "CALL" /\ UNCHANGED task /\ Recorded /\ Pending # {} /\ state # "COMPLETED"
  BY DEF CallSucceeds, IInv, Stage, Running, Undone, Terminal
<1>2. attempts' = [attempts EXCEPT ![Latest].status = status, ![Latest].used = used]
  BY Zenon DEF CallSucceeds
<1>3. evidence' = evidence \cup taken
  BY Zenon DEF CallSucceeds
<1>4. state' # "COMPLETED" /\ (process'.pc = "CANDIDATE" => ~good)
  <2>1. CASE ~good
    <3>1. Proceed("CANDIDATE")
      BY <2>1 DEF CallSucceeds
    <3> QED
      BY <1>1, <2>1, <3>1, ProceedState
  <2>2. CASE good
    <3>1. Report("CANCELLED") \/ Report("BLOCKED") \/ (Goto("STEP") /\ UNCHANGED state)
      <4>1. CASE process.replay /\ cancelled
        BY <2>2, <4>1 DEF CallSucceeds
      <4>2. CASE ~(process.replay /\ cancelled)
        BY <2>2, <4>2 DEF CallSucceeds
      <4> QED
        BY <4>1, <4>2
    <3> HIDE DEF good
    <3>2. CASE Report("CANCELLED") \/ Report("BLOCKED")
      BY <3>2 DEF Report, NoProcess
    <3>3. CASE Goto("STEP") /\ UNCHANGED state
      BY <1>1, <3>3, GotoIsProcess
    <3> QED
      BY <3>1, <3>2, <3>3
  <2> QED
    BY <2>1, <2>2
<1>5. \A k \in accepted : validating /\ ~Refused(items[k])
  <2>1. \A k \in DOMAIN items : k \in 1 .. k
    BY AnswersAssumption
  <2> QED
    BY <2>1 DEF Accepted
<1>6. (status = "SUCCEEDED" <=> good) /\ status \in {"SUCCEEDED", "FAILED"}
  BY Zenon
<1>7. /\ Latest \in Pending /\ Latest \in DOMAIN attempts /\ attempts[Latest].status \in Open
      /\ \A m \in DOMAIN attempts : attempts[m].status \in Open => m = Latest
  BY <1>1, LatestIsOpen DEF IInv, Single, Pending
<1>8. \A e \in taken :
        /\ validating /\ e.attempt = Latest /\ e.scope \in request.scopes
        /\ request.independent => e.independent /\ attempts[e.attempt].capability # Worker
  <2> SUFFICES ASSUME NEW k \in accepted
               PROVE  /\ validating /\ items[k].scope \in request.scopes
                      /\ request.independent => items[k].independent /\ attempts[Latest].capability # Worker
    OBVIOUS
  <2> QED
    BY <1>5 DEF Refused
<1> HIDE DEF good, status, used, accepted, taken, Latest
<1>9. /\ DOMAIN attempts' = DOMAIN attempts
      /\ \A m \in DOMAIN attempts :
           /\ attempts'[m].step = attempts[m].step /\ attempts'[m].capability = attempts[m].capability
           /\ attempts'[m].status = IF m = Latest THEN status ELSE attempts[m].status
  <2>1. IsAttempt(attempts[Latest])
    BY <1>1, <1>7 DEF Recorded
  <2> DEFINE a == [[attempts[Latest] EXCEPT !.status = status] EXCEPT !.used = used]
  <2>2. DOMAIN attempts' = DOMAIN attempts /\ \A m \in DOMAIN attempts : attempts'[m] = IF m = Latest THEN a ELSE attempts[m]
    BY <1>2, <1>7
  <2>3. a.step = attempts[Latest].step /\ a.capability = attempts[Latest].capability /\ a.status = status
    BY <2>1 DEF IsAttempt
  <2> HIDE DEF a
  <2> QED
    BY <2>2, <2>3
<1>10. /\ \A m \in DOMAIN attempts : attempts'[m].status \notin Open
       /\ attempts[Latest].step \in Steps /\ ~Done(attempts[Latest].step)
       /\ Planned' /\ Steps' = Steps /\ request' = request
  BY <1>1, <1>6, <1>7, <1>9 DEF VInv, Ordered, Planned, Steps, plan, request, Open
<1>11. CASE attempts[Latest].step = "work"
  <2>1. /\ \A m \in DOMAIN attempts : attempts[m].step = "work" /\ ~Succeeded(m)
        /\ evidence = {} /\ ~Done("work")
    BY <1>10, <1>11 DEF VInv, Ordered, Sourced, Done, Of, Succeeded
  <2>2. evidence' = {}
    BY <1>3, <1>8, <1>11, <2>1
  <2>3. Ordered'
    BY <1>7, <1>9, <1>10, <2>1 DEF VInv, Ordered, Succeeded
  <2>4. Going'
    <3> SUFFICES ASSUME process'.pc = "CANDIDATE" PROVE ~Done("work")' /\ "work" \in Steps'
      BY DEF Going
    <3>1. \A m \in DOMAIN attempts : attempts'[m].status # "SUCCEEDED"
      BY <1>4, <1>6, <1>9, <2>1 DEF Succeeded
    <3> QED
      BY <1>9, <1>10, <1>11, <3>1 DEF Done, Of
  <2> QED
    BY <1>4, <1>10, <2>2, <2>3, <2>4 DEF VInv, Sourced, CompletedIsValidated
<1>12. CASE attempts[Latest].step # "work"
  <2>1. PICK w \in DOMAIN attempts : attempts[w].step = "work" /\ Succeeded(w)
    BY <1>7, <1>12 DEF VInv, Ordered, Done, Of, Succeeded
  <2>2. w # Latest /\ Worker = attempts[w].capability
    BY <1>7, <2>1, WorkerIs DEF VInv, Succeeded, Open
  <2>3. w \in DOMAIN attempts' /\ attempts'[w].step = "work" /\ Succeeded(w)' /\ Done("work")'
    BY <1>9, <2>1, <2>2 DEF Succeeded, Done, Of
  <2>4. Ordered'
    <3>1. ASSUME NEW m \in DOMAIN attempts', NEW n \in DOMAIN attempts',
                 attempts'[m].step = "work", Succeeded(m)', attempts'[n].step = "work", Succeeded(n)'
          PROVE  m = n
      BY <1>9, <1>12, <3>1 DEF VInv, Ordered, Succeeded
    <3> QED
      BY <1>9, <1>10, <2>3, <3>1 DEF VInv, Ordered
  <2>5. Worker' = Worker
    BY <1>9, <2>1, <2>2, <2>3, <2>4 DEF Ordered, Worker, Of, Succeeded
  <2>6. Sourced'
    <3> SUFFICES ASSUME NEW e \in evidence'
                 PROVE  /\ e.attempt \in DOMAIN attempts' /\ e.scope \in request'.scopes /\ Done("work")'
                        /\ request'.independent => e.independent /\ attempts'[e.attempt].capability # Worker'
      BY DEF Sourced
    <3>1. CASE e \in evidence
      BY <1>9, <1>10, <2>3, <2>5, <3>1 DEF VInv, Sourced
    <3>2. CASE e \in taken
      BY <1>7, <1>8, <1>9, <1>10, <2>3, <2>5, <3>2
    <3> QED
      BY <1>3, <3>1, <3>2
  <2>7. Going'
    <3> SUFFICES ASSUME process'.pc = "CANDIDATE" PROVE \E step \in Steps' : ~Done(step)'
      BY DEF Going
    <3>0. PICK step \in Steps : ~Done(step)
      BY <1>10
    <3>1. \A m \in DOMAIN attempts : attempts'[m].status = "SUCCEEDED" => attempts[m].status = "SUCCEEDED"
      BY <1>4, <1>6, <1>9
    <3> QED
      BY <1>9, <1>10, <3>0, <3>1 DEF Done, Of
  <2> QED
    BY <1>4, <1>10, <2>4, <2>6, <2>7 DEF VInv, CompletedIsValidated
<1> QED
  BY <1>11, <1>12

\* The environment does not touch the checkpoint.
LEMMA RestValid ==
  ASSUME VInv, UNCHANGED <<task, attempts, evidence, state>>, process'.pc = "NONE" \/ UNCHANGED process
  PROVE  VInv'
<1>1. /\ Planned' /\ Ordered' /\ Sourced' /\ Steps' = Steps /\ Worker' = Worker
      /\ \A step : Done(step)' <=> Done(step)
  BY SameIsMild, MildKeeps, MildDone DEF Worker, Of
<1>2. Going'
  BY <1>1 DEF VInv, Going
<1>3. CompletedIsValidated'
  BY <1>1 DEF VInv, CompletedIsValidated, request
<1> QED
  BY <1>1, <1>2, <1>3 DEF VInv

LEMMA StepValid == IInv /\ VInv /\ [Next]_vars => VInv'
<1> SUFFICES ASSUME IInv, VInv, [Next]_vars PROVE VInv'
  OBVIOUS
<1>1. CASE Step
  <2>1. CASE \E receipts \in {{}} \cup {{receipt} : receipt \in Receipts} : Execute(receipts)
    BY <2>1, ExecuteValid
  <2>2. CASE \E extra \in Extra, items \in Answers : CallSucceeds(extra, items)
    BY <2>2, CallSucceedsValid
  <2>3. CASE Invoke \/ CallNotMade \/ \E took \in BOOLEAN : CallFails(took)
    BY <2>3, FailureValid
  <2> QED
    BY <1>1, <2>1, <2>2, <2>3, FinishValid, StartStepValid, PrepareValid DEF Step
<1>2. CASE Crash
  <2>1. UNCHANGED <<task, attempts, evidence, state>> /\ process'.pc = "NONE"
    BY <1>2 DEF Crash, checkpoint, NoProcess
  <2> QED
    BY <2>1, RestValid
<1>3. CASE RequestCancel \/ Tick \/ UNCHANGED vars \/ \E n \in DOMAIN attempts, took \in BOOLEAN : OrphanEnds(n, took)
  <2>1. UNCHANGED <<task, attempts, evidence, state, process>>
    BY <1>3 DEF RequestCancel, Tick, vars, OrphanEnds, checkpoint
  <2> QED
    BY <2>1, RestValid
<1> QED
  BY <1>1, <1>2, <1>3 DEF Next

\* Completed work has every step done and passing evidence of every scope, none of it from the
\* capability that did the work where it has to be independent, however often the executor died,
\* attempts failed and evidence was taken only in part.
THEOREM CompletionsAreValidated == Spec => []CompletedIsValidated
<1>1. VInv => CompletedIsValidated
  BY DEF VInv
<1> QED
  BY <1>1, Invariance, InitIsValid, StepValid, PTL DEF Spec
=============================================================================
