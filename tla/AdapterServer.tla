--------------------------- MODULE AdapterServer ---------------------------
(***************************************************************************)
(* A process that serves an adapter: one frame after the other, a circuit  *)
(* breaker around the calls of the adapter, and how each adapter can end a *)
(* call. A frame that is not well formed changes nothing and is left out.  *)
(*                                                                         *)
(* Source: .ai/foundation/ai_runtime_adapters/adapter_protocol.py and the  *)
(* adapters of reference_adapters.py.                                      *)
(***************************************************************************)
EXTENDS Naturals, Sequences

CONSTANTS
  None,
  Adapter,            \* the adapters served: a subset of {"command", "http"}
  Threshold,          \* failures in a row that open the circuit
  Cooldown,           \* how long it stays open
  MaxTime, MaxFrames  \* bounds of the model

VARIABLES
  adapter,            \* the adapter of this process
  time,
  breaker,            \* [failures, until]
  serving,            \* the operation that runs: None or [op, begun]
  frames,             \* how many frames have come
  failed              \* history: when the calls failed that no success followed

vars == <<adapter, time, breaker, serving, frames, failed>>

Operation == {"probe", "catalog", "invoke", "cancel", "provision"}
Guarded(op) == op \notin {"cancel", "probe"}

-----------------------------------------------------------------------------
(* How the adapters end a call: OK, or the class of the error.             *)

RunEnds == {"OK", "TIMEOUT", "AVAILABILITY"}

CommandEnds ==
  [probe |-> RunEnds,
   catalog |-> RunEnds \cup {"PROTOCOL"},
   invoke |-> RunEnds \cup {"PERMISSION", "CONFIGURATION", "PROTOCOL", "INPUT"},
   cancel |-> {"OK"},
   provision |-> {"CAPABILITY"}]

RequestEnds == {"OK", "PERMISSION", "CREDENTIAL", "PROTOCOL", "TIMEOUT", "AVAILABILITY"}

\* A probe over HTTP reports the failure of its request as the health.
HttpEnds ==
  [probe |-> {"OK"},
   catalog |-> RequestEnds,
   invoke |-> RequestEnds \cup {"INPUT"},
   cancel |-> {"OK"},
   provision |-> {"CAPABILITY"}]

\* Any call may also return content, or fail in a way no adapter reports.
EndsOf(op) ==
  {"CONTRACT", "INTERNAL"} \cup IF adapter = "command" THEN CommandEnds[op] ELSE HttpEnds[op]

-----------------------------------------------------------------------------
Failed(b) ==
  [failures |-> b.failures + 1,
   until |-> IF b.failures + 1 >= Threshold THEN time + Cooldown ELSE b.until]

Closed == [failures |-> 0, until |-> 0]

\* What the breaker counts: some classes of a guarded operation, and every
\* internal failure.
Counts(op, end) ==
  end = "INTERNAL" \/ (Guarded(op) /\ end \in {"AVAILABILITY", "TIMEOUT", "PROTOCOL"})

Receive(op) ==
  /\ serving = None
  /\ frames < MaxFrames
  /\ frames' = frames + 1
  /\ IF Guarded(op) /\ time < breaker.until
     THEN breaker' = Failed(breaker) /\ UNCHANGED serving
     ELSE serving' = [op |-> op, begun |-> time] /\ UNCHANGED breaker
  /\ UNCHANGED <<adapter, time, failed>>

\* Mutant: a probe that succeeds closes the circuit as well.
ClosesAfterProbe(op, end) == end = "OK"

Closes(op, end) == end = "OK" /\ Guarded(op)

Finish(end) ==
  /\ serving # None
  /\ breaker' = IF Closes(serving.op, end) THEN Closed
                ELSE IF Counts(serving.op, end) THEN Failed(breaker) ELSE breaker
  /\ failed' = IF end = "OK" /\ Guarded(serving.op) THEN <<>>
               ELSE IF Counts(serving.op, end) THEN Append(failed, time) ELSE failed
  /\ serving' = None
  /\ UNCHANGED <<adapter, time, frames>>

Tick == time < MaxTime /\ time' = time + 1 /\ UNCHANGED <<adapter, breaker, serving, frames, failed>>

Init ==
  /\ adapter \in Adapter
  /\ time = 0 /\ frames = 0 /\ serving = None /\ failed = <<>>
  /\ breaker = Closed

Next ==
  \/ \E op \in Operation : Receive(op)
  \/ serving # None /\ \E end \in EndsOf(serving.op) : Finish(end)
  \/ Tick

Spec == Init /\ [][Next]_vars

-----------------------------------------------------------------------------
\* An adapter that has failed too often in a row is left alone: the next call
\* that reaches it, whatever probes, cancellations, uncounted errors and
\* refusals came between, begins a cooldown after its last failure
\* (CircuitBreaker).
AdapterIsSpared ==
  serving # None /\ Guarded(serving.op) /\ Len(failed) >= Threshold =>
    serving.begun >= failed[Len(failed)] + Cooldown
=============================================================================
