--------------------------- MODULE TransportGuard ---------------------------
(***************************************************************************)
(* One scope of a transport guard: the circuit breaker of                  *)
(* agent_runtime/circuit_breaker.py and the rate-limit governor of         *)
(* agent_runtime/rate_limit.py, composed by call of                        *)
(* agent_runtime/transport_guard.py (providers and sources) and of         *)
(* brokers/transport_guard.py (brokers), whose calls only end well or with *)
(* an exception.                                                           *)
(*                                                                         *)
(* A caller is a coroutine: it is admitted or refused in one step, awaits  *)
(* the operation, and its end is recorded in one step.  Times are what is  *)
(* left of them, in ticks of the clock.                                    *)
(***************************************************************************)
EXTENDS Integers, Sequences, FiniteSets

CONSTANTS
  Callers,
  Outcomes,      \* how an operation may end: see Failed and Status
  Threshold,     \* failure_threshold
  Base,          \* base_backoff_seconds
  MaxBackoff,    \* maximum_backoff_seconds of both
  Concurrency,   \* maximum_concurrency; 1 for a scope without a policy
  Requests,      \* requests_per_window of a verified policy; otherwise 1
  Window,        \* window_seconds of a verified policy; otherwise the
                 \* conservative interval between two requests
  RetryAfter     \* the values of a Retry-After header

ASSUME GuardAssumption ==
  /\ IsFiniteSet(Callers)
  /\ Outcomes \subseteq {"fine", "refused", "throttled", "down", "raised"}
  /\ Threshold \in Nat \ {0} /\ Base \in Nat \ {0}
  /\ MaxBackoff \in Nat /\ MaxBackoff >= Base
  /\ Concurrency \in Nat \ {0} /\ Requests \in Nat \ {0} /\ Window \in Nat
  /\ RetryAfter \subseteq Nat /\ 0 \in RetryAfter

VARIABLES
  circuit,   \* CircuitBreaker
  limiter,   \* the scope's part of ScopedRateLimitGovernor
  calls,     \* "idle", or how the circuit admitted the operation that runs
  storm      \* history: failed calls since the latest call that succeeded

guardVars == <<circuit, limiter, calls, storm>>

Closed == [state |-> "closed", failures |-> 0, left |-> 0, probe |-> FALSE]

GuardInit ==
  /\ circuit = Closed
  /\ limiter = [running |-> 0, requests |-> <<>>, blocked |-> 0, throttled |-> 0]
  /\ calls = [c \in Callers |-> "idle"]
  /\ storm = 0

Running == {c \in Callers : calls[c] # "idle"}

-----------------------------------------------------------------------------
(* Circuit breaker *)

Least(m, n) == IF m < n THEN m ELSE n
Most(m, n)  == IF m > n THEN m ELSE n

\* Counters stop where a higher count makes no difference any more.
Cap == Threshold + MaxBackoff

\* Faulty: the delay doubles without its maximum.
Unbounded(first, n) == first * 2^n

Backoff(first, n) == Least(MaxBackoff, first * 2^n)

MayProbe == \/ circuit.state = "open" /\ circuit.left = 0
            \/ circuit.state = "half_open" /\ ~circuit.probe

\* before_call, when it allows the call.
BeforeCall == IF MayProbe THEN [circuit EXCEPT !.state = "half_open", !.probe = TRUE]
              ELSE circuit

CircuitAllows == MayProbe \/ circuit.state = "closed"

RecordSuccess(c) == Closed

RecordFailure(c) ==
  LET n == Least(c.failures + 1, Cap)
  IN IF n >= Threshold
     THEN [state |-> "open", failures |-> n, left |-> Backoff(Base, n - Threshold),
           probe |-> FALSE]
     ELSE [c EXCEPT !.state = "closed", !.failures = n, !.probe = FALSE]

-----------------------------------------------------------------------------
(* Rate limit *)

Permitted ==
  /\ limiter.blocked = 0
  /\ limiter.running < Concurrency
  /\ Len(limiter.requests) < Requests

BeforeRequest ==
  [limiter EXCEPT !.running = @ + 1,
                  !.requests = IF Window = 0 THEN @ ELSE Append(@, Window)]

\* A request leaves the window when nothing is left of its time; the oldest are at the head
\* of the deque, and they are taken from there.
Popped(s) == CHOOSE k \in 0..Len(s) : /\ \A i \in 1..k : s[i] <= 1
                                      /\ k < Len(s) => s[k + 1] > 1

InWindow(s) == [i \in 1..(Len(s) - Popped(s)) |-> s[Popped(s) + i] - 1]

\* Faulty: the slot of a call that raised is not given back.
KeepsTheSlot(o, after) ==
  IF o = "raised" THEN limiter ELSE [limiter EXCEPT !.running = @ - 1]

\* complete_request: only a 2xx or 3xx answer ends the blocking of a 429.
CompleteRequest(o, after) ==
  LET freed == [limiter EXCEPT !.running = Most(0, @ - 1)]
      n     == Least(limiter.throttled + 1, Cap)
  IN CASE o = "throttled" ->
            [freed EXCEPT !.throttled = n, !.blocked = Most(after, Backoff(1, n - 1))]
       [] o = "fine"      -> [freed EXCEPT !.throttled = 0, !.blocked = 0]
       [] OTHER           -> freed

-----------------------------------------------------------------------------
(* Guard *)

Admit(c) ==
  /\ calls[c] = "idle"
  /\ CircuitAllows /\ Permitted
  /\ circuit' = BeforeCall
  /\ limiter' = BeforeRequest
  /\ calls' = [calls EXCEPT ![c] = BeforeCall.state]
  /\ UNCHANGED storm

\* Faulty: a refusal of the rate limit leaves the circuit as before_call made it.
LeavesTheProbe(c) == BeforeCall

\* What a refusal of the rate limit does to the circuit that let the call pass.
AfterRefusal(c) == RecordSuccess(circuit)

Refuse(c) ==
  /\ calls[c] = "idle"
  /\ CircuitAllows /\ ~Permitted
  /\ circuit' = AfterRefusal(c)
  /\ UNCHANGED <<limiter, calls, storm>>

\* Refusals of the circuit itself change nothing.
Failed(o) == o \in {"raised", "throttled", "down"}

End(c, o, after) ==
  /\ calls[c] # "idle"
  /\ after # 0 => o = "throttled"
  /\ circuit' = IF Failed(o) THEN RecordFailure(circuit) ELSE RecordSuccess(circuit)
  /\ limiter' = CompleteRequest(o, after)
  /\ calls' = [calls EXCEPT ![c] = "idle"]
  /\ storm' = IF Failed(o) THEN Least(storm + 1, Threshold) ELSE 0

OneLess(n) == IF n > 0 THEN n - 1 ELSE 0

GuardTick ==
  /\ circuit' = [circuit EXCEPT !.left = OneLess(@)]
  /\ limiter' = [limiter EXCEPT !.blocked = OneLess(@), !.requests = InWindow(@)]
  /\ UNCHANGED <<calls, storm>>

Comes(c) == Admit(c) \/ Refuse(c)
Returns(c) == \E o \in Outcomes, after \in RetryAfter : End(c, o, after)

GuardNext ==
  \/ \E c \in Callers : Comes(c) \/ Returns(c)
  \/ GuardTick

GuardSpec == GuardInit /\ [][GuardNext]_guardVars

-----------------------------------------------------------------------------
(* Properties *)

GuardTypeOK ==
  /\ circuit \in [state: {"closed", "open", "half_open"}, failures: 0..Cap,
                  left: 0..MaxBackoff, probe: BOOLEAN]
  /\ limiter \in [running: Nat, requests: Seq(1..Window), blocked: Nat, throttled: 0..Cap]
  /\ calls \in [Callers -> {"idle", "closed", "half_open"}]
  /\ storm \in 0..Threshold

\* complete_request: every operation that ended, however it did, has given its slot
\* back, and no other: the count is that of the operations that run.
SlotsAreExact == limiter.running = Cardinality(Running)

\* before_call: a circuit that waits for its probe waits for a call that really runs,
\* also when the rate limit refused a probe the circuit had let pass.
ProbeIsRunning == circuit.probe => \E c \in Callers : calls[c] = "half_open"

\* However a call ends, it leaves no slot and no probe behind.
NothingStaysBehind == SlotsAreExact /\ ProbeIsRunning

\* Whatever failed, was cut off or was refused before: a scope whose callers keep
\* coming does not refuse them all for ever.  No probe, slot or delay is left behind.
AlwaysUsable == []<>(Running # {})

\* before_call: no more than one probe runs at a time.
OneProbe == Cardinality({c \in Callers : calls[c] = "half_open"}) <= 1

\* record_failure: a scope whose last Threshold calls all failed is not closed.
FailuresOpenTheCircuit == storm = Threshold => circuit.state # "closed"
=============================================================================
