--------------------------- MODULE CircuitBreaker ---------------------------
(***************************************************************************)
(* CircuitBreaker of src/guardrails.py as a record and the functions on    *)
(* it.  last_failure, which nothing reads, is left out.                    *)
(***************************************************************************)
EXTENDS Integers, Sequences

CONSTANTS
  FailureThreshold,  \* failures in the window that open the circuit (5)
  RecoveryTimeout,   \* seconds before a call is let through again (60)
  WindowSize         \* seconds a failure counts (60)

ASSUME BreakerAssumption ==
  /\ FailureThreshold \in Nat \ {0}
  /\ RecoveryTimeout \in Nat
  /\ WindowSize \in Nat

CircuitState == {"closed", "open", "half_open"}

Breaker == [state: CircuitState, failures: Seq(Nat), opened_at: Nat]

NewBreaker == [state |-> "closed", failures |-> <<>>, opened_at |-> 0]

\* popleft() while the oldest is older than the window: what is left starts
\* at the first failure inside it.
InWindow(failures, now) ==
  LET recent == {i \in DOMAIN failures : failures[i] >= now - WindowSize}
      first == CHOOSE i \in recent : \A j \in recent : i <= j
  IN  IF recent = {} THEN <<>> ELSE SubSeq(failures, first, Len(failures))

\* The circuit opens one failure too late.
RecordFailureLate(b, now) ==
  LET failures == InWindow(Append(b.failures, now), now)
  IN  IF Len(failures) > FailureThreshold
      THEN [state |-> "open", failures |-> failures, opened_at |-> now]
      ELSE [b EXCEPT !.failures = failures]

\* record_failure
RecordFailure(b, now) ==
  LET failures == InWindow(Append(b.failures, now), now)
  IN  IF Len(failures) >= FailureThreshold
      THEN [state |-> "open", failures |-> failures, opened_at |-> now]
      ELSE [b EXCEPT !.failures = failures]

\* record_success
RecordSuccess(b) == [b EXCEPT !.failures = <<>>, !.state = "closed"]

\* The time since the circuit opened is measured the wrong way round.
IsOpenForEver(b, now) ==
  b.state = "open" /\ b.opened_at - now < RecoveryTimeout

\* What is_open() returns ...
IsOpen(b, now) == b.state = "open" /\ now - b.opened_at < RecoveryTimeout

\* ... and what asking does: an open circuit whose time is up is half open.
AfterIsOpen(b, now) ==
  IF b.state = "open" /\ ~IsOpen(b, now) THEN [b EXCEPT !.state = "half_open"]
                                         ELSE b

=============================================================================
