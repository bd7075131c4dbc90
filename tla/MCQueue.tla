------------------------------ MODULE MCQueue ------------------------------
(***************************************************************************)
(* Small instances of QueueBackgroundTask: two operations, a task and its  *)
(* successor, one retry, and the disturbances each configuration names.    *)
(***************************************************************************)
EXTENDS QueueInvariant, TLC

CONSTANTS BackoffMultiplier  \* config.queue_retry_backoff_multiplier

MCBackoff == [n \in 0 .. MaxRetries |-> 2 ^ n * BackoffMultiplier]

LoopSymmetry == Permutations(Loops)
OpSymmetry == Permutations(Ops) \cup Permutations(Loops)

\* A state without what no guard reads and no safety property of the faults
\* is about: the stamps of a row, other than created_at, and next_retry_at.
Unstamped ==
  <<[o \in Ops |-> [status |-> operations[o].status,
                    retry_count |-> operations[o].metadata.retry_count,
                    created_at |-> operations[o].created_at]],
    clock, running, pc, batch, current, outcome, inflight, attempts, effects,
    settled, task, cancelling, interruptions>>

=============================================================================
