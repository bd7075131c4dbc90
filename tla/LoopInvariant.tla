--------------------------- MODULE LoopInvariant ---------------------------
(***************************************************************************)
(* What holds of OperationQueue whoever starts and stops its loops: the    *)
(* part of the inductive invariant that does not depend on there being one *)
(* loop, and the part that needs only one of them to be active.            *)
(***************************************************************************)
EXTENDS OperationQueue

-----------------------------------------------------------------------------
(* However many loops are active *)

\* A thread that somebody waits for is the only one that loop waits for, and
\* is a call of its current operation; the loop has no result yet.
CallsAwaited ==
  /\ \A c \in inflight : c.waiter \in Loops =>
       /\ pc[c.waiter] = "await"
       /\ outcome[c.waiter] = "none"
       /\ current[c.waiter].id = c.op
  /\ \A c, d \in inflight : c.waiter = d.waiter /\ c.waiter \in Loops => c = d

\* Success is known only after the effect, in the thread, in the loop that
\* got its result, and in the row.
EffectInv ==
  /\ \A c \in inflight : c.applied => effects[c.op] > 0
  /\ \A l \in Loops : outcome[l] = "ok" => effects[current[l].id] > 0
  /\ \A o \in Ops : operations[o].status = "completed" => effects[o] > 0

\* The inductive invariant of the loops.
LoopsInv ==
  /\ QueueTypeOK
  /\ CallsAwaited
  /\ EffectInv

-----------------------------------------------------------------------------
(* As long as only one loop is active *)

\* The number of attempts a row allows for.
RowBudget(o) ==
  /\ attempts[o] <= MaxRetries + 1
  /\ operations[o].status = "absent" => attempts[o] = 0
  /\ operations[o].status = "pending" =>
       /\ attempts[o] <= operations[o].metadata.retry_count
       /\ operations[o].metadata.retry_count <= MaxRetries

\* The copies a loop has yet to execute know of every attempt made, and no
\* two of them, nor one of them and the current one, are of the same row.
BatchBudget(l) ==
  \A e \in batch[l] :
    /\ attempts[e.id] <= e.retry_count
    /\ e.retry_count <= MaxRetries
    /\ \A f \in batch[l] : e.id = f.id => e = f
    /\ current[l] # NoEntry => e.id # current[l].id
    /\ operations[e.id].status # "absent"

\* The copy being executed knows of every attempt but the one being made.
CurrentBudget(l) ==
  current[l] # NoEntry =>
    /\ attempts[current[l].id] <= current[l].retry_count + 1
    /\ current[l].retry_count <= MaxRetries
    /\ operations[current[l].id].status # "absent"

\* Rows and copies agree on the attempts that are left.
BudgetInv ==
  /\ \A o \in Ops : RowBudget(o)
  /\ \A l \in Loops : BatchBudget(l) /\ CurrentBudget(l)

\* The flag is set while a loop is active, so that no other one gets past the
\* guard of start().
FlagGuards == \A l \in Loops : Active(l) => running

\* The inductive invariant of a queue that nobody stops.
GuardedInv ==
  /\ LoopsInv
  /\ AtMostOneLoop
  /\ FlagGuards
  /\ BudgetInv

=============================================================================
