--------------------------- MODULE QueueInvariant ---------------------------
(***************************************************************************)
(* The inductive invariants of QueueBackgroundTask.  The safety properties *)
(* are not inductive: they hold because of who may hold which snapshot of  *)
(* a row, and who still waits for which thread (LoopInvariant has what     *)
(* holds even of several loops).  IInv is what holds by itself, LifeInv    *)
(* what it takes to implement OperationLifecycle.                          *)
(***************************************************************************)
EXTENDS QueueBackgroundTask, LoopInvariant

\* Only the task that QueueBackgroundTask owns is alive: start() makes no
\* second one while the first lives, and crashes take all of them.
SoleTask == \A l \in Loops : pc[l] # "off" => l = task

\* A cancellation is pending only for a suspended loop of a stopped queue.
CancelsOfStopped ==
  \A l \in cancelling : pc[l] \in {"created", "await", "sleep"} /\ ~running

\* Nobody whose cancellation is pending waits for a thread: cancel() takes the
\* waiter away at once.
CancelledWaitForNone == \A c \in inflight : c.waiter \notin cancelling

\* The inductive invariant: who lives, who waits, who may still try.
IInv ==
  /\ TypeOK
  /\ SoleTask
  /\ CancelsOfStopped
  /\ CallsAwaited
  /\ CancelledWaitForNone
  /\ RunningHonoured
  /\ BudgetInv
  /\ EffectInv

-----------------------------------------------------------------------------
(* Rows, copies and threads, as far as the life cycle tells them apart *)

\* A row between two steps: what it counts, and who works on it.
RowLife(o) ==
  LET row == operations[o]
  IN  /\ row.status \in {"completed", "failed"} => o \in settled
      /\ o \in settled => row.status \notin {"absent", "pending", "executing"}
      /\ "store" \notin Env =>
           /\ row.status = "pending" => attempts[o] = row.metadata.retry_count
           /\ row.status = "failed" /\ o \in Registered =>
                attempts[o] = MaxRetries + 1
           /\ row.status = "executing" /\ interruptions = 0 =>
                \E l \in Loops : current[l] # NoEntry /\ current[l].id = o

\* What a loop may believe of the rows it has copies of: the queue is not
\* done with any of them; those in a batch wait, the current one is being
\* tried; any of them may have been cancelled or deleted meanwhile.
LoopLife(l) ==
  /\ \A e \in batch[l] :
       /\ e.id \notin settled
       /\ operations[e.id].status \in Lifecycle!Waiting \cup {"deleted"}
       /\ "store" \notin Env => attempts[e.id] = e.retry_count
  /\ current[l] # NoEntry =>
       /\ current[l].id \notin settled
       /\ operations[current[l].id].status \in Lifecycle!Tried \cup {"deleted"}
       /\ "store" \notin Env => attempts[current[l].id] = current[l].retry_count + 1
  /\ pc[l] = "await" =>
       operations[current[l].id].status \in Lifecycle!Running \cup {"deleted"}

RowsLife ==
  /\ \A o \in Ops : RowLife(o)
  /\ \A l \in Loops : LoopLife(l)
  /\ interruptions = 0 => cancelling = {}

\* The attempts of an operation that may still take effect.
Unlanded(o) ==
  {n \in 1 .. attempts[o] : \E c \in inflight : c.op = o /\ c.n = n /\ ~c.applied}

\* Every attempt takes effect at most once.
CallsLife ==
  /\ \A c \in inflight : c.n \in 1 .. attempts[c.op]
  /\ \A c, d \in inflight : c.op = d.op /\ c.n = d.n => c = d
  /\ \A o \in Ops : effects[o] + Cardinality(Unlanded(o)) <= attempts[o]

\* The stamps of a row tell its story up to now; only a withdrawal the queue
\* passes over leaves an end before the execution.
StampLife(o) ==
  LET row == operations[o]
  IN  /\ row.created_at <= clock /\ row.executed_at <= clock
      /\ row.executed_at # NULL => row.created_at <= row.executed_at
      /\ row.status = "executing" => row.executed_at # NULL
      /\ "cancel" \notin Env =>
           /\ row.status \in {"absent", "pending", "executing"} =>
                row.completed_at = NULL
           /\ row.status = "completed" =>
                row.executed_at # NULL /\ row.executed_at <= row.completed_at

StampsLife == \A o \in Ops : StampLife(o)

\* The inductive invariant behind the life cycle.
LifeInv ==
  /\ IInv
  /\ RowsLife
  /\ CallsLife
  /\ StampsLife

=============================================================================
