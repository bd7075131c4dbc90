------------------------ MODULE QueueBackgroundTask ------------------------
(***************************************************************************)
(* QueueBackgroundTask of src/operation_queue.py, the owner of the queue's *)
(* task: start() creates a task running OperationQueue.start(), stop()     *)
(* clears the flag, cancels the task and awaits it.  Composed with the     *)
(* queue, its worker threads, the other users of the store and the death   *)
(* of the process.                                                         *)
(***************************************************************************)
EXTENDS OperationQueue

CONSTANT MaxInterruptions   \* bound on the stops and crashes of a behaviour

ASSUME InterruptionsAssumption == MaxInterruptions \in Nat

VARIABLES
  task,          \* QueueBackgroundTask._task: a loop, or Nobody before start
  cancelling,    \* loops whose task.cancel() has yet to be delivered
  interruptions  \* stops and crashes so far (bounds the model)

vars == <<queueVars, task, cancelling, interruptions>>

\* self._task is None, or done().
TaskDone == \A l \in Loops : l = task => pc[l] = "off"

\* start() without the test of done(): each call makes one more task.
TaskStartUnguarded(l) ==
  /\ Spawn(l)
  /\ task' = l
  /\ UNCHANGED <<cancelling, interruptions>>

\* start(): a no-op while the task lives.
TaskStart(l) ==
  /\ TaskDone
  /\ Spawn(l)
  /\ task' = l
  /\ UNCHANGED <<cancelling, interruptions>>

\* stop() cancelling the task but leaving the flag set.
TaskStopFlagKept ==
  /\ "stop" \in Env
  /\ interruptions < MaxInterruptions
  /\ interruptions' = interruptions + 1
  /\ \A l \in Loops : pc[l] \in Suspended
  /\ cancelling' = IF TaskDone THEN cancelling ELSE cancelling \cup {task}
  /\ inflight' = IF TaskDone THEN inflight ELSE Abandoned(task)
  /\ UNCHANGED <<storeVars, running, loopVars, historyVars, task>>

\* stop(), called by another coroutine while every loop is suspended: the
\* flag, then cancel(), which also makes the awaited thread an orphan; what
\* follows awaits the task and changes nothing.
TaskStop ==
  /\ "stop" \in Env
  /\ interruptions < MaxInterruptions
  /\ interruptions' = interruptions + 1
  /\ \A l \in Loops : pc[l] \in Suspended
  /\ running' = FALSE
  /\ cancelling' = IF TaskDone THEN cancelling ELSE cancelling \cup {task}
  /\ inflight' = IF TaskDone THEN inflight ELSE Abandoned(task)
  /\ UNCHANGED <<storeVars, loopVars, historyVars, task>>

\* CancelledError is thrown into the loop where it is suspended.  It is no
\* Exception: _execute_operation and _process_batch let it pass, and start()
\* returns without touching the row of the current operation or the flag.
Deliver(l) ==
  /\ l \in cancelling
  /\ HasControl(l)
  /\ Leave(l)
  /\ cancelling' = cancelling \ {l}
  /\ UNCHANGED <<storeVars, running, inflight, historyVars, task,
                 interruptions>>

\* A loop moves on by itself.  One whose cancellation is pending can do so
\* only if the result was there first: wait_for of Python 3.11 then returns
\* the result and the cancellation is lost (3.12 raises instead).
Run(l) ==
  /\ l \in cancelling => outcome[l] # "none"
  /\ LoopStep(l)
  /\ cancelling' = cancelling \ {l}
  /\ UNCHANGED <<task, interruptions>>

\* The process dies between any two steps and leaves the table behind.  The
\* flag, the task and the loops are gone; requests already sent may still
\* take effect at Etsy.
Crash ==
  /\ "crash" \in Env
  /\ interruptions < MaxInterruptions
  /\ interruptions' = interruptions + 1
  /\ task # Nobody
  /\ task' = Nobody
  /\ running' = FALSE
  /\ cancelling' = {}
  /\ pc' = [l \in Loops |-> "off"]
  /\ batch' = [l \in Loops |-> {}]
  /\ current' = [l \in Loops |-> NoEntry]
  /\ outcome' = [l \in Loops |-> "none"]
  /\ inflight' = {[c EXCEPT !.waiter = Nobody] : c \in inflight}
  /\ UNCHANGED <<storeVars, historyVars>>

Environment ==
  /\ EnvironmentStep
  /\ UNCHANGED <<task, cancelling, interruptions>>

Init ==
  /\ QueueInit
  /\ task = Nobody
  /\ cancelling = {}
  /\ interruptions = 0

Next ==
  \/ \E l \in Loops : TaskStart(l) \/ Run(l) \/ Deliver(l)
  \/ TaskStop
  \/ Crash
  \/ Environment

Spec == Init /\ [][Next]_vars

\* asyncio runs every callback that is ready, the timer of wait_for
\* included, so a loop that can move does, and a cancellation arrives.
LoopFairness == \A l \in Loops : WF_vars(Run(l) \/ Deliver(l))

\* Whoever owns the queue starts it whenever it does not run.
OwnerFairness == WF_vars(\E l \in Loops : TaskStart(l))

FairSpec == Spec /\ LoopFairness /\ OwnerFairness

-----------------------------------------------------------------------------
(* Properties *)

\* Types of the whole composition.
TypeOK ==
  /\ QueueTypeOK
  /\ task \in Loops \cup {Nobody}
  /\ cancelling \subseteq Loops
  /\ interruptions \in 0 .. MaxInterruptions

\* _running is true only while a coroutine processes the queue: no failure,
\* cancellation or restart leaves a flag behind that would make every later
\* start() a no-op.
RunningHonoured == running => \E l \in Loops : Active(l)

\* An operation ties up at most MaxRetries + 1 threads of the executor: the
\* ones a timeout, a stop or a cancellation abandons hold their place until
\* their call ends, while the operation is tried again.
ThreadsBounded ==
  \A o \in Ops : Cardinality({c \in inflight : c.op = o}) <= MaxRetries + 1

\* As long as nobody stops or kills the queue and the database works, an
\* operation in EXECUTING is the one a loop is working on: timeouts and
\* errors strand none.
ExecutingIsOwned ==
  interruptions = 0 =>
    \A o \in Ops : operations[o].status = "executing" =>
      \E l \in Loops : current[l] # NoEntry /\ current[l].id = o

\* The attempts the error message of a failed operation speaks of ("Operation
\* failed after {max_retries} attempts").
AttemptsReported == MaxRetries

\* An operation the registry knows is given up only with all its retries used:
\* it was executed once more than its error message says, which counts the
\* retries (queue_retry_max_attempts) and leaves out the first attempt.
FailedOnlyWhenExhausted ==
  \A o \in Registered :
    operations[o].status = "failed" => attempts[o] = AttemptsReported + 1

\* The stamps of a row tell a story that can have happened: created, first
\* executed, finished; retries do not move them backwards.
StampsOrdered ==
  \A o \in Ops : LET row == operations[o] IN
    row.status = "completed" =>
      /\ row.created_at <= row.executed_at
      /\ row.executed_at <= row.completed_at
      /\ row.executed_at # NULL

\* The queue ends an operation once: no snapshot, late thread, new loop or
\* late cancellation makes it execute or report again an operation it has
\* completed or failed; what it reported can only be overwritten by a client
\* that cancels or deletes.  A deleted row never comes back.
EndIsFinal ==
  [][\A o \in Ops :
       /\ o \in settled =>
            /\ attempts'[o] = attempts[o]
            /\ operations'[o].status
                 \in {operations[o].status, "cancelled", "deleted"}
       /\ operations[o].status = "deleted" => operations'[o] = operations[o]]_vars

\* The queue implements the life cycle promised to submitters.
Lifecycle == INSTANCE OperationLifecycle WITH
  Known <- Registered,
  Budget <- MaxRetries + 1,
  Mishaps <- Env,
  status <- [o \in Ops |-> operations[o].status],
  tries <- attempts,
  landed <- effects

ImplementsLifecycle == Lifecycle!Spec

\* Every submitted operation is eventually completed or failed, unless its
\* row is deleted, whatever its calls do: bounded retries, the timeout and the
\* order of the batch leave none waiting for ever.  Only a stop or a crash can
\* rob it of its end, and only once it is executing: a pending one waits for
\* the next loop.
EveryOperationFinishes ==
  \A o \in Ops : operations[o].status = "pending" ~>
    \/ operations[o].status \in {"completed", "failed", "deleted"}
    \/ operations[o].status = "executing" /\ interruptions > 0

-----------------------------------------------------------------------------
(* What documents, tests and messages of the repository say of the queue;  *)
(* the runs that check these end with a counterexample.                    *)

\* "Automatic operation recovery on restart" (docs/README.md): an operation
\* that was executing when the process died is executed again or finished.
RecoveredOnRestart ==
  \A o \in Ops : operations[o].status = "executing" ~>
                   operations[o].status # "executing"

\* "State machine enforcement (PENDING -> EXECUTING -> COMPLETED/FAILED)"
\* (PHASE1_MVP_PLAN.md): EXECUTING is entered from PENDING only.
StateMachineEnforced ==
  [][\A o \in Ops :
       /\ operations[o].status # "executing"
       /\ operations'[o].status = "executing"
       => operations[o].status = "pending"]_vars

\* "Retry logic: exponential backoff (2^n * 1s, max 3)" (PHASE1_MVP_PLAN.md):
\* an operation is not started before the time its last failure set.
BackoffHonoured ==
  [][\A o \in Ops :
       attempts'[o] > attempts[o] =>
         clock >= operations[o].metadata.next_retry_at]_vars

=============================================================================
