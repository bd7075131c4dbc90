--------------------------- MODULE OperationQueue ---------------------------
(***************************************************************************)
(* The queue processor of src/operation_queue.py: the coroutine            *)
(* OperationQueue.start(), _process_batch and _execute_operation, over the *)
(* table of OperationStore.                                                *)
(*                                                                         *)
(* A loop is one coroutine running start().  Loops share an asyncio event  *)
(* loop: a loop gives up control only where the code awaits something that *)
(* suspends, which is wait_for(to_thread(execute)) ("await") and sleep     *)
(* ("sleep").  Other processes (the callers of the store) may run a        *)
(* transaction between any two transactions of a loop, so every store call *)
(* is an action of its own.                                                *)
(*                                                                         *)
(* to_thread runs execute() in a worker thread.  wait_for can abandon the  *)
(* thread (timeout, cancellation) but cannot stop it, so a call lives in   *)
(* `inflight` until the thread ends, whoever still waits for it.           *)
(***************************************************************************)
EXTENDS OperationStore

CONSTANTS
  Loops,       \* coroutines that may run OperationQueue.start()
  Registered,  \* the operations whose name REGISTRY knows
  MaxRetries,  \* config.queue_retry_max_attempts
  Backoff,     \* Backoff[n] = 2^n * config.queue_retry_backoff_multiplier
  BatchLimit,  \* the limit _process_batch passes (10 in the code)
  Env,         \* the disturbances a run lets happen
  Nobody,      \* the waiter of a call nobody awaits any more
  NoEntry      \* the current entry of a loop that executes nothing

Disturbances == {"stop", "crash", "store", "cancel", "expire"}

ASSUME QueueAssumption ==
  /\ Registered \subseteq Ops
  /\ MaxRetries \in Nat
  /\ Backoff \in [0 .. MaxRetries -> Nat]
  /\ BatchLimit \in Nat \ {0}
  /\ Env \subseteq Disturbances
  /\ Nobody \notin Loops

VARIABLES
  running,   \* OperationQueue._running
  pc,        \* where each loop is
  batch,     \* the entries of `pending` the for loop has yet to visit
  current,   \* the op_req of _execute_operation
  outcome,   \* what the awaited thread delivered: "none", "ok" or "error"
  inflight,  \* execute() calls whose thread has not ended
  attempts,  \* history: how often execute() was started for an operation
  effects,   \* history: how often a call took effect at Etsy
  settled    \* history: operations the queue was done with, once and for all

loopVars == <<pc, batch, current, outcome>>
historyVars == <<attempts, effects, settled>>
queueVars == <<operations, clock, running, pc, batch, current, outcome,
               inflight, attempts, effects, settled>>

\* The OperationRequest objects list_pending_operations returned: copies,
\* never read again from the table.
Entry == [id: Ops, retry_count: Nat, created_at: Nat]
ASSUME NoEntryAssumption == NoEntry \notin Entry

Call == [op: Ops, n: Nat, waiter: Loops \cup {Nobody}, applied: BOOLEAN]

Suspended == {"off", "created", "await", "sleep"}
PC == Suspended \cup {"poll", "batch", "handle"}

\* asyncio is cooperative: a loop moves only while every other one is
\* suspended.
HasControl(l) == \A m \in Loops \ {l} : pc[m] \in Suspended

\* _row_to_operation: what the queue reads of a row.
EntryOf(o) == [id |-> o,
               retry_count |-> operations[o].metadata.retry_count,
               created_at |-> operations[o].created_at]

\* The threads of l go on, but nothing waits for them.
Abandoned(l) == {[c EXCEPT !.waiter = IF @ = l THEN Nobody ELSE @] :
                   c \in inflight}

\* l ends: the coroutine returns, raises, is cancelled or dies.
Leave(l) ==
  /\ pc' = [pc EXCEPT ![l] = "off"]
  /\ batch' = [batch EXCEPT ![l] = {}]
  /\ current' = [current EXCEPT ![l] = NoEntry]
  /\ outcome' = [outcome EXCEPT ![l] = "none"]

-----------------------------------------------------------------------------
(* OperationQueue.start *)

\* asyncio.create_task(queue.start()): scheduled, not run yet.
Spawn(l) ==
  /\ pc[l] = "off"
  /\ pc' = [pc EXCEPT ![l] = "created"]
  /\ UNCHANGED <<storeVars, running, batch, current, outcome, inflight,
                 historyVars>>

\* The guard on _running, then _running = True.
Enter(l) ==
  /\ pc[l] = "created"
  /\ HasControl(l)
  /\ running' = TRUE
  /\ pc' = [pc EXCEPT ![l] = IF running THEN "off" ELSE "poll"]
  /\ UNCHANGED <<storeVars, batch, current, outcome, inflight, historyVars>>

\* while self._running is false: the coroutine returns.
Exit(l) ==
  /\ pc[l] = "poll"
  /\ ~running
  /\ Leave(l)
  /\ UNCHANGED <<storeVars, running, inflight, historyVars>>

\* list_pending_operations in _process_batch.
Poll(l) ==
  /\ pc[l] = "poll"
  /\ running
  /\ \E S \in SUBSET PendingOps :
       /\ IsPendingBatch(S, BatchLimit)
       /\ batch' = [batch EXCEPT ![l] = {EntryOf(o) : o \in S}]
  /\ pc' = [pc EXCEPT ![l] = "batch"]
  /\ UNCHANGED <<storeVars, running, current, outcome, inflight, historyVars>>

\* The re-raise without the reset of the flag.
PollFailsFlagKept(l) ==
  /\ "store" \in Env
  /\ pc[l] = "poll"
  /\ running
  /\ running' = running
  /\ Leave(l)
  /\ UNCHANGED <<storeVars, inflight, historyVars>>

\* The query raises (sqlite3.OperationalError): start() clears _running and
\* re-raises, so the loop is gone.
PollFails(l) ==
  /\ "store" \in Env
  /\ pc[l] = "poll"
  /\ running
  /\ running' = FALSE
  /\ Leave(l)
  /\ UNCHANGED <<storeVars, inflight, historyVars>>

\* The batch is done: await asyncio.sleep(...).
EndBatch(l) ==
  /\ pc[l] = "batch"
  /\ batch[l] = {}
  /\ pc' = [pc EXCEPT ![l] = "sleep"]
  /\ UNCHANGED <<storeVars, running, batch, current, outcome, inflight,
                 historyVars>>

Wake(l) ==
  /\ pc[l] = "sleep"
  /\ HasControl(l)
  /\ pc' = [pc EXCEPT ![l] = "poll"]
  /\ UNCHANGED <<storeVars, running, batch, current, outcome, inflight,
                 historyVars>>

-----------------------------------------------------------------------------
(* _execute_operation *)

\* for op_req in pending: oldest first.
Takes(l, e) ==
  /\ pc[l] = "batch"
  /\ e \in batch[l]
  /\ \A f \in batch[l] : e.created_at <= f.created_at
  /\ batch' = [batch EXCEPT ![l] = @ \ {e}]

\* REGISTRY.get returned None; the transaction may raise, which
\* _process_batch logs.
RejectUnknown(l, e) ==
  /\ Takes(l, e)
  /\ e.id \notin Registered
  /\ \/ /\ UpdateOperationStatus(e.id, "failed", NoMetadata)
        /\ settled' = settled \cup {e.id}
     \/ "store" \in Env /\ UNCHANGED <<operations, settled>>
  /\ UNCHANGED <<clock, running, pc, current, outcome, inflight, attempts,
                 effects>>

\* Mark as executing, hand execute() to a thread, await it.
Begin(l, e) ==
  /\ Takes(l, e)
  /\ e.id \in Registered
  /\ UpdateOperationStatus(e.id, "executing", NoMetadata)
  /\ pc' = [pc EXCEPT ![l] = "await"]
  /\ current' = [current EXCEPT ![l] = e]
  /\ attempts' = [attempts EXCEPT ![e.id] = @ + 1]
  /\ inflight' = inflight \cup {[op |-> e.id, n |-> attempts[e.id] + 1,
                                 waiter |-> l, applied |-> FALSE]}
  /\ UNCHANGED <<clock, running, outcome, effects, settled>>

\* The EXECUTING transaction raises: execute() is never called, the failure
\* is handled like one of execute().
BeginFails(l, e) ==
  /\ "store" \in Env
  /\ Takes(l, e)
  /\ e.id \in Registered
  /\ pc' = [pc EXCEPT ![l] = "handle"]
  /\ current' = [current EXCEPT ![l] = e]
  /\ UNCHANGED <<storeVars, running, outcome, inflight, historyVars>>

\* The TimeoutError escapes the handler of _execute_operation and is only
\* logged by _process_batch.
TimeoutUnhandled(l) ==
  /\ pc[l] = "await"
  /\ HasControl(l)
  /\ outcome[l] = "none"
  /\ inflight' = Abandoned(l)
  /\ pc' = [pc EXCEPT ![l] = "batch"]
  /\ current' = [current EXCEPT ![l] = NoEntry]
  /\ UNCHANGED <<storeVars, running, batch, outcome, historyVars>>

\* wait_for gives up after 300 seconds; the thread goes on.
Timeout(l) ==
  /\ pc[l] = "await"
  /\ HasControl(l)
  /\ outcome[l] = "none"
  /\ inflight' = Abandoned(l)
  /\ pc' = [pc EXCEPT ![l] = "handle"]
  /\ UNCHANGED <<storeVars, running, batch, current, outcome, historyVars>>

\* Back to the for loop, keeping the old result: a local that outlives its
\* iteration.
NextEntryStaleOutcome(l) ==
  /\ pc' = [pc EXCEPT ![l] = "batch"]
  /\ current' = [current EXCEPT ![l] = NoEntry]
  /\ UNCHANGED <<clock, running, batch, outcome, inflight, attempts, effects>>

\* Back to the for loop.
NextEntry(l) ==
  /\ pc' = [pc EXCEPT ![l] = "batch"]
  /\ current' = [current EXCEPT ![l] = NoEntry]
  /\ outcome' = [outcome EXCEPT ![l] = "none"]
  /\ UNCHANGED <<clock, running, batch, inflight, attempts, effects>>

\* A slip: any end of the thread is taken for a success.
HasAnyOutcome(l) == pc[l] = "await" /\ HasControl(l) /\ outcome[l] # "none"

\* execute() returned a result.
HasResult(l) == pc[l] = "await" /\ HasControl(l) /\ outcome[l] = "ok"

Complete(l) ==
  /\ HasResult(l)
  /\ UpdateOperationStatus(current[l].id, "completed", NoMetadata)
  /\ settled' = settled \cup {current[l].id}
  /\ NextEntry(l)

\* The COMPLETED transaction raises: SQLite is locked, or json.dumps rejects
\* the result.  The operation succeeded, and is now handled as failed.
CompleteFails(l) ==
  /\ "store" \in Env
  /\ HasResult(l)
  /\ pc' = [pc EXCEPT ![l] = "handle"]
  /\ outcome' = [outcome EXCEPT ![l] = "none"]
  /\ UNCHANGED <<storeVars, running, batch, current, inflight, historyVars>>

\* except Exception: execute() raised, or an earlier step came to "handle".
Failing(l) == \/ pc[l] = "handle"
              \/ pc[l] = "await" /\ HasControl(l) /\ outcome[l] = "error"

\* An off-by-one in that comparison, in either direction.
RetriesLeftOneMore(e) == e.retry_count <= MaxRetries
RetriesLeftOneLess(e) == e.retry_count + 1 < MaxRetries

\* retry_count < max_retries
RetriesLeft(e) == e.retry_count < MaxRetries

\* The increment is forgotten.
RequeueUncounted(l) ==
  /\ Failing(l)
  /\ RetriesLeft(current[l])
  /\ UpdateOperationStatus(current[l].id, "pending",
       [retry_count |-> current[l].retry_count,
        next_retry_at |-> clock + Backoff[current[l].retry_count]])
  /\ NextEntry(l)
  /\ UNCHANGED settled

\* Reset to pending for retry, with the incremented count in the metadata.
Requeue(l) ==
  /\ Failing(l)
  /\ RetriesLeft(current[l])
  /\ UpdateOperationStatus(current[l].id, "pending",
       [retry_count |-> current[l].retry_count + 1,
        next_retry_at |-> clock + Backoff[current[l].retry_count]])
  /\ NextEntry(l)
  /\ UNCHANGED settled

\* Max retries exceeded.
GiveUp(l) ==
  /\ Failing(l)
  /\ ~RetriesLeft(current[l])
  /\ UpdateOperationStatus(current[l].id, "failed", NoMetadata)
  /\ settled' = settled \cup {current[l].id}
  /\ NextEntry(l)

\* The transaction of the handler raises: _process_batch logs the exception
\* and goes on, and the row keeps the status it has.
HandleFails(l) ==
  /\ "store" \in Env
  /\ Failing(l)
  /\ NextEntry(l)
  /\ UNCHANGED <<operations, settled>>

LoopStep(l) ==
  \/ Enter(l) \/ Exit(l) \/ Poll(l) \/ PollFails(l) \/ EndBatch(l) \/ Wake(l)
  \/ \E e \in batch[l] : \/ RejectUnknown(l, e)
                         \/ Begin(l, e)
                         \/ BeginFails(l, e)
  \/ Timeout(l) \/ Complete(l) \/ CompleteFails(l)
  \/ Requeue(l) \/ GiveUp(l) \/ HandleFails(l)

-----------------------------------------------------------------------------
(* Worker threads and Etsy *)

\* A slip: the HTTP client sends a request again by itself.
ApplyAndResend(c) ==
  /\ ~c.applied
  /\ inflight' = inflight \cup {[c EXCEPT !.applied = TRUE]}
  /\ effects' = [effects EXCEPT ![c.op] = @ + 1]
  /\ UNCHANGED <<storeVars, running, loopVars, attempts, settled>>

\* The request reaches Etsy and takes effect.
Apply(c) ==
  /\ ~c.applied
  /\ inflight' = (inflight \ {c}) \cup {[c EXCEPT !.applied = TRUE]}
  /\ effects' = [effects EXCEPT ![c.op] = @ + 1]
  /\ UNCHANGED <<storeVars, running, loopVars, attempts, settled>>

\* execute() returns (only after the effect) or raises (with or without it:
\* a response can be lost); the result goes to whoever still waits.
Return(c, result) ==
  /\ result = "ok" => c.applied
  /\ inflight' = inflight \ {c}
  /\ outcome' = [l \in Loops |-> IF l = c.waiter THEN result ELSE outcome[l]]
  /\ UNCHANGED <<storeVars, running, pc, batch, current, historyVars>>

ThreadStep == \E c \in inflight : \/ Apply(c)
                                  \/ \E r \in {"ok", "error"} : Return(c, r)

-----------------------------------------------------------------------------
(* Other users of the store *)

\* create_operation.
Submit(o) ==
  /\ CreateOperation(o)
  /\ UNCHANGED <<clock, running, loopVars, inflight, historyVars>>

\* update_operation_status(o, CANCELLED).  The client may have read the row,
\* but the store offers no update that depends on what was read: the row is
\* cancelled in whatever status it is by then.
CancelOperation(o) ==
  /\ "cancel" \in Env
  /\ UpdateOperationStatus(o, "cancelled", NoMetadata)
  /\ UNCHANGED <<clock, running, loopVars, inflight, historyVars>>

ExpireOld ==
  /\ "expire" \in Env
  /\ ExpireOldOperations
  /\ UNCHANGED <<clock, running, loopVars, inflight, historyVars>>

ClientStep == (\E o \in Ops : Submit(o) \/ CancelOperation(o)) \/ ExpireOld

TimePasses == Tick /\ UNCHANGED <<running, loopVars, inflight, historyVars>>

QueueInit ==
  /\ StoreInit
  /\ running = FALSE
  /\ pc = [l \in Loops |-> "off"]
  /\ batch = [l \in Loops |-> {}]
  /\ current = [l \in Loops |-> NoEntry]
  /\ outcome = [l \in Loops |-> "none"]
  /\ inflight = {}
  /\ attempts = [o \in Ops |-> 0]
  /\ effects = [o \in Ops |-> 0]
  /\ settled = {}

\* Everything but the starting and stopping of loops.
EnvironmentStep == ThreadStep \/ ClientStep \/ TimePasses

-----------------------------------------------------------------------------
(* The queue driven directly: tasks made of start(), and stop(), which has *)
(* no task to cancel because nothing ever assigns OperationQueue._task.    *)

StopFlag ==
  /\ "stop" \in Env
  /\ \A l \in Loops : pc[l] \in Suspended
  /\ running' = FALSE
  /\ UNCHANGED <<storeVars, loopVars, inflight, historyVars>>

DirectNext ==
  \/ \E l \in Loops : LoopStep(l) \/ Spawn(l)
  \/ StopFlag
  \/ EnvironmentStep

DirectSpec == QueueInit /\ [][DirectNext]_queueVars

-----------------------------------------------------------------------------
(* Properties *)

\* Types, and what the locals of a loop hold where it is.
QueueTypeOK ==
  /\ StoreTypeOK
  /\ running \in BOOLEAN
  /\ pc \in [Loops -> PC]
  /\ batch \in [Loops -> SUBSET Entry]
  /\ current \in [Loops -> Entry \cup {NoEntry}]
  /\ outcome \in [Loops -> {"none", "ok", "error"}]
  /\ inflight \subseteq Call
  /\ attempts \in [Ops -> Nat]
  /\ effects \in [Ops -> Nat]
  /\ settled \subseteq Ops
  /\ \A l \in Loops :
       /\ batch[l] # {} => pc[l] \in {"batch", "await", "handle"}
       /\ current[l] # NoEntry <=> pc[l] \in {"await", "handle"}
       /\ outcome[l] # "none" => pc[l] = "await"

\* A loop that is past the guard of start() and has not returned.
Active(l) == pc[l] \notin {"off", "created"}

\* Two coroutines never process the queue at the same time
\* (tests/test_operation_queue.py: "start doesn't run twice").
AtMostOneLoop == \A l, m \in Loops : Active(l) /\ Active(m) => l = m

\* An operation is executed at most once more than there are retries, across
\* timeouts, stops, crashes, failing transactions, cancellations and
\* deletions, although every decision is taken on a copy of the row.
AttemptBudget == \A o \in Ops : attempts[o] <= MaxRetries + 1

\* An operation reads as completed only if a call of it took effect at Etsy,
\* also when several loops execute it at once and threads are abandoned.
CompletedMeansApplied ==
  \A o \in Ops : operations[o].status = "completed" => effects[o] > 0

=============================================================================
