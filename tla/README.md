# Formal models of etsy-mcp

This directory holds TLA+ models of etsy-mcp: the operation store and the queue that
works through it, the approval gates, the MCP server with its configuration, rate
limiters and circuit breaker, the tools with their validation and the requests they
make, and the audit log. TLC checks the models on small instances, and TLAPS proves
every safety property the passing runs check, the refinement included, for every value
of the constants (three of them only for a database that works or a queue whose
operations nobody cancels). Six runs end in a counterexample to what a document, a
comment or a test says, and one more disagreement is stated inside a property.
`PROJECT.json` maps every definition to the lines it models and lists the runs,
the mutants, the hazards and the theorems.

## 1. Inventory

Paths are relative to the repository (`src/operation_queue.py` is
`src/src/operation_queue.py` in `PROJECT.json`).

**OperationStore** (`src/operation_store.py`). State: two SQLite tables in one file,
`operations` and `approval_gates`. Every method opens a connection, runs one statement,
commits and closes, so a method is one transaction; several processes may share the
file. Operations: create, get, list pending, update status, delete old rows; create,
get, update and list gates; statistics. What is hard: `update_operation_status` is an
unconditional `UPDATE ... WHERE id = ?` that also overwrites metadata, result and error;
it offers no update that depends on the status a caller has read; rows disappear under
their users; foreign keys are declared and not enforced. Correct when stamps are
ordered, the retry count is not lost, and a deleted row stays away.

**OperationQueue** (`src/operation_queue.py`). State: the flag `_running`, and in the
coroutine a batch of copies of rows, the current copy, the awaited worker thread.
It calls the store (synchronously) and the operation's `execute()` in a thread
(`asyncio.to_thread` under `wait_for`, 300 s). What is hard: threads that are
abandoned and still act, retries decided on copies, transactions that raise in the
middle, cancellation at any await, crashes. Correct when an operation is executed
at most `max_retries + 1` times, is reported completed only if it happened, is
given up only when exhausted, always gets its end, and gets it once.

**QueueBackgroundTask** (same file). State: the asyncio task. `start()` creates it
unless one lives, `stop()` clears the flag, cancels and awaits. Correct when there
is never more than one loop and a restart always gets one.

**Approval gates** (`ApprovalGate` in `src/operations.py`, the second table). State:
rows, and objects approvers hold in memory. What is hard: decisions on stale
copies, several approvers and a sweeper overwriting each other, expiry. Nothing in
`src/` looks at the status or the expiry of a gate before it is decided, and nothing
calls `is_expired()`; what is left to be correct is that reading a gate back gives it
no more time, that no gate is expired early, and that the time of the first decision
is kept.

**Guardrails** (`src/guardrails.py`). State: three token buckets and one circuit
breaker, both driven by `time.time()`. What is hard: boundaries of windows, refusals
that also change state, a breaker that is only looked at when asked. Correct when a
limiter keeps its rate in every interval, a burst of failures is cut off, and an open
circuit is left again.

**EtsyMCPServer** (`src/server.py`). State: none of its own besides the guardrails; a
sequential loop over stdin. It validates, asks the guardrails, executes reads at
once, answers "pending approval" for anything else, and writes an audit entry for
each. What is hard: audit writes that raise, inside and outside the `try`; a
`validate()` that raises outside of it.

**Config** (`src/config.py`). State: none after start-up. `load()` merges four levels
(defaults, `~/.etsy-mcp/config.json`, `./.etsy-mcp/config.json`, environment). What is
hard: the order of the levels, and that the environment is converted and the files
are not. Correct when the rates in force are those of the highest level that has them.

**Tools and validation** (`src/tools/`, `src/operations.py`, `src/operation_registry.py`,
the methods of `src/etsy_api.py`). State: a registry filled at import with eleven
operations. A call is validated by the base class against a table of
`ParameterSchema`s, by the tool once more, and capped by `EtsyAPI`. What is hard: the
limits are spread over four places, none complete, and some comparisons raise.
Correct when what reaches Etsy makes sense whatever a client sends, and the
advertised schema is what is accepted.

**AuditLogger** (`src/audit.py`). State: one JSONL file per day, appended to by every
server process. What is hard: half-written lines, midnight in the middle of an entry,
a verification concurrent with writers. Correct when damage stays local, an answer
`True` of `verify_integrity` means something, and entries are in the file of their day.

**CryptoManager**, `base_operation.py`: key derivation and AES-GCM; a second operation
contract that nothing imports.

Nothing in `src/` connects the server to the store and the queue yet: the server
answers writes with an operation id that is stored nowhere. The queue, the gates and
the server are therefore separate models.

## 2. Modules

| module | models | proofs |
|---|---|---|
| `OperationStore` | the operations table: one operator per transaction or query | |
| `OperationQueue` | `start`, `stop`, `_process_batch`, `_execute_operation`, worker threads, callers of the store | `LoopProofs` |
| `LoopInvariant` | what holds of the loops whoever starts and stops them | `LoopProofs` |
| `OperationLifecycle` | abstract: what a submitter is promised, and what is left of it under each mishap | `LifecycleProofs` |
| `QueueBackgroundTask` | owner of the task, cancellation, crash; composes the queue; refines `OperationLifecycle` | `QueueProofs`, `LifecycleProofs` |
| `QueueInvariant` | the inductive invariants of `QueueBackgroundTask` | `QueueProofs`, `LifecycleProofs` |
| `ApprovalGates` | the gates table, gate objects, approvers, the sweeper | `GateProofs` |
| `RateLimiter`, `CircuitBreaker` | records and functions on them | `GuardrailProofs` |
| `Config` | `Config.load` over abstract values | (in `ServerProofs`) |
| `Server` | the server, its configuration and guardrails, audit failures, restarts | `ServerProofs` |
| `Tools` | the tables of the tools, `validate`, the advertised schema, the request a tool makes | `ToolProofs` |
| `ToolCalls` | one call of a tool, from its arguments to the request and the answer | `ToolProofs` |
| `AuditLog` | writers, the files of the days, faults of disk and power, a verifier | `AuditProofs` |
| `MCQueue`, `MCDirectQueue`, `MCServer`, `MCAudit` | instances for TLC | |

### How state and actions correspond to the code

*Queue.* A loop is one coroutine in `OperationQueue.start()`. `pc` is where it is:
`created` (task made, not run), `poll` (before `list_pending_operations`), `batch` (in
the `for`), `await` (in `wait_for`), `handle` (in `except Exception`), `sleep`. Loops
share the event loop, so a loop moves only while every other one is suspended
(`HasControl`); between two store calls of a loop other *processes* may act, so each
store call is an action. `inflight` are the threads of `to_thread`: `Timeout` and
cancellation set the waiter of a call to `Nobody` and the thread goes on. `Begin` is
lines 86-98, `Complete` 102-106, `Requeue` 113-131, `GiveUp` 132-138; `BeginFails`,
`CompleteFails`, `HandleFails`, `PollFails` are the same lines with the transaction
raising. A retry count is read from the copy (`current`), never from the table, as in
the code. `CancelOperation` is `update_operation_status(id, CANCELLED)` by a client: the
store has no update that depends on what the client has read, so it hits a row in
whatever status it is by then, executing, completed or failed. `Deliver` throws
`CancelledError` into a suspended loop, which touches neither row nor flag. `Crash`
keeps the table and loses everything else; requests already sent may still take effect.

*Life cycle.* `OperationLifecycle` knows of an operation what the store says, how often
it was tried and how many tries took effect. `Try` is `Begin`, or a `Begin` whose
transaction raised; `Land` is `Apply`; `Succeed`, `TryAgain`, `GiveUp` and `Reject` are
`Complete`, `Requeue`, `GiveUp` and `RejectUnknown`. The constant `Mishaps` says what may
go wrong around the queue and so what the promises come to: with "cancel" an operation may
be withdrawn at any time, tried nevertheless, since nothing reads the row again, and its
withdrawal overwritten by what the queue reports, or overwrite that; with "expire" the
record of an operation may go while it is tried, and stays gone; with "store" an
operation may be given up early. Stops, crashes, timeouts and late threads cost the
submitter nothing but time.

`attempts`, `effects` and `settled` are history variables: how often `execute()` was
started, how often a call took effect, and which operations the queue has completed or
failed (or has found their row deleted when it was about to). `settled` is what the
status of a row cannot say when clients overwrite it: the life cycle says of a settled
operation that it is never tried or reported again (`Settles`, `Try`), and `EndIsFinal`
that what its row says then changes only by a client that cancels or deletes.

*Gates.* `held[a]` is the object an approver has read; `Approve` and `Reject` change
the object, `Decide` stores it with `update_approval_gate`, at any later time and as
often as the approver likes.
`Sweep` is `list_expired_approvals` and `MarkExpired` what its docstring leaves to the
caller. Approvers and the sweeper are not in `src/`, and nothing is assumed of them: an
approver may read a gate in any state, decide on an object that is decided or expired,
change his mind, and store that after any time; the sweeper need never run. So a gate
can be approved after its expiry, or after it was rejected or marked expired, in the
model as in the code; no document says otherwise, and no property is about it.

*Server.* `source` is which configuration the process found; `Init` and `Restart` start
one only if `Config.load` returns and `Guardrails` can be built (`Starts`). A rate that
a JSON file gives as a string passes `float()` at the start, but the refill multiplies
the string, so every check of it raises (`CheckRaises`) and is recorded as an error of
Etsy; a negative rate grants nothing. A request is one action, except a read, which
begins and ends, since time passes in between. An action that writes an audit entry has
three outcomes: written; not written, and recorded as an error by the `except` clause of
`call_tool`; not written twice, which ends the process (`dead`), as does a failing write
outside the `try`. The host then starts a process with fresh guardrails. `watch` is a
history variable: since a moment chosen freely, the tokens one limiter granted and the
reads that failed in a row; quantifying over the moment makes the properties speak of
every interval. Tokens are counted in units of 1/60, so that the refill is exact.

*Tools.* A value is a record of its Python type and of what validation looks at: the
number, the text, whether a dict is empty, which kinds of items a list has. `Valid` is
`BaseOperationDef.validate` and the tool's own; `Raises` is where they raise instead: arguments
that are no object, or a `limit` or `offset` that cannot be compared with a number,
since the tool compares before it looks at the type. `Request` is what `execute()` and
`EtsyAPI` make of the arguments, with the cap of 100 rows. A write goes from `Pend` to
`ExecuteStored` when somebody keeps and executes it, as the queue would, without
validating again.

*Audit log.* A file is a sequence of pieces, and a piece is what one `write()` left: a
whole line, an entry without its newline, or less than an entry. Lines are where
pieces begin after a whole line; so an entry behind a cut piece is on the line of the
cut one, and unreadable. `log()` is three steps, since the clock is read twice
(`MakeEntry`, `OpenFile`) and others may write in between. `PowerFails` cuts every file
back, each to anything not older than its last write-back, as the code never calls
`fsync`. `torn` is a history variable: how many pieces of each file were cut.
`verify_integrity` is `Open` and one `ReadLine` per line.

### Abstractions

Arguments (except in `Tools`), results, error texts and log lines are left out; for the
queue, operation names are known or unknown to the registry. Signatures are always
right, as nobody but the program writes to the audit files. `created_at` orders rows;
equal stamps come in any order. The clock is a bounded counter that does not go back.
The rounding of floating point is left out. `limit` of the queries is `BatchLimit` for
the queue and not modelled for approvers, who choose any gate.

## 3. Runs

| run | instance | shows |
|---|---|---|
| `queue_faults` | 2 operations, 2 loops, 1 retry, stops and crashes (2 of them), all disturbances | budget of executions, truth of `completed`, threads an operation ties up, one loop, the flag, refinement of `OperationLifecycle`, finality, the inductive invariant |
| `queue_lifecycle` | 2 operations (one unknown), 2 loops, 2 retries, batches of one, stops and crashes (2 of them), rows are deleted, database works, nobody cancels, fair | no stranded row, failed means exhausted, stamps, the refinement with fewer mishaps, the invariant behind it; every pending operation gets its end |
| `approvals` | 2 gates, 2 approvers, TTL of one unit | expiry and stamps of gates, whoever overwrites them |
| `server_guardrails` | six configurations, of which two start; a minute of 2 units, rates of 2, 1 and 1, one with a string for a rate, one with a negative one; threshold 2; up to 2 failing audit writes | rates in every interval from above and from below, failure bursts, the circuit is left again |
| `tool_calls` | all tools, every pair of arguments of every type, numbers 0, 1, 100, 101 | requests make sense, the schema is the contract, only wrong calls end the server |
| `audit_log` | 2 writers, 2 days, 4 entries, 2 faults | what a torn line costs, what `True` and an exception mean, which file an entry is in |
| `crash_recovery` | 1 operation, 1 crash | *violated*: docs/README.md promises recovery on restart |
| `direct_restart` | 1 operation, 2 tasks | *violated*: `stop()` and `start()` of the bare queue leave two loops |
| `cancelled_operation` | 2 operations, cancellation | *violated*: a cancelled row goes to EXECUTING |
| `retry_backoff` | 1 operation | *violated*: retries do not wait for `next_retry_at` |
| `dangerous_rate` | one configuration that asks for 1 | *violated*: two dangerous operations are let through at one moment |
| `half_open_probe` | threshold 2 | *violated*: a failed test request leaves the circuit half open |

Bounds and why they are enough. *Queue*: two operations are what it takes for one to
wait in a snapshot while the other executes; two loops are a task and its successor,
or two tasks that should not coexist; one retry reaches both sides of the comparison
of `retry_count`; one interruption reaches every place a loop can be in, and the loop
started afterwards meets what it left and is interrupted once more; `queue_lifecycle`
has one retry more, and batches of one, so that an old operation that is tried again
stands before a younger one. The number of retries, operations, loops and
interruptions is arbitrary in the proofs. `queue_lifecycle` leaves out failing
transactions and cancellation on purpose: with them an operation can be stranded in
EXECUTING or given up early, and a row that is cancelled and executed nevertheless has
its end before its execution; `queue_faults` has all disturbances, with the promises
that survive them. It tells states apart without `executed_at`, `completed_at` and
`next_retry_at` (the `VIEW Unstamped`): no guard reads them, and of its properties only
their types are about them, so whatever can happen from one of two such states can
happen from the other. *Gates*:
two approvers, or an approver and the sweeper, are what it takes to overwrite; the
clock has an instant before, at and after the expiry. *Server*: a token is two units,
so that a bucket can hold half a token; recovery and window of two units have an
instant before and at their end; three instants after the first are enough to open,
half open and open again. The six configurations have a value in each of the four
levels, one overriding another, and each way not to start. *Tools*: 0, 1, 100 and 101
are the numbers on both sides of every limit, and a text is in an enumeration, in
another one or in none; arguments are validated one by one, so two at a time meet
every combination of outcomes (`ToolProofs` covers any number). *Audit log*: two
writers interleave on one line; four entries are the one before a cut, the cut one,
the one behind it and one more; two faults are a cut behind a cut, or a cut in each
file. `half_open_probe` needs a longer clock, for the old failures
to leave the window. `audit_log` does not check for deadlock:
the model may end when its clock and its entries do. All bounds on clocks, interruptions and
faults are constants that guards read (`MaxClock`, `MaxInterruptions`, `MaxFaults`).

Symmetry is used only for safety (`queue_faults`, whose temporal properties are of the
form `[][A]_v` or a refinement without fairness, and `audit_log`).

One disagreement with a message of the code has no run of its own: the handler stores
"Operation failed after {max_retries} attempts" (`src/operation_queue.py:134`) under a
setting named `queue_retry_max_attempts`, but the number counts retries: the operation
was executed once more than that. `FailedOnlyWhenExhausted` says so: it compares the
attempts with `AttemptsReported + 1`. The plan ("max 3" retries) agrees with the code.

`dangerous_rate` is where the code makes 60 per minute of a configured one per five
minutes. `RateRespected` is therefore only about reads and writes; `RefusalEarned`, which
bounds the grants from below, is about all three limiters at the rate the code puts in
force (`RateInForce`).

What the code shows besides, which no document denies:

* `Config` has no attribute `queue_poll_interval_seconds`, `queue_retry_max_attempts` or
  `queue_retry_backoff_multiplier`: an `OperationQueue` given a real `Config` raises
  `AttributeError` at its first `sleep` and in every failure handler. The tests give it a
  mock that has them, and nothing in `src/` creates a queue. The model is of a queue with
  a configuration that has the three (`MaxRetries`, `Backoff`).

* A page request whose `limit` or `offset` is a string, a list, a dict or null ends the
  server (`src/tools/p1_read.py:66`, `:171`; action `Die`): `validate()` compares before it
  looks at the type, and runs outside the `try`. `OnlyInvalidCallsKill` says that no
  valid call can do it.
* A rate given as a string in a JSON file is accepted at the start; every check then
  raises, each is recorded as a failure of Etsy, and the circuit opens on all.
* `verify_integrity` accepts a last entry without its newline; the next append makes
  that entry, and its own, unreadable. After that it raises instead of returning
  `False`.
* `circuit_breaker_threshold` and `circuit_breaker_window` of `Config` are read by nothing:
  `Guardrails` builds the breaker with 5 and 60.

### Fairness

`queue_lifecycle`: asyncio runs every ready callback and timer, so a loop that can move
or has a cancellation to receive does (`LoopFairness`; a thread that never answers is
dealt with by the timeout, so threads need no fairness); and the owner starts the queue
whenever it does not run (`OwnerFairness`; without it a stopped queue stays stopped).
`approvals` assumes none: nothing in `src/` sweeps, so that a gate nobody decides is
ever marked expired is not claimed. `server_guardrails`: time passes, a call of Etsy
ends (requests have a timeout), the host restarts a dead server, and a client goes on
asking to read, without which nothing ever looks at the breaker.

## 4. Proofs

`LoopProofs` is about `OperationQueue` alone: any number of tasks made of `start()`, over
one table, with threads, clients and time. Its lemmas say what a step of a loop
(`LoopType`, `LoopCalls`, `LoopBudget`, `LoopEffect`) and of its environment
(`EnvironmentType` and so on) keep, and every later proof about the queue rests on
them. For the queue used without `QueueBackgroundTask` (`DirectSpec`) they give

* `CompletedIsTrueOfAny`: also when `stop()` and `start()` have left several loops, as
  `direct_restart` shows they can, nothing reads as completed that did not happen; and
* `UnstoppedIsOne`, `UnstoppedIsBounded`, under the assumption that nobody calls `stop()`:
  the guard of `start()` is then enough, and so is the budget of executions. Together
  with `direct_restart` this says that the reset of the flag by `stop()` is the only
  hole in the guard.

`QueueProofs` proves of the queue under `QueueBackgroundTask`, for any sets of operations
and loops, any number of retries, batch limit and interruptions, under the named
assumptions on the constants:

* `InductiveInvariant`: `Spec => []IInv`, and from it
* `TypeCorrect`, `AttemptsBounded`, `OneLoop`, `CompletedIsTrue`, `FlagIsTrue`.

None of these properties is inductive. The budget of executions fails from a state in
which two copies of one row exist, or a copy is older than the attempts made; so `IInv`
says who may hold which copy: only the task the owner knows is alive (`SoleTask`), a
pending row allows for the attempts made (`RowBudget`), the copies in a batch know of
every attempt and are of different rows (`BatchBudget`), the current one of every
attempt but the one being made (`CurrentBudget`). `CompletedMeansApplied` needs that a
result in a loop is of a call that took effect, hence that a waiter waits for exactly
one call and that the call is of its current operation (`CallsAwaited`), which
abandoning a thread preserves, and that `cancel()` takes the waiter away at once
(`CancelledWaitForNone`). `CancelsOfStopped` is needed for the flag: a loop that
receives a cancellation must not be the one `_running` stands for. The proof has one
lemma per part (`TypeStep`, `ControlStep`, `CallsStep`, `BudgetStep`, `EffectStep`),
each with a step per action of the owner and the lemmas of `LoopProofs` for the rest.
`queue_faults` checks `IInv` itself with TLC.

`GateProofs` proves `SweptExpired` and `FirstDecisionStamped` for any
number of gates and approvers: the properties together with `TypeOK`, which says that
an object in memory has the expiry of its row, are inductive (`GateInvariant`).

`LifecycleProofs` proves, under every disturbance of the model, that `QueueBackgroundTask`
implements `OperationLifecycle` (`QueueImplementsLifecycle`), that this means what it
promises (`PromisesKept`), that the queue ends an operation once (`EndsAreFinal`) and that
an operation ties
up at most `MaxRetries + 1` threads (`ThreadsAreBounded`). Three properties hold only as
long as one disturbance stays away, and their theorems assume just that: over a
database that works, whatever else happens, no row is stranded (`ExecutingOwned`) and
failed means exhausted (`FailedExhausted`), since a failing transaction of the handler
leaves EXECUTING behind, and one that fails before `execute()` counts as an attempt; and
unless operations are cancelled behind the queue's back, stamps are in order
(`StampsInOrder`), since a cancelled row that is executed nevertheless keeps the end it
got first.

`IInv` is not enough for these: it bounds what copies allow, and the refinement needs
that they are true. `LifeInv`, which `queue_lifecycle` checks with TLC, adds that what
waits in a batch and what is being tried is not settled, and that its row is still
pending or executing, or reads as a client has made it read (`LoopLife`), with the exact
count of attempts as far as the store works (`RowLife`); a cancellation disturbs only
what the rows say, in any status (`CancelEffect`);
and, for effects to stay within the attempts, that every attempt has at most one call
and those that have not taken effect are set apart (`Unlanded`): an effect moves one
attempt out of that set. `ThreadsAreBounded` follows from the same part, as an injection of
calls into attempts. The refinement then has a step or a stutter for every action.

`ServerProofs` proves `TypeOK`, `RateRespected`, `RefusalEarned` and `FailureBurst` of
the server for any configuration, rates, thresholds and windows (`RateRespected` for
reads and writes, as it is stated). It follows from a potential: the tokens left in the
bucket and those granted since `watch.since` together never exceed a full bucket and the
refill of the interval (`GrantsAccounted`); asking a limiter moves tokens from one to
the other, and the cap only lowers the sum. `RefusalEarned` is the other side: the same
sum is never below what the interval, up to the time that fills a bucket, refills
(`RefillsAccounted`); a limiter that refuses has less than one token left, so it has
granted the rest. It would fail if a request that an open circuit refuses took a token,
or if a refusal lost the refill it came with. `FailureBurst` needs that the failures
counted are the last ones the breaker remembers (`BurstRecorded`), which holds because
the window keeps a suffix of its list, and that the threshold reached leaves the circuit
open until the timeout. `GuardrailProofs` has the lemmas on the two data structures:
products of tokens, the first failure inside the window, what a check or a failure does
to them.

`AuditProofs` proves `TypeOK`, `DamageIsLocal`, `TrueMeansRead`, `NoFalseAlarm` and
`FiledByDay` for any number of writers, days, entries and faults. `DamageIsLocal`
counts: no two logged entries have a number in common (`EntriesApart`), so unreadable
ones lie in different places, and each of these is a cut piece or the one behind it.
`TrueMeansRead` follows from `ReaderOnLine`: an expected entry lies behind the reader
and was read whole, or before it while the reader is at the beginning of a line.
`NoFalseAlarm` needs that a reader that has raised did so over a cut piece of its file,
which no append mends (`AlarmFounded`), and that the cut pieces of every file are
counted (`CutsCounted`). Both counts are per file: damage to one costs and alarms in no
other.

`ToolProofs` proves `TypeOK`, `RequestsWellFormed`, `SchemaIsContract` and
`OnlyInvalidCallsKill` for any integers, strings and number of arguments, by
lemmas on the tables and on what validation lets through (`AcceptedArguments`,
`RequestFits`), and an invariant that ties the request to the validated call.

Only model-checked: liveness (`EveryOperationFinishes`,
`CircuitReopens`), which is out of the prover's reach, and what the violation runs show.

## 5. What is not modelled

* `get_stats`: read-only, called by nothing in `src/`. Its six SELECTs are no snapshot, so
  an operation that moves on in between is counted twice or never; nothing is decided
  on the answer. `get_operation_history` and `get_approval_history` return an empty list.
* The gates and the queue together: PHASE1_MVP_PLAN.md:31 calls the gates "not
  integrated yet", and there is no code that creates a gate for an operation of the queue
  or moves one to APPROVED. The queue takes PENDING rows of any type.
* `CryptoManager`: no state and no control of its own. Redaction and HMAC of the audit
  log are data.
* `base_operation.py`, which only its own tests import; `OperationRegistry.register`,
  whose refusal of a second name happens at import; `list_by_type` and `EtsyAPI.list_products`,
  which have no caller.
* Signing, TLS and the reading of answers in `EtsyAPI`: a method returns or raises,
  before or after its request took effect.
* The expiry of an `OperationRequest`, which nothing acts on.
* Other ways in which a request ends the server: a line that is JSON but no object, a
  tool name that cannot be hashed. They end it as `Die` does, before a tool is known.
* The size of the thread pool (a queued call is one that has not begun; `ThreadsBounded`
  says how many threads one operation can hold), and a wall
  clock that is set back: a server whose clock may go back has too many states for TLC,
  and `CircuitReopens` does not hold of it.

## 6. Plan

Done, most important behaviour first: the queue with its store, its task and its
abstract life cycle; the approval gates; the guardrails, the configuration and the
server; the tools and their validation; the audit log; proofs of every safety property
of the passing runs. Left:

1. The rate of a limiter when the clock is set back, as a model of a single limiter
   with the lemmas of `GuardrailProofs`.
2. Once the code connects them: the queue composed with gates and operation types (a
   write is executed only with an approved gate that is not expired), and the server
   composed with the store.
