----------------------------- MODULE LoopProofs -----------------------------
(***************************************************************************)
(* Proofs, for every value of the constants, about the loops of            *)
(* OperationQueue: what the steps of a loop, its threads and the users of  *)
(* the store keep, however many loops there are, and what follows for a    *)
(* queue that is used without QueueBackgroundTask.                         *)
(***************************************************************************)
EXTENDS LoopInvariant, TLAPS

USE DEF NULL

-----------------------------------------------------------------------------
(* Operators of the store and of the queue *)

\* update_operation_status keeps a row a row.
LEMMA UpdatedRowType ==
  ASSUME NEW row \in Row, NEW s \in OperationStatus, NEW meta \in Metadata,
         clock \in Nat
  PROVE  /\ UpdatedRow(row, s, meta) \in Row
         /\ UpdatedRow(row, s, meta).status = s
         /\ UpdatedRow(row, s, meta).metadata = meta
BY DEF UpdatedRow, Row, Coalesce, OperationStatus, Metadata, Finished

\* NULL metadata reads as a retry count of 0.
LEMMA NoMetadataType == NoMetadata \in Metadata /\ NoMetadata.retry_count = 0
BY DEF NoMetadata, Metadata

\* A row before its INSERT and after its DELETE.
LEMMA AbsentRowType ==
  /\ AbsentRow \in Row
  /\ AbsentRow.status = "absent"
  /\ AbsentRow.metadata.retry_count = 0
BY NoMetadataType DEF AbsentRow, Row, OperationStatus

\* The table after an update: only the row of o may change, to the new status
\* and metadata, and only if it is there.
LEMMA UpdateEffect ==
  ASSUME operations \in [Ops -> Row], clock \in Nat,
         NEW o \in Ops, NEW s \in OperationStatus, NEW meta \in Metadata,
         UpdateOperationStatus(o, s, meta)
  PROVE  /\ operations' \in [Ops -> Row]
         /\ \A p \in Ops \ {o} : operations'[p] = operations[p]
         /\ operations[o].status \in OperationStatus =>
              /\ operations'[o].status = s
              /\ operations'[o].metadata = meta
         /\ operations[o].status \notin OperationStatus =>
              operations'[o] = operations[o]
<1>1. UpdatedRow(operations[o], s, meta) \in Row
  BY UpdatedRowType
<1>2. /\ UpdatedRow(operations[o], s, meta).status = s
      /\ UpdatedRow(operations[o], s, meta).metadata = meta
  BY UpdatedRowType
<1> QED
  BY <1>1, <1>2 DEF UpdateOperationStatus, Present

\* An update to another status completes no row.
LEMMA CompletesNone ==
  ASSUME operations \in [Ops -> Row], clock \in Nat,
         NEW o \in Ops, NEW s \in OperationStatus \ {"completed"},
         NEW meta \in Metadata, UpdateOperationStatus(o, s, meta)
  PROVE  \A p \in Ops : operations'[p].status = "completed" =>
                          operations[p].status = "completed"
<1>1. CASE operations[o].status \in OperationStatus
  BY <1>1, UpdateEffect
<1>2. CASE operations[o].status \notin OperationStatus
  BY <1>2, UpdateEffect
<1> QED
  BY <1>1, <1>2

\* Copies of rows are entries.
LEMMA EntryOfType ==
  ASSUME operations \in [Ops -> Row], NEW o \in Ops
  PROVE  EntryOf(o) \in Entry
BY DEF EntryOf, Entry, Row, Metadata

\* Abandoning threads leaves calls that are still calls, of the same
\* operations, none of which l waits for.
LEMMA AbandonedCalls ==
  ASSUME inflight \subseteq Call, NEW l \in Loops
  PROVE  /\ Abandoned(l) \subseteq Call
         /\ \A c \in Abandoned(l) :
              /\ c.waiter # l
              /\ \E d \in inflight : /\ c.op = d.op /\ c.applied = d.applied
                                     /\ c.n = d.n
                                     /\ c.waiter # Nobody => c = d
BY QueueAssumption DEF Abandoned, Call

-----------------------------------------------------------------------------
(* Types and the locals of the loops *)

LEMMA InitType == QueueInit => QueueTypeOK
<1> SUFFICES ASSUME QueueInit PROVE QueueTypeOK
  OBVIOUS
<1>1. StoreTypeOK
  BY AbsentRowType DEF QueueInit, StoreInit, StoreTypeOK
<1> QED
  BY <1>1 DEF QueueInit, QueueTypeOK, PC, Suspended

\* What the steps of one loop leave well typed.
LEMMA LoopType ==
  ASSUME QueueTypeOK, NEW l \in Loops, LoopStep(l)
  PROVE  QueueTypeOK'
<1> USE QueueAssumption, NoEntryAssumption DEF PC, Suspended
<1>1. CASE Enter(l)
  BY <1>1 DEF Enter, QueueTypeOK, StoreTypeOK, storeVars, historyVars
<1>2. CASE Exit(l) \/ PollFails(l)
  BY <1>2
     DEF Exit, PollFails, Leave, QueueTypeOK, StoreTypeOK, storeVars,
         historyVars
<1>3. CASE Poll(l)
  <2>1. PICK S \in SUBSET PendingOps :
          batch' = [batch EXCEPT ![l] = {EntryOf(o) : o \in S}]
    BY <1>3 DEF Poll
  <2>2. {EntryOf(o) : o \in S} \subseteq Entry
    BY EntryOfType DEF PendingOps, QueueTypeOK, StoreTypeOK
  <2> QED
    BY <1>3, <2>1, <2>2
       DEF Poll, QueueTypeOK, StoreTypeOK, storeVars, historyVars
<1>4. CASE EndBatch(l) \/ Wake(l)
  BY <1>4
     DEF EndBatch, Wake, QueueTypeOK, StoreTypeOK, storeVars, historyVars
<1>5. ASSUME NEW e \in batch[l], RejectUnknown(l, e) PROVE QueueTypeOK'
  <2>1. e \in Entry
    BY <1>5 DEF QueueTypeOK
  <2>2. operations' \in [Ops -> Row]
    BY <1>5, <2>1, UpdateEffect, NoMetadataType
       DEF RejectUnknown, QueueTypeOK, StoreTypeOK, Entry, OperationStatus
  <2>3. settled' \subseteq Ops
    BY <1>5, <2>1 DEF RejectUnknown, QueueTypeOK, Entry
  <2> QED
    BY <1>5, <2>2, <2>3
       DEF RejectUnknown, Takes, QueueTypeOK, StoreTypeOK, historyVars
<1>6. ASSUME NEW e \in batch[l], Begin(l, e) PROVE QueueTypeOK'
  <2>1. e \in Entry
    BY <1>6 DEF QueueTypeOK
  <2>2. operations' \in [Ops -> Row]
    BY <1>6, <2>1, UpdateEffect, NoMetadataType
       DEF Begin, QueueTypeOK, StoreTypeOK, Entry, OperationStatus
  <2>3. e.id \in Ops
    BY <2>1 DEF Entry
  <2>4. attempts[e.id] + 1 \in Nat
    BY <2>3 DEF QueueTypeOK
  <2>5. [op |-> e.id, n |-> attempts[e.id] + 1, waiter |-> l,
         applied |-> FALSE] \in Call
    BY <2>3, <2>4 DEF Call
  <2>6. inflight' \subseteq Call
    BY <1>6, <2>5 DEF Begin, QueueTypeOK
  <2>7. attempts' \in [Ops -> Nat]
    BY <1>6, <2>3, <2>4 DEF Begin, QueueTypeOK
  <2> QED
    BY <1>6, <2>1, <2>2, <2>6, <2>7
       DEF Begin, Takes, QueueTypeOK, StoreTypeOK
<1>7. ASSUME NEW e \in batch[l], BeginFails(l, e) PROVE QueueTypeOK'
  <2>1. e \in Entry
    BY <1>7 DEF QueueTypeOK
  <2> QED
    BY <1>7, <2>1
       DEF BeginFails, Takes, QueueTypeOK, StoreTypeOK, storeVars, historyVars
<1>8. CASE Timeout(l)
  BY <1>8, AbandonedCalls
     DEF Timeout, QueueTypeOK, StoreTypeOK, storeVars, historyVars
<1>9. ASSUME NextEntry(l), pc[l] \in {"await", "handle"},
              operations' \in [Ops -> Row], settled' \subseteq Ops
       PROVE  QueueTypeOK'
  BY <1>9 DEF NextEntry, QueueTypeOK, StoreTypeOK, historyVars
<1>10. pc[l] \in {"await", "handle"} =>
         current[l] \in Entry /\ current[l].id \in Ops
  BY DEF QueueTypeOK, Entry
<1>11. CASE Complete(l)
  BY <1>9, <1>10, <1>11, UpdateEffect, NoMetadataType
     DEF Complete, HasResult, QueueTypeOK, StoreTypeOK, OperationStatus
<1>12. CASE CompleteFails(l)
  BY <1>12
     DEF CompleteFails, HasResult, QueueTypeOK, StoreTypeOK, storeVars,
         historyVars
<1>13. CASE Requeue(l)
  <2>1. [retry_count |-> current[l].retry_count + 1,
         next_retry_at |-> clock + Backoff[current[l].retry_count]]
        \in Metadata
    BY <1>10, <1>13
       DEF Requeue, Failing, RetriesLeft, Metadata, Entry, QueueTypeOK,
           StoreTypeOK
  <2> QED
    BY <1>9, <1>10, <1>13, <2>1, UpdateEffect
       DEF Requeue, Failing, QueueTypeOK, StoreTypeOK, OperationStatus
<1>14. CASE GiveUp(l)
  BY <1>9, <1>10, <1>14, UpdateEffect, NoMetadataType
     DEF GiveUp, Failing, QueueTypeOK, StoreTypeOK, OperationStatus
<1>15. CASE HandleFails(l)
  BY <1>9, <1>15
     DEF HandleFails, Failing, QueueTypeOK, StoreTypeOK
<1> QED
  BY <1>1, <1>2, <1>3, <1>4, <1>5, <1>6, <1>7, <1>8, <1>11, <1>12,
     <1>13, <1>14, <1>15
     DEF LoopStep

\* What threads, clients and the clock leave well typed.
LEMMA EnvironmentType ==
  ASSUME QueueTypeOK, CallsAwaited, EnvironmentStep
  PROVE  QueueTypeOK'
<1> USE DEF PC, Suspended
<1>1. ASSUME NEW c \in inflight, Apply(c) PROVE QueueTypeOK'
  <2>1. c \in Call /\ c.op \in Ops
    BY DEF QueueTypeOK, Call
  <2>2. [c EXCEPT !.applied = TRUE] \in Call
    BY <2>1 DEF Call
  <2>3. inflight' \subseteq Call
    BY <1>1, <2>2 DEF Apply, QueueTypeOK
  <2>4. effects[c.op] + 1 \in Nat
    BY <2>1 DEF QueueTypeOK
  <2>5. effects' \in [Ops -> Nat]
    BY <1>1, <2>1, <2>4 DEF Apply, QueueTypeOK
  <2> QED
    BY <1>1, <2>3, <2>5
       DEF Apply, QueueTypeOK, StoreTypeOK, storeVars, loopVars
<1>2. ASSUME NEW c \in inflight, NEW r \in {"ok", "error"}, Return(c, r)
      PROVE  QueueTypeOK'
  <2>1. outcome' \in [Loops -> {"none", "ok", "error"}]
    BY <1>2 DEF Return, QueueTypeOK
  <2>2. \A l \in Loops : outcome'[l] # "none" => pc[l] = "await"
    BY <1>2 DEF Return, QueueTypeOK, CallsAwaited
  <2> QED
    BY <1>2, <2>1, <2>2
       DEF Return, QueueTypeOK, StoreTypeOK, storeVars, historyVars
<1>3. ASSUME NEW o \in Ops, Submit(o) PROVE QueueTypeOK'
  <2>1. operations' \in [Ops -> Row]
    BY <1>3, AbsentRowType
       DEF Submit, CreateOperation, QueueTypeOK, StoreTypeOK, Row,
           OperationStatus
  <2> QED
    BY <1>3, <2>1
       DEF Submit, QueueTypeOK, StoreTypeOK, loopVars, historyVars
<1>4. ASSUME NEW o \in Ops, CancelOperation(o) PROVE QueueTypeOK'
  <2>1. operations' \in [Ops -> Row]
    BY <1>4, UpdateEffect, NoMetadataType
       DEF CancelOperation, QueueTypeOK, StoreTypeOK, OperationStatus
  <2> QED
    BY <1>4, <2>1
       DEF CancelOperation, QueueTypeOK, StoreTypeOK, loopVars, historyVars
<1>5. CASE ExpireOld
  <2>1. operations' \in [Ops -> Row]
    BY <1>5, AbsentRowType
       DEF ExpireOld, ExpireOldOperations, QueueTypeOK, StoreTypeOK, Row
  <2> QED
    BY <1>5, <2>1
       DEF ExpireOld, QueueTypeOK, StoreTypeOK, loopVars, historyVars
<1>6. CASE TimePasses
  BY <1>6
     DEF TimePasses, Tick, QueueTypeOK, StoreTypeOK, loopVars, historyVars
<1> QED
  BY <1>1, <1>2, <1>3, <1>4, <1>5, <1>6
     DEF EnvironmentStep, ThreadStep, ClientStep

\* What a new task leaves well typed.
LEMMA SpawnType ==
  ASSUME QueueTypeOK, NEW l \in Loops, Spawn(l)
  PROVE  QueueTypeOK'
BY DEF QueueTypeOK, StoreTypeOK, Spawn, storeVars, historyVars, PC, Suspended

\* A step of l touches the locals of no other loop.
LEMMA LoopLocals ==
  ASSUME QueueTypeOK, NEW l \in Loops, LoopStep(l)
  PROVE  /\ pc[l] # "off"
         /\ \A m \in Loops \ {l} : /\ pc'[m] = pc[m]
                                   /\ batch'[m] = batch[m]
                                   /\ current'[m] = current[m]
                                   /\ outcome'[m] = outcome[m]
<1> USE DEF QueueTypeOK
<1>1. CASE Enter(l) \/ Exit(l) \/ Poll(l) \/ PollFails(l) \/ EndBatch(l)
           \/ Wake(l) \/ Timeout(l)
  BY <1>1 DEF Enter, Exit, Poll, PollFails, EndBatch, Wake, Timeout, Leave
<1>2. CASE \E e \in batch[l] : RejectUnknown(l, e) \/ Begin(l, e)
                               \/ BeginFails(l, e)
  BY <1>2 DEF RejectUnknown, Begin, BeginFails, Takes
<1>3. CASE Complete(l) \/ CompleteFails(l) \/ Requeue(l) \/ GiveUp(l)
           \/ HandleFails(l)
  BY <1>3 DEF Complete, CompleteFails, Requeue, GiveUp, HandleFails, HasResult,
              Failing, NextEntry
<1> QED
  BY <1>1, <1>2, <1>3 DEF LoopStep


\* A loop stays active while the flag is set, and only start() sets it.
LEMMA LoopFlag ==
  ASSUME QueueTypeOK, NEW l \in Loops, LoopStep(l), running'
  PROVE  \/ pc[l] = "created"
         \/ running /\ pc'[l] \notin {"off", "created"}
<1> USE DEF QueueTypeOK
<1>1. CASE Enter(l) \/ Exit(l) \/ Poll(l) \/ PollFails(l) \/ EndBatch(l)
           \/ Wake(l) \/ Timeout(l)
  BY <1>1 DEF Enter, Exit, Poll, PollFails, EndBatch, Wake, Timeout, Leave
<1>2. CASE \E e \in batch[l] : RejectUnknown(l, e) \/ Begin(l, e)
                               \/ BeginFails(l, e)
  BY <1>2 DEF RejectUnknown, Begin, BeginFails, Takes
<1>3. CASE Complete(l) \/ CompleteFails(l) \/ Requeue(l) \/ GiveUp(l)
           \/ HandleFails(l)
  BY <1>3 DEF Complete, CompleteFails, Requeue, GiveUp, HandleFails, HasResult,
              Failing, NextEntry
<1> QED
  BY <1>1, <1>2, <1>3 DEF LoopStep

\* As long as an active loop means that the flag is set, start() lets no
\* second one in.
LEMMA LoopGuard ==
  ASSUME QueueTypeOK, AtMostOneLoop, FlagGuards, NEW l \in Loops, LoopStep(l)
  PROVE  AtMostOneLoop' /\ FlagGuards'
<1> USE DEF AtMostOneLoop, FlagGuards, Active
<1>0. pc \in [Loops -> PC]
  BY DEF QueueTypeOK
<1>1. CASE Enter(l)
  BY <1>0, <1>1 DEF Enter
<1>2. CASE PollFails(l)
  BY <1>0, <1>2 DEF PollFails, Leave
<1>3. CASE ~Enter(l) /\ ~PollFails(l)
  <2>1. \A m \in Loops \ {l} : pc'[m] = pc[m]
    BY LoopLocals
  <2>2. pc[l] \notin {"off", "created"} /\ running' = running
    BY <1>3
       DEF LoopStep, Exit, Poll, EndBatch, Wake, RejectUnknown, Begin,
           BeginFails, Takes, Timeout, Complete, CompleteFails, HasResult,
           Requeue, GiveUp, HandleFails, Failing, NextEntry
  <2> QED
    BY <2>1, <2>2
<1> QED
  BY <1>1, <1>2, <1>3

-----------------------------------------------------------------------------
(* Who waits for which thread *)

\* A step of l keeps each awaited thread with the one loop that waits for it,
\* and leaves what other loops wait for.
LEMMA LoopCalls ==
  ASSUME QueueTypeOK, CallsAwaited, NEW l \in Loops, LoopStep(l)
  PROVE  /\ CallsAwaited'
         /\ \A c \in inflight' : c.waiter \in Loops \ {l} => c \in inflight
<1> USE QueueAssumption DEF CallsAwaited
<1>1. /\ pc \in [Loops -> PC]
      /\ outcome \in [Loops -> {"none", "ok", "error"}]
      /\ inflight \subseteq Call
      /\ current \in [Loops -> Entry \cup {NoEntry}]
  BY DEF QueueTypeOK
<1>2. \A m \in Loops \ {l} : /\ pc'[m] = pc[m]
                             /\ outcome'[m] = outcome[m]
                             /\ current'[m] = current[m]
  BY LoopLocals
<1>3. CASE \E e \in batch[l] : Begin(l, e)
  <2>1. PICK e \in batch[l] : Begin(l, e)
    BY <1>3
  <2>2. DEFINE call == [op |-> e.id, n |-> attempts[e.id] + 1,
                        waiter |-> l, applied |-> FALSE]
  <2>3. /\ pc[l] = "batch"
        /\ inflight' = inflight \cup {call}
        /\ pc'[l] = "await"
        /\ current'[l] = e
        /\ outcome' = outcome
    BY <1>1, <2>1 DEF Begin, Takes
  <2>4. \A c \in inflight : c.waiter # l
    BY <2>3
  <2>5. outcome[l] = "none"
    BY <1>1, <2>3 DEF QueueTypeOK
  <2>6. call.op = e.id /\ call.waiter = l
    OBVIOUS
  <2> HIDE DEF call
  <2> QED
    BY <1>2, <2>3, <2>4, <2>5, <2>6
<1>4. CASE Timeout(l)
  <2>1. inflight' = Abandoned(l)
    BY <1>4 DEF Timeout
  <2>2. \A c \in inflight' : /\ c.waiter # l
                             /\ c.waiter \in Loops => c \in inflight
    BY <1>1, <2>1, AbandonedCalls
  <2> QED
    BY <1>2, <2>2
<1>5. CASE ~(\E e \in batch[l] : Begin(l, e)) /\ ~Timeout(l)
  <2>1. inflight' = inflight
    BY <1>5
       DEF LoopStep, Enter, Exit, Poll, PollFails, EndBatch, Wake,
           RejectUnknown, BeginFails, Complete, CompleteFails, Requeue,
           GiveUp, HandleFails, NextEntry
  <2>2. pc[l] # "await" \/ outcome[l] # "none"
    BY <1>5
       DEF LoopStep, Enter, Exit, Poll, PollFails, EndBatch, Wake,
           RejectUnknown, BeginFails, Takes, Complete, CompleteFails,
           HasResult, Requeue, GiveUp, HandleFails, Failing
  <2>3. \A c \in inflight : c.waiter # l
    BY <2>2
  <2> QED
    BY <1>2, <2>1, <2>3
<1> QED
  BY <1>3, <1>4, <1>5

\* So does a new task,
LEMMA SpawnCalls ==
  ASSUME QueueTypeOK, CallsAwaited, NEW l \in Loops, Spawn(l)
  PROVE  CallsAwaited'
BY DEF QueueTypeOK, CallsAwaited, Spawn

\* and what threads, clients and the clock do; a thread adds no waiter.
LEMMA EnvironmentCalls ==
  ASSUME QueueTypeOK, CallsAwaited, EnvironmentStep
  PROVE  /\ CallsAwaited'
         /\ \A c \in inflight' : \E d \in inflight : c.waiter = d.waiter
<1> USE QueueAssumption DEF CallsAwaited
<1>1. /\ outcome \in [Loops -> {"none", "ok", "error"}]
      /\ inflight \subseteq Call
  BY DEF QueueTypeOK
<1>2. ASSUME NEW c \in inflight, Apply(c)
      PROVE  /\ CallsAwaited'
             /\ \A d \in inflight' : \E f \in inflight : d.waiter = f.waiter
  <2>1. DEFINE d == [c EXCEPT !.applied = TRUE]
  <2>2. d.op = c.op /\ d.waiter = c.waiter
    BY <1>1 DEF Call
  <2>3. /\ inflight' = (inflight \ {c}) \cup {d}
        /\ pc' = pc /\ outcome' = outcome /\ current' = current
    BY <1>2 DEF Apply, loopVars
  <2> HIDE DEF d
  <2> QED
    BY <1>2, <2>2, <2>3
<1>3. ASSUME NEW c \in inflight, NEW r \in {"ok", "error"}, Return(c, r)
      PROVE  CallsAwaited' /\ inflight' \subseteq inflight
  BY <1>1, <1>3 DEF Return
<1>4. ASSUME ClientStep \/ TimePasses
      PROVE  CallsAwaited' /\ inflight' = inflight
  BY <1>4 DEF ClientStep, Submit, CancelOperation, ExpireOld, TimePasses,
              loopVars
<1> QED
  BY <1>2, <1>3, <1>4 DEF EnvironmentStep, ThreadStep

-----------------------------------------------------------------------------
(* Attempts *)

\* A loop that is not active holds no copies.
LEMMA InactiveHoldsNothing ==
  ASSUME QueueTypeOK, NEW l \in Loops, ~Active(l)
  PROVE  batch[l] = {} /\ current[l] = NoEntry /\ outcome[l] = "none"
BY DEF QueueTypeOK, Active

\* A step that starts no attempt, adds no copy, and leaves no row pending
\* that was not so before, keeps the budget.
LEMMA BudgetKept ==
  ASSUME QueueTypeOK, BudgetInv,
         attempts' = attempts,
         \A o \in Ops : \/ operations'[o] = operations[o]
                        \/ operations'[o].status \notin {"absent", "pending"},
         \A l \in Loops : /\ batch'[l] \subseteq batch[l]
                          /\ current'[l] \in {current[l], NoEntry}
  PROVE  BudgetInv'
<1> USE DEF BudgetInv
<1>0. \A l \in Loops : \A e \in batch[l] : e.id \in Ops
  BY DEF QueueTypeOK, Entry
<1>1. \A l \in Loops : current[l] # NoEntry => current[l].id \in Ops
  BY DEF QueueTypeOK, Entry
<1>2. \A o \in Ops : RowBudget(o)'
  BY DEF RowBudget
<1>3. \A l \in Loops : BatchBudget(l)'
  BY <1>0 DEF BatchBudget
<1>4. \A l \in Loops : CurrentBudget(l)'
  BY <1>1 DEF CurrentBudget
<1> QED
  BY <1>2, <1>3, <1>4

\* A step of the only active loop keeps the budget.
LEMMA LoopBudget ==
  ASSUME QueueTypeOK, AtMostOneLoop, BudgetInv, NEW l \in Loops, LoopStep(l)
  PROVE  BudgetInv'
<1> USE QueueAssumption
<1>0. /\ pc \in [Loops -> PC]
      /\ batch \in [Loops -> SUBSET Entry]
      /\ current \in [Loops -> Entry \cup {NoEntry}]
      /\ operations \in [Ops -> Row]
      /\ clock \in Nat
      /\ attempts \in [Ops -> Nat]
  BY DEF QueueTypeOK, StoreTypeOK
<1>1. \A m \in Loops \ {l} : /\ batch'[m] = batch[m]
                            /\ current'[m] = current[m]
  BY LoopLocals
<1>2. ASSUME Active(l)
      PROVE  \A m \in Loops \ {l} : batch[m] = {} /\ current[m] = NoEntry
  <2>1. \A m \in Loops \ {l} : ~Active(m)
    BY <1>2 DEF AtMostOneLoop
  <2> QED
    BY <2>1, InactiveHoldsNothing
<1>3. ASSUME Active(l)
      PROVE  \A m \in Loops \ {l} : BatchBudget(m)' /\ CurrentBudget(m)'
  BY <1>1, <1>2, <1>3 DEF BatchBudget, CurrentBudget
<1>4. ASSUME Active(l), \A o \in Ops : RowBudget(o)',
             BatchBudget(l)', CurrentBudget(l)'
      PROVE  BudgetInv'
  BY <1>3, <1>4 DEF BudgetInv
<1>5. CASE Enter(l) \/ EndBatch(l) \/ Wake(l) \/ Timeout(l)
           \/ CompleteFails(l)
  BY <1>5, BudgetKept
     DEF Enter, EndBatch, Wake, Timeout, CompleteFails, storeVars,
         historyVars
<1>6. CASE Exit(l) \/ PollFails(l)
  BY <1>0, <1>6, BudgetKept
     DEF Exit, PollFails, Leave, storeVars, historyVars
<1>7. CASE HandleFails(l)
  BY <1>0, <1>7, BudgetKept DEF HandleFails, NextEntry, historyVars
<1>8. CASE Poll(l)
  <2>1. PICK S \in SUBSET PendingOps :
          batch' = [batch EXCEPT ![l] = {EntryOf(o) : o \in S}]
    BY <1>8 DEF Poll
  <2>2. \A e \in batch'[l] : \E o \in S : e = EntryOf(o)
    BY <1>0, <2>1
  <2>3. /\ operations' = operations /\ attempts' = attempts
        /\ current' = current /\ pc[l] = "poll"
    BY <1>8 DEF Poll, storeVars, historyVars
  <2>4. current[l] = NoEntry
    BY <2>3 DEF QueueTypeOK
  <2>5. \A o \in S : o \in Ops /\ operations[o].status = "pending"
    BY DEF PendingOps
  <2>6. BatchBudget(l)'
    BY <2>2, <2>3, <2>4, <2>5
       DEF BatchBudget, BudgetInv, RowBudget, EntryOf
  <2>7. CurrentBudget(l)'
    BY <2>3, <2>4 DEF CurrentBudget
  <2>8. \A o \in Ops : RowBudget(o)'
    BY <2>3 DEF BudgetInv, RowBudget
  <2> QED
    BY <1>4, <1>8, <2>6, <2>7, <2>8 DEF Poll, Active
<1>9. ASSUME NEW e \in batch[l], RejectUnknown(l, e) PROVE BudgetInv'
  <2>1. e.id \in Ops /\ "failed" \in OperationStatus
    BY <1>0 DEF Entry, OperationStatus
  <2>2. \A o \in Ops : \/ operations'[o] = operations[o]
                       \/ operations'[o].status \notin {"absent", "pending"}
    <3>1. CASE UpdateOperationStatus(e.id, "failed", NoMetadata)
      BY <1>0, <2>1, <3>1, UpdateEffect, NoMetadataType
    <3>2. CASE UNCHANGED operations
      BY <3>2
    <3> QED
      BY <1>9, <3>1, <3>2 DEF RejectUnknown
  <2> QED
    BY <1>0, <1>9, <2>2, BudgetKept DEF RejectUnknown, Takes, historyVars
<1>10. ASSUME NEW e \in batch[l], Begin(l, e) PROVE BudgetInv'
  <2>1. e \in Entry /\ e.id \in Ops /\ "executing" \in OperationStatus
    BY <1>0 DEF Entry, OperationStatus
  <2>2. /\ attempts[e.id] <= e.retry_count
        /\ e.retry_count <= MaxRetries
        /\ operations[e.id].status # "absent"
        /\ \A f \in batch[l] : e.id = f.id => e = f
    BY DEF BudgetInv, BatchBudget
  <2>3. /\ attempts' = [attempts EXCEPT ![e.id] = @ + 1]
        /\ current'[l] = e
        /\ batch'[l] = batch[l] \ {e}
        /\ UpdateOperationStatus(e.id, "executing", NoMetadata)
    BY <1>0, <1>10 DEF Begin, Takes
  <2>4. /\ attempts'[e.id] = attempts[e.id] + 1
        /\ \A o \in Ops \ {e.id} : attempts'[o] = attempts[o]
    BY <1>0, <2>1, <2>3
  <2>5. /\ \A o \in Ops \ {e.id} : operations'[o] = operations[o]
        /\ \/ operations'[e.id].status = "executing"
           \/ /\ operations'[e.id] = operations[e.id]
              /\ operations[e.id].status \notin OperationStatus
    BY <1>0, <2>1, <2>3, UpdateEffect, NoMetadataType
  <2>6. operations'[e.id].status \notin {"absent", "pending"}
    BY <2>2, <2>5 DEF OperationStatus
  <2>7. e.retry_count \in Nat /\ attempts[e.id] \in Nat
    BY <1>0, <2>1 DEF Entry
  <2>8. RowBudget(e.id)'
    BY <2>2, <2>4, <2>6, <2>7 DEF RowBudget
  <2>9. \A o \in Ops \ {e.id} : RowBudget(o)'
    BY <2>4, <2>5 DEF BudgetInv, RowBudget
  <2>10. CurrentBudget(l)'
    BY <2>2, <2>3, <2>4, <2>6, <2>7 DEF CurrentBudget
  <2>11. \A f \in batch'[l] : f.id \in Ops \ {e.id}
    BY <1>0, <2>2, <2>3 DEF Entry
  <2>12. BatchBudget(l)'
    BY <2>3, <2>4, <2>5, <2>11 DEF BudgetInv, BatchBudget
  <2> QED
    BY <1>4, <1>10, <2>8, <2>9, <2>10, <2>12 DEF Begin, Takes, Active
<1>11. ASSUME NEW e \in batch[l], BeginFails(l, e) PROVE BudgetInv'
  <2>1. e \in Entry /\ e.id \in Ops
    BY <1>0 DEF Entry
  <2>2. /\ attempts' = attempts /\ operations' = operations
        /\ current'[l] = e
        /\ batch'[l] = batch[l] \ {e}
    BY <1>0, <1>11 DEF BeginFails, Takes, storeVars, historyVars
  <2>3. BatchBudget(l)' /\ CurrentBudget(l)'
    BY <1>0, <2>1, <2>2
       DEF BudgetInv, BatchBudget, CurrentBudget, Entry
  <2>4. \A o \in Ops : RowBudget(o)'
    BY <2>2 DEF BudgetInv, RowBudget
  <2> QED
    BY <1>4, <1>11, <2>3, <2>4 DEF BeginFails, Takes, Active
<1>12. CASE Complete(l) \/ GiveUp(l)
  <2>1. PICK s \in {"completed", "failed"} :
          UpdateOperationStatus(current[l].id, s, NoMetadata)
    BY <1>12 DEF Complete, GiveUp
  <2>2. current[l].id \in Ops /\ s \in OperationStatus
    BY <1>0, <1>12
       DEF Complete, GiveUp, HasResult, Failing, QueueTypeOK, Entry,
           OperationStatus
  <2>3. \A o \in Ops : \/ operations'[o] = operations[o]
                       \/ operations'[o].status \notin {"absent", "pending"}
    BY <1>0, <2>1, <2>2, UpdateEffect, NoMetadataType
  <2> QED
    BY <1>0, <1>12, <2>3, BudgetKept
       DEF Complete, GiveUp, NextEntry, historyVars
<1>13. CASE Requeue(l)
  <2>2. current[l] \in Entry /\ current[l] # NoEntry
    BY <1>0, <1>13 DEF Requeue, Failing, QueueTypeOK
  <2>3. PICK o \in Ops, n \in 0 .. MaxRetries :
          o = current[l].id /\ n = current[l].retry_count
    BY <1>13, <2>2 DEF Requeue, RetriesLeft, Entry
  <2>1. PICK meta : meta = [retry_count |-> n + 1,
                            next_retry_at |-> clock + Backoff[n]]
    OBVIOUS
  <2>4. meta \in Metadata /\ meta.retry_count = n + 1
    BY <1>0, <2>1, <2>3 DEF Metadata
  <2>5. /\ UpdateOperationStatus(o, "pending", meta)
        /\ attempts' = attempts
        /\ batch' = batch
        /\ current'[l] = NoEntry
    BY <1>0, <1>13, <2>1, <2>3 DEF Requeue, NextEntry, historyVars
  <2>6. "pending" \in OperationStatus
    BY DEF OperationStatus
  <2>7. /\ \A p \in Ops \ {o} : operations'[p] = operations[p]
        /\ \/ /\ operations'[o].status = "pending"
              /\ operations'[o].metadata = meta
           \/ operations'[o] = operations[o]
    BY <1>0, <2>3, <2>4, <2>5, <2>6, UpdateEffect
  <2>8. attempts[o] <= n + 1 /\ n + 1 <= MaxRetries
    BY <1>13, <2>2, <2>3
       DEF BudgetInv, CurrentBudget, Requeue, RetriesLeft
  <2>9. \A p \in Ops \ {o} : RowBudget(p)'
    BY <2>5, <2>7 DEF BudgetInv, RowBudget
  <2>10. RowBudget(o)'
    BY <1>0, <2>4, <2>5, <2>7, <2>8 DEF BudgetInv, RowBudget
  <2>11. BatchBudget(l)' /\ CurrentBudget(l)'
    BY <1>0, <2>2, <2>3, <2>5, <2>7
       DEF BudgetInv, BatchBudget, CurrentBudget, Entry
  <2> QED
    BY <1>4, <1>13, <2>9, <2>10, <2>11 DEF Requeue, Failing, Active
<1> QED
  BY <1>5, <1>6, <1>7, <1>8, <1>9, <1>10, <1>11, <1>12, <1>13
     DEF LoopStep

\* So does what threads, clients and the clock do.
LEMMA EnvironmentBudget ==
  ASSUME QueueTypeOK, BudgetInv, EnvironmentStep
  PROVE  BudgetInv'
<1> USE QueueAssumption
<1>0. /\ pc \in [Loops -> PC]
      /\ batch \in [Loops -> SUBSET Entry]
      /\ current \in [Loops -> Entry \cup {NoEntry}]
      /\ operations \in [Ops -> Row]
      /\ clock \in Nat
      /\ attempts \in [Ops -> Nat]
  BY DEF QueueTypeOK, StoreTypeOK
<1>1. ASSUME ThreadStep \/ TimePasses PROVE BudgetInv'
  BY <1>1, BudgetKept
     DEF ThreadStep, Apply, Return, TimePasses, Tick, storeVars, loopVars,
         historyVars
<1>2. ASSUME NEW o \in Ops, Submit(o) PROVE BudgetInv'
  <2>1. /\ operations[o].status = "absent"
        /\ operations'[o].status = "pending"
        /\ operations'[o].metadata.retry_count = 0
        /\ \A p \in Ops \ {o} : operations'[p] = operations[p]
    BY <1>0, <1>2, NoMetadataType
       DEF Submit, CreateOperation, AbsentRow, Row
  <2>2. attempts' = attempts /\ batch' = batch /\ current' = current
    BY <1>2 DEF Submit, loopVars, historyVars
  <2>3. \A p \in Ops : RowBudget(p)'
    BY <2>1, <2>2 DEF BudgetInv, RowBudget
  <2>4. \A p \in Ops : operations[p].status # "absent" =>
                          operations'[p].status # "absent"
    BY <2>1
  <2>5. \A l \in Loops : BatchBudget(l)'
    BY <1>0, <2>2, <2>4 DEF BudgetInv, BatchBudget, Entry
  <2>6. \A l \in Loops : current[l] # NoEntry => current[l].id \in Ops
    BY <1>0 DEF Entry
  <2>7. \A l \in Loops : CurrentBudget(l)'
    BY <2>2, <2>4, <2>6 DEF BudgetInv, CurrentBudget
  <2> QED
    BY <2>3, <2>5, <2>7 DEF BudgetInv
<1>3. ASSUME NEW o \in Ops, CancelOperation(o) PROVE BudgetInv'
  <2>1. \A p \in Ops : \/ operations'[p] = operations[p]
                       \/ operations'[p].status \notin {"absent", "pending"}
    BY <1>0, <1>3, UpdateEffect, NoMetadataType
       DEF CancelOperation, OperationStatus
  <2> QED
    BY <1>3, <2>1, BudgetKept DEF CancelOperation, loopVars, historyVars
<1>4. CASE ExpireOld
  <2>1. \A p \in Ops : \/ operations'[p] = operations[p]
                       \/ operations'[p].status \notin {"absent", "pending"}
    BY <1>0, <1>4, AbsentRowType
       DEF ExpireOld, ExpireOldOperations, AbsentRow
  <2> QED
    BY <1>4, <2>1, BudgetKept DEF ExpireOld, loopVars, historyVars
<1> QED
  BY <1>1, <1>2, <1>3, <1>4
     DEF EnvironmentStep, ClientStep

-----------------------------------------------------------------------------
(* Effects *)

\* A step that only adds effects, calls nothing applied, delivers no result
\* and completes no row keeps the invariant.
LEMMA EffectKept ==
  ASSUME EffectInv,
         effects' = effects,
         \A c \in inflight' : c.applied =>
           \E d \in inflight : d.op = c.op /\ d.applied,
         \A l \in Loops : outcome'[l] = "ok" =>
           outcome[l] = "ok" /\ current'[l] = current[l],
         \A o \in Ops : operations'[o].status = "completed" =>
           operations[o].status = "completed"
  PROVE  EffectInv'
BY DEF EffectInv

\* A step of l keeps success behind the effect.
LEMMA LoopEffect ==
  ASSUME QueueTypeOK, EffectInv, NEW l \in Loops, LoopStep(l)
  PROVE  EffectInv'
<1> USE QueueAssumption
<1>0. /\ outcome \in [Loops -> {"none", "ok", "error"}]
      /\ inflight \subseteq Call
      /\ current \in [Loops -> Entry \cup {NoEntry}]
      /\ operations \in [Ops -> Row]
      /\ clock \in Nat
      /\ effects \in [Ops -> Nat]
      /\ \A c \in inflight : c.op \in Ops
  BY DEF QueueTypeOK, StoreTypeOK, Call
<1>1. \A m \in Loops \ {l} : /\ outcome'[m] = outcome[m]
                             /\ current'[m] = current[m]
  BY LoopLocals
<1>2. CASE Enter(l) \/ Poll(l) \/ EndBatch(l) \/ Wake(l)
  BY <1>2, EffectKept
     DEF Enter, Poll, EndBatch, Wake, storeVars, historyVars
<1>3. CASE Exit(l) \/ PollFails(l)
  BY <1>0, <1>3, EffectKept
     DEF Exit, PollFails, Leave, storeVars, historyVars
<1>4. ASSUME NEW e \in batch[l], RejectUnknown(l, e) PROVE EffectInv'
  <2>1. e.id \in Ops /\ "failed" \in OperationStatus \ {"completed"}
    BY DEF QueueTypeOK, Entry, OperationStatus
  <2>2. CASE UpdateOperationStatus(e.id, "failed", NoMetadata)
    <3>1. \A o \in Ops : operations'[o].status = "completed" =>
                           operations[o].status = "completed"
      BY <1>0, <2>1, <2>2, CompletesNone, NoMetadataType
    <3> QED
      BY <1>4, <3>1, EffectKept DEF RejectUnknown, historyVars
  <2>3. CASE UNCHANGED operations
    BY <1>4, <2>3, EffectKept DEF RejectUnknown, historyVars
  <2> QED
    BY <1>4, <2>2, <2>3 DEF RejectUnknown
<1>5. ASSUME NEW e \in batch[l], Begin(l, e) PROVE EffectInv'
  <2>1. e.id \in Ops /\ "executing" \in OperationStatus \ {"completed"}
    BY DEF QueueTypeOK, Entry, OperationStatus
  <2>2. \A o \in Ops : operations'[o].status = "completed" =>
                         operations[o].status = "completed"
    BY <1>0, <1>5, <2>1, CompletesNone, NoMetadataType DEF Begin
  <2>3. outcome[l] = "none" /\ outcome' = outcome /\ effects' = effects
    BY <1>0, <1>5 DEF Begin, Takes, QueueTypeOK
  <2>4. \A c \in inflight' : c.applied => c \in inflight
    BY <1>5 DEF Begin
  <2> QED
    BY <1>1, <2>2, <2>3, <2>4, EffectKept
<1>6. ASSUME NEW e \in batch[l], BeginFails(l, e) PROVE EffectInv'
  <2>1. outcome[l] = "none" /\ outcome' = outcome
    BY <1>0, <1>6 DEF BeginFails, Takes, QueueTypeOK
  <2> QED
    BY <1>1, <1>6, <2>1, EffectKept DEF BeginFails, storeVars, historyVars
<1>7. CASE Timeout(l)
  <2>1. \A c \in inflight' : c.applied =>
          \E d \in inflight : d.op = c.op /\ d.applied
    BY <1>0, <1>7, AbandonedCalls DEF Timeout
  <2> QED
    BY <1>7, <2>1, EffectKept DEF Timeout, storeVars, historyVars
<1>8. CASE CompleteFails(l)
  BY <1>0, <1>8, EffectKept DEF CompleteFails, storeVars, historyVars
<1>9. pc[l] \in {"await", "handle"} => current[l].id \in Ops
  BY DEF QueueTypeOK, Entry
<1>10. CASE Complete(l)
  <2>1. /\ current[l].id \in Ops /\ "completed" \in OperationStatus
        /\ effects[current[l].id] > 0
    BY <1>9, <1>10
       DEF Complete, HasResult, EffectInv, OperationStatus
  <2>2. \A o \in Ops : operations'[o].status = "completed" =>
          operations[o].status = "completed" \/ o = current[l].id
    BY <1>0, <1>10, <2>1, UpdateEffect, NoMetadataType DEF Complete
  <2>3. /\ effects' = effects /\ inflight' = inflight
        /\ outcome'[l] = "none"
    BY <1>0, <1>10 DEF Complete, NextEntry, historyVars
  <2> QED
    BY <1>1, <2>1, <2>2, <2>3 DEF EffectInv
<1>11. ASSUME NextEntry(l),
              \A o \in Ops : operations'[o].status = "completed" =>
                               operations[o].status = "completed"
       PROVE  EffectInv'
  BY <1>0, <1>11, EffectKept DEF NextEntry, historyVars
<1>12. CASE Requeue(l)
  <2>1. PICK n \in 0 .. MaxRetries : n = current[l].retry_count
    BY <1>0, <1>12
       DEF Requeue, Failing, RetriesLeft, QueueTypeOK, Entry
  <2>2. [retry_count |-> n + 1, next_retry_at |-> clock + Backoff[n]]
          \in Metadata
    BY <1>0 DEF Metadata
  <2>3. /\ current[l].id \in Ops
        /\ "pending" \in OperationStatus \ {"completed"}
    BY <1>9, <1>12 DEF Requeue, Failing, OperationStatus
  <2>4. \A o \in Ops : operations'[o].status = "completed" =>
                         operations[o].status = "completed"
    BY <1>0, <1>12, <2>1, <2>2, <2>3, CompletesNone DEF Requeue
  <2> QED
    BY <1>11, <1>12, <2>4 DEF Requeue
<1>13. CASE GiveUp(l)
  <2>1. current[l].id \in Ops /\ "failed" \in OperationStatus \ {"completed"}
    BY <1>9, <1>13 DEF GiveUp, Failing, OperationStatus
  <2>2. \A o \in Ops : operations'[o].status = "completed" =>
                         operations[o].status = "completed"
    BY <1>0, <1>13, <2>1, CompletesNone, NoMetadataType DEF GiveUp
  <2> QED
    BY <1>11, <1>13, <2>2 DEF GiveUp
<1>14. CASE HandleFails(l)
  BY <1>11, <1>14 DEF HandleFails
<1> QED
  BY <1>2, <1>3, <1>4, <1>5, <1>6, <1>7, <1>8, <1>10, <1>12, <1>13,
     <1>14
     DEF LoopStep

\* So does what threads, clients and the clock do.
LEMMA EnvironmentEffect ==
  ASSUME QueueTypeOK, CallsAwaited, EffectInv, EnvironmentStep
  PROVE  EffectInv'
<1>0. /\ outcome \in [Loops -> {"none", "ok", "error"}]
      /\ inflight \subseteq Call
      /\ current \in [Loops -> Entry \cup {NoEntry}]
      /\ operations \in [Ops -> Row]
      /\ clock \in Nat
      /\ effects \in [Ops -> Nat]
      /\ \A c \in inflight : c.op \in Ops
  BY DEF QueueTypeOK, StoreTypeOK, Call
<1>6. ASSUME NEW c \in inflight, Apply(c) PROVE EffectInv'
  <2>1. PICK d : d = [c EXCEPT !.applied = TRUE]
    OBVIOUS
  <2>2. d.op = c.op
    BY <1>0, <2>1 DEF Call
  <2>3. /\ inflight' = (inflight \ {c}) \cup {d}
        /\ effects' = [effects EXCEPT ![c.op] = @ + 1]
        /\ operations' = operations /\ outcome' = outcome
        /\ current' = current
    BY <1>6, <2>1 DEF Apply, storeVars, loopVars
  <2>4. /\ effects'[c.op] > 0
        /\ \A o \in Ops : effects[o] > 0 => effects'[o] > 0
    BY <1>0, <2>3
  <2>5. \A l \in Loops : outcome[l] = "ok" => current[l].id \in Ops
    BY DEF QueueTypeOK, Entry
  <2> QED
    BY <1>0, <2>2, <2>3, <2>4, <2>5 DEF EffectInv
<1>7. ASSUME NEW c \in inflight, NEW r \in {"ok", "error"}, Return(c, r)
      PROVE  EffectInv'
  BY <1>0, <1>7 DEF Return, CallsAwaited, EffectInv, storeVars, historyVars
<1>8. ASSUME NEW o \in Ops, Submit(o) PROVE EffectInv'
  BY <1>0, <1>8, EffectKept
     DEF Submit, CreateOperation, AbsentRow, Row, loopVars, historyVars
<1>9. ASSUME NEW o \in Ops, CancelOperation(o) PROVE EffectInv'
  <2>1. \A p \in Ops : operations'[p].status = "completed" =>
                         operations[p].status = "completed"
    BY <1>0, <1>9, CompletesNone, NoMetadataType
       DEF CancelOperation, OperationStatus
  <2> QED
    BY <1>9, <2>1, EffectKept DEF CancelOperation, loopVars, historyVars
<1>10. CASE ExpireOld
  <2>1. \A p \in Ops : operations'[p].status = "completed" =>
                         operations[p].status = "completed"
    BY <1>0, <1>10, AbsentRowType
       DEF ExpireOld, ExpireOldOperations, AbsentRow
  <2> QED
    BY <1>10, <2>1, EffectKept DEF ExpireOld, loopVars, historyVars
<1>11. CASE TimePasses
  BY <1>11, EffectKept DEF TimePasses, Tick, loopVars, historyVars
<1> QED
  BY <1>6, <1>7, <1>8, <1>9, <1>10, <1>11
     DEF EnvironmentStep, ThreadStep, ClientStep

-----------------------------------------------------------------------------
(* A queue without QueueBackgroundTask *)

\* The invariant of the loops, of any number of them over one table.
THEOREM LoopsInvariant == DirectSpec => []LoopsInv
<1>1. QueueInit => LoopsInv
  <2> SUFFICES ASSUME QueueInit PROVE LoopsInv
    OBVIOUS
  <2>1. CallsAwaited
    BY DEF QueueInit, CallsAwaited
  <2>2. EffectInv
    BY AbsentRowType DEF QueueInit, StoreInit, EffectInv
  <2> QED
    BY <2>1, <2>2, InitType DEF LoopsInv
<1>2. LoopsInv /\ [DirectNext]_queueVars => LoopsInv'
  <2> SUFFICES ASSUME LoopsInv, [DirectNext]_queueVars PROVE LoopsInv'
    OBVIOUS
  <2> USE DEF LoopsInv
  <2>1. ASSUME NEW l \in Loops, LoopStep(l) PROVE LoopsInv'
    BY <2>1, LoopType, LoopCalls, LoopEffect
  <2>2. ASSUME NEW l \in Loops, Spawn(l) PROVE LoopsInv'
    <3>1. EffectInv'
      BY <2>2, EffectKept DEF Spawn, storeVars, historyVars
    <3> QED
      BY <2>2, <3>1, SpawnType, SpawnCalls
  <2>3. CASE StopFlag \/ UNCHANGED queueVars
    <3>1. QueueTypeOK' /\ CallsAwaited'
      BY <2>3 DEF StopFlag, queueVars, storeVars, loopVars, historyVars,
                  QueueTypeOK, StoreTypeOK, CallsAwaited
    <3>2. EffectInv'
      BY <2>3, EffectKept
         DEF StopFlag, queueVars, storeVars, loopVars, historyVars
    <3> QED
      BY <3>1, <3>2
  <2>4. CASE EnvironmentStep
    BY <2>4, EnvironmentType, EnvironmentCalls, EnvironmentEffect
  <2> QED
    BY <2>1, <2>2, <2>3, <2>4 DEF DirectNext
<1> QED
  BY <1>1, <1>2, PTL DEF DirectSpec

\* A queue whose stop() and start() have left any number of loops over one
\* table may execute an operation too often, but never reports one completed
\* that did not take effect.
THEOREM CompletedIsTrueOfAny == DirectSpec => []CompletedMeansApplied
<1>1. LoopsInv => CompletedMeansApplied
  BY DEF LoopsInv, EffectInv, CompletedMeansApplied
<1> QED
  BY <1>1, LoopsInvariant, PTL

\* As long as nobody calls stop(), one loop at a time is active, and the flag
\* is set while it is.
THEOREM GuardedInvariant ==
  ASSUME "stop" \notin Env PROVE DirectSpec => []GuardedInv
<1> USE QueueAssumption
<1>1. LoopsInv /\ QueueInit => GuardedInv
  <2> SUFFICES ASSUME LoopsInv, QueueInit PROVE GuardedInv
    OBVIOUS
  <2>1. AtMostOneLoop /\ FlagGuards
    BY DEF QueueInit, AtMostOneLoop, FlagGuards, Active
  <2>2. BudgetInv
    BY AbsentRowType
       DEF QueueInit, StoreInit, BudgetInv, RowBudget, BatchBudget,
           CurrentBudget
  <2> QED
    BY <2>1, <2>2 DEF GuardedInv
<1>2. LoopsInv /\ LoopsInv' /\ GuardedInv /\ [DirectNext]_queueVars
        => GuardedInv'
  <2> SUFFICES ASSUME LoopsInv, LoopsInv', GuardedInv, [DirectNext]_queueVars
               PROVE  GuardedInv'
    OBVIOUS
  <2> USE DEF GuardedInv, LoopsInv
  <2>1. ASSUME NEW l \in Loops, LoopStep(l) PROVE GuardedInv'
    <3>1. BudgetInv'
      BY <2>1, LoopBudget
    <3>2. AtMostOneLoop' /\ FlagGuards'
      BY <2>1, LoopGuard
    <3> QED
      BY <3>1, <3>2
  <2>2. ASSUME NEW l \in Loops, Spawn(l) PROVE GuardedInv'
    <3>1. BudgetInv'
      BY <2>2, BudgetKept DEF Spawn, storeVars, historyVars
    <3>2. AtMostOneLoop' /\ FlagGuards'
      BY <2>2
         DEF Spawn, AtMostOneLoop, FlagGuards, Active, QueueTypeOK
    <3> QED
      BY <3>1, <3>2
  <2>3. CASE UNCHANGED queueVars
    <3>1. AtMostOneLoop' /\ FlagGuards'
      BY <2>3 DEF queueVars, loopVars, AtMostOneLoop, FlagGuards, Active
    <3>2. BudgetInv'
      BY <2>3, BudgetKept DEF queueVars, storeVars, loopVars, historyVars
    <3> QED
      BY <3>1, <3>2
  <2>4. CASE EnvironmentStep
    <3>1. BudgetInv'
      BY <2>4, EnvironmentBudget
    <3>2. pc' = pc /\ running' = running
      BY <2>4
         DEF EnvironmentStep, ThreadStep, Apply, Return, ClientStep, Submit,
             CancelOperation, ExpireOld, TimePasses, loopVars
    <3> QED
      BY <3>1, <3>2 DEF AtMostOneLoop, FlagGuards, Active
  <2> QED
    BY <2>1, <2>2, <2>3, <2>4 DEF DirectNext, StopFlag
<1> QED
  BY <1>1, <1>2, LoopsInvariant, PTL DEF DirectSpec

\* As long as nobody calls stop(), the guard of start() is enough, however
\* many tasks are made of it (tests/test_operation_queue.py, "start doesn't
\* run twice"),
THEOREM UnstoppedIsOne ==
  ASSUME "stop" \notin Env PROVE DirectSpec => []AtMostOneLoop
BY GuardedInvariant, PTL DEF GuardedInv

\* and no operation is executed more than MaxRetries + 1 times.
THEOREM UnstoppedIsBounded ==
  ASSUME "stop" \notin Env PROVE DirectSpec => []AttemptBudget
<1>1. GuardedInv => AttemptBudget
  BY DEF GuardedInv, BudgetInv, RowBudget, AttemptBudget
<1> QED
  BY <1>1, GuardedInvariant, PTL

=============================================================================
