-------------------------- MODULE LifecycleProofs --------------------------
(***************************************************************************)
(* Proof that the queue implements OperationLifecycle, whatever of its     *)
(* disturbances happens, for every value of the constants; and what else   *)
(* is true of its rows as long as one of the disturbances stays away.      *)
(***************************************************************************)
EXTENDS QueueProofs, FiniteSetTheorems

USE DEF NULL

-----------------------------------------------------------------------------
(* What a step does to the table *)

\* The statuses a row can have while the queue holds a copy of it.
LEMMA StatusSets ==
  /\ "pending" \in Lifecycle!Waiting
  /\ "executing" \in Lifecycle!Running
  /\ Lifecycle!Waiting \subseteq {"pending", "cancelled"}
  /\ Lifecycle!Running \subseteq {"executing", "cancelled"}
  /\ Lifecycle!Running \subseteq Lifecycle!Tried
  /\ Lifecycle!Tried \subseteq {"executing", "pending", "cancelled"}
  /\ "cancel" \in Env => "cancelled" \in Lifecycle!Waiting \cap Lifecycle!Running
  /\ "cancel" \notin Env =>
       /\ Lifecycle!Waiting \cup Lifecycle!Tried \subseteq {"executing", "pending"}
       /\ Lifecycle!Running = {"executing"}
  /\ "store" \in Env => Lifecycle!Waiting \subseteq Lifecycle!Tried
  /\ "store" \notin Env => Lifecycle!Tried = Lifecycle!Running
BY DEF Lifecycle!Withdrawn, Lifecycle!Waiting, Lifecycle!Running, Lifecycle!Tried

\* An update of a row of which the queue holds a copy: the row takes the new
\* status and metadata, or is gone and stays so.
LEMMA RowMoved ==
  ASSUME operations \in [Ops -> Row], clock \in Nat, NEW o \in Ops,
         operations[o].status \in Lifecycle!Waiting \cup Lifecycle!Tried \cup {"deleted"},
         NEW s \in {"executing", "completed", "pending", "failed", "cancelled"},
         NEW meta \in Metadata, UpdateOperationStatus(o, s, meta)
  PROVE  /\ operations' \in [Ops -> Row]
         /\ \A p \in Ops \ {o} : operations'[p] = operations[p]
         /\ \/ /\ operations[o].status # "deleted"
               /\ operations'[o].status = s /\ operations'[o].metadata = meta
            \/ operations[o].status = "deleted" /\ operations'[o] = operations[o]
<1>1. s \in OperationStatus
  BY DEF OperationStatus
<1>2. operations[o].status \in OperationStatus \cup {"deleted"}
  BY StatusSets DEF OperationStatus
<1>3. "deleted" \notin OperationStatus
  BY DEF OperationStatus
<1> QED
  BY <1>1, <1>2, <1>3, UpdateEffect

\* A cancellation reaches any row that is there.
LEMMA CancelEffect ==
  ASSUME operations \in [Ops -> Row], clock \in Nat, NEW o \in Ops,
         UpdateOperationStatus(o, "cancelled", NoMetadata)
  PROVE  /\ \A p \in Ops \ {o} : operations'[p] = operations[p]
         /\ \/ /\ operations[o].status \notin {"absent", "deleted"}
               /\ operations'[o].status = "cancelled"
            \/ operations'[o] = operations[o]
<1>1. "cancelled" \in OperationStatus /\ {"absent", "deleted"} \cap OperationStatus = {}
  BY DEF OperationStatus
<1> QED
  BY <1>1, UpdateEffect, NoMetadataType

\* The steps of a loop that move no row, and those that may.
IdleStep(l) ==
  \/ Enter(l) \/ Exit(l) \/ Poll(l) \/ PollFails(l) \/ EndBatch(l) \/ Wake(l)
  \/ Timeout(l) \/ CompleteFails(l) \/ HandleFails(l)
TakeStep(l, e) == RejectUnknown(l, e) \/ Begin(l, e) \/ BeginFails(l, e)
EndStep(l) == Complete(l) \/ Requeue(l) \/ GiveUp(l)

LEMMA KindsOfSteps ==
  ASSUME NEW l \in Loops, LoopStep(l)
  PROVE  IdleStep(l) \/ (\E e \in batch[l] : TakeStep(l, e)) \/ EndStep(l)
BY DEF LoopStep, IdleStep, TakeStep, EndStep

LEMMA IdleKeeps ==
  ASSUME NEW l \in Loops, IdleStep(l)
  PROVE  UNCHANGED <<operations, clock, attempts, effects, settled>>
BY DEF IdleStep, Enter, Exit, Poll, PollFails, EndBatch, Wake, Timeout,
       CompleteFails, HandleFails, NextEntry, storeVars, historyVars

\* The steps that leave rows and attempts alone, and keep or drop copies.
LEMMA RowsKept ==
  ASSUME TypeOK, RowsLife, UNCHANGED <<operations, attempts, settled>>,
         \A l \in Loops : batch'[l] \subseteq batch[l],
         \A l \in Loops : /\ current'[l] \in {current[l], NoEntry}
                          /\ pc'[l] = "await" =>
                               pc[l] = "await" /\ current'[l] = current[l],
         "store" \notin Env /\ interruptions' = 0 =>
           interruptions = 0 /\ current' = current,
         interruptions' = 0 /\ cancelling = {} => cancelling' = {},
         interruptions' = 0 => interruptions = 0
  PROVE  RowsLife'
<1>1. \A o \in Ops : RowLife(o)'
  BY DEF RowsLife, RowLife
<1>2. \A l \in Loops : LoopLife(l)'
  BY DEF RowsLife, LoopLife
<1> QED
  BY <1>1, <1>2 DEF RowsLife

\* While l runs, no other loop holds a copy, before and after the step.
LEMMA RunsAlone ==
  ASSUME IInv, NEW l \in Loops, Run(l)
  PROVE  /\ \A m \in Loops \ {l} : /\ batch[m] = {} /\ current[m] = NoEntry
                                    /\ batch'[m] = {} /\ current'[m] = NoEntry
                                    /\ pc'[m] # "await"
         /\ LoopStep(l) /\ UNCHANGED interruptions
         /\ cancelling = {} => cancelling' = {}
<1>1. TypeOK /\ SoleTask
  BY DEF IInv
<1>2. /\ LoopStep(l) /\ UNCHANGED interruptions
      /\ cancelling = {} => cancelling' = {}
  BY DEF Run
<1>3. /\ pc[l] # "off"
      /\ \A m \in Loops \ {l} : /\ batch'[m] = batch[m] /\ current'[m] = current[m]
                                /\ pc'[m] = pc[m]
  BY <1>1, <1>2, LoopLocals DEF TypeOK
<1>4. \A m \in Loops \ {l} : pc[m] = "off"
  BY <1>1, <1>3 DEF SoleTask
<1> QED
  BY <1>1, <1>2, <1>3, <1>4, InactiveHoldsNothing DEF TypeOK, Active

\* A loop turns to a row that waits, or is gone by now: an unknown operation
\* fails, any other begins its next attempt, unless the store fails.
LEMMA EntryTaken ==
  ASSUME IInv, RowsLife, NEW l \in Loops, NEW e \in batch[l], TakeStep(l, e)
  PROVE  /\ e \in Entry /\ e.id \in Ops /\ pc[l] = "batch"
         /\ operations[e.id].status \in Lifecycle!Waiting \cup {"deleted"}
         /\ attempts[e.id] <= MaxRetries /\ e.id \notin settled
         /\ "store" \notin Env => attempts[e.id] = e.retry_count
         /\ batch' = [batch EXCEPT ![l] = batch[l] \ {e}]
         /\ \/ /\ Begin(l, e) /\ e.id \in Registered /\ UNCHANGED settled
               /\ UpdateOperationStatus(e.id, "executing", NoMetadata)
            \/ /\ RejectUnknown(l, e) /\ e.id \notin Registered
               /\ UpdateOperationStatus(e.id, "failed", NoMetadata)
               /\ settled' = settled \cup {e.id}
            \/ /\ RejectUnknown(l, e) \/ BeginFails(l, e)
               /\ "store" \in Env /\ UNCHANGED <<operations, settled>>
<1>1. /\ e \in Entry /\ e.id \in Ops /\ pc[l] = "batch"
      /\ batch' = [batch EXCEPT ![l] = batch[l] \ {e}]
  BY DEF IInv, TypeOK, QueueTypeOK, Entry, TakeStep, RejectUnknown, Begin,
         BeginFails, Takes
<1>2. /\ operations[e.id].status \in Lifecycle!Waiting \cup {"deleted"}
      /\ e.id \notin settled
      /\ "store" \notin Env => attempts[e.id] = e.retry_count
  BY DEF RowsLife, LoopLife
<1>3. attempts[e.id] <= e.retry_count /\ e.retry_count <= MaxRetries
  BY DEF IInv, BudgetInv, BatchBudget
<1>4. attempts[e.id] <= MaxRetries
  BY <1>1, <1>3, QueueAssumption DEF IInv, TypeOK, QueueTypeOK, Entry
<1>5. \/ /\ Begin(l, e) /\ e.id \in Registered /\ UNCHANGED settled
         /\ UpdateOperationStatus(e.id, "executing", NoMetadata)
      \/ /\ RejectUnknown(l, e) /\ e.id \notin Registered
         /\ UpdateOperationStatus(e.id, "failed", NoMetadata)
         /\ settled' = settled \cup {e.id}
      \/ /\ RejectUnknown(l, e) \/ BeginFails(l, e)
         /\ "store" \in Env /\ UNCHANGED <<operations, settled>>
  BY DEF TakeStep, RejectUnknown, Begin, BeginFails, storeVars, historyVars
<1> QED
  BY <1>1, <1>2, <1>4, <1>5

\* An execution that ends moves its row, if it is still there, and only that:
\* from executing or cancelled to completed after an effect, to pending with
\* the attempts counted, or to failed with none left, the last two also from
\* where a failing store left it.  Unless it goes back to pending, the queue
\* is done with the operation, which it was not before.
LEMMA ExecutionEnds ==
  ASSUME IInv, RowsLife, NEW l \in Loops, EndStep(l)
  PROVE  LET o == current[l].id
         IN  /\ current[l] \in Entry /\ current[l] # NoEntry /\ o \in Ops
             /\ operations[o].status \in Lifecycle!Tried \cup {"deleted"}
             /\ NextEntry(l) /\ o \notin settled
             /\ \E s \in {"completed", "pending", "failed"}, meta \in Metadata :
                  /\ UpdateOperationStatus(o, s, meta)
                  /\ settled' = settled \cup IF s = "pending" THEN {} ELSE {o}
                  /\ s = "completed" =>
                       /\ operations[o].status \in Lifecycle!Running \cup {"deleted"}
                       /\ effects[o] > 0
                  /\ s = "pending" =>
                       /\ attempts[o] <= MaxRetries
                       /\ "store" \notin Env => meta.retry_count = attempts[o]
                  /\ s = "failed" /\ "store" \notin Env =>
                       attempts[o] = MaxRetries + 1
<1> DEFINE o == current[l].id
           n == current[l].retry_count
<1>1. /\ pc[l] \in {"await", "handle"}
      /\ operations \in [Ops -> Row] /\ clock \in Nat /\ attempts \in [Ops -> Nat]
      /\ current \in [Loops -> Entry \cup {NoEntry}]
  BY DEF IInv, TypeOK, QueueTypeOK, StoreTypeOK, EndStep, Complete, HasResult,
         Requeue, GiveUp, Failing
<1>2. current[l] \in Entry /\ current[l] # NoEntry /\ o \in Ops /\ n \in Nat
  BY <1>1 DEF IInv, TypeOK, QueueTypeOK, Entry
<1>3. /\ operations[o].status \in Lifecycle!Tried \cup {"deleted"}
      /\ o \notin settled
      /\ "store" \notin Env => attempts[o] = n + 1
      /\ attempts[o] <= n + 1 /\ n <= MaxRetries /\ attempts[o] \in Nat
  BY <1>1, <1>2 DEF RowsLife, LoopLife, IInv, BudgetInv, CurrentBudget
<1>4. NextEntry(l)
  BY DEF EndStep, Complete, Requeue, GiveUp
<1> HIDE DEF o, n
<1>5. CASE Complete(l)
  <2>1. UpdateOperationStatus(o, "completed", NoMetadata) /\ effects[o] > 0
    BY <1>5 DEF Complete, HasResult, IInv, EffectInv, o
  <2>2. /\ operations[o].status \in Lifecycle!Running \cup {"deleted"}
        /\ settled' = settled \cup {o}
    BY <1>5 DEF Complete, HasResult, RowsLife, LoopLife, o
  <2> QED
    BY <1>2, <1>3, <1>4, <2>1, <2>2, NoMetadataType DEF o
<1>6. CASE Requeue(l)
  <2>1. n < MaxRetries /\ n \in 0 .. MaxRetries
    BY <1>2, <1>6, QueueAssumption DEF Requeue, RetriesLeft, n
  <2>2. PICK meta : meta = [retry_count |-> n + 1, next_retry_at |-> clock + Backoff[n]]
    OBVIOUS
  <2>3. meta \in Metadata /\ meta.retry_count = n + 1
    BY <1>1, <1>2, <2>1, <2>2, QueueAssumption DEF Metadata
  <2>4. UpdateOperationStatus(o, "pending", meta) /\ UNCHANGED settled
    BY <1>6, <2>2 DEF Requeue, o, n
  <2>5. attempts[o] <= MaxRetries
    BY <1>2, <1>3, <2>1, QueueAssumption
  <2>6. "store" \notin Env => meta.retry_count = attempts[o]
    BY <1>3, <2>3
  <2> QED
    BY <1>2, <1>3, <1>4, <2>3, <2>4, <2>5, <2>6 DEF o
<1>7. CASE GiveUp(l)
  <2>1. /\ UpdateOperationStatus(o, "failed", NoMetadata) /\ ~(n < MaxRetries)
        /\ settled' = settled \cup {o}
    BY <1>7 DEF GiveUp, RetriesLeft, o, n
  <2>2. "store" \notin Env => attempts[o] = MaxRetries + 1
    BY <1>2, <1>3, <2>1, QueueAssumption
  <2> QED
    BY <1>2, <1>3, <1>4, <2>1, <2>2, NoMetadataType DEF o
<1> QED
  BY <1>5, <1>6, <1>7 DEF EndStep

-----------------------------------------------------------------------------
(* Rows and copies *)

LEMMA TakeRows ==
  ASSUME IInv, RowsLife, NEW l \in Loops, Run(l), NEW e \in batch[l], TakeStep(l, e)
  PROVE  RowsLife'
<1> DEFINE o == e.id
<1>0. /\ TypeOK
      /\ operations \in [Ops -> Row] /\ clock \in Nat
      /\ attempts \in [Ops -> Nat] /\ pc \in [Loops -> PC]
      /\ batch \in [Loops -> SUBSET Entry]
      /\ current \in [Loops -> Entry \cup {NoEntry}]
      /\ NoEntry \notin Entry
  BY NoEntryAssumption DEF IInv, TypeOK, QueueTypeOK, StoreTypeOK
<1>1. /\ \A m \in Loops \ {l} : /\ batch[m] = {} /\ current[m] = NoEntry
                                /\ batch'[m] = {} /\ current'[m] = NoEntry
                                /\ pc'[m] # "await"
      /\ UNCHANGED interruptions
      /\ cancelling = {} => cancelling' = {}
  BY RunsAlone
<1>2. /\ e \in Entry /\ o \in Ops /\ pc[l] = "batch"
      /\ operations[o].status \in Lifecycle!Waiting \cup {"deleted"}
      /\ o \notin settled
      /\ "store" \notin Env => attempts[o] = e.retry_count
      /\ batch' = [batch EXCEPT ![l] = batch[l] \ {e}]
  BY EntryTaken
<1>3. \A m \in Loops : current[m] = NoEntry
  BY <1>1, <1>2 DEF IInv, TypeOK, QueueTypeOK
<1>4. /\ batch'[l] \subseteq batch[l]
      /\ \A f \in batch'[l] : f.id \in Ops \ {o}
  BY <1>0, <1>2 DEF IInv, BudgetInv, BatchBudget, Entry
<1> HIDE DEF o
<1>5. \A m \in Loops \ {l} : LoopLife(m)'
  BY <1>1 DEF LoopLife
<1>6. ASSUME \A p \in Ops \ {o} : /\ operations'[p] = operations[p]
                                  /\ attempts'[p] = attempts[p],
             settled' \in {settled, settled \cup {o}},
             RowLife(o)',
             current'[l] # NoEntry =>
               /\ current'[l].id \notin settled'
               /\ operations'[current'[l].id].status \in Lifecycle!Tried \cup {"deleted"}
               /\ "store" \notin Env =>
                    attempts'[current'[l].id] = current'[l].retry_count + 1,
             pc'[l] = "await" =>
               operations'[current'[l].id].status \in Lifecycle!Running \cup {"deleted"}
      PROVE  RowsLife'
  <2>1. \A p \in Ops \ {o} : RowLife(p)'
    BY <1>1, <1>3, <1>6 DEF RowsLife, RowLife
  <2>2. LoopLife(l)'
    BY <1>4, <1>6 DEF RowsLife, LoopLife
  <2> QED
    BY <1>1, <1>5, <1>6, <2>1, <2>2 DEF RowsLife
<1>7. ASSUME NEW s \in {"executing", "failed"}, UpdateOperationStatus(o, s, NoMetadata)
      PROVE  /\ \A p \in Ops \ {o} : operations'[p] = operations[p]
             /\ operations'[o].status \in {s, "deleted"}
  BY <1>0, <1>2, <1>7, RowMoved, NoMetadataType
<1>8. CASE /\ Begin(l, e) /\ UNCHANGED settled
           /\ UpdateOperationStatus(o, "executing", NoMetadata)
  <2>1. /\ current'[l] = e /\ attempts'[o] = attempts[o] + 1
        /\ \A p \in Ops \ {o} : attempts'[p] = attempts[p]
    BY <1>0, <1>2, <1>8 DEF Begin, o
  <2>2. /\ \A p \in Ops \ {o} : operations'[p] = operations[p]
        /\ operations'[o].status \in {"executing", "deleted"}
    BY <1>7, <1>8
  <2>3. RowLife(o)'
    BY <1>0, <1>2, <1>8, <2>1, <2>2 DEF RowLife, o
  <2> QED
    BY <1>2, <1>6, <1>8, <2>1, <2>2, <2>3, StatusSets DEF o
<1>9. CASE /\ RejectUnknown(l, e) /\ o \notin Registered
           /\ UpdateOperationStatus(o, "failed", NoMetadata)
           /\ settled' = settled \cup {o}
  <2>1. UNCHANGED <<current, attempts, pc>>
    BY <1>9 DEF RejectUnknown, historyVars
  <2>2. /\ \A p \in Ops \ {o} : operations'[p] = operations[p]
        /\ operations'[o].status \in {"failed", "deleted"}
    BY <1>7, <1>9
  <2>3. RowLife(o)'
    BY <1>9, <2>2 DEF RowLife
  <2> QED
    BY <1>2, <1>3, <1>6, <1>9, <2>1, <2>2, <2>3
<1>10. CASE /\ RejectUnknown(l, e) \/ BeginFails(l, e)
            /\ "store" \in Env /\ UNCHANGED <<operations, settled>>
  <2>1. UNCHANGED attempts
    BY <1>10 DEF RejectUnknown, BeginFails, historyVars
  <2>2. current'[l] \in {NoEntry, e} /\ pc'[l] # "await"
    BY <1>0, <1>2, <1>3, <1>10 DEF RejectUnknown, BeginFails
  <2>3. RowLife(o)'
    BY <1>2, <1>10 DEF RowsLife, RowLife, o
  <2> QED
    BY <1>2, <1>6, <1>10, <2>1, <2>2, <2>3, StatusSets DEF o
<1> QED
  BY <1>8, <1>9, <1>10, EntryTaken DEF o

LEMMA EndRows ==
  ASSUME IInv, RowsLife, NEW l \in Loops, Run(l), EndStep(l)
  PROVE  RowsLife'
<1>0. /\ TypeOK
      /\ operations \in [Ops -> Row] /\ clock \in Nat /\ pc \in [Loops -> PC]
      /\ batch \in [Loops -> SUBSET Entry]
      /\ current \in [Loops -> Entry \cup {NoEntry}]
      /\ NoEntry \notin Entry
  BY NoEntryAssumption DEF IInv, TypeOK, QueueTypeOK, StoreTypeOK
<1>1. /\ \A m \in Loops \ {l} : /\ batch[m] = {} /\ current[m] = NoEntry
                                /\ batch'[m] = {} /\ current'[m] = NoEntry
                                /\ pc'[m] # "await"
      /\ UNCHANGED interruptions
      /\ cancelling = {} => cancelling' = {}
  BY RunsAlone
<1>2. PICK o \in Ops, s \in {"completed", "pending", "failed"}, meta \in Metadata :
        /\ o = current[l].id /\ current[l] # NoEntry
        /\ operations[o].status \in Lifecycle!Tried \cup {"deleted"}
        /\ NextEntry(l) /\ o \notin settled
        /\ UpdateOperationStatus(o, s, meta)
        /\ settled' = settled \cup IF s = "pending" THEN {} ELSE {o}
        /\ s = "pending" /\ "store" \notin Env => meta.retry_count = attempts[o]
        /\ s = "failed" /\ "store" \notin Env => attempts[o] = MaxRetries + 1
  BY ExecutionEnds
<1>3. /\ UNCHANGED <<attempts, batch>>
      /\ current'[l] = NoEntry /\ pc'[l] # "await"
  BY <1>0, <1>2 DEF EndStep, Complete, Requeue, GiveUp, NextEntry, historyVars
<1>4. /\ \A p \in Ops \ {o} : operations'[p] = operations[p]
      /\ \/ operations'[o].status = s /\ operations'[o].metadata = meta
         \/ operations'[o].status = "deleted"
  BY <1>0, <1>2, RowMoved
<1>5. \A p \in Ops \ {o} : RowLife(p)'
  BY <1>1, <1>2, <1>3, <1>4 DEF RowsLife, RowLife
<1>6. RowLife(o)'
  BY <1>2, <1>3, <1>4 DEF RowLife
<1>7. \A e \in batch[l] : e.id \in Ops \ {o}
  BY <1>0, <1>2 DEF IInv, BudgetInv, BatchBudget, Entry
<1>8. LoopLife(l)'
  BY <1>2, <1>3, <1>4, <1>7 DEF LoopLife, RowsLife
<1>9. \A m \in Loops \ {l} : LoopLife(m)'
  BY <1>1 DEF LoopLife
<1> QED
  BY <1>1, <1>5, <1>6, <1>8, <1>9 DEF RowsLife

LEMMA RowsStep ==
  ASSUME IInv, RowsLife, [Next]_vars PROVE RowsLife'
<1>0. /\ TypeOK
      /\ operations \in [Ops -> Row] /\ attempts \in [Ops -> Nat] /\ clock \in Nat
      /\ pc \in [Loops -> PC] /\ batch \in [Loops -> SUBSET Entry]
      /\ current \in [Loops -> Entry \cup {NoEntry}]
      /\ interruptions \in Nat
      /\ NoEntry \notin Entry
  BY NoEntryAssumption, InterruptionsAssumption
     DEF IInv, TypeOK, QueueTypeOK, StoreTypeOK
<1>1. ASSUME NEW l \in Loops, TaskStart(l) PROVE RowsLife'
  BY <1>0, <1>1, RowsKept DEF TaskStart, Spawn, storeVars, historyVars
<1>2. ASSUME NEW l \in Loops, Deliver(l) PROVE RowsLife'
  <2>1. interruptions' = 0 => cancelling # {} /\ interruptions = 0
    BY <1>2 DEF Deliver
  <2>2. interruptions' # 0
    BY <2>1 DEF RowsLife
  <2> QED
    BY <1>0, <1>2, <2>2, RowsKept DEF Deliver, Leave, storeVars, historyVars
<1>3. ASSUME NEW l \in Loops, Run(l) PROVE RowsLife'
  <2>1. /\ \A m \in Loops \ {l} : /\ batch[m] = {} /\ current[m] = NoEntry
                                  /\ batch'[m] = {} /\ current'[m] = NoEntry
                                  /\ pc'[m] # "await"
        /\ LoopStep(l) /\ UNCHANGED interruptions
        /\ cancelling = {} => cancelling' = {}
    BY <1>3, RunsAlone
  <2>2. CASE Poll(l)
    <3>1. UNCHANGED <<operations, attempts, current, settled>> /\ pc'[l] # "await"
      BY <1>0, <2>2 DEF Poll, storeVars, historyVars
    <3>2. PICK S \in SUBSET PendingOps :
            batch' = [batch EXCEPT ![l] = {EntryOf(o) : o \in S}]
      BY <2>2 DEF Poll
    <3>3. \A e \in batch'[l] : \E o \in S : e = EntryOf(o)
      BY <1>0, <3>2
    <3>4. \A e \in batch'[l] :
            /\ e.id \in Ops /\ operations[e.id].status = "pending"
            /\ e.retry_count = operations[e.id].metadata.retry_count
      BY <3>3 DEF EntryOf, PendingOps
    <3>5. LoopLife(l)'
      BY <3>1, <3>4, StatusSets DEF LoopLife, RowsLife, RowLife
    <3>6. \A m \in Loops \ {l} : LoopLife(m)'
      BY <2>1 DEF LoopLife
    <3>7. \A o \in Ops : RowLife(o)'
      BY <2>1, <3>1 DEF RowsLife, RowLife
    <3> QED
      BY <2>1, <3>5, <3>6, <3>7 DEF RowsLife
  <2>3. CASE IdleStep(l) /\ ~Poll(l)
    <3>1. UNCHANGED <<operations, attempts, settled>>
      BY <2>3, IdleKeeps
    <3>2. /\ \A m \in Loops : batch'[m] \subseteq batch[m]
          /\ pc'[l] # "await" /\ current'[l] \in {current[l], NoEntry}
          /\ "store" \notin Env => current'[l] = current[l]
      BY <1>0, <2>3
         DEF IdleStep, Enter, Exit, PollFails, EndBatch, Wake, Timeout,
             CompleteFails, HandleFails, NextEntry, Leave, TypeOK, QueueTypeOK
    <3>3. "store" \notin Env => current' = current
      <4>1. current' \in [Loops -> Entry \cup {NoEntry}]
        BY <1>0, <2>3
           DEF IdleStep, Enter, Exit, PollFails, EndBatch, Wake, Timeout,
               CompleteFails, HandleFails, NextEntry, Leave
      <4>2. "store" \notin Env => \A m \in Loops : current'[m] = current[m]
        BY <2>1, <3>2
      <4> QED
        BY <1>0, <4>1, <4>2
    <3> QED
      BY <1>0, <2>1, <3>1, <3>2, <3>3, RowsKept
  <2> QED
    BY <1>3, <2>1, <2>2, <2>3, KindsOfSteps, TakeRows, EndRows
<1>4. CASE TaskStop
  BY <1>0, <1>4, RowsKept DEF TaskStop, storeVars, loopVars, historyVars
<1>5. CASE Crash
  BY <1>0, <1>5, RowsKept DEF Crash, storeVars, historyVars
<1>6. CASE Environment
  <2>1. UNCHANGED <<cancelling, interruptions>>
    BY <1>6 DEF Environment
  <2>2. ASSUME ThreadStep \/ TimePasses PROVE RowsLife'
    BY <1>0, <2>1, <2>2, RowsKept
       DEF ThreadStep, Apply, Return, TimePasses, Tick, storeVars, loopVars,
           historyVars
  <2>3. /\ \A l \in Loops : \A e \in batch[l] : e.id \in Ops
        /\ \A l \in Loops : current[l] # NoEntry => current[l].id \in Ops
        /\ \A l \in Loops : pc[l] = "await" => current[l] # NoEntry
    BY <1>0 DEF Entry, TypeOK, QueueTypeOK
  <2>4. ASSUME UNCHANGED <<pc, batch, current, attempts, settled>>,
               \A o \in Ops : RowLife(o)',
               \A o \in Ops :
                 /\ operations[o].status \in Lifecycle!Waiting \cup {"deleted"} =>
                      operations'[o].status \in Lifecycle!Waiting \cup {"deleted"}
                 /\ operations[o].status \in Lifecycle!Tried \cup {"deleted"} =>
                      operations'[o].status \in Lifecycle!Tried \cup {"deleted"}
                 /\ operations[o].status \in Lifecycle!Running \cup {"deleted"} =>
                      operations'[o].status \in Lifecycle!Running \cup {"deleted"}
        PROVE  RowsLife'
    <3>1. \A l \in Loops : LoopLife(l)'
      BY <2>3, <2>4 DEF RowsLife, LoopLife
    <3> QED
      BY <2>1, <2>4, <3>1 DEF RowsLife
  <2>5. ASSUME NEW o \in Ops, Submit(o) PROVE RowsLife'
    <3>1. /\ operations[o].status = "absent"
          /\ operations'[o].status = "pending"
          /\ operations'[o].metadata.retry_count = 0
          /\ \A p \in Ops \ {o} : operations'[p] = operations[p]
      BY <1>0, <2>5, NoMetadataType DEF Submit, CreateOperation, AbsentRow, Row
    <3>2. UNCHANGED <<pc, batch, current, attempts, settled>>
      BY <2>5 DEF Submit, loopVars, historyVars
    <3>3. attempts[o] = 0
      BY <3>1 DEF IInv, BudgetInv, RowBudget
    <3>4. \A p \in Ops : RowLife(p)'
      BY <2>1, <3>1, <3>2, <3>3 DEF RowsLife, RowLife
    <3> QED
      BY <2>4, <3>1, <3>2, <3>4, StatusSets
  <2>6. ASSUME NEW o \in Ops, CancelOperation(o) PROVE RowsLife'
    <3>1. /\ "cancel" \in Env
          /\ UpdateOperationStatus(o, "cancelled", NoMetadata)
          /\ UNCHANGED <<pc, batch, current, attempts, settled>>
      BY <2>6 DEF CancelOperation, loopVars, historyVars
    <3>2. /\ operations'[o].status = "cancelled" \/ operations'[o] = operations[o]
          /\ \A p \in Ops \ {o} : operations'[p] = operations[p]
      BY <1>0, <3>1, CancelEffect
    <3>3. \A p \in Ops : RowLife(p)'
      BY <2>1, <3>1, <3>2 DEF RowsLife, RowLife
    <3> QED
      BY <2>4, <3>1, <3>2, <3>3, StatusSets
  <2>7. ASSUME ExpireOld PROVE RowsLife'
    <3>1. /\ \A o \in Ops : \/ operations'[o] = operations[o]
                            \/ operations'[o].status = "deleted"
          /\ UNCHANGED <<pc, batch, current, attempts, settled>>
      BY <1>0, <2>7, AbsentRowType
         DEF ExpireOld, ExpireOldOperations, AbsentRow, loopVars, historyVars
    <3>2. \A o \in Ops : RowLife(o)'
      BY <2>1, <3>1 DEF RowsLife, RowLife
    <3> QED
      BY <2>4, <3>1, <3>2
  <2> QED
    BY <1>6, <2>2, <2>5, <2>6, <2>7 DEF Environment, EnvironmentStep, ClientStep
<1>7. CASE UNCHANGED vars
  BY <1>0, <1>7, RowsKept DEF vars, queueVars
<1> QED
  BY <1>1, <1>2, <1>3, <1>4, <1>5, <1>6, <1>7 DEF Next

-----------------------------------------------------------------------------
(* Stamps *)

\* The stamps of a row that an update moves, if it is still there.
LEMMA StampMoved ==
  ASSUME operations \in [Ops -> Row], clock \in Nat \ {0}, NEW o \in Ops,
         StampLife(o), NEW meta \in Metadata,
         NEW s \in {"executing", "completed", "pending", "failed", "cancelled"},
         UpdateOperationStatus(o, s, meta),
         "cancel" \notin Env =>
           /\ s # "cancelled"
           /\ operations[o].status \in {"executing", "pending", "deleted"}
           /\ s = "completed" => operations[o].status # "pending",
         UNCHANGED clock
  PROVE  StampLife(o)'
<1>1. /\ operations[o] \in Row /\ operations[o].created_at \in Nat
      /\ operations[o].executed_at \in Nat /\ operations[o].completed_at \in Nat
  BY DEF Row
<1>2. CASE operations[o].status \notin OperationStatus
  <2>1. operations'[o] = operations[o]
    BY <1>2 DEF UpdateOperationStatus, Present
  <2> QED
    BY <2>1 DEF StampLife
<1>3. CASE operations[o].status \in OperationStatus
  <2>2. operations'[o] = UpdatedRow(operations[o], s, meta)
    BY <1>3 DEF UpdateOperationStatus, Present
  <2>3. /\ operations'[o].status = s
        /\ operations'[o].created_at = operations[o].created_at
        /\ operations'[o].executed_at =
             Coalesce(operations[o].executed_at, IF s = "executing" THEN clock ELSE NULL)
        /\ operations'[o].completed_at =
             Coalesce(operations[o].completed_at, IF s \in Finished THEN clock ELSE NULL)
    BY <1>1, <2>2 DEF UpdatedRow, Row
  <2>4. operations[o].status # "deleted"
    BY <1>3 DEF OperationStatus
  <2> QED
    BY <1>1, <1>3, <2>3, <2>4 DEF StampLife, Coalesce, Finished
<1> QED
  BY <1>2, <1>3

\* The rows of other operations, and all rows when time passes.
LEMMA StampKept ==
  ASSUME operations \in [Ops -> Row], clock \in Nat, clock' \in Nat,
         clock' >= clock, NEW o \in Ops, StampLife(o), operations'[o] = operations[o]
  PROVE  StampLife(o)'
<1>1. operations[o].created_at \in Nat /\ operations[o].executed_at \in Nat
  BY DEF Row
<1> QED
  BY <1>1 DEF StampLife

LEMMA StampsStep ==
  ASSUME IInv, RowsLife, StampsLife, [Next]_vars PROVE StampsLife'
<1>0. operations \in [Ops -> Row] /\ clock \in Nat \ {0}
  BY DEF IInv, TypeOK, QueueTypeOK, StoreTypeOK
<1>1. ASSUME UNCHANGED operations, clock' \in Nat, clock' >= clock PROVE StampsLife'
  BY <1>0, <1>1, StampKept DEF StampsLife
<1>2. ASSUME NEW o \in Ops, UNCHANGED clock, StampLife(o)',
             \A p \in Ops \ {o} : operations'[p] = operations[p]
      PROVE  StampsLife'
  BY <1>0, <1>2, StampKept DEF StampsLife
<1>3. ASSUME NEW o \in Ops, UNCHANGED clock, NEW meta \in Metadata,
             NEW s \in {"executing", "completed", "pending", "failed", "cancelled"},
             UpdateOperationStatus(o, s, meta),
             \/ s = "cancelled" /\ "cancel" \in Env
             \/ /\ s # "cancelled"
                /\ operations[o].status \in
                     Lifecycle!Waiting \cup Lifecycle!Tried \cup {"deleted"}
                /\ s = "completed" =>
                     operations[o].status \in Lifecycle!Running \cup {"deleted"}
      PROVE  StampsLife'
  <2>0. "cancel" \notin Env =>
          /\ s # "cancelled"
          /\ operations[o].status \in {"executing", "pending", "deleted"}
          /\ s = "completed" => operations[o].status # "pending"
    BY <1>3, StatusSets
  <2>1. StampLife(o)'
    BY <1>0, <1>3, <2>0, StampMoved DEF StampsLife
  <2>2. \A p \in Ops \ {o} : operations'[p] = operations[p]
    BY <1>0, <1>3, UpdateEffect DEF OperationStatus
  <2> QED
    BY <1>2, <1>3, <2>1, <2>2
<1>4. ASSUME NEW l \in Loops, Run(l) PROVE StampsLife'
  <2>1. LoopStep(l)
    BY <1>4 DEF Run
  <2>2. CASE IdleStep(l)
    BY <1>0, <1>1, <2>2, IdleKeeps
  <2>3. ASSUME NEW e \in batch[l], TakeStep(l, e) PROVE StampsLife'
    <3>1. UNCHANGED clock
      BY <2>3 DEF TakeStep, RejectUnknown, Begin, BeginFails, storeVars
    <3>2. /\ e.id \in Ops
          /\ operations[e.id].status \in Lifecycle!Waiting \cup {"deleted"}
          /\ \/ UpdateOperationStatus(e.id, "executing", NoMetadata)
             \/ UpdateOperationStatus(e.id, "failed", NoMetadata)
             \/ UNCHANGED operations
      BY <2>3, EntryTaken
    <3>3. CASE UNCHANGED operations
      BY <1>0, <1>1, <3>1, <3>3
    <3> QED
      BY <1>3, <3>1, <3>2, <3>3, NoMetadataType
  <2>4. CASE EndStep(l)
    <3>1. UNCHANGED clock
      BY <2>4 DEF EndStep, Complete, Requeue, GiveUp, NextEntry
    <3>2. PICK o \in Ops, s \in {"completed", "pending", "failed"}, meta \in Metadata :
            /\ operations[o].status \in Lifecycle!Tried \cup {"deleted"}
            /\ UpdateOperationStatus(o, s, meta)
            /\ s = "completed" =>
                 operations[o].status \in Lifecycle!Running \cup {"deleted"}
      BY <2>4, ExecutionEnds
    <3> QED
      BY <1>3, <3>1, <3>2
  <2> QED
    BY <2>1, <2>2, <2>3, <2>4, KindsOfSteps
<1>5. ASSUME \/ \E l \in Loops : TaskStart(l) \/ Deliver(l)
             \/ TaskStop \/ Crash \/ ThreadStep \/ TimePasses
             \/ UNCHANGED vars
      PROVE  StampsLife'
  BY <1>0, <1>1, <1>5
     DEF TaskStart, Spawn, Deliver, TaskStop, Crash, ThreadStep, Apply, Return,
         TimePasses, Tick, storeVars, vars, queueVars
<1>6. ASSUME NEW o \in Ops, Submit(o) PROVE StampsLife'
  <2>1. /\ UNCHANGED clock
        /\ \A p \in Ops \ {o} : operations'[p] = operations[p]
        /\ operations'[o].status = "pending"
        /\ operations'[o].created_at = clock
        /\ operations'[o].executed_at = NULL /\ operations'[o].completed_at = NULL
    BY <1>0, <1>6 DEF Submit, CreateOperation, AbsentRow
  <2>2. StampLife(o)'
    BY <1>0, <2>1 DEF StampLife
  <2> QED
    BY <1>2, <2>1, <2>2
<1>7. ASSUME NEW o \in Ops, CancelOperation(o) PROVE StampsLife'
  BY <1>3, <1>7, NoMetadataType DEF CancelOperation
<1>8. ASSUME ExpireOld PROVE StampsLife'
  <2>1. /\ UNCHANGED clock
        /\ \A o \in Ops : \/ operations'[o] = operations[o]
                          \/ operations'[o] = [AbsentRow EXCEPT !.status = "deleted"]
    BY <1>0, <1>8 DEF ExpireOld, ExpireOldOperations
  <2>2. ASSUME NEW o \in Ops, operations'[o] = [AbsentRow EXCEPT !.status = "deleted"]
        PROVE  StampLife(o)'
    <3>1. /\ operations'[o].status = "deleted" /\ operations'[o].created_at = NULL
          /\ operations'[o].executed_at = NULL
      BY <2>2 DEF AbsentRow
    <3> QED
      BY <1>0, <2>1, <3>1 DEF StampLife
  <2> QED
    BY <1>0, <2>1, <2>2, StampKept DEF StampsLife
<1> QED
  BY <1>4, <1>5, <1>6, <1>7, <1>8
     DEF Next, Environment, EnvironmentStep, ClientStep

-----------------------------------------------------------------------------
(* Effects *)

\* The attempts that may still take effect are finitely many.
LEMMA UnlandedFinite ==
  ASSUME NEW k \in Nat, NEW S \in SUBSET (1 .. k)
  PROVE  IsFiniteSet(S) /\ Cardinality(S) \in Nat
<1>1. IsFiniteSet(1 .. k)
  BY FS_Interval
<1>2. IsFiniteSet(S)
  BY <1>1, FS_Subset
<1> QED
  BY <1>2, FS_CardinalityType

\* A step after which every thread was there before, perhaps with somebody
\* else waiting for it, adds no effect to come.
LEMMA CallsKept ==
  ASSUME TypeOK, CallsLife, UNCHANGED <<attempts, effects>>,
         NEW f, inflight' \subseteq {f[d] : d \in inflight},
         \A d \in inflight : /\ f[d].op = d.op /\ f[d].n = d.n
                             /\ f[d].applied = d.applied
  PROVE  CallsLife'
<1>1. \A c \in inflight' : \E d \in inflight : c = f[d]
  OBVIOUS
<1>2. /\ \A c \in inflight' : c.n \in 1 .. attempts'[c.op]
      /\ \A c, d \in inflight' : c.op = d.op /\ c.n = d.n => c = d
  BY <1>1 DEF CallsLife
<1>3. ASSUME NEW o \in Ops
      PROVE  effects'[o] + Cardinality(Unlanded(o)') <= attempts'[o]
  <2>1. attempts[o] \in Nat /\ effects[o] \in Nat
    BY DEF TypeOK, QueueTypeOK
  <2>2. Unlanded(o)' \in SUBSET Unlanded(o)
    BY <1>1 DEF Unlanded
  <2>3. Unlanded(o) \in SUBSET (1 .. attempts[o])
    BY DEF Unlanded
  <2>4. IsFiniteSet(Unlanded(o)) /\ Cardinality(Unlanded(o)) \in Nat
    BY <2>1, <2>3, UnlandedFinite
  <2>5. Unlanded(o)' \in SUBSET (1 .. attempts[o])
    BY <2>2, <2>3
  <2>6. Cardinality(Unlanded(o)') \in Nat
    BY <2>1, <2>5, UnlandedFinite
  <2>7. Cardinality(Unlanded(o)') <= Cardinality(Unlanded(o))
    BY <2>2, <2>4, FS_Subset
  <2>8. effects[o] + Cardinality(Unlanded(o)) <= attempts[o]
    BY DEF CallsLife
  <2> QED
    BY <2>1, <2>4, <2>6, <2>7, <2>8
<1> QED
  BY <1>2, <1>3 DEF CallsLife

\* The threads of a loop that is abandoned.
LEMMA CallsAbandoned ==
  ASSUME TypeOK, CallsLife, UNCHANGED <<attempts, effects>>, NEW l,
         inflight' = Abandoned(l)
  PROVE  CallsLife'
<1> DEFINE f == [d \in inflight |-> [d EXCEPT !.waiter = IF @ = l THEN Nobody ELSE @]]
<1>1. inflight \subseteq Call
  BY DEF TypeOK, QueueTypeOK
<1>2. \A d \in inflight : /\ f[d].op = d.op /\ f[d].n = d.n
                          /\ f[d].applied = d.applied
  BY <1>1 DEF Call
<1>3. inflight' \subseteq {f[d] : d \in inflight}
  BY DEF Abandoned
<1> HIDE DEF f
<1> QED
  BY <1>2, <1>3, CallsKept

\* The steps that touch no thread, or end some.
LEMMA CallsFewer ==
  ASSUME TypeOK, CallsLife, UNCHANGED <<attempts, effects>>, inflight' \subseteq inflight
  PROVE  CallsLife'
<1> DEFINE f == [d \in inflight |-> d]
<1>1. inflight' \subseteq {f[d] : d \in inflight}
  OBVIOUS
<1>2. \A d \in inflight : f[d] = d
  OBVIOUS
<1> HIDE DEF f
<1> QED
  BY <1>1, <1>2, CallsKept

\* A call lands: it was among those of its operation yet to land.
LEMMA CallLands ==
  ASSUME TypeOK, CallsLife, NEW c \in inflight, Apply(c)
  PROVE  effects[c.op] < attempts[c.op] /\ CallsLife'
<1> DEFINE o == c.op
           k == c.n
           d == [c EXCEPT !.applied = TRUE]
<1>1. /\ c \in Call /\ o \in Ops /\ inflight \subseteq Call
      /\ attempts \in [Ops -> Nat] /\ effects \in [Ops -> Nat]
  BY DEF TypeOK, QueueTypeOK, Call
<1>2. d.op = o /\ d.n = k /\ d.applied
  BY <1>1 DEF Call
<1>3. /\ ~c.applied /\ inflight' = (inflight \ {c}) \cup {d}
      /\ effects' = [effects EXCEPT ![o] = @ + 1] /\ attempts' = attempts
  BY DEF Apply
<1> HIDE DEF d
<1>4. \A b \in inflight : b.op = o /\ b.n = k => b = c
  BY DEF CallsLife
<1>5. k \in 1 .. attempts[o] /\ k \in Unlanded(o)
  BY <1>3 DEF CallsLife, Unlanded
<1>6. Unlanded(o)' = Unlanded(o) \ {k}
  <2>1. ASSUME NEW n \in Unlanded(o)' PROVE n \in Unlanded(o) \ {k}
    <3>1. PICK b \in inflight' : b.op = o /\ b.n = n /\ ~b.applied
      BY <2>1 DEF Unlanded
    <3>2. b \in inflight /\ b # c
      BY <1>2, <1>3, <3>1
    <3> QED
      BY <1>3, <1>4, <2>1, <3>1, <3>2 DEF Unlanded
  <2>2. ASSUME NEW n \in Unlanded(o) \ {k} PROVE n \in Unlanded(o)'
    <3>1. PICK b \in inflight : b.op = o /\ b.n = n /\ ~b.applied
      BY <2>2 DEF Unlanded
    <3>2. b \in inflight'
      BY <1>3, <2>2, <3>1
    <3> QED
      BY <1>3, <2>2, <3>1, <3>2 DEF Unlanded
  <2> QED
    BY <2>1, <2>2
<1>7. \A p \in Ops \ {o} : Unlanded(p)' = Unlanded(p)
  BY <1>2, <1>3 DEF Unlanded
<1>8. Unlanded(o) \in SUBSET (1 .. attempts[o]) /\ attempts[o] \in Nat
  BY <1>1 DEF Unlanded
<1>9. IsFiniteSet(Unlanded(o)) /\ Cardinality(Unlanded(o)) \in Nat
  BY <1>8, UnlandedFinite
<1>10. Cardinality(Unlanded(o) \ {k}) = Cardinality(Unlanded(o)) - 1
  BY <1>5, <1>9, FS_RemoveElement
<1>11. Unlanded(o) \ {k} \in SUBSET (1 .. attempts[o])
  BY <1>8
<1>12. Cardinality(Unlanded(o) \ {k}) \in Nat
  BY <1>8, <1>11, UnlandedFinite
<1>13. effects[o] + Cardinality(Unlanded(o)) <= attempts[o] /\ effects[o] \in Nat
  BY <1>1 DEF CallsLife
<1>14. effects[o] < attempts[o]
  BY <1>8, <1>9, <1>10, <1>12, <1>13
<1>15. effects'[o] + Cardinality(Unlanded(o)') <= attempts'[o]
  BY <1>1, <1>3, <1>6, <1>8, <1>9, <1>10, <1>12, <1>13
<1>16. \A p \in Ops \ {o} : effects'[p] + Cardinality(Unlanded(p)') <= attempts'[p]
  BY <1>1, <1>3, <1>7 DEF CallsLife
<1>17. /\ \A b \in inflight' : b.n \in 1 .. attempts'[b.op]
       /\ \A a, b \in inflight' : a.op = b.op /\ a.n = b.n => a = b
  BY <1>2, <1>3, <1>4, <1>5 DEF CallsLife
<1> QED
  BY <1>14, <1>15, <1>16, <1>17 DEF CallsLife

\* A new attempt is one that may land.
LEMMA CallBegins ==
  ASSUME TypeOK, CallsLife, NEW l \in Loops, NEW e \in batch[l], Begin(l, e)
  PROVE  CallsLife'
<1> DEFINE o == e.id
           k == attempts[o] + 1
           d == [op |-> o, n |-> k, waiter |-> l, applied |-> FALSE]
<1>1. /\ o \in Ops /\ attempts \in [Ops -> Nat] /\ effects \in [Ops -> Nat]
      /\ attempts[o] \in Nat /\ effects[o] \in Nat
      /\ \A c \in inflight : c.op \in Ops
  BY DEF TypeOK, QueueTypeOK, Entry, Call
<1>2. /\ inflight' = inflight \cup {d} /\ effects' = effects
      /\ attempts' = [attempts EXCEPT ![o] = @ + 1]
  BY DEF Begin
<1>3. d.op = o /\ d.n = k /\ ~d.applied
  OBVIOUS
<1> HIDE DEF d
<1>4. /\ attempts'[o] = k /\ k \in Nat
      /\ \A p \in Ops \ {o} : attempts'[p] = attempts[p]
  BY <1>1, <1>2
<1>5. \A c \in inflight : c.op = o => c.n # k
  BY <1>1 DEF CallsLife
<1>6. /\ \A c \in inflight' : c.n \in 1 .. attempts'[c.op]
      /\ \A b, c \in inflight' : b.op = c.op /\ b.n = c.n => b = c
  BY <1>1, <1>2, <1>3, <1>4, <1>5 DEF CallsLife
<1>7. Unlanded(o) \in SUBSET (1 .. attempts[o]) /\ k \notin Unlanded(o)
  BY <1>1 DEF Unlanded
<1>8. Unlanded(o)' = Unlanded(o) \cup {k}
  <2>1. ASSUME NEW n \in Unlanded(o)' PROVE n \in Unlanded(o) \cup {k}
    <3>1. PICK b \in inflight' : b.op = o /\ b.n = n /\ ~b.applied
      BY <2>1 DEF Unlanded
    <3>2. CASE b = d
      BY <1>3, <3>1, <3>2
    <3>3. CASE b \in inflight
      BY <3>1, <3>3 DEF CallsLife, Unlanded
    <3> QED
      BY <1>2, <3>2, <3>3
  <2>2. ASSUME NEW n \in Unlanded(o) PROVE n \in Unlanded(o)'
    <3>1. n \in 1 .. attempts[o] /\ \E b \in inflight : b.op = o /\ b.n = n /\ ~b.applied
      BY <2>2 DEF Unlanded
    <3>2. n \in 1 .. attempts'[o] /\ inflight \subseteq inflight'
      BY <1>1, <1>2, <1>4, <3>1
    <3> QED
      BY <3>1, <3>2 DEF Unlanded
  <2>3. k \in Unlanded(o)'
    BY <1>1, <1>2, <1>3, <1>4 DEF Unlanded
  <2> QED
    BY <2>1, <2>2, <2>3
<1>9. IsFiniteSet(Unlanded(o)) /\ Cardinality(Unlanded(o)) \in Nat
  BY <1>1, <1>7, UnlandedFinite
<1>10. Cardinality(Unlanded(o)') = Cardinality(Unlanded(o)) + 1
  BY <1>7, <1>8, <1>9, FS_AddElement
<1>11. effects'[o] + Cardinality(Unlanded(o)') <= attempts'[o]
  BY <1>1, <1>2, <1>4, <1>9, <1>10 DEF CallsLife
<1>12. \A p \in Ops \ {o} : Unlanded(p)' = Unlanded(p)
  BY <1>2, <1>3, <1>4 DEF Unlanded
<1>13. \A p \in Ops \ {o} : effects'[p] + Cardinality(Unlanded(p)') <= attempts'[p]
  BY <1>2, <1>4, <1>12 DEF CallsLife
<1> QED
  BY <1>6, <1>11, <1>13 DEF CallsLife

LEMMA CallsLifeStep ==
  ASSUME TypeOK, CallsLife, [Next]_vars PROVE CallsLife'
<1>1. ASSUME NEW l \in Loops, LoopStep(l) PROVE CallsLife'
  <2>1. CASE Timeout(l)
    BY <2>1, CallsAbandoned DEF Timeout, historyVars
  <2>2. CASE IdleStep(l) /\ ~Timeout(l)
    BY <2>2, CallsFewer
       DEF IdleStep, Enter, Exit, Poll, PollFails, EndBatch, Wake, CompleteFails,
           HandleFails, NextEntry, historyVars
  <2>3. ASSUME NEW e \in batch[l], RejectUnknown(l, e) \/ BeginFails(l, e)
        PROVE  CallsLife'
    BY <2>3, CallsFewer DEF RejectUnknown, BeginFails, historyVars
  <2>4. CASE EndStep(l)
    BY <2>4, CallsFewer
       DEF EndStep, Complete, Requeue, GiveUp, NextEntry, historyVars
  <2> QED
    BY <1>1, <2>1, <2>2, <2>3, <2>4, CallBegins, KindsOfSteps DEF TakeStep
<1>2. CASE TaskStop
  <2>1. UNCHANGED <<attempts, effects>>
    BY <1>2 DEF TaskStop, historyVars
  <2>2. inflight' = inflight \/ inflight' = Abandoned(task)
    BY <1>2 DEF TaskStop
  <2> QED
    BY <2>1, <2>2, CallsFewer, CallsAbandoned
<1>3. CASE Crash
  <2> DEFINE f == [d \in inflight |-> [d EXCEPT !.waiter = Nobody]]
  <2>1. inflight \subseteq Call
    BY DEF TypeOK, QueueTypeOK
  <2>2. \A d \in inflight : /\ f[d].op = d.op /\ f[d].n = d.n
                            /\ f[d].applied = d.applied
    BY <2>1 DEF Call
  <2>3. inflight' \subseteq {f[d] : d \in inflight}
    BY <1>3 DEF Crash
  <2>4. UNCHANGED <<attempts, effects>>
    BY <1>3 DEF Crash, historyVars
  <2> HIDE DEF f
  <2> QED
    BY <2>2, <2>3, <2>4, CallsKept
<1>4. ASSUME \/ \E l \in Loops : TaskStart(l) \/ Deliver(l)
             \/ ClientStep \/ TimePasses \/ UNCHANGED vars
      PROVE  CallsLife'
  BY <1>4, CallsFewer
     DEF TaskStart, Spawn, Deliver, ClientStep, Submit, CancelOperation,
         ExpireOld, TimePasses, vars, queueVars, historyVars
<1>5. CASE ThreadStep
  <2>1. ASSUME NEW c \in inflight, NEW r \in {"ok", "error"}, Return(c, r)
        PROVE  CallsLife'
    BY <2>1, CallsFewer DEF Return, historyVars
  <2> QED
    BY <1>5, <2>1, CallLands DEF ThreadStep
<1> QED
  BY <1>1, <1>2, <1>3, <1>4, <1>5 DEF Next, Run, Environment, EnvironmentStep

-----------------------------------------------------------------------------
(* Theorems *)

\* The invariant behind the life cycle is kept by every step, whatever goes
\* wrong around the queue, a cancellation of an operation in any state
\* included.
THEOREM LifecycleInvariant == Spec => []LifeInv
<1>1. Init => RowsLife /\ CallsLife /\ StampsLife
  <2> SUFFICES ASSUME Init PROVE RowsLife /\ CallsLife /\ StampsLife
    OBVIOUS
  <2>1. /\ operations = [o \in Ops |-> AbsentRow] /\ clock = 1
        /\ attempts = [o \in Ops |-> 0] /\ effects = [o \in Ops |-> 0]
        /\ settled = {} /\ inflight = {} /\ cancelling = {} /\ pc = [l \in Loops |-> "off"]
        /\ batch = [l \in Loops |-> {}] /\ current = [l \in Loops |-> NoEntry]
    BY DEF Init, QueueInit, StoreInit
  <2>2. RowsLife
    BY <2>1, AbsentRowType DEF RowsLife, RowLife, LoopLife
  <2>3. StampsLife
    BY <2>1 DEF StampsLife, StampLife, AbsentRow
  <2>4. \A o \in Ops : Unlanded(o) = {}
    BY <2>1 DEF Unlanded
  <2>5. CallsLife
    BY <2>1, <2>4, FS_EmptySet DEF CallsLife
  <2> QED
    BY <2>2, <2>3, <2>5
<1>2. IInv /\ RowsLife /\ CallsLife /\ StampsLife /\ [Next]_vars
        => RowsLife' /\ CallsLife' /\ StampsLife'
  BY RowsStep, CallsLifeStep, StampsStep DEF IInv
<1>3. RowsLife /\ CallsLife /\ StampsLife /\ IInv => LifeInv
  BY DEF LifeInv
<1> QED
  BY <1>1, <1>2, <1>3, InductiveInvariant, PTL DEF Spec

\* Every step of the queue is one of the life cycle, or none.
LEMMA LifecycleStep ==
  ASSUME LifeInv, [Next]_vars
  PROVE  [Lifecycle!Next]_(Lifecycle!lifecycleVars)
<1> DEFINE status == [o \in Ops |-> operations[o].status]
<1> USE DEF LifeInv
<1>0. /\ operations \in [Ops -> Row] /\ attempts \in [Ops -> Nat] /\ clock \in Nat
      /\ effects \in [Ops -> Nat] /\ inflight \subseteq Call
      /\ TypeOK
  BY DEF IInv, TypeOK, QueueTypeOK, StoreTypeOK
<1>1. ASSUME UNCHANGED <<operations, attempts, effects, settled>>
      PROVE  [Lifecycle!Next]_(Lifecycle!lifecycleVars)
  BY <1>1 DEF Lifecycle!lifecycleVars
<1>2. ASSUME NEW o \in Ops, \A p \in Ops \ {o} : operations'[p] = operations[p]
      PROVE  status' = [status EXCEPT ![o] = operations'[o].status]
  BY <1>2
<1>3. ASSUME NEW o \in Ops, NEW meta \in Metadata,
             operations[o].status \in
               Lifecycle!Waiting \cup Lifecycle!Tried \cup {"deleted"},
             NEW s \in {"executing", "completed", "pending", "failed", "cancelled"},
             UpdateOperationStatus(o, s, meta)
      PROVE  \/ /\ status[o] # "deleted" /\ status[o] = operations[o].status
                /\ status' = [status EXCEPT ![o] = s]
             \/ status[o] = "deleted" /\ operations' = operations
  <2>1. /\ operations' \in [Ops -> Row]
        /\ \A p \in Ops \ {o} : operations'[p] = operations[p]
        /\ \/ operations[o].status # "deleted" /\ operations'[o].status = s
           \/ operations[o].status = "deleted" /\ operations'[o] = operations[o]
    BY <1>0, <1>3, RowMoved
  <2>2. CASE operations[o].status # "deleted" /\ operations'[o].status = s
    BY <1>2, <1>3, <2>1, <2>2
  <2>3. CASE operations[o].status = "deleted" /\ operations'[o] = operations[o]
    BY <1>0, <2>1, <2>3
  <2> QED
    BY <2>1, <2>2, <2>3
<1>4. ASSUME NEW l \in Loops, Run(l)
      PROVE  [Lifecycle!Next]_(Lifecycle!lifecycleVars)
  <2>1. LoopStep(l)
    BY <1>4 DEF Run
  <2>2. CASE IdleStep(l)
    BY <1>1, <2>2, IdleKeeps
  <2>3. ASSUME NEW e \in batch[l], TakeStep(l, e)
        PROVE  [Lifecycle!Next]_(Lifecycle!lifecycleVars)
    <3>1. /\ e.id \in Ops
          /\ operations[e.id].status \in Lifecycle!Waiting \cup {"deleted"}
          /\ attempts[e.id] <= MaxRetries /\ e.id \notin settled
          /\ \/ /\ Begin(l, e) /\ e.id \in Registered /\ UNCHANGED settled
                /\ UpdateOperationStatus(e.id, "executing", NoMetadata)
             \/ /\ RejectUnknown(l, e) /\ e.id \notin Registered
                /\ UpdateOperationStatus(e.id, "failed", NoMetadata)
                /\ settled' = settled \cup {e.id}
             \/ /\ RejectUnknown(l, e) \/ BeginFails(l, e)
                /\ UNCHANGED <<operations, settled>>
      BY <2>3, EntryTaken
    <3>2. CASE /\ Begin(l, e) /\ e.id \in Registered /\ UNCHANGED settled
               /\ UpdateOperationStatus(e.id, "executing", NoMetadata)
      <4>1. /\ attempts' = [attempts EXCEPT ![e.id] = @ + 1]
            /\ UNCHANGED effects
            /\ attempts[e.id] < MaxRetries + 1
        BY <1>0, <3>1, <3>2, QueueAssumption DEF Begin
      <4>2. \/ /\ status[e.id] \in Lifecycle!Waiting
               /\ status' = [status EXCEPT ![e.id] = "executing"]
            \/ status[e.id] = "deleted" /\ status' = status
        BY <1>3, <3>1, <3>2, NoMetadataType
      <4>3. Lifecycle!Try(e.id)
        BY <3>1, <3>2, <4>1, <4>2
           DEF Lifecycle!Try, Lifecycle!Moves, Lifecycle!Gone
      <4> QED
        BY <3>1, <4>3 DEF Lifecycle!Next
    <3>3. CASE /\ RejectUnknown(l, e) /\ e.id \notin Registered
               /\ UpdateOperationStatus(e.id, "failed", NoMetadata)
               /\ settled' = settled \cup {e.id}
      <4>1. UNCHANGED <<attempts, effects>>
        BY <3>3 DEF RejectUnknown, historyVars
      <4>2. \/ /\ status[e.id] \in Lifecycle!Waiting
               /\ status' = [status EXCEPT ![e.id] = "failed"]
            \/ status[e.id] = "deleted" /\ status' = status
        BY <1>3, <3>1, <3>3, NoMetadataType
      <4>3. Lifecycle!Reject(e.id)
        BY <3>1, <3>3, <4>1, <4>2
           DEF Lifecycle!Reject, Lifecycle!Moves, Lifecycle!Gone, Lifecycle!Settles
      <4> QED
        BY <3>1, <4>3 DEF Lifecycle!Next
    <3>4. CASE /\ RejectUnknown(l, e) \/ BeginFails(l, e)
               /\ UNCHANGED <<operations, settled>>
      BY <1>1, <3>4 DEF RejectUnknown, BeginFails, historyVars
    <3> QED
      BY <3>1, <3>2, <3>3, <3>4
  <2>4. CASE EndStep(l)
    <3>1. PICK o \in Ops, s \in {"completed", "pending", "failed"}, meta \in Metadata :
            /\ operations[o].status \in Lifecycle!Tried \cup {"deleted"}
            /\ UpdateOperationStatus(o, s, meta) /\ o \notin settled
            /\ settled' = settled \cup IF s = "pending" THEN {} ELSE {o}
            /\ s = "completed" =>
                 /\ operations[o].status \in Lifecycle!Running \cup {"deleted"}
                 /\ effects[o] > 0
            /\ s = "pending" => attempts[o] <= MaxRetries
            /\ s = "failed" /\ "store" \notin Env => attempts[o] = MaxRetries + 1
      BY <2>4, ExecutionEnds
    <3>2. UNCHANGED <<attempts, effects>>
      BY <2>4 DEF EndStep, Complete, Requeue, GiveUp, NextEntry
    <3>3. \/ /\ status[o] # "deleted" /\ status[o] = operations[o].status
             /\ status' = [status EXCEPT ![o] = s]
          \/ /\ status[o] = "deleted" /\ status' = status
             /\ operations' = operations
      BY <1>3, <3>1
    <3>4. CASE s = "completed"
      <4>1. Lifecycle!Succeed(o)
        BY <3>1, <3>2, <3>3, <3>4
           DEF Lifecycle!Succeed, Lifecycle!Moves, Lifecycle!Gone, Lifecycle!Settles
      <4> QED
        BY <4>1 DEF Lifecycle!Next
    <3>5. CASE s = "failed"
      <4>1. Lifecycle!GiveUp(o)
        BY <3>1, <3>2, <3>3, <3>5
           DEF Lifecycle!GiveUp, Lifecycle!Moves, Lifecycle!Gone, Lifecycle!Settles
      <4> QED
        BY <4>1 DEF Lifecycle!Next
    <3>6. CASE s = "pending"
      <4>1. settled' = settled /\ attempts[o] < MaxRetries + 1
        BY <1>0, <3>1, <3>6, QueueAssumption
      <4>2. CASE operations' = operations
        BY <1>1, <3>2, <4>1, <4>2
      <4>3. CASE status[o] # "deleted" /\ status' = [status EXCEPT ![o] = s]
        <5>1. Lifecycle!TryAgain(o)
          BY <3>1, <3>2, <3>6, <4>1, <4>3 DEF Lifecycle!TryAgain, Lifecycle!Moves
        <5> QED
          BY <5>1 DEF Lifecycle!Next
      <4> QED
        BY <3>3, <4>2, <4>3
    <3> QED
      BY <3>1, <3>4, <3>5, <3>6
  <2> QED
    BY <2>1, <2>2, <2>3, <2>4, KindsOfSteps
<1>5. ASSUME \/ \E l \in Loops : TaskStart(l) \/ Deliver(l)
             \/ TaskStop \/ Crash \/ TimePasses \/ UNCHANGED vars
      PROVE  [Lifecycle!Next]_(Lifecycle!lifecycleVars)
  BY <1>1, <1>5
     DEF TaskStart, Spawn, Deliver, TaskStop, Crash, TimePasses, Tick, storeVars,
         historyVars, vars, queueVars
<1>6. ASSUME NEW c \in inflight, Apply(c) PROVE Lifecycle!Next
  <2>1. c.op \in Ops
    BY <1>0 DEF Call
  <2>2. effects[c.op] < attempts[c.op]
    BY <1>0, <1>6, CallLands
  <2>3. Lifecycle!Land(c.op)
    BY <1>6, <2>2 DEF Apply, Lifecycle!Land, storeVars
  <2> QED
    BY <2>1, <2>3 DEF Lifecycle!Next
<1>7. ASSUME NEW c \in inflight, NEW r \in {"ok", "error"}, Return(c, r)
      PROVE  [Lifecycle!Next]_(Lifecycle!lifecycleVars)
  BY <1>1, <1>7 DEF Return, storeVars, historyVars
<1>8. ASSUME NEW o \in Ops, Submit(o) PROVE Lifecycle!Next
  <2>1. /\ operations[o].status = "absent" /\ operations'[o].status = "pending"
        /\ \A p \in Ops \ {o} : operations'[p] = operations[p]
        /\ UNCHANGED <<attempts, effects, settled>>
    BY <1>0, <1>8 DEF Submit, CreateOperation, AbsentRow, historyVars
  <2>2. status' = [status EXCEPT ![o] = operations'[o].status]
    BY <1>2, <2>1
  <2>3. Lifecycle!Submit(o)
    BY <2>1, <2>2 DEF Lifecycle!Submit, Lifecycle!Moves
  <2> QED
    BY <2>3 DEF Lifecycle!Next
<1>9. ASSUME NEW o \in Ops, CancelOperation(o)
      PROVE  [Lifecycle!Next]_(Lifecycle!lifecycleVars)
  <2>1. /\ "cancel" \in Env
        /\ UpdateOperationStatus(o, "cancelled", NoMetadata)
        /\ UNCHANGED <<attempts, effects, settled>>
    BY <1>9 DEF CancelOperation, historyVars
  <2>2. /\ \A p \in Ops \ {o} : operations'[p] = operations[p]
        /\ \/ /\ operations[o].status \notin {"absent", "deleted"}
              /\ operations'[o].status = "cancelled"
           \/ operations'[o] = operations[o]
    BY <1>0, <2>1, CancelEffect
  <2>3. CASE /\ operations[o].status \notin {"absent", "deleted"}
             /\ operations'[o].status = "cancelled"
    <3>1. status' = [status EXCEPT ![o] = "cancelled"]
      BY <1>2, <2>2, <2>3
    <3>2. Lifecycle!Withdraw(o)
      BY <2>1, <2>3, <3>1 DEF Lifecycle!Withdraw
    <3> QED
      BY <3>2 DEF Lifecycle!Next
  <2>4. CASE operations'[o] = operations[o]
    <3>1. status' = status
      BY <2>2, <2>4
    <3> QED
      BY <2>1, <3>1 DEF Lifecycle!lifecycleVars
  <2> QED
    BY <2>2, <2>3, <2>4
<1>10. ASSUME ExpireOld PROVE Lifecycle!Next
  <2>1. PICK D \in SUBSET Ops :
          /\ D = {o \in Ops : Present(o) /\ operations[o].created_at + Retention < clock}
          /\ operations' = [o \in Ops |->
               IF o \in D THEN [AbsentRow EXCEPT !.status = "deleted"]
                          ELSE operations[o]]
    BY <1>10 DEF ExpireOld, ExpireOldOperations
  <2>2. "expire" \in Env /\ UNCHANGED <<attempts, effects, settled>>
    BY <1>10 DEF ExpireOld, historyVars
  <2>3. \A o \in D : o \in Ops /\ operations[o].status # "absent"
    BY <2>1 DEF Present, OperationStatus
  <2>4. [AbsentRow EXCEPT !.status = "deleted"].status = "deleted"
    BY DEF AbsentRow
  <2>5. status' = [o \in Ops |-> IF o \in D THEN "deleted" ELSE status[o]]
    BY <2>1, <2>4
  <2>6. Lifecycle!Delete(D)
    BY <2>2, <2>3, <2>5 DEF Lifecycle!Delete
  <2> QED
    BY <2>6 DEF Lifecycle!Next
<1> QED
  BY <1>4, <1>5, <1>6, <1>7, <1>8, <1>9, <1>10
     DEF Next, Environment, EnvironmentStep, ThreadStep, ClientStep

\* The queue, with its copies, threads, timeouts, stops and crashes, over a
\* database that may fail and rows that others cancel and delete, keeps what
\* OperationLifecycle promises to submitters.
THEOREM QueueImplementsLifecycle == Spec => ImplementsLifecycle
<1>1. Init => Lifecycle!Init
  BY DEF Init, QueueInit, StoreInit, AbsentRow, Lifecycle!Init
<1>2. LifeInv /\ [Next]_vars => [Lifecycle!Next]_(Lifecycle!lifecycleVars)
  BY LifecycleStep
<1> QED
  BY <1>1, <1>2, LifecycleInvariant, PTL
     DEF Spec, ImplementsLifecycle, Lifecycle!Spec

\* OperationLifecycle means what it promises: its actions keep the budget and
\* never report a success or a failure that did not happen; hence neither
\* does the queue (_execute_operation and what is around it).
THEOREM PromisesKept == Spec => []Lifecycle!Promises
<1> DEFINE status == [o \in Ops |-> operations[o].status]
           Counts == attempts \in [Ops -> Nat] /\ effects \in [Ops -> Nat]
           Kept == Counts /\ Lifecycle!Promises
<1> USE DEF Lifecycle!Promises
<1>1. Lifecycle!Init => Kept
  BY QueueAssumption DEF Lifecycle!Init
<1>2. Kept /\ [Lifecycle!Next]_(Lifecycle!lifecycleVars) => Kept'
  <2> SUFFICES ASSUME Kept, [Lifecycle!Next]_(Lifecycle!lifecycleVars) PROVE Kept'
    OBVIOUS
  <2> DEFINE Fine(o) ==
        /\ attempts[o] <= MaxRetries + 1
        /\ effects[o] <= attempts[o]
        /\ status[o] = "completed" => effects[o] > 0
        /\ status[o] = "failed" /\ o \in Registered /\ "store" \notin Env =>
             attempts[o] = MaxRetries + 1
        /\ status[o] \in {"completed", "failed"} => o \in settled
        /\ o \in settled => status[o] \notin {"absent", "pending", "executing"}
  <2>0. \A o \in Ops : Fine(o) /\ attempts[o] \in Nat /\ effects[o] \in Nat
    OBVIOUS
  <2>1. ASSUME NEW o \in Ops, Counts', Fine(o)',
               \A p \in Ops \ {o} : /\ attempts'[p] = attempts[p]
                                     /\ effects'[p] = effects[p]
                                     /\ status'[p] = status[p],
               settled' \in {settled, settled \cup {o}}
        PROVE  Kept'
    <3>1. \A p \in Ops \ {o} : Fine(p)'
      BY <2>0, <2>1
    <3> QED
      BY <2>1, <3>1
  <2> HIDE DEF status
  <2>2. ASSUME NEW o \in Ops, NEW from, NEW to, Lifecycle!Moves(o, from, to)
        PROVE  /\ status[o] \in from /\ status'[o] = to
               /\ \A p \in Ops \ {o} : status'[p] = status[p]
    BY <2>2 DEF Lifecycle!Moves, status
  <2>3. ASSUME NEW o \in Ops, Lifecycle!Submit(o) \/ Lifecycle!Withdraw(o)
        PROVE  Kept'
    <3>1. /\ \/ status[o] = "absent" /\ status'[o] = "pending"
             \/ status'[o] = "cancelled"
          /\ \A p \in Ops \ {o} : status'[p] = status[p]
          /\ UNCHANGED <<attempts, effects, settled>>
      <4>1. CASE Lifecycle!Submit(o)
        BY <2>2, <4>1 DEF Lifecycle!Submit
      <4>2. CASE Lifecycle!Withdraw(o)
        BY <4>2 DEF Lifecycle!Withdraw, status
      <4> QED
        BY <2>3, <4>1, <4>2
    <3> QED
      BY <2>0, <2>1, <3>1
  <2>4. ASSUME NEW o \in Ops, Lifecycle!Try(o) PROVE Kept'
    <3>1. /\ attempts[o] < MaxRetries + 1
          /\ attempts' = [attempts EXCEPT ![o] = @ + 1]
          /\ o \notin settled /\ UNCHANGED <<effects, settled>>
      BY <2>4 DEF Lifecycle!Try
    <3>2. /\ status'[o] \in {"executing", "deleted"}
          /\ \A p \in Ops \ {o} : status'[p] = status[p]
      BY <2>2, <2>4 DEF Lifecycle!Try, Lifecycle!Gone, status
    <3>3. attempts[o] + 1 <= MaxRetries + 1 /\ effects[o] <= attempts[o] + 1
      BY <2>0, <3>1, QueueAssumption
    <3>4. Counts' /\ attempts'[o] = attempts[o] + 1
      BY <2>0, <3>1
    <3> QED
      BY <2>0, <2>1, <3>1, <3>2, <3>3, <3>4
  <2>5. ASSUME NEW o \in Ops, Lifecycle!Land(o) PROVE Kept'
    <3>1. /\ effects[o] < attempts[o]
          /\ effects' = [effects EXCEPT ![o] = @ + 1]
          /\ UNCHANGED <<status, attempts, settled>>
      BY <2>5 DEF Lifecycle!Land, status
    <3>2. effects[o] + 1 <= attempts[o] /\ effects[o] + 1 > 0
      BY <2>0, <3>1
    <3>3. Counts' /\ effects'[o] = effects[o] + 1
      BY <2>0, <3>1
    <3> QED
      BY <2>0, <2>1, <3>1, <3>2, <3>3
  <2>6. ASSUME NEW o \in Ops, Lifecycle!TryAgain(o) PROVE Kept'
    <3>1. /\ status'[o] = "pending" /\ o \notin settled
          /\ \A p \in Ops \ {o} : status'[p] = status[p]
          /\ UNCHANGED <<attempts, effects, settled>>
      BY <2>2, <2>6 DEF Lifecycle!TryAgain
    <3> QED
      BY <2>0, <2>1, <3>1
  <2>7. ASSUME NEW o \in Ops,
               Lifecycle!Succeed(o) \/ Lifecycle!GiveUp(o) \/ Lifecycle!Reject(o)
        PROVE  Kept'
    <3>1. /\ \/ status'[o] = "completed" /\ effects[o] > 0
             \/ /\ status'[o] = "failed"
                /\ o \notin Registered \/ "store" \in Env
                     \/ attempts[o] = MaxRetries + 1
             \/ status'[o] = "deleted"
          /\ \A p \in Ops \ {o} : status'[p] = status[p]
          /\ UNCHANGED <<attempts, effects>> /\ settled' = settled \cup {o}
      BY <2>2, <2>7
         DEF Lifecycle!Succeed, Lifecycle!GiveUp, Lifecycle!Reject,
             Lifecycle!Gone, Lifecycle!Settles, status
    <3> QED
      BY <2>0, <2>1, <3>1
  <2>8. ASSUME NEW D \in SUBSET Ops, Lifecycle!Delete(D) PROVE Kept'
    <3>1. /\ status' = [o \in Ops |-> IF o \in D THEN "deleted" ELSE status[o]]
          /\ UNCHANGED <<attempts, effects, settled>>
      BY <2>8 DEF Lifecycle!Delete, status
    <3>2. \A o \in Ops : Fine(o)'
      BY <2>0, <3>1
    <3> QED
      BY <3>1, <3>2 DEF status
  <2>9. CASE UNCHANGED Lifecycle!lifecycleVars
    BY <2>9 DEF Lifecycle!lifecycleVars, status
  <2> QED
    BY <2>3, <2>4, <2>5, <2>6, <2>7, <2>8, <2>9 DEF Lifecycle!Next
<1> QED
  BY <1>1, <1>2, QueueImplementsLifecycle, PTL
     DEF ImplementsLifecycle, Lifecycle!Spec

\* The queue ends an operation once, whatever happens: what it is done with is
\* neither executed nor reported again, and a deleted row stays deleted.
THEOREM EndsAreFinal == Spec => EndIsFinal
<1>1. ASSUME LifeInv, [Next]_vars
      PROVE  \A o \in Ops :
               /\ o \in settled =>
                    /\ attempts'[o] = attempts[o]
                    /\ operations'[o].status
                         \in {operations[o].status, "cancelled", "deleted"}
               /\ operations[o].status = "deleted" => operations'[o] = operations[o]
  <2> DEFINE Final(o) ==
        /\ o \in settled =>
             /\ attempts'[o] = attempts[o]
             /\ operations'[o].status
                  \in {operations[o].status, "cancelled", "deleted"}
        /\ operations[o].status = "deleted" => operations'[o] = operations[o]
  <2> SUFFICES ASSUME NEW o \in Ops PROVE Final(o)
    OBVIOUS
  <2>0. /\ IInv /\ RowsLife /\ operations \in [Ops -> Row] /\ clock \in Nat
        /\ attempts \in [Ops -> Nat]
    BY <1>1 DEF LifeInv, IInv, TypeOK, QueueTypeOK, StoreTypeOK
  <2>1. ASSUME NEW p \in Ops, p \notin settled, NEW meta \in Metadata,
               \A q \in Ops \ {p} : attempts'[q] = attempts[q],
               operations[p].status \in
                 Lifecycle!Waiting \cup Lifecycle!Tried \cup {"deleted"},
               NEW s \in {"executing", "completed", "pending", "failed", "cancelled"},
               UpdateOperationStatus(p, s, meta)
        PROVE  Final(o)
    <3>1. /\ \A q \in Ops \ {p} : operations'[q] = operations[q]
          /\ operations[p].status = "deleted" => operations'[p] = operations[p]
      BY <2>0, <2>1, RowMoved
    <3> QED
      BY <2>1, <3>1
  <2>2. ASSUME NEW l \in Loops, LoopStep(l) PROVE Final(o)
    <3>1. CASE IdleStep(l)
      BY <3>1, IdleKeeps
    <3>2. ASSUME NEW e \in batch[l], TakeStep(l, e) PROVE Final(o)
      <4>1. /\ e.id \in Ops /\ e.id \notin settled
            /\ operations[e.id].status \in Lifecycle!Waiting \cup {"deleted"}
            /\ \/ UpdateOperationStatus(e.id, "executing", NoMetadata)
               \/ UpdateOperationStatus(e.id, "failed", NoMetadata)
               \/ UNCHANGED operations
        BY <2>0, <3>2, EntryTaken
      <4>2. \A q \in Ops \ {e.id} : attempts'[q] = attempts[q]
        BY <2>0, <3>2, <4>1 DEF TakeStep, RejectUnknown, Begin, BeginFails, historyVars
      <4>3. CASE UNCHANGED operations
        BY <4>1, <4>2, <4>3
      <4> QED
        BY <2>1, <4>1, <4>2, <4>3, NoMetadataType
    <3>3. CASE EndStep(l)
      <4>1. PICK p \in Ops, s \in {"completed", "pending", "failed"}, meta \in Metadata :
              /\ operations[p].status \in Lifecycle!Tried \cup {"deleted"}
              /\ UpdateOperationStatus(p, s, meta) /\ p \notin settled
        BY <2>0, <3>3, ExecutionEnds
      <4>2. UNCHANGED attempts
        BY <3>3 DEF EndStep, Complete, Requeue, GiveUp, NextEntry
      <4> QED
        BY <2>1, <4>1, <4>2
    <3> QED
      BY <2>2, <3>1, <3>2, <3>3, KindsOfSteps
  <2>3. ASSUME NEW p \in Ops, Submit(p) PROVE Final(o)
    <3>1. /\ operations[p].status = "absent" /\ UNCHANGED attempts
          /\ \A q \in Ops \ {p} : operations'[q] = operations[q]
      BY <2>0, <2>3 DEF Submit, CreateOperation, historyVars
    <3>2. p \notin settled
      BY <2>0, <3>1 DEF RowsLife, RowLife
    <3> QED
      BY <3>1, <3>2
  <2>4. ASSUME NEW p \in Ops, CancelOperation(p) PROVE Final(o)
    <3>1. UpdateOperationStatus(p, "cancelled", NoMetadata) /\ UNCHANGED attempts
      BY <2>4 DEF CancelOperation, historyVars
    <3> QED
      BY <2>0, <3>1, CancelEffect
  <2>5. ASSUME ExpireOld PROVE Final(o)
    BY <2>0, <2>5
       DEF ExpireOld, ExpireOldOperations, AbsentRow, Present, OperationStatus,
           historyVars
  <2>6. ASSUME \/ \E l \in Loops : TaskStart(l) \/ Deliver(l)
               \/ TaskStop \/ Crash \/ ThreadStep \/ TimePasses
               \/ UNCHANGED vars
        PROVE  Final(o)
    BY <2>6
       DEF TaskStart, Spawn, Deliver, TaskStop, Crash, ThreadStep, Apply, Return,
           TimePasses, Tick, storeVars, historyVars, vars, queueVars
  <2> QED
    BY <1>1, <2>2, <2>3, <2>4, <2>5, <2>6
       DEF Next, Run, Environment, EnvironmentStep, ClientStep
<1> QED
  BY <1>1, LifecycleInvariant, PTL DEF Spec, EndIsFinal

\* The calls of an operation that have not ended are of different attempts, so
\* there are no more of them than attempts, whoever still waits for them.
THEOREM ThreadsAreBounded == Spec => []ThreadsBounded
<1>1. LifeInv => ThreadsBounded
  <2> SUFFICES ASSUME LifeInv, NEW o \in Ops
               PROVE  Cardinality({c \in inflight : c.op = o}) <= MaxRetries + 1
    BY DEF ThreadsBounded
  <2> DEFINE Calls == {c \in inflight : c.op = o}
             Tries == 1 .. MaxRetries + 1
             number == [c \in Calls |-> c.n]
  <2>1. attempts[o] \in Nat /\ attempts[o] <= MaxRetries + 1
    BY DEF LifeInv, IInv, BudgetInv, RowBudget, TypeOK, QueueTypeOK
  <2>2. \A c \in Calls : c.n \in 1 .. attempts[o]
    BY DEF LifeInv, CallsLife
  <2>3. number \in Injection(Calls, Tries)
    <3>1. number \in [Calls -> Tries]
      BY <2>1, <2>2, QueueAssumption
    <3>2. \A c, d \in Calls : number[c] = number[d] => c = d
      BY DEF LifeInv, CallsLife
    <3> QED
      BY <3>1, <3>2 DEF Injection, IsInjective
  <2>4. IsFiniteSet(Tries) /\ Cardinality(Tries) = MaxRetries + 1
    BY QueueAssumption, FS_Interval
  <2> QED
    BY <2>3, <2>4, FS_Injection
<1> QED
  BY <1>1, LifecycleInvariant, PTL

\* Over a database that works, and unless a stop or a crash came, whatever is
\* executing has its loop.
THEOREM ExecutingOwned ==
  ASSUME "store" \notin Env PROVE Spec => []ExecutingIsOwned
<1>1. LifeInv => ExecutingIsOwned
  BY DEF LifeInv, RowsLife, RowLife, ExecutingIsOwned
<1> QED
  BY <1>1, LifecycleInvariant, PTL

\* Over a database that works, given up means exhausted: MaxRetries + 1
\* attempts, one more than the error message of the operation reports.
THEOREM FailedExhausted ==
  ASSUME "store" \notin Env PROVE Spec => []FailedOnlyWhenExhausted
<1>1. LifeInv => FailedOnlyWhenExhausted
  BY QueueAssumption
     DEF LifeInv, RowsLife, RowLife, FailedOnlyWhenExhausted, AttemptsReported
<1> QED
  BY <1>1, LifecycleInvariant, PTL

\* Created, executed, finished, in that order, as long as nobody cancels: a
\* cancellation stamps the end of an operation that may yet be executed.
THEOREM StampsInOrder ==
  ASSUME "cancel" \notin Env PROVE Spec => []StampsOrdered
<1>1. LifeInv => StampsOrdered
  BY DEF LifeInv, StampsLife, StampLife, StampsOrdered
<1> QED
  BY <1>1, LifecycleInvariant, PTL

=============================================================================
