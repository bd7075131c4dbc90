---------------------------- MODULE QueueProofs ----------------------------
(***************************************************************************)
(* Proofs, for every value of the constants, of the safety of              *)
(* QueueBackgroundTask: the inductive invariant of QueueInvariant and what *)
(* follows from it.                                                        *)
(***************************************************************************)
EXTENDS QueueInvariant, LoopProofs

USE DEF NULL

-----------------------------------------------------------------------------
(* Types and the locals of the loops *)

\* The queue, its owner and the process start well typed.
LEMMA InitTyped == Init => TypeOK
BY InitType, InterruptionsAssumption DEF Init, TypeOK

\* What the owner of the task and the death of the process leave well typed.
LEMMA TaskType ==
  ASSUME TypeOK,
         \/ \E l \in Loops : TaskStart(l) \/ Deliver(l)
         \/ TaskStop
         \/ Crash
  PROVE  TypeOK'
<1> USE QueueAssumption, InterruptionsAssumption DEF PC, Suspended
<1>1. ASSUME NEW l \in Loops, TaskStart(l) PROVE TypeOK'
  BY <1>1 DEF TypeOK, QueueTypeOK, StoreTypeOK, TaskStart, Spawn, storeVars,
              historyVars
<1>2. ASSUME NEW l \in Loops, Deliver(l) PROVE TypeOK'
  BY <1>2 DEF TypeOK, QueueTypeOK, StoreTypeOK, Deliver, Leave, storeVars,
              historyVars
<1>3. CASE TaskStop
  <2>1. inflight' \subseteq Call
    BY <1>3, AbandonedCalls DEF TaskStop, TaskDone, TypeOK, QueueTypeOK
  <2>2. QueueTypeOK'
    BY <1>3, <2>1
       DEF TypeOK, QueueTypeOK, StoreTypeOK, TaskStop, storeVars, loopVars,
           historyVars
  <2>3. interruptions' \in 0 .. MaxInterruptions
    BY <1>3 DEF TaskStop, TypeOK
  <2>4. task' \in Loops \cup {Nobody} /\ cancelling' \subseteq Loops
    BY <1>3 DEF TaskStop, TaskDone, TypeOK
  <2> QED
    BY <2>2, <2>3, <2>4 DEF TypeOK
<1>4. CASE Crash
  <2>1. \A c \in Call : [c EXCEPT !.waiter = Nobody] \in Call
    BY DEF Call
  <2>2. inflight' \subseteq Call
    BY <1>4, <2>1 DEF Crash, TypeOK, QueueTypeOK
  <2>3. QueueTypeOK'
    BY <1>4, <2>2
       DEF TypeOK, QueueTypeOK, StoreTypeOK, Crash, storeVars, historyVars
  <2>4. interruptions' \in 0 .. MaxInterruptions
    BY <1>4 DEF Crash, TypeOK
  <2> QED
    BY <1>4, <2>3, <2>4 DEF TypeOK, Crash
<1> QED
  BY <1>1, <1>2, <1>3, <1>4

\* Every step leaves the state well typed.
LEMMA TypeStep ==
  ASSUME TypeOK, CallsAwaited, [Next]_vars
  PROVE  TypeOK'
<1>1. ASSUME NEW l \in Loops, Run(l) PROVE TypeOK'
  BY <1>1, LoopType DEF Run, TypeOK
<1>2. CASE Environment
  BY <1>2, EnvironmentType DEF Environment, TypeOK
<1>3. CASE UNCHANGED vars
  BY <1>3 DEF vars, queueVars, TypeOK, QueueTypeOK, StoreTypeOK
<1> QED
  BY <1>1, <1>2, <1>3, TaskType DEF Next

-----------------------------------------------------------------------------
(* Who is alive, and whose flag it is *)

\* Every step keeps the task alone, cancellations to stopped loops, and the
\* flag with a loop.
LEMMA ControlStep ==
  ASSUME TypeOK, SoleTask, CancelsOfStopped, RunningHonoured, [Next]_vars
  PROVE  SoleTask' /\ CancelsOfStopped' /\ RunningHonoured'
<1> USE DEF SoleTask, CancelsOfStopped, RunningHonoured, Active
<1>0. /\ pc \in [Loops -> PC]
      /\ cancelling \subseteq Loops
      /\ task \in Loops \cup {Nobody}
  BY DEF TypeOK, QueueTypeOK
<1>1. ASSUME NEW l \in Loops, TaskStart(l)
      PROVE  SoleTask' /\ CancelsOfStopped' /\ RunningHonoured'
  <2>1. \A m \in Loops : pc[m] = "off"
    BY <1>1 DEF TaskStart, TaskDone
  <2>2. ~running
    BY <2>1
  <2> QED
    BY <1>0, <1>1, <2>1, <2>2 DEF TaskStart, Spawn
<1>2. ASSUME NEW l \in Loops, Deliver(l)
      PROVE  SoleTask' /\ CancelsOfStopped' /\ RunningHonoured'
  BY <1>0, <1>2 DEF Deliver, Leave
<1>3. ASSUME NEW l \in Loops, Run(l)
      PROVE  SoleTask' /\ CancelsOfStopped' /\ RunningHonoured'
  <2>1. LoopStep(l) /\ task' = task /\ cancelling' = cancelling \ {l}
    BY <1>3 DEF Run
  <2>2. /\ pc[l] # "off"
        /\ \A m \in Loops \ {l} : pc'[m] = pc[m]
    BY <2>1, LoopLocals DEF TypeOK
  <2>3. l = task /\ \A m \in Loops \ {l} : pc[m] = "off"
    BY <2>2
  <2>4. SoleTask'
    BY <2>1, <2>2, <2>3
  <2>5. cancelling' = {}
    BY <1>0, <2>1, <2>3
  <2>6. running' => pc'[l] \notin {"off", "created"}
    <3>1. CASE pc[l] = "created"
      <4>1. ~running
        BY <2>3, <3>1
      <4>2. Enter(l)
        BY <2>1, <3>1
           DEF LoopStep, Exit, Poll, PollFails, EndBatch, Wake, RejectUnknown,
               Begin, BeginFails, Takes, Timeout, Complete, CompleteFails,
               HasResult, Requeue, GiveUp, HandleFails, Failing
      <4> QED
        BY <1>0, <4>1, <4>2 DEF Enter
    <3>2. CASE pc[l] # "created"
      BY <2>1, <3>2, LoopFlag DEF TypeOK
    <3> QED
      BY <3>1, <3>2
  <2> QED
    BY <2>4, <2>5, <2>6
<1>4. CASE TaskStop
  <2>1. pc' = pc /\ task' = task /\ ~running'
    BY <1>4 DEF TaskStop, loopVars
  <2>2. \A l \in cancelling' : pc[l] \in {"created", "await", "sleep"}
    BY <1>0, <1>4 DEF TaskStop, TaskDone, Suspended
  <2> QED
    BY <2>1, <2>2
<1>5. CASE Crash
  BY <1>5 DEF Crash
<1>6. CASE Environment
  BY <1>6
     DEF Environment, EnvironmentStep, ThreadStep, ClientStep, Apply, Return,
         Submit, CancelOperation, ExpireOld, TimePasses, loopVars
<1>7. CASE UNCHANGED vars
  BY <1>7 DEF vars, queueVars
<1> QED
  BY <1>1, <1>2, <1>3, <1>4, <1>5, <1>6, <1>7 DEF Next

-----------------------------------------------------------------------------
(* Who waits for which thread *)

\* Every step keeps each awaited thread with the one loop that waits for it,
\* and nobody waits for one whose cancellation is pending.
LEMMA CallsStep ==
  ASSUME TypeOK, CallsAwaited, CancelledWaitForNone, [Next]_vars
  PROVE  CallsAwaited' /\ CancelledWaitForNone'
<1> USE QueueAssumption DEF CancelledWaitForNone
<1>0. /\ QueueTypeOK
      /\ pc \in [Loops -> PC]
      /\ inflight \subseteq Call
      /\ cancelling \subseteq Loops
  BY DEF TypeOK, QueueTypeOK
<1>1. ASSUME NEW l \in Loops, TaskStart(l)
      PROVE  CallsAwaited' /\ CancelledWaitForNone'
  BY <1>0, <1>1, SpawnCalls DEF TaskStart, Spawn
<1>2. ASSUME NEW l \in Loops, Deliver(l)
      PROVE  CallsAwaited' /\ CancelledWaitForNone'
  BY <1>0, <1>2 DEF Deliver, Leave, CallsAwaited, QueueTypeOK
<1>3. ASSUME NEW l \in Loops, Run(l)
      PROVE  CallsAwaited' /\ CancelledWaitForNone'
  <2>1. LoopStep(l) /\ cancelling' = cancelling \ {l}
    BY <1>3 DEF Run
  <2> QED
    BY <1>0, <2>1, LoopCalls
<1>4. CASE TaskStop
  <2>1. /\ pc' = pc /\ outcome' = outcome /\ current' = current
        /\ cancelling' \subseteq cancelling \cup {task}
    BY <1>4 DEF TaskStop, loopVars
  <2>2. CASE TaskDone
    BY <1>4, <2>1, <2>2 DEF TaskStop, CallsAwaited
  <2>3. CASE ~TaskDone
    <3>1. task \in Loops /\ inflight' = Abandoned(task)
      BY <1>4, <2>3 DEF TaskStop, TaskDone
    <3>2. \A c \in inflight' : /\ c.waiter # task
                               /\ c.waiter \in Loops => c \in inflight
      BY <1>0, <3>1, AbandonedCalls
    <3> QED
      BY <1>0, <2>1, <3>2 DEF CallsAwaited
  <2> QED
    BY <2>2, <2>3
<1>5. CASE Crash
  <2>1. \A c \in inflight' : c.waiter = Nobody
    <3>1. \A c \in Call : [c EXCEPT !.waiter = Nobody].waiter = Nobody
      BY DEF Call
    <3> QED
      BY <1>0, <1>5, <3>1 DEF Crash
  <2>2. cancelling' = {}
    BY <1>5 DEF Crash
  <2> QED
    BY <2>1, <2>2 DEF CallsAwaited
<1>6. CASE Environment
  BY <1>0, <1>6, EnvironmentCalls DEF Environment
<1>7. CASE UNCHANGED vars
  BY <1>7 DEF vars, queueVars, CallsAwaited
<1> QED
  BY <1>1, <1>2, <1>3, <1>4, <1>5, <1>6, <1>7 DEF Next

-----------------------------------------------------------------------------
(* Attempts *)

\* Every step keeps the budget.
LEMMA BudgetStep ==
  ASSUME TypeOK, SoleTask, BudgetInv, [Next]_vars
  PROVE  BudgetInv'
<1> USE QueueAssumption
<1>0. /\ pc \in [Loops -> PC]
      /\ batch \in [Loops -> SUBSET Entry]
      /\ current \in [Loops -> Entry \cup {NoEntry}]
      /\ operations \in [Ops -> Row]
      /\ clock \in Nat
      /\ attempts \in [Ops -> Nat]
  BY DEF TypeOK, QueueTypeOK, StoreTypeOK
<1>1. ASSUME NEW l \in Loops, TaskStart(l) PROVE BudgetInv'
  BY <1>1, BudgetKept DEF TypeOK, TaskStart, Spawn, storeVars, historyVars
<1>2. ASSUME NEW l \in Loops, Deliver(l) PROVE BudgetInv'
  BY <1>0, <1>2, BudgetKept DEF TypeOK, Deliver, Leave, storeVars, historyVars
<1>3. ASSUME NEW l \in Loops, Run(l) PROVE BudgetInv'
  <2>1. AtMostOneLoop
    BY DEF SoleTask, AtMostOneLoop, Active
  <2> QED
    BY <1>3, <2>1, LoopBudget DEF Run, TypeOK
<1>4. CASE TaskStop
  BY <1>4, BudgetKept DEF TypeOK, TaskStop, storeVars, loopVars, historyVars
<1>5. CASE Crash
  BY <1>5, BudgetKept DEF TypeOK, Crash, storeVars, historyVars
<1>6. CASE Environment
  BY <1>6, EnvironmentBudget DEF Environment, TypeOK
<1>7. CASE UNCHANGED vars
  BY <1>7, BudgetKept DEF TypeOK, vars, queueVars
<1> QED
  BY <1>1, <1>2, <1>3, <1>4, <1>5, <1>6, <1>7 DEF Next

-----------------------------------------------------------------------------
(* Effects *)

\* Every step keeps success behind the effect.
LEMMA EffectStep ==
  ASSUME TypeOK, CallsAwaited, EffectInv, [Next]_vars
  PROVE  EffectInv'
<1> USE QueueAssumption
<1>0. /\ outcome \in [Loops -> {"none", "ok", "error"}]
      /\ inflight \subseteq Call
      /\ current \in [Loops -> Entry \cup {NoEntry}]
      /\ operations \in [Ops -> Row]
      /\ clock \in Nat
      /\ effects \in [Ops -> Nat]
      /\ \A c \in inflight : c.op \in Ops
  BY DEF TypeOK, QueueTypeOK, StoreTypeOK, Call
<1>1. ASSUME NEW l \in Loops, TaskStart(l) PROVE EffectInv'
  BY <1>1, EffectKept DEF TaskStart, Spawn, storeVars, historyVars
<1>2. ASSUME NEW l \in Loops, Deliver(l) PROVE EffectInv'
  BY <1>0, <1>2, EffectKept DEF Deliver, Leave, storeVars, historyVars
<1>3. ASSUME NEW l \in Loops, Run(l) PROVE EffectInv'
  BY <1>3, LoopEffect DEF Run, TypeOK
<1>4. CASE TaskStop
  <2>1. \A c \in inflight' : c.applied =>
          \E d \in inflight : d.op = c.op /\ d.applied
    BY <1>0, <1>4, AbandonedCalls DEF TaskStop, TaskDone
  <2> QED
    BY <1>4, <2>1, EffectKept DEF TaskStop, storeVars, loopVars, historyVars
<1>5. CASE Crash
  <2>1. \A d \in Call : /\ [d EXCEPT !.waiter = Nobody].op = d.op
                        /\ [d EXCEPT !.waiter = Nobody].applied = d.applied
    BY DEF Call
  <2>2. \A c \in inflight' : \E d \in inflight :
          c = [d EXCEPT !.waiter = Nobody]
    BY <1>5 DEF Crash
  <2>3. ASSUME NEW c \in inflight', c.applied
        PROVE  \E d \in inflight : d.op = c.op /\ d.applied
    <3>1. PICK d \in inflight : c = [d EXCEPT !.waiter = Nobody]
      BY <2>2
    <3>2. d \in Call
      BY <1>0
    <3>3. c.op = d.op /\ c.applied = d.applied
      BY <2>1, <3>1, <3>2
    <3> QED
      BY <2>3, <3>3
  <2> QED
    BY <1>5, <2>3, EffectKept DEF Crash, storeVars, historyVars
<1>6. CASE Environment
  BY <1>6, EnvironmentEffect DEF Environment, TypeOK
<1>7. CASE UNCHANGED vars
  BY <1>7, EffectKept DEF vars, queueVars
<1> QED
  BY <1>1, <1>2, <1>3, <1>4, <1>5, <1>6, <1>7 DEF Next

-----------------------------------------------------------------------------
(* Theorems *)

\* The inductive invariant holds in every reachable state of the queue, its
\* threads, its owner, its clients and the process.
THEOREM InductiveInvariant == Spec => []IInv
<1>1. Init => IInv
  <2> SUFFICES ASSUME Init PROVE IInv
    OBVIOUS
  <2>1. /\ SoleTask /\ CancelsOfStopped /\ RunningHonoured
        /\ CallsAwaited /\ CancelledWaitForNone
    BY DEF Init, QueueInit, SoleTask, CancelsOfStopped, CallsAwaited,
           CancelledWaitForNone, RunningHonoured
  <2>2. BudgetInv
    BY QueueAssumption, AbsentRowType
       DEF Init, QueueInit, StoreInit, BudgetInv, RowBudget, BatchBudget,
           CurrentBudget
  <2>3. EffectInv
    BY AbsentRowType DEF Init, QueueInit, StoreInit, EffectInv
  <2> QED
    BY <2>1, <2>2, <2>3, InitTyped DEF IInv
<1>2. IInv /\ [Next]_vars => IInv'
  BY TypeStep, ControlStep, CallsStep, BudgetStep, EffectStep DEF IInv
<1> QED
  BY <1>1, <1>2, PTL DEF Spec

\* Every reachable state is well typed.
THEOREM TypeCorrect == Spec => []TypeOK
BY InductiveInvariant, PTL DEF IInv

\* No operation is executed more than MaxRetries + 1 times.
THEOREM AttemptsBounded == Spec => []AttemptBudget
<1>1. IInv => AttemptBudget
  BY DEF IInv, BudgetInv, RowBudget, AttemptBudget
<1> QED
  BY <1>1, InductiveInvariant, PTL

\* Under QueueBackgroundTask two coroutines never process the queue at once.
THEOREM OneLoop == Spec => []AtMostOneLoop
<1>1. IInv => AtMostOneLoop
  BY DEF IInv, SoleTask, AtMostOneLoop, Active
<1> QED
  BY <1>1, InductiveInvariant, PTL

\* What reads as completed has taken effect at Etsy.
THEOREM CompletedIsTrue == Spec => []CompletedMeansApplied
<1>1. IInv => CompletedMeansApplied
  BY DEF IInv, EffectInv, CompletedMeansApplied
<1> QED
  BY <1>1, InductiveInvariant, PTL

\* The running flag never outlives the loop it stands for.
THEOREM FlagIsTrue == Spec => []RunningHonoured
BY InductiveInvariant, PTL DEF IInv

=============================================================================
