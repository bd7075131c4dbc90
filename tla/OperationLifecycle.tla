------------------------- MODULE OperationLifecycle -------------------------
(***************************************************************************)
(* What the operation queue promises to whoever submits an operation,      *)
(* without coroutines, threads, timeouts, snapshots or a database:         *)
(*   - an operation is tried at most Budget times, one try at a time, and  *)
(*     takes effect at most once for every try;                            *)
(*   - it is reported "completed" only if it took effect at Etsy;          *)
(*   - it is reported "failed" only after Budget tries, or without any     *)
(*     when its name is unknown;                                           *)
(*   - an operation that got its end is never tried or reported again,     *)
(*     although an abandoned try may take effect at any later time.        *)
(* Mishaps names what may go wrong around the queue, and so what is left   *)
(* of the promises then: a withdrawal may come at any time, be undone by   *)
(* what the queue reports, or hide what it has reported; a record may be   *)
(* deleted while its operation is tried; and a store that fails makes the  *)
(* queue give up early.                                                    *)
(***************************************************************************)
EXTENDS Naturals

CONSTANTS
  Ops,     \* operation ids
  Known,   \* the operations whose name the registry knows
  Budget,  \* the number of tries an operation gets
  Mishaps  \* "store", "cancel" and "expire", or some of them

VARIABLES
  status,  \* what a reader of the store is told about the operation
  tries,   \* how often execution was started
  landed,  \* how many tries took effect
  settled  \* the operations that got their end

lifecycleVars == <<status, tries, landed, settled>>

\* The submitter's word, to which the queue pays no attention.
Withdrawn == IF "cancel" \in Mishaps THEN {"cancelled"} ELSE {}

\* How an operation reads while the queue may turn to it, ...
Waiting == {"pending"} \cup Withdrawn

\* ... while it is being tried, ...
Running == {"executing"} \cup Withdrawn

\* ... and when a try has ended without success: one that could not be
\* recorded leaves it as it was.
Tried == Running \cup IF "store" \in Mishaps THEN Waiting ELSE {}

Init ==
  /\ status = [o \in Ops |-> "absent"]
  /\ tries = [o \in Ops |-> 0]
  /\ landed = [o \in Ops |-> 0]
  /\ settled = {}

\* o moves from one of some statuses to another.
Moves(o, from, to) ==
  /\ status[o] \in from
  /\ status' = [status EXCEPT ![o] = to]

\* The record of o is gone, and stays so.
Gone(o) == status[o] = "deleted" /\ UNCHANGED status

\* The queue is done with o, which it never was before.
Settles(o) == o \notin settled /\ settled' = settled \cup {o}

Submit(o) ==
  /\ Moves(o, {"absent"}, "pending")
  /\ UNCHANGED <<tries, landed, settled>>

Withdraw(o) ==
  /\ "cancel" \in Mishaps
  /\ status[o] \notin {"absent", "deleted"}
  /\ status' = [status EXCEPT ![o] = "cancelled"]
  /\ UNCHANGED <<tries, landed, settled>>

\* Any records, of operations in any state.
Delete(D) ==
  /\ "expire" \in Mishaps
  /\ \A o \in D : status[o] # "absent"
  /\ status' = [o \in Ops |-> IF o \in D THEN "deleted" ELSE status[o]]
  /\ UNCHANGED <<tries, landed, settled>>

Try(o) ==
  /\ o \in Known \ settled
  /\ tries[o] < Budget
  /\ Moves(o, Waiting, "executing") \/ Gone(o)
  /\ tries' = [tries EXCEPT ![o] = @ + 1]
  /\ UNCHANGED <<landed, settled>>

Land(o) ==
  /\ landed[o] < tries[o]
  /\ landed' = [landed EXCEPT ![o] = @ + 1]
  /\ UNCHANGED <<status, tries, settled>>

Succeed(o) ==
  /\ landed[o] > 0
  /\ Moves(o, Running, "completed") \/ Gone(o)
  /\ Settles(o)
  /\ UNCHANGED <<tries, landed>>

TryAgain(o) ==
  /\ o \notin settled
  /\ tries[o] < Budget
  /\ Moves(o, Tried, "pending")
  /\ UNCHANGED <<tries, landed, settled>>

GiveUp(o) ==
  /\ tries[o] = Budget \/ "store" \in Mishaps
  /\ Moves(o, Tried, "failed") \/ Gone(o)
  /\ Settles(o)
  /\ UNCHANGED <<tries, landed>>

Reject(o) ==
  /\ o \notin Known
  /\ Moves(o, Waiting, "failed") \/ Gone(o)
  /\ Settles(o)
  /\ UNCHANGED <<tries, landed>>

Next ==
  \/ \E o \in Ops : \/ Submit(o) \/ Withdraw(o) \/ Try(o) \/ Land(o)
                    \/ Succeed(o) \/ TryAgain(o) \/ GiveUp(o) \/ Reject(o)
  \/ \E D \in SUBSET Ops : Delete(D)

Spec == Init /\ [][Next]_lifecycleVars

\* What the actions come to for the submitter: the budget, effects within
\* the tries, success only after an effect, failure only after the last try
\* as long as the store works, and neither again of an operation that waits
\* or is tried.
Promises ==
  \A o \in Ops :
    /\ tries[o] <= Budget
    /\ landed[o] <= tries[o]
    /\ status[o] = "completed" => landed[o] > 0
    /\ status[o] = "failed" /\ o \in Known /\ "store" \notin Mishaps =>
         tries[o] = Budget
    /\ status[o] \in {"completed", "failed"} => o \in settled
    /\ o \in settled => status[o] \notin {"absent", "pending", "executing"}

=============================================================================
