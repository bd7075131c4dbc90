--------------------------- MODULE OperationStore ---------------------------
(***************************************************************************)
(* The `operations` table of src/operation_store.py.  Every method of the  *)
(* store opens a connection, runs one SQL statement, commits and closes,   *)
(* so each method is one atomic transaction and each is one action (or     *)
(* one query operator) here.  The modules that use the store conjoin a     *)
(* transaction with the step of the caller that issues it.                 *)
(*                                                                         *)
(* Timestamps are readings of a bounded clock; 0 stands for SQL NULL.      *)
(* Arguments, result and error texts are abstracted away.                  *)
(***************************************************************************)
EXTENDS Naturals, FiniteSets

CONSTANTS
  Ops,        \* operation ids (uuid4, never reused)
  Retention,  \* clock units after which expire_old_operations deletes a row
  MaxClock    \* bound of the model's clock

ASSUME StoreAssumption ==
  /\ Retention \in Nat
  /\ MaxClock \in Nat \ {0}

VARIABLES
  operations, \* the table: a row for every id, "absent" before the INSERT
  clock       \* datetime.now(UTC), shared by every process of the host

storeVars == <<operations, clock>>

NULL == 0

\* OperationStatus, in full: the queue writes only four of the seven values.
OperationStatus == {"pending", "approved", "executing", "completed",
                    "failed", "cancelled", "expired"}

\* The statuses for which update_operation_status stamps completed_at.
Finished == {"completed", "failed", "cancelled", "expired"}

\* The metadata column; the column being NULL reads as an empty dict, for
\* which get_metadata("retry_count", 0) is 0.
Metadata == [retry_count: Nat, next_retry_at: Nat]
NoMetadata == [retry_count |-> 0, next_retry_at |-> 0]

Row == [status: OperationStatus \cup {"absent", "deleted"},
        metadata: Metadata,
        created_at: Nat, executed_at: Nat, completed_at: Nat]

AbsentRow == [status |-> "absent", metadata |-> NoMetadata,
              created_at |-> NULL, executed_at |-> NULL,
              completed_at |-> NULL]

Present(o) == operations[o].status \in OperationStatus

Coalesce(column, value) == IF column # NULL THEN column ELSE value

-----------------------------------------------------------------------------
(* Transactions *)

\* create_operation: the INSERT of a fresh OperationRequest.
CreateOperation(o) ==
  /\ operations[o].status = "absent"
  /\ operations' = [operations EXCEPT
       ![o] = [AbsentRow EXCEPT !.status = "pending", !.created_at = clock]]

\* A plausible slip: stamps overwritten by every update, without COALESCE.
UpdatedRowNoCoalesce(row, s, meta) ==
  [row EXCEPT
     !.status = s,
     !.metadata = meta,
     !.executed_at = IF s = "executing" THEN clock ELSE NULL,
     !.completed_at = IF s \in Finished THEN clock ELSE NULL]

\* The SET clause of update_operation_status: metadata is overwritten (NULL
\* unless given), the two stamps keep the first value they were ever given.
UpdatedRow(row, s, meta) ==
  [row EXCEPT
     !.status = s,
     !.metadata = meta,
     !.executed_at = Coalesce(@, IF s = "executing" THEN clock ELSE NULL),
     !.completed_at = Coalesce(@, IF s \in Finished THEN clock ELSE NULL)]

\* A plausible slip: the metadata argument is not written.
UpdateWithoutMetadata(o, s, meta) ==
  operations' = [operations EXCEPT
       ![o] = IF Present(o) THEN UpdatedRow(@, s, @.metadata) ELSE @]

\* A plausible slip: INSERT OR REPLACE, which brings a deleted row back.
UpdateOrInsert(o, s, meta) ==
  operations' = [operations EXCEPT ![o] = UpdatedRow(@, s, meta)]

\* update_operation_status: UPDATE ... WHERE id = ?, whatever the row's
\* current status is, and without effect when no row has that id.
UpdateOperationStatus(o, s, meta) ==
  operations' = [operations EXCEPT
                   ![o] = IF Present(o) THEN UpdatedRow(@, s, meta) ELSE @]

\* expire_old_operations: DELETE ... WHERE created_at < cutoff, whatever the
\* status of the row.
ExpireOldOperations ==
  LET old == {o \in Ops : /\ Present(o)
                          /\ operations[o].created_at + Retention < clock}
  IN  /\ old # {}
      /\ operations' = [o \in Ops |->
           IF o \in old THEN [AbsentRow EXCEPT !.status = "deleted"]
                        ELSE operations[o]]

-----------------------------------------------------------------------------
(* Queries *)

\* list_pending_operations: SELECT ... WHERE status = 'pending' ORDER BY
\* created_at ASC LIMIT limit.  Rows of equal created_at come in any order,
\* so the result is any set S of `limit` pending rows no younger than the
\* rest; the loop that reads it goes through it in order of created_at.
PendingOps == {o \in Ops : operations[o].status = "pending"}

IsPendingBatch(S, limit) ==
  LET P == PendingOps
      n == Cardinality(P)
  IN  /\ S \subseteq P
      /\ Cardinality(S) = IF n < limit THEN n ELSE limit
      /\ \A o \in S, p \in P \ S :
            operations[o].created_at <= operations[p].created_at

-----------------------------------------------------------------------------
StoreInit ==
  /\ operations = [o \in Ops |-> AbsentRow]
  /\ clock = 1

Tick ==
  /\ clock < MaxClock
  /\ clock' = clock + 1
  /\ UNCHANGED operations

StoreTypeOK ==
  /\ operations \in [Ops -> Row]
  /\ clock \in Nat \ {0}

=============================================================================
