--------------------------- MODULE ApprovalGates ---------------------------
(***************************************************************************)
(* The approval_gates table of src/operation_store.py, the ApprovalGate    *)
(* objects of src/operations.py that are written to it and read back, and  *)
(* the two kinds of callers these are made for: approvers, who read a gate, *)
(* decide on their copy and store the decision, and a sweeper, which lists *)
(* the gates nobody decided in time and marks them expired.  The callers   *)
(* are not part of src/, and nothing in it binds them: an approver may     *)
(* decide on a copy as old as he likes, of a gate that is decided or       *)
(* expired, change his mind, and store what he holds at any time; nobody   *)
(* need ever sweep.                                                        *)
(***************************************************************************)
EXTENDS OperationStore

CONSTANTS
  Gates,      \* gate ids (uuid4)
  Approvers,
  Ttl,        \* ttl_minutes
  Nobody,     \* approver IS NULL
  NoGate      \* an approver who holds no gate

ASSUME GateAssumption ==
  /\ Ttl \in Nat
  /\ Nobody \notin Approvers

VARIABLES
  gates,      \* the table: a row for every id, "absent" before the INSERT
  held,       \* the ApprovalGate object each approver has in memory
  listed,     \* what the sweeper has listed and not yet marked
  decidedAt   \* history: when a decision on the gate was first stored

gateVars == <<operations, clock, gates, held, listed, decidedAt>>

ApprovalStatus == {"pending", "approved", "rejected", "expired"}

Decision == {"approved", "rejected"}

GateRow == [operation_id: Ops \cup {NULL},
            status: ApprovalStatus \cup {"absent"},
            approver: Approvers \cup {Nobody},
            created_at: Nat, expires_at: Nat, approval_timestamp: Nat]

AbsentGate == [operation_id |-> NULL, status |-> "absent", approver |-> Nobody,
               created_at |-> NULL, expires_at |-> NULL,
               approval_timestamp |-> NULL]

\* What of an ApprovalGate object anybody decides on.
Gate == [id: Gates, status: ApprovalStatus, expires_at: Nat,
         approval_timestamp: Nat]

\* The constructor's expiry survives in the object read back.
GateOfExpiryRenewed(g) ==
  [id |-> g, status |-> gates[g].status, expires_at |-> clock + Ttl,
   approval_timestamp |-> gates[g].approval_timestamp]

\* get_approval_gate and _row_to_gate: constructed afresh, then every field
\* is overwritten with the row's.
GateOf(g) ==
  [id |-> g, status |-> gates[g].status, expires_at |-> gates[g].expires_at,
   approval_timestamp |-> gates[g].approval_timestamp]

ASSUME NoGateAssumption == NoGate \notin Gate

-----------------------------------------------------------------------------
(* Transactions and queries *)

\* create_approval_gate of a fresh ApprovalGate.  operation_id is UNIQUE: one
\* gate for an operation, ever.  It is also declared a foreign key, which
\* SQLite enforces only when told to: the operation may never have been
\* stored, or be deleted.
CreateApprovalGate(g, o) ==
  /\ gates[g].status = "absent"
  /\ \A h \in Gates : gates[h].operation_id # o
  /\ gates' = [gates EXCEPT
       ![g] = [AbsentGate EXCEPT !.operation_id = o, !.status = "pending",
                                 !.created_at = clock,
                                 !.expires_at = clock + Ttl]]

\* The timestamp is overwritten by every decision.
UpdatedGateNoCoalesce(row, s, approver) ==
  [row EXCEPT
     !.status = s,
     !.approver = approver,
     !.approval_timestamp = IF s \in Decision THEN clock ELSE @]

\* The SET clause of update_approval_gate: the approver is overwritten, the
\* timestamp keeps the first value it was ever given.
UpdatedGate(row, s, approver) ==
  [row EXCEPT
     !.status = s,
     !.approver = approver,
     !.approval_timestamp =
        Coalesce(@, IF s \in Decision THEN clock ELSE NULL)]

\* update_approval_gate: WHERE id = ?, whatever the gate's status and expiry.
UpdateApprovalGate(g, s, approver) ==
  gates' = [gates EXCEPT ![g] = UpdatedGate(@, s, approver)]

\* Gates are listed that expire this instant.
ListExpiredApprovalsEarly ==
  {GateOf(g) : g \in {h \in Gates : /\ gates[h].status = "pending"
                                    /\ gates[h].expires_at <= clock}}

\* list_expired_approvals.
ListExpiredApprovals ==
  {GateOf(g) : g \in {h \in Gates : /\ gates[h].status = "pending"
                                    /\ gates[h].expires_at < clock}}

-----------------------------------------------------------------------------
(* Callers *)

Submit(o) ==
  /\ CreateOperation(o)
  /\ UNCHANGED <<clock, gates, held, listed, decidedAt>>

ExpireOld ==
  /\ ExpireOldOperations
  /\ UNCHANGED <<clock, gates, held, listed, decidedAt>>

RequestApproval(g, o) ==
  /\ CreateApprovalGate(g, o)
  /\ UNCHANGED <<storeVars, held, listed, decidedAt>>

\* get_approval_gate, of a gate in any state, or an element of
\* list_pending_approvals.
Review(a, g) ==
  /\ held[a] = NoGate
  /\ gates[g].status # "absent"
  /\ held' = [held EXCEPT ![a] = GateOf(g)]
  /\ UNCHANGED <<storeVars, gates, listed, decidedAt>>

\* ApprovalGate.approve, on the object, whatever its status and expiry.
Approve(a) ==
  /\ held[a] # NoGate
  /\ held' = [held EXCEPT ![a].status = "approved",
                          ![a].approval_timestamp = clock]
  /\ UNCHANGED <<storeVars, gates, listed, decidedAt>>

\* ApprovalGate.reject, likewise; it sets no timestamp on the object.
Reject(a) ==
  /\ held[a] # NoGate
  /\ held' = [held EXCEPT ![a].status = "rejected"]
  /\ UNCHANGED <<storeVars, gates, listed, decidedAt>>

\* The object is let go of: the approver is done with it, or his process dies
\* with the decision unsaved.
Forget(a) ==
  /\ held[a] # NoGate
  /\ held' = [held EXCEPT ![a] = NoGate]
  /\ UNCHANGED <<storeVars, gates, listed, decidedAt>>

\* The decision is stored: update_approval_gate, perhaps not for the first
\* time.
Decide(a) ==
  /\ held[a] # NoGate
  /\ held[a].status \in Decision
  /\ UpdateApprovalGate(held[a].id, held[a].status, a)
  /\ decidedAt' = [decidedAt EXCEPT ![held[a].id] = Coalesce(@, clock)]
  /\ UNCHANGED <<storeVars, held, listed>>

\* "Get expired gates (auto-reject)" ...
Sweep ==
  /\ listed = {}
  /\ ListExpiredApprovals # {}
  /\ listed' = ListExpiredApprovals
  /\ UNCHANGED <<storeVars, gates, held, decidedAt>>

\* ... and what its caller does with each of them, one transaction at a time.
MarkExpired(gate) ==
  /\ gate \in listed
  /\ listed' = listed \ {gate}
  /\ UpdateApprovalGate(gate.id, "expired", Nobody)
  /\ UNCHANGED <<storeVars, held, decidedAt>>

TimePasses == Tick /\ UNCHANGED <<gates, held, listed, decidedAt>>

Init ==
  /\ StoreInit
  /\ gates = [g \in Gates |-> AbsentGate]
  /\ held = [a \in Approvers |-> NoGate]
  /\ listed = {}
  /\ decidedAt = [g \in Gates |-> NULL]

Next ==
  \/ \E o \in Ops : Submit(o) \/ \E g \in Gates : RequestApproval(g, o)
  \/ \E a \in Approvers : \/ \E g \in Gates : Review(a, g)
                          \/ Approve(a) \/ Reject(a) \/ Forget(a) \/ Decide(a)
  \/ Sweep
  \/ \E gate \in listed : MarkExpired(gate)
  \/ ExpireOld
  \/ TimePasses

Spec == Init /\ [][Next]_gateVars

-----------------------------------------------------------------------------
(* Properties *)

\* Types.  An object in memory is of a stored gate and has the expiry of its
\* row: reading a gate back does not give it more time.
TypeOK ==
  /\ StoreTypeOK
  /\ gates \in [Gates -> GateRow]
  /\ held \in [Approvers -> Gate \cup {NoGate}]
  /\ listed \subseteq Gate
  /\ decidedAt \in [Gates -> Nat]
  /\ \A g \in Gates :
       gates[g].status = "absent" => gates[g].approval_timestamp = NULL
  /\ \A gate \in listed \cup {held[a] : a \in Approvers} : gate # NoGate =>
       /\ gates[gate.id].status # "absent"
       /\ gate.expires_at = gates[gate.id].expires_at

\* A gate is marked expired only once it is: the sweeper's list may be stale
\* when it is worked off, but what is expired stays so.
SweptWereExpired ==
  \A g \in Gates :
    gates[g].status = "expired" \/ (\E gate \in listed : gate.id = g)
      => clock > gates[g].expires_at

\* A gate carries the time of the first decision that was stored, and none
\* if nobody decided, although approvers and the sweeper overwrite each
\* other's status and approver in any order.
StampIsFirstDecision ==
  \A g \in Gates : gates[g].approval_timestamp = decidedAt[g]

=============================================================================
