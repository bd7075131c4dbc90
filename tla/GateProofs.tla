----------------------------- MODULE GateProofs -----------------------------
(***************************************************************************)
(* Proofs, for any number of gates and approvers and any TTL, of the       *)
(* safety of ApprovalGates.                                                *)
(***************************************************************************)
EXTENDS ApprovalGates, TLAPS

USE DEF NULL

\* The invariants of ApprovalGates are inductive together: what is in memory
\* agrees with the row on the expiry, which no update moves.
GateInv ==
  /\ TypeOK
  /\ SweptWereExpired
  /\ StampIsFirstDecision

-----------------------------------------------------------------------------
(* Operators of the store *)

\* The object read back of a stored gate.
LEMMA GateOfType ==
  ASSUME gates \in [Gates -> GateRow], NEW g \in Gates,
         gates[g].status # "absent"
  PROVE  /\ GateOf(g) \in Gate
         /\ GateOf(g).id = g
         /\ GateOf(g).expires_at = gates[g].expires_at
         /\ GateOf(g).status = gates[g].status
BY DEF GateOf, Gate, GateRow

\* An update leaves the other rows and the expiry alone.
LEMMA UpdateGateEffect ==
  ASSUME gates \in [Gates -> GateRow], clock \in Nat, NEW g \in Gates,
         NEW s \in ApprovalStatus, NEW approver \in Approvers \cup {Nobody},
         UpdateApprovalGate(g, s, approver)
  PROVE  /\ gates' \in [Gates -> GateRow]
         /\ \A h \in Gates \ {g} : gates'[h] = gates[h]
         /\ gates'[g].status = s
         /\ gates'[g].expires_at = gates[g].expires_at
         /\ gates'[g].approval_timestamp =
              Coalesce(gates[g].approval_timestamp,
                       IF s \in Decision THEN clock ELSE NULL)
<1>1. Coalesce(gates[g].approval_timestamp,
               IF s \in Decision THEN clock ELSE NULL) \in Nat
  BY DEF Coalesce, GateRow
<1> QED
  BY <1>1 DEF UpdateApprovalGate, UpdatedGate, GateRow, ApprovalStatus

-----------------------------------------------------------------------------
\* Steps of the other table and of time: nothing of a gate changes.
LEMMA StoreStep ==
  ASSUME GateInv,
         \/ \E o \in Ops : Submit(o)
         \/ ExpireOld
         \/ TimePasses
  PROVE  GateInv'
<1>1. UNCHANGED <<gates, held, listed, decidedAt>>
  BY DEF Submit, ExpireOld, TimePasses
<1>2. clock' \in Nat \ {0} /\ clock' >= clock
  BY DEF Submit, ExpireOld, TimePasses, Tick, GateInv, TypeOK, StoreTypeOK
<1>3. operations' \in [Ops -> Row]
  <2>1. AbsentRow \in Row /\ [AbsentRow EXCEPT !.status = "deleted"] \in Row
    BY DEF AbsentRow, Row, NoMetadata, Metadata
  <2>2. ASSUME NEW o \in Ops, Submit(o)
        PROVE  operations' \in [Ops -> Row]
    <3>1. [AbsentRow EXCEPT !.status = "pending", !.created_at = clock] \in Row
      BY DEF AbsentRow, Row, NoMetadata, Metadata, OperationStatus, GateInv,
             TypeOK, StoreTypeOK
    <3> QED
      BY <2>2, <3>1 DEF Submit, CreateOperation, GateInv, TypeOK, StoreTypeOK
  <2>3. CASE ExpireOld
    BY <2>1, <2>3
       DEF ExpireOld, ExpireOldOperations, GateInv, TypeOK, StoreTypeOK
  <2>4. CASE TimePasses
    BY <2>4 DEF TimePasses, Tick, GateInv, TypeOK, StoreTypeOK
  <2> QED
    BY <2>2, <2>3, <2>4
<1>4. TypeOK'
  BY <1>1, <1>2, <1>3 DEF GateInv, TypeOK, StoreTypeOK
<1>5. SweptWereExpired'
  <2> SUFFICES ASSUME NEW g \in Gates,
                      \/ gates[g].status = "expired"
                      \/ \E gate \in listed : gate.id = g
               PROVE  clock' > gates[g].expires_at
    BY <1>1 DEF SweptWereExpired
  <2>1. clock > gates[g].expires_at
    BY DEF GateInv, SweptWereExpired
  <2>2. gates[g].expires_at \in Nat /\ clock \in Nat
    BY DEF GateInv, TypeOK, StoreTypeOK, GateRow
  <2> QED
    BY <1>2, <2>1, <2>2
<1> QED
  BY <1>1, <1>4, <1>5 DEF GateInv, StampIsFirstDecision

\* A gate is created: nobody can hold one that was not stored.
LEMMA CreateStep ==
  ASSUME GateInv, NEW g \in Gates, NEW o \in Ops, RequestApproval(g, o)
  PROVE  GateInv'
<1>1. /\ gates[g].status = "absent"
      /\ UNCHANGED <<operations, clock, held, listed, decidedAt>>
  BY DEF RequestApproval, CreateApprovalGate, storeVars
<1>2. clock \in Nat /\ clock + Ttl \in Nat
  BY GateAssumption DEF GateInv, TypeOK, StoreTypeOK
<1>3. /\ gates' \in [Gates -> GateRow]
      /\ \A h \in Gates \ {g} : gates'[h] = gates[h]
      /\ gates'[g].status = "pending"
      /\ gates'[g].approval_timestamp = NULL
  BY <1>2 DEF RequestApproval, CreateApprovalGate, AbsentGate, GateRow,
              ApprovalStatus, GateInv, TypeOK
<1>4. \A gate \in listed \cup {held[a] : a \in Approvers} :
        gate # NoGate => gate.id \in Gates \ {g}
  BY <1>1 DEF GateInv, TypeOK, Gate
<1>5. \A gate \in listed : gate.id # g
  BY <1>4, NoGateAssumption DEF GateInv, TypeOK
<1>6. TypeOK'
  BY <1>1, <1>3, <1>4 DEF GateInv, TypeOK, StoreTypeOK
<1>7. SweptWereExpired'
  BY <1>1, <1>3, <1>5 DEF GateInv, SweptWereExpired
<1>8. StampIsFirstDecision'
  BY <1>1, <1>3 DEF GateInv, TypeOK, StampIsFirstDecision
<1> QED
  BY <1>6, <1>7, <1>8 DEF GateInv

\* An approver reads, decides on or lets go of an object: the table is left
\* alone, and so is the expiry of the object.
LEMMA ObjectStep ==
  ASSUME GateInv, NEW a \in Approvers,
         \/ \E g \in Gates : Review(a, g)
         \/ Approve(a) \/ Reject(a) \/ Forget(a)
  PROVE  GateInv'
<1>1. UNCHANGED <<operations, clock, gates, listed, decidedAt>>
  BY DEF Review, Approve, Reject, Forget, storeVars
<1> DEFINE Sound ==
      /\ held' \in [Approvers -> Gate \cup {NoGate}]
      /\ \A b \in Approvers \ {a} : held'[b] = held[b]
      /\ held'[a] # NoGate =>
           /\ held'[a] \in Gate
           /\ gates[held'[a].id].status # "absent"
           /\ held'[a].expires_at = gates[held'[a].id].expires_at
<1>2. Sound
  <2>1. ASSUME NEW g \in Gates, Review(a, g)
        PROVE  Sound
    BY <2>1, GateOfType DEF Review, GateInv, TypeOK, Gate
  <2>2. CASE Approve(a)
    <3>1. held[a] \in Gate /\ clock \in Nat
      BY <2>2 DEF Approve, GateInv, TypeOK, StoreTypeOK, Gate
    <3>2. held'[a] = [held[a] EXCEPT !.status = "approved",
                                     !.approval_timestamp = clock]
      BY <2>2 DEF Approve, GateInv, TypeOK
    <3> QED
      BY <2>2, <3>1, <3>2 DEF Approve, GateInv, TypeOK, Gate, ApprovalStatus
  <2>3. CASE Reject(a)
    <3>1. held[a] \in Gate /\ held'[a] = [held[a] EXCEPT !.status = "rejected"]
      BY <2>3 DEF Reject, GateInv, TypeOK
    <3> QED
      BY <2>3, <3>1 DEF Reject, GateInv, TypeOK, Gate, ApprovalStatus
  <2>4. CASE Forget(a)
    BY <2>4 DEF Forget, GateInv, TypeOK
  <2> QED
    BY <2>1, <2>2, <2>3, <2>4
<1>3. TypeOK'
  BY <1>1, <1>2 DEF GateInv, TypeOK, StoreTypeOK
<1> QED
  BY <1>1, <1>3 DEF GateInv, SweptWereExpired, StampIsFirstDecision

\* A decision is stored: the expiry stays, the first timestamp too.
LEMMA DecideStep ==
  ASSUME GateInv, NEW a \in Approvers, Decide(a)
  PROVE  GateInv'
<1> DEFINE g == held[a].id
<1>1. /\ UNCHANGED <<operations, clock, held, listed>>
      /\ held[a] \in Gate
      /\ g \in Gates
      /\ held[a].status \in ApprovalStatus
      /\ held[a].status \in Decision
  BY DEF Decide, storeVars, GateInv, TypeOK, Gate
<1>2. /\ gates' \in [Gates -> GateRow]
      /\ \A h \in Gates \ {g} : gates'[h] = gates[h]
      /\ gates'[g].status = held[a].status
      /\ gates'[g].expires_at = gates[g].expires_at
      /\ gates'[g].approval_timestamp =
           Coalesce(gates[g].approval_timestamp, clock)
  BY <1>1, UpdateGateEffect DEF Decide, GateInv, TypeOK, StoreTypeOK
<1>3. decidedAt' = [decidedAt EXCEPT ![g] = Coalesce(@, clock)]
  BY DEF Decide
<1>4. gates'[g].status \notin {"absent", "expired"}
  BY <1>1, <1>2 DEF Decision
<1>5. \A gate \in listed' \cup {held'[b] : b \in Approvers} :
        gate # NoGate => gate \in listed \cup {held[b] : b \in Approvers}
                         /\ gate.id \in Gates
  BY <1>1, <1>3 DEF GateInv, TypeOK, Gate
<1>6. TypeOK'
  <2>1. decidedAt' \in [Gates -> Nat]
    BY <1>1, <1>3 DEF GateInv, TypeOK, StoreTypeOK, Coalesce
  <2> QED
    BY <1>1, <1>2, <1>4, <1>5, <2>1 DEF GateInv, TypeOK, StoreTypeOK
<1>7. SweptWereExpired'
  BY <1>1, <1>2, <1>4 DEF GateInv, SweptWereExpired
<1>8. StampIsFirstDecision'
  BY <1>1, <1>2, <1>3 DEF GateInv, TypeOK, StampIsFirstDecision
<1> QED
  BY <1>6, <1>7, <1>8 DEF GateInv

\* The sweeper lists gates that are expired by now.
LEMMA SweepStep ==
  ASSUME GateInv, Sweep
  PROVE  GateInv'
<1>1. UNCHANGED <<operations, clock, gates, held, decidedAt>>
  BY DEF Sweep, storeVars
<1>2. \A gate \in listed' : /\ gate \in Gate
                            /\ gates[gate.id].status # "absent"
                            /\ gate.expires_at = gates[gate.id].expires_at
                            /\ gates[gate.id].expires_at < clock
  BY GateOfType DEF Sweep, ListExpiredApprovals, GateInv, TypeOK
<1>3. TypeOK'
  BY <1>1, <1>2 DEF GateInv, TypeOK, StoreTypeOK
<1>4. SweptWereExpired'
  BY <1>1, <1>2
     DEF GateInv, SweptWereExpired, TypeOK, StoreTypeOK, GateRow, Gate
<1> QED
  BY <1>1, <1>3, <1>4 DEF GateInv, StampIsFirstDecision

\* A listed gate is marked: it was expired when listed and still is.
LEMMA MarkStep ==
  ASSUME GateInv, NEW gate \in listed, MarkExpired(gate)
  PROVE  GateInv'
<1> DEFINE g == gate.id
<1>1. /\ UNCHANGED <<operations, clock, held, decidedAt>>
      /\ listed' \subseteq listed
      /\ g \in Gates
      /\ clock > gates[g].expires_at
  BY DEF MarkExpired, storeVars, GateInv, TypeOK, Gate, SweptWereExpired
<1>2. /\ gates' \in [Gates -> GateRow]
      /\ \A h \in Gates \ {g} : gates'[h] = gates[h]
      /\ gates'[g].status = "expired"
      /\ gates'[g].expires_at = gates[g].expires_at
      /\ gates'[g].approval_timestamp = gates[g].approval_timestamp
  <2>1. "expired" \in ApprovalStatus /\ "expired" \notin Decision
    BY DEF ApprovalStatus, Decision
  <2>2. Coalesce(gates[g].approval_timestamp, NULL)
          = gates[g].approval_timestamp
    BY DEF Coalesce
  <2> QED
    BY <1>1, <2>1, <2>2, UpdateGateEffect
       DEF MarkExpired, GateInv, TypeOK, StoreTypeOK
<1>3. \A x \in listed' \cup {held'[b] : b \in Approvers} :
        x # NoGate => x \in listed \cup {held[b] : b \in Approvers}
                      /\ x.id \in Gates
  BY <1>1 DEF GateInv, TypeOK, Gate
<1>4. TypeOK'
  BY <1>1, <1>2, <1>3 DEF GateInv, TypeOK, StoreTypeOK
<1>5. SweptWereExpired'
  BY <1>1, <1>2 DEF GateInv, SweptWereExpired
<1>6. StampIsFirstDecision'
  BY <1>1, <1>2 DEF GateInv, StampIsFirstDecision
<1> QED
  BY <1>4, <1>5, <1>6 DEF GateInv

-----------------------------------------------------------------------------
(* Theorems *)

\* The safety of approval gates holds in every reachable state.
THEOREM GateInvariant == Spec => []GateInv
<1>1. Init => GateInv
  <2> SUFFICES ASSUME Init PROVE GateInv
    OBVIOUS
  <2>1. operations \in [Ops -> Row] /\ clock \in Nat \ {0}
    BY DEF Init, StoreInit, AbsentRow, Row, NoMetadata, Metadata
  <2>2. /\ gates \in [Gates -> GateRow]
        /\ \A g \in Gates : /\ gates[g].status = "absent"
                             /\ gates[g].approval_timestamp = NULL
    BY DEF Init, AbsentGate, GateRow
  <2> QED
    BY <2>1, <2>2 DEF Init, GateInv, TypeOK, StoreTypeOK,
                      SweptWereExpired, StampIsFirstDecision
<1>2. GateInv /\ [Next]_gateVars => GateInv'
  <2> SUFFICES ASSUME GateInv, [Next]_gateVars PROVE GateInv'
    OBVIOUS
  <2>1. CASE UNCHANGED gateVars
    BY <2>1 DEF gateVars, GateInv, TypeOK, StoreTypeOK,
                SweptWereExpired, StampIsFirstDecision
  <2>2. CASE Next
    BY <2>2, StoreStep, CreateStep, ObjectStep, DecideStep, SweepStep, MarkStep
       DEF Next
  <2> QED
    BY <2>1, <2>2
<1> QED
  BY <1>1, <1>2, PTL DEF Spec

\* Every variable has its type, and an object in memory has the expiry of
\* its row.
THEOREM GatesTyped == Spec => []TypeOK
BY GateInvariant, PTL DEF GateInv

\* A gate is marked expired only once it is.
THEOREM SweptExpired == Spec => []SweptWereExpired
BY GateInvariant, PTL DEF GateInv

\* The timestamp of a gate is that of its first stored decision.
THEOREM FirstDecisionStamped == Spec => []StampIsFirstDecision
BY GateInvariant, PTL DEF GateInv

=============================================================================
