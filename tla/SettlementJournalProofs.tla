---------------------- MODULE SettlementJournalProofs ----------------------
(***************************************************************************)
(* Proofs about SettlementJournal, for any number of writers, evidences    *)
(* and transaction references.                                             *)
(***************************************************************************)
EXTENDS SettlementJournal, TLAPS

USE NoneAssumption

(* What holds of the steps of a writer, beyond types: it has a copy while  *)
(* it works, and an answer of the adapter when it is about to journal it.  *)
Working ==
  \A w \in Writers :
    /\ pc[w] # "idle" => copy[w] # None
    /\ pc[w] \in {"update", "poll", "final"} => result[w] # None

(* The inductive invariant.                                                *)
Inv == TypeOK /\ Working /\ WritersAgree /\ ConfirmedWithoutFailure

(* A merge keeps the evidence, and obeys what the properties say of it.    *)
LEMMA MergeObeys ==
  ASSUME NEW current \in Records, NEW incoming \in Records,
         current.status = "CONFIRMED" => current.failure = None,
         ~ ReferenceConflict(current, incoming)
  PROVE  LET merged == Merge(current, incoming) IN
         /\ merged \in Records
         /\ merged.evidence = current.evidence
         /\ merged.status = "CONFIRMED" => merged.failure = None
         /\ current.reference # None => merged.reference = current.reference
         /\ Rank(current.status) <= Rank(merged.status)
         /\ current.status = "CONFIRMED" => merged = current
BY DEF Records, Status, Merge, Outranks, Rank, FirstReference, FailureOf, ReferenceConflict

(* What a writer journals is a record with the evidence of its copy.       *)
LEMMA UpdatedType ==
  ASSUME NEW w \in Writers, copy[w] \in Records, result[w] \in Results
  PROVE  Updated(w) \in Records /\ Updated(w).evidence = copy[w].evidence
BY DEF Updated, Records, Results, Status

(* One step of a journaled record: the same one, a new one, or a merge.    *)
LEMMA RecordStep ==
  ASSUME Inv, [Next]_vars
  PROVE  \/ record' = record
         \/ record = None /\ \E e \in Evidences : record' = Create(e)
         \/ \E w \in Writers :
              /\ record \in Records /\ Updated(w) \in Records
              /\ ~ ReferenceConflict(record, Updated(w))
              /\ record' = Merge(record, Updated(w))
<1>1. ASSUME NEW w \in Writers, NEW e \in Evidences, GetOrCreate(w, e)
      PROVE  record' = record \/ (record = None /\ record' = Create(e))
  BY <1>1 DEF GetOrCreate, Create
<1>2. ASSUME NEW w \in Writers, Update(w)
      PROVE  \/ record' = record
             \/ /\ record \in Records /\ Updated(w) \in Records
                /\ ~ ReferenceConflict(record, Updated(w))
                /\ record' = Merge(record, Updated(w))
  <2>1. copy[w] \in Records /\ result[w] \in Results /\ record \in Records
    BY <1>2 DEF Update, Inv, TypeOK, Working, WritersAgree
  <2> QED
    BY <1>2, <2>1, UpdatedType DEF Update
<1>3. ASSUME NEW w \in Writers,
             \/ ClaimNonce(w) \/ Crash(w)
             \/ \E r \in Results : Answer(w, r)
             \/ \E s \in Status, f \in {"CODE", None} : Poll(w, s, f)
      PROVE  record' = record
  BY <1>3 DEF ClaimNonce, Crash, Answer, Poll
<1>4. CASE UNCHANGED vars
  BY <1>4 DEF vars
<1> QED
  BY <1>1, <1>2, <1>3, <1>4 DEF Next

-----------------------------------------------------------------------------

LEMMA InitInv == Init => Inv
BY DEF Init, Inv, TypeOK, Working, WritersAgree, ConfirmedWithoutFailure

LEMMA NextInv == Inv /\ [Next]_vars => Inv'
<1> SUFFICES ASSUME Inv, [Next]_vars PROVE Inv'
  OBVIOUS
<1> USE DEF Inv, TypeOK, Working, WritersAgree, ConfirmedWithoutFailure
<1>1. ASSUME NEW w \in Writers, NEW e \in Evidences, GetOrCreate(w, e) PROVE Inv'
  BY <1>1 DEF GetOrCreate, Create, Records, Status
<1>2. ASSUME NEW w \in Writers, ClaimNonce(w) PROVE Inv'
  <2>1. copy[w] \in Records /\ copy[w].evidence = record.evidence /\ record \in Records
    BY <1>2 DEF ClaimNonce
  <2>2. NonceGranted(copy[w].evidence)
    BY <2>1 DEF NonceGranted
  <2> QED
    BY <1>2, <2>1, <2>2 DEF ClaimNonce, Records
<1>3. ASSUME NEW w \in Writers, NEW r \in Results, Answer(w, r) PROVE Inv'
  BY <1>3 DEF Answer
<1>4. ASSUME NEW w \in Writers, Update(w) PROVE Inv'
  <2>1. copy[w] \in Records /\ result[w] \in Results /\ record \in Records
    BY <1>4 DEF Update
  <2>2. Updated(w) \in Records
    BY <2>1, UpdatedType
  <2>3. CASE EvidenceConflict(record, Updated(w)) \/ ReferenceConflict(record, Updated(w))
    BY <1>4, <2>3 DEF Update, Leave
  <2>4. CASE ~ (EvidenceConflict(record, Updated(w)) \/ ReferenceConflict(record, Updated(w)))
    <3>1. /\ record' \in Records /\ record'.evidence = record.evidence
          /\ record'.status = "CONFIRMED" => record'.failure = None
      BY <1>4, <2>1, <2>2, <2>4, MergeObeys DEF Update
    <3>2. CASE pc[w] = "final"
      BY <1>4, <2>4, <3>1, <3>2 DEF Update, Leave
    <3>3. CASE pc[w] # "final"
      BY <1>4, <2>4, <3>1, <3>3 DEF Update
    <3> QED
      BY <3>2, <3>3
  <2> QED
    BY <2>3, <2>4
<1>5. ASSUME NEW w \in Writers, NEW s \in Status, NEW f \in {"CODE", None}, Poll(w, s, f)
      PROVE  Inv'
  <2>1. result[w] \in Results
    BY <1>5 DEF Poll
  <2>2. result' \in [Writers -> Results \cup {None}] /\ result'[w] # None
        /\ \A v \in Writers \ {w} : result'[v] = result[v]
    BY <1>5, <2>1 DEF Poll, Results
  <2> QED
    BY <1>5, <2>2 DEF Poll
<1>6. ASSUME NEW w \in Writers, Crash(w) PROVE Inv'
  BY <1>6 DEF Crash, Leave
<1>7. CASE UNCHANGED vars
  BY <1>7 DEF vars
<1> QED
  BY <1>1, <1>2, <1>3, <1>4, <1>5, <1>6, <1>7 DEF Next

LEMMA Invariance == Spec => []Inv
  BY InitInv, NextInv, PTL DEF Spec

(* Every value that the journal and its writers keep has its type.         *)
THEOREM TypeCorrect == Spec => []TypeOK
<1>1. Inv => TypeOK
  BY DEF Inv
<1> QED
  BY <1>1, Invariance, PTL

(* No writer of an attempt is refused for its evidence or its nonce.       *)
THEOREM Agreement == Spec => []WritersAgree
<1>1. Inv => WritersAgree
  BY DEF Inv
<1> QED
  BY <1>1, Invariance, PTL

(* A confirmed attempt reports no failure.                                 *)
THEOREM NoFailureLeft == Spec => []ConfirmedWithoutFailure
<1>1. Inv => ConfirmedWithoutFailure
  BY DEF Inv
<1> QED
  BY <1>1, Invariance, PTL

(* The journal implements a write-once register for the evidence.          *)
THEOREM FirstEvidenceKept == Spec => EvidenceOnce
<1>1. Init => EvidenceRegister!Init
  BY DEF Init, EvidenceRegister!Init
<1>2. Inv /\ [Next]_vars => [EvidenceRegister!Write]_(IF record = None THEN None ELSE record.evidence)
  <2> SUFFICES ASSUME Inv, [Next]_vars
               PROVE  [EvidenceRegister!Write]_(IF record = None THEN None ELSE record.evidence)
    OBVIOUS
  <2>1. CASE record' = record
    BY <2>1
  <2>2. ASSUME record = None, NEW e \in Evidences, record' = Create(e)
        PROVE  EvidenceRegister!Write
    BY <2>2 DEF Create, EvidenceRegister!Write, Records, Status
  <2>3. ASSUME NEW w \in Writers, record \in Records, Updated(w) \in Records,
               ~ ReferenceConflict(record, Updated(w)), record' = Merge(record, Updated(w))
        PROVE  UNCHANGED (IF record = None THEN None ELSE record.evidence)
    BY <2>3, MergeObeys DEF Inv, ConfirmedWithoutFailure
  <2> QED
    BY <2>1, <2>2, <2>3, RecordStep
<1> QED
  BY <1>1, <1>2, Invariance, PTL DEF Spec, EvidenceOnce, EvidenceRegister!Spec

(* ... and for the reference of the transaction.                           *)
THEOREM FirstReferenceKept == Spec => ReferenceOnce
<1>1. Init => ReferenceRegister!Init
  BY DEF Init, ReferenceRegister!Init
<1>2. Inv /\ [Next]_vars => [ReferenceRegister!Write]_(IF record = None THEN None ELSE record.reference)
  <2> SUFFICES ASSUME Inv, [Next]_vars
               PROVE  [ReferenceRegister!Write]_(IF record = None THEN None ELSE record.reference)
    OBVIOUS
  <2>1. CASE record' = record
    BY <2>1
  <2>2. ASSUME record = None, NEW e \in Evidences, record' = Create(e)
        PROVE  UNCHANGED (IF record = None THEN None ELSE record.reference)
    BY <2>2 DEF Create
  <2>3. ASSUME NEW w \in Writers, record \in Records, Updated(w) \in Records,
               ~ ReferenceConflict(record, Updated(w)), record' = Merge(record, Updated(w))
        PROVE  [ReferenceRegister!Write]_(IF record = None THEN None ELSE record.reference)
    <3>1. record' \in Records /\ (record.reference # None => record'.reference = record.reference)
      BY <2>3, MergeObeys DEF Inv, ConfirmedWithoutFailure
    <3>2. record'.reference \in References \cup {None}
      BY <3>1 DEF Records
    <3> QED
      BY <2>3, <3>1, <3>2 DEF ReferenceRegister!Write
  <2> QED
    BY <2>1, <2>2, <2>3, RecordStep
<1> QED
  BY <1>1, <1>2, Invariance, PTL DEF Spec, ReferenceOnce, ReferenceRegister!Spec

(* The status only rises, and a confirmed record is final.                 *)
THEOREM OutcomeIsMonotone == Spec => OutcomeMonotone
<1> DEFINE Step == record # None =>
             /\ record' # None
             /\ Rank(record.status) <= Rank(record'.status)
             /\ record.status = "CONFIRMED" => record' = record
<1>1. Inv /\ [Next]_vars => Step
  <2> SUFFICES ASSUME Inv, [Next]_vars, record # None PROVE Step
    OBVIOUS
  <2>1. CASE record' = record
    BY <2>1 DEF Inv, TypeOK, Records, Status, Rank
  <2>2. ASSUME NEW w \in Writers, record \in Records, Updated(w) \in Records,
               ~ ReferenceConflict(record, Updated(w)), record' = Merge(record, Updated(w))
        PROVE  Step
    BY <2>2, MergeObeys DEF Inv, ConfirmedWithoutFailure
  <2> QED
    BY <2>1, <2>2, RecordStep
<1> QED
  BY <1>1, Invariance, PTL DEF Spec, OutcomeMonotone
=============================================================================
