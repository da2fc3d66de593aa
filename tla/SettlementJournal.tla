------------------------- MODULE SettlementJournal -------------------------
(***************************************************************************)
(* The journal of one settlement attempt, and the nonce of its evidence:   *)
(* settlement-attempt.ts, settlement-polling.ts, mergeSettlementAttempt of *)
(* repository.ts and the transactions that apply it.                       *)
(*                                                                         *)
(* A writer is a handler of the gateway or a run of the expiry worker that *)
(* settles the outcome of this attempt. Several may do so at once: a lock  *)
(* without a lease or with an expired one is taken over (see Settlement),  *)
(* and the owner that lost it goes on. Each keeps the copy of the record   *)
(* that the store returned last, so its updates are made from stale data.  *)
(* The bond adapter is the contract BondAdapter of packages/contracts:     *)
(* any answer its type allows, PENDING included. Timestamps and the        *)
(* retryable flag, which nothing reads back, are left out, and a failure   *)
(* code is present or not.                                                 *)
(***************************************************************************)
EXTENDS Integers

CONSTANTS
  Writers,     \* requests and worker runs that settle this outcome
  Evidences,   \* evidence hashes; issuedAt makes those of two writers differ
  References,  \* signatures of transactions
  None         \* no record, no evidence, no reference, no failure code

VARIABLES
  record,   \* the settlementAttempts document, or None
  nonce,    \* the evidence that claimed the nonce, or None
  pc,       \* pc[w]: the next step of w
  copy,     \* copy[w]: the record w works with
  result    \* result[w]: the answer of the adapter w has to journal

vars == <<record, nonce, pc, copy, result>>

Status == {"PENDING", "FAILED", "CONFIRMED"}

Records == [evidence : Evidences, status : Status,
            reference : References \cup {None}, failure : {"CODE", None}]

\* AdapterResult, each of its optional fields present or not.
Results == [status : Status, reference : References \cup {None}, failure : {"CODE", None}]

ASSUME NoneAssumption ==
  /\ None \notin Evidences /\ None \notin References
  /\ None \notin Records /\ None \notin Results

TypeOK ==
  /\ record \in Records \cup {None}
  /\ nonce \in Evidences \cup {None}
  /\ pc \in [Writers -> {"idle", "nonce", "settle", "update", "poll", "final"}]
  /\ copy \in [Writers -> Records \cup {None}]
  /\ result \in [Writers -> Results \cup {None}]

Init ==
  /\ record = None
  /\ nonce = None
  /\ pc = [w \in Writers |-> "idle"]
  /\ copy = [w \in Writers |-> None]
  /\ result = [w \in Writers |-> None]

-----------------------------------------------------------------------------
(* The repository. A slip is a mistake that the code does not make.        *)

\* slip: the record is created before its evidence is signed
CreateUnsigned(e) ==
  [evidence |-> None, status |-> "PENDING", reference |-> None, failure |-> None]

\* slip: the record is created again by whoever comes late
CreateAgain(e) ==
  [evidence |-> e, status |-> "PENDING", reference |-> None, failure |-> None]

\* createSettlementAttempt: what it stores and returns.
Create(e) ==
  IF record = None
  THEN [evidence |-> e, status |-> "PENDING", reference |-> None, failure |-> None]
  ELSE record

Rank(status) ==
  CASE status = "PENDING" -> 0 [] status = "FAILED" -> 1 [] status = "CONFIRMED" -> 2

\* slip: a result that brings no reference erases the one that is known
LastReference(current, incoming) == incoming.reference

\* The first reference is kept.
FirstReference(current, incoming) ==
  IF current.reference = None THEN incoming.reference ELSE current.reference

\* slip: a late result of any kind replaces the record
NeverOutranked(current, incoming) == FALSE

\* A confirmed record is never updated, and none by a status of lower rank.
Outranks(current, incoming) ==
  current.status = "CONFIRMED" \/ Rank(incoming.status) < Rank(current.status)

\* slip: a confirmed update keeps the failure code of an earlier one
FailureKept(current, incoming) ==
  IF incoming.failure = None THEN current.failure ELSE incoming.failure

FailureOf(current, incoming) ==
  IF incoming.status = "CONFIRMED" THEN None ELSE incoming.failure

\* The errors of mergeSettlementAttempt.
EvidenceConflict(current, incoming) == current.evidence # incoming.evidence

ReferenceConflict(current, incoming) ==
  /\ current.reference # None /\ incoming.reference # None
  /\ current.reference # incoming.reference

\* mergeSettlementAttempt, when it throws none of them.
Merge(current, incoming) ==
  IF Outranks(current, incoming)
  THEN current
  ELSE [evidence |-> current.evidence,
        status |-> incoming.status,
        reference |-> FirstReference(current, incoming),
        failure |-> FailureOf(current, incoming)]

\* claimSettlementNonce.
NonceGranted(e) == nonce \in {None, e}

-----------------------------------------------------------------------------

\* w gives up: an error reached it, its request was answered, or it crashed.
Leave(w) ==
  /\ pc' = [pc EXCEPT ![w] = "idle"]
  /\ copy' = [copy EXCEPT ![w] = None]
  /\ result' = [result EXCEPT ![w] = None]

\* getOrCreateSettlementAttempt with an evidence that w has just signed.
GetOrCreate(w, e) ==
  /\ pc[w] = "idle"
  /\ record' = Create(e)
  /\ copy' = [copy EXCEPT ![w] = record']
  /\ pc' = [pc EXCEPT ![w] = "nonce"]
  /\ UNCHANGED <<nonce, result>>

\* claimSettlementEvidenceNonce; SETTLEMENT_EVIDENCE_REPLAY ends the request.
ClaimNonce(w) ==
  /\ pc[w] = "nonce"
  /\ IF NonceGranted(copy[w].evidence)
     THEN /\ nonce' = copy[w].evidence
          /\ pc' = [pc EXCEPT ![w] = "settle"]
          /\ UNCHANGED <<copy, result>>
     ELSE Leave(w) /\ UNCHANGED nonce
  /\ UNCHANGED record

\* The adapter answers requestValidClose or requestExpiredReservationSettlement.
Answer(w, r) ==
  /\ pc[w] = "settle"
  /\ result' = [result EXCEPT ![w] = r]
  /\ pc' = [pc EXCEPT ![w] = "update"]
  /\ UNCHANGED <<record, nonce, copy>>

\* What updateSettlementAttempt makes of the copy and the result of w.
Updated(w) ==
  [evidence |-> copy[w].evidence,
   status |-> result[w].status,
   reference |-> IF result[w].reference = None THEN copy[w].reference ELSE result[w].reference,
   failure |-> result[w].failure]

\* updateSettlementAttempt after the answer, and again after the polling. A
\* conflict is thrown and ends the request.
Update(w) ==
  /\ pc[w] \in {"update", "final"}
  /\ IF EvidenceConflict(record, Updated(w)) \/ ReferenceConflict(record, Updated(w))
     THEN Leave(w) /\ UNCHANGED record
     ELSE /\ record' = Merge(record, Updated(w))
          /\ IF pc[w] = "final"
             THEN Leave(w)
             ELSE /\ copy' = [copy EXCEPT ![w] = record']
                  /\ pc' = [pc EXCEPT ![w] = "poll"]
                  /\ UNCHANGED result
  /\ UNCHANGED nonce

\* pollSettlement: up to five looks at a pending transaction with a reference.
\* A failure code seen on the way is reported unless it is confirmed.
Poll(w, status, failure) ==
  /\ pc[w] = "poll"
  /\ IF result[w].status = "PENDING" /\ result[w].reference # None
     THEN result' = [result EXCEPT
            ![w].status = status,
            ![w].failure = IF status = "CONFIRMED" \/ failure = None THEN @ ELSE failure]
     ELSE UNCHANGED result
  /\ pc' = [pc EXCEPT ![w] = "final"]
  /\ UNCHANGED <<record, nonce, copy>>

Crash(w) ==
  /\ pc[w] # "idle"
  /\ Leave(w)
  /\ UNCHANGED <<record, nonce>>

Next ==
  \E w \in Writers :
    \/ \E e \in Evidences : GetOrCreate(w, e)
    \/ ClaimNonce(w)
    \/ \E r \in Results : Answer(w, r)
    \/ Update(w)
    \/ \E s \in Status, f \in {"CODE", None} : Poll(w, s, f)
    \/ Crash(w)

Spec == Init /\ [][Next]_vars

-----------------------------------------------------------------------------
(* Properties.                                                             *)

\* No writer is ever refused for its evidence: a late or restarted one works
\* with the evidence of the first, and the nonce is claimed by that evidence
\* alone. So SETTLEMENT_EVIDENCE_CONFLICT and SETTLEMENT_EVIDENCE_REPLAY are
\* never thrown between the writers of one attempt.
WritersAgree ==
  /\ \A w \in Writers : copy[w] # None =>
       record # None /\ copy[w].evidence = record.evidence
  /\ nonce # None => record # None /\ nonce = record.evidence

\* A confirmed attempt reports no failure, whatever failed before.
ConfirmedWithoutFailure ==
  record # None /\ record.status = "CONFIRMED" => record.failure = None

\* The first evidence of the attempt is the only one: a refinement of WriteOnce.
EvidenceRegister ==
  INSTANCE WriteOnce WITH
    Values <- Evidences, Unset <- None,
    value <- IF record = None THEN None ELSE record.evidence

\* createSettlementAttempt, "atomic first-evidence creation"
\* (docs/10-integration-test-matrix.md:71).
EvidenceOnce == EvidenceRegister!Spec

\* The first transaction reference is the only one, and is never erased.
ReferenceRegister ==
  INSTANCE WriteOnce WITH
    Values <- References, Unset <- None,
    value <- IF record = None THEN None ELSE record.reference

\* mergeSettlementAttempt, "concurrent update cannot ... erase provider
\* reference" (docs/10-integration-test-matrix.md:88).
ReferenceOnce == ReferenceRegister!Spec

\* The status only rises, and a confirmed record never changes again, however
\* late and stale the updates of the other writers are.
OutcomeMonotone ==
  [][record # None =>
       /\ record' # None
       /\ Rank(record.status) <= Rank(record'.status)
       /\ record.status = "CONFIRMED" => record' = record]_vars
=============================================================================
