----------------------------- MODULE Settlement -----------------------------
(***************************************************************************)
(* Settling one bonded session of the gateway: the close route and the     *)
(* access route of apps/gateway/src/app.ts, the expiry worker of           *)
(* expiry-processor.ts, and the repository, adapter and escrow they share. *)
(* The repository is Firestore's: it survives crashes, and each of its     *)
(* methods is a transaction, so a step of a handler is what it does        *)
(* between two awaits.                                                     *)
(*                                                                         *)
(* Simplifications. Deadlines are kept as the time left until them, 0 when *)
(* they have passed. A session without a lease and one whose lease has     *)
(* expired are told apart nowhere in the code, and both have no time left. *)
(* An evidence is the usage it states: outcome, session and reservation    *)
(* follow from the attempt that holds it. Authorisation is merged with the *)
(* metering that repeats its checks, and the nonce claim with the creation *)
(* of the attempt, whose stored evidence is the only one ever claimed with *)
(* that nonce: a nonce is known by its outcome. The Solana adapter never   *)
(* answers PENDING, so polling hands its result on. Events, the status of  *)
(* an attempt, idempotency keys (one per request) and the rate limit are   *)
(* left out. A transaction is known by its place among those that name the *)
(* bond's account.                                                         *)
(***************************************************************************)
EXTENDS Integers, FiniteSets

CONSTANTS
  Closers,        \* requests to POST /v1/sessions/:id/close
  Expirers,       \* requests to POST /reservations/:id/expire
  Requesters,     \* requests for the other operations of the access route
  Workers,        \* runs of scripts/process-expirations.ts
  None,           \* no evidence, no receipt, no snapshot
  Stock,          \* units of the product before any reservation
  MaxCalls,       \* MaxCalls[op]: maxCalls of the operation in the policy
  MaxTotalCalls,  \* maxTotalCalls of the policy
  UsageCap,       \* usageCapAtomic, in calls
  TokenTTL,       \* time until the session token expires
  BondTTL,        \* time until the agent may call reclaim_expired
  ReservationTTL, \* ttlSeconds of the bonded action
  Lease,          \* DEFAULT_SETTLEMENT_LEASE_MS
  MaxFaults       \* bound on crashes, timeouts and network failures

Operations == {"browse", "reserve", "release", "consume", "expire"}

ASSUME CallsAssumption ==
  MaxCalls \in [Operations -> Nat] /\ MaxTotalCalls \in Nat /\ UsageCap \in Nat
ASSUME TimeAssumption ==
  /\ TokenTTL \in Nat /\ BondTTL \in Nat
  /\ ReservationTTL \in Nat /\ Lease \in Nat
ASSUME BoundAssumption == Stock \in Nat /\ MaxFaults \in Nat

VARIABLES
  session,      \* the session document
  reservation,  \* state of the session's reservation, "NONE" before it exists
  stock,        \* inventory document of the product
  attempt,      \* attempt[o]: evidence journaled for outcome o, or None
  reference,    \* reference[o]: signature journaled when o was confirmed
  bond,         \* the bond account: its status and the evidence it records
  signatures,   \* transactions on that account, from the one that ended it on
  inflight,     \* transactions whose sender has given up on them
  settledResults, \* settledResults[p][o]: signature with which it confirmed o
  seenNonces,   \* seenNonces[p]: outcomes whose evidence it has sent itself
  timeLeft,     \* timeLeft[d]: time until deadline d
  pc,           \* pc[p]: the next step of p
  seen,         \* seen[p]: the session record p works with
  evidence,     \* evidence[p]: evidence of the attempt p works with
  answer,       \* answer[p]: signature in the result of its settlement
  faults        \* crashes, timeouts and network failures so far

vars == <<session, reservation, stock, attempt, reference, bond, signatures,
          inflight, settledResults, seenNonces, timeLeft, pc, seen, evidence,
          answer, faults>>

\* An attempt is one document.
journal == <<attempt, reference>>
store == <<session, reservation, stock, journal>>
\* The chain, and what the adapters remember of it.
ledger == <<bond, signatures>>
chain == <<ledger, inflight, settledResults, seenNonces>>
local == <<seen, evidence, answer>>

Handlers == Closers \cup Expirers \cup Requesters
Settlers == Closers \cup Expirers \cup Workers
Processes == Handlers \cup Workers

\* The handlers share a gateway and its adapter, a worker has its own.
MachineOf(p) == IF p \in Handlers THEN Handlers ELSE {p}

Deadlines == {"token", "bond", "reservation", "lease"}
Outcomes == {"CLOSED", "VIOLATED"}
Usage == 0..UsageCap

Receipts == [outcome : {"CLOSED", "EXPIRED"}, calls : Nat, usage : Usage]

Sessions == [state : {"ACTIVE", "SETTLING", "CLOSED", "EXPIRED"},
             calls : Nat,
             opCalls : [Operations -> Nat],
             receipt : Receipts \cup {None}]

ASSUME NoneAssumption == None \notin Nat /\ None \notin Receipts /\ None \notin Sessions

\* The n-th of the transactions that name the bond account, the one that ended
\* it being the first: the signature of it, or none at all.
Signatures == Nat
NoSignature == 0

Transactions == [outcome : Outcomes, evidence : Usage]

Steps == {"idle", "claim", "lock", "meter", "attempt", "fetch", "submit",
          "journal", "finalize", "commit", "receipt", "unlock",
          "reserve", "release", "consume"}

TypeOK ==
  /\ session \in Sessions
  /\ reservation \in {"NONE", "ACTIVE", "RELEASED", "CONSUMED", "EXPIRED"}
  /\ stock \in Nat
  /\ attempt \in [Outcomes -> Usage \cup {None}]
  /\ reference \in [Outcomes -> Signatures \cup {None}]
  /\ bond \in [status : Outcomes \cup {"OPEN", "RECLAIMED"}, evidence : Usage \cup {None}]
  /\ signatures \in Nat
  /\ inflight \subseteq Transactions
  /\ settledResults \in [Processes -> [Outcomes -> Signatures \cup {None}]]
  /\ seenNonces \in [Processes -> SUBSET Outcomes]
  /\ timeLeft \in [Deadlines -> Nat]
  /\ pc \in [Processes -> Steps]
  /\ seen \in [Processes -> Sessions \cup {None}]
  /\ evidence \in [Processes -> Usage \cup {None}]
  /\ answer \in [Processes -> Signatures \cup {None}]
  /\ faults \in 0..MaxFaults

NothingSettled == [o \in Outcomes |-> None]

\* A session that POST /v1/sessions has just activated, its bond open.
Init ==
  /\ session = [state |-> "ACTIVE", calls |-> 0,
                opCalls |-> [op \in Operations |-> 0], receipt |-> None]
  /\ reservation = "NONE"
  /\ stock = Stock
  /\ attempt = [o \in Outcomes |-> None]
  /\ reference = [o \in Outcomes |-> None]
  /\ bond = [status |-> "OPEN", evidence |-> None]
  /\ signatures = 0
  /\ inflight = {}
  /\ settledResults = [p \in Processes |-> NothingSettled]
  /\ seenNonces = [p \in Processes |-> {}]
  /\ timeLeft = [d \in Deadlines |-> CASE d = "token" -> TokenTTL
                                       [] d = "bond" -> BondTTL
                                       [] OTHER -> 0]
  /\ pc = [p \in Processes |-> "idle"]
  /\ seen = [p \in Processes |-> None]
  /\ evidence = [p \in Processes |-> None]
  /\ answer = [p \in Processes |-> None]
  /\ faults = 0

-----------------------------------------------------------------------------
(* What the steps are built from. A slip is a mistake that the code does   *)
(* not make; the properties below must tell it from the definition it is   *)
(* written next to.                                                        *)

\* slip: the charge is not capped
ChargeExact(calls) == calls

\* slip: the request being served is counted once more
ChargeAhead(calls) == IF calls + 1 > UsageCap THEN UsageCap ELSE calls + 1

\* getUsageSettlement: the exact usage, but never more than the cap.
Charge(calls) == IF calls > UsageCap THEN UsageCap ELSE calls

\* reserveRequest of the access route, for a session in the given state.
CanMeter(op, state) ==
  /\ session.state = state
  /\ session.opCalls[op] < MaxCalls[op]
  /\ session.calls < MaxTotalCalls

Metered(op) == [session EXCEPT !.calls = @ + 1, !.opCalls[op] = @ + 1]

\* slip: a lock whose owner died is never taken over
ClaimableOnce == session.state = "ACTIVE"

\* claimSettlement: a lock can be taken over when it has no time left.
Claimable ==
  \/ session.state = "ACTIVE"
  \/ session.state = "SETTLING" /\ timeLeft["lease"] = 0

\* slip: the terminal transition does not look at the state it leaves
Leaves(state) == TRUE

\* The expected state of transitionSession.
Expected(state) == session.state = state

\* transitionSession(.., next) when the expected state was found: the lease goes.
Transition(next) ==
  /\ session' = [session EXCEPT !.state = next]
  /\ timeLeft' = [timeLeft EXCEPT !["lease"] = 0]

Outcome(p) == IF p \in Closers THEN "CLOSED" ELSE "VIOLATED"

\* slip: each handler journals the evidence it has just computed
JournaledLast(o, e) == e

\* createSettlementAttempt: the first evidence of an outcome is kept.
Journaled(o, e) == IF attempt[o] = None THEN e ELSE attempt[o]

\* The chain already shows the refund the adapter is about to ask for.
RefundedWith(e) == bond.status = "CLOSED" /\ bond.evidence = e

\* slip: recovery does not compare the outcome on the chain with its own
SettledAtAll(e) == bond.status # "OPEN"

\* The chain already shows the penalty, with this receipt and of this amount.
PenalisedWith(e) == bond.status = "VIOLATED" /\ bond.evidence = e

\* slip: the program settles whatever bond it is given
SettlesAnyBond == TRUE

\* The program settles an open bond only (BondEscrow!Unsettled).
BondOpen == bond.status = "OPEN"

\* The calls of BotBondClient: each sends one instruction of the program.
Ends(ended) == BondOpen /\ bond' = ended /\ signatures' = signatures + 1
CloseValid(e) == Ends([status |-> "CLOSED", evidence |-> e])
SettleViolation(e) == Ends([status |-> "VIOLATED", evidence |-> e])
ReclaimExpired ==
  timeLeft["bond"] = 0 /\ Ends([bond EXCEPT !.status = "RECLAIMED"])

\* A settlement of a bond that was settled fails: before it is sent, or as one
\* more transaction on the account.
FailedTransaction ==
  /\ ~ BondOpen
  /\ signatures' \in {signatures, signatures + 1}
  /\ UNCHANGED bond

\* MAX_ACTIVE_RESERVATIONS, or OUT_OF_STOCK.
ReservationRefused == reservation = "ACTIVE" \/ (reservation = "NONE" /\ stock = 0)

\* slip: any reservation can be finalized
Reserved == reservation # "NONE"

\* finalizeReservationWithInventory changes an active reservation only.
StillActive == reservation = "ACTIVE"

\* slip: an active reservation counts as expired
NoWait == TRUE

ReservationDue == timeLeft["reservation"] = 0

FinalizeReservation(state) ==
  /\ reservation' = state
  /\ stock' = IF state = "CONSUMED" THEN stock ELSE stock + 1

GoTo(p, step) == pc' = [pc EXCEPT ![p] = step]

\* p answers its request and forgets what it worked with, or is about to
\* unlock the session first.
LeaveTo(p, step) ==
  /\ GoTo(p, step)
  /\ seen' = [seen EXCEPT ![p] = None]
  /\ evidence' = [evidence EXCEPT ![p] = None]
  /\ answer' = [answer EXCEPT ![p] = None]

\* A settlement that is not confirmed unlocks the session.
GiveUp(p) == LeaveTo(p, "unlock")

Fault == faults < MaxFaults /\ faults' = faults + 1

-----------------------------------------------------------------------------
(* Requests to the access route other than expire.                         *)

\* A read: it is metered and changes nothing else that matters here.
Browse(p) ==
  /\ pc[p] = "idle" /\ timeLeft["token"] > 0
  /\ CanMeter("browse", "ACTIVE")
  /\ session' = Metered("browse")
  /\ UNCHANGED <<reservation, stock, journal, chain, timeLeft, pc, local, faults>>

\* authorize and reserveRequest of POST /reservations, .../release, .../consume.
Admit(p, op) ==
  /\ pc[p] = "idle" /\ timeLeft["token"] > 0
  /\ CanMeter(op, "ACTIVE")
  /\ session' = Metered(op)
  /\ GoTo(p, op)
  /\ UNCHANGED <<reservation, stock, journal, chain, timeLeft, local, faults>>

\* DemoCommerceApi.createReservation. There is one document per session and
\* product: a reservation that has ended is not created again, and the answer
\* does not tell.
Reserve(p) ==
  /\ pc[p] = "reserve" /\ ~ ReservationRefused
  /\ IF reservation = "NONE"
     THEN /\ reservation' = "ACTIVE"
          /\ stock' = stock - 1
          /\ timeLeft' = [timeLeft EXCEPT !["reservation"] = ReservationTTL]
     ELSE UNCHANGED <<reservation, stock, timeLeft>>
  /\ GoTo(p, "idle")
  /\ UNCHANGED <<session, journal, chain, local, faults>>

\* finalizeReservation for release and consume. A reservation that is no longer
\* active is answered with its state.
EndReservation(p) ==
  /\ pc[p] \in {"release", "consume"}
  /\ reservation # "NONE"
  /\ IF StillActive
     THEN FinalizeReservation(IF pc[p] = "release" THEN "RELEASED" ELSE "CONSUMED")
     ELSE UNCHANGED <<reservation, stock>>
  /\ GoTo(p, "idle")
  /\ UNCHANGED <<session, journal, chain, timeLeft, local, faults>>

\* The operation throws: no reservation to end, one too many, or out of stock.
\* The handler of the access route then unlocks the session, whoever locked it.
OperationFails(p) ==
  /\ \/ pc[p] = "reserve" /\ ReservationRefused
     \/ pc[p] \in {"release", "consume"} /\ reservation = "NONE"
  /\ GoTo(p, "unlock")
  /\ UNCHANGED <<store, chain, timeLeft, local, faults>>

\* transitionSession(SETTLING, ACTIVE), its error ignored, then the answer.
Unlock(p) ==
  /\ pc[p] = "unlock"
  /\ IF session.state = "SETTLING" THEN Transition("ACTIVE")
                                   ELSE UNCHANGED <<session, timeLeft>>
  /\ GoTo(p, "idle")
  /\ UNCHANGED <<reservation, stock, journal, chain, local, faults>>

-----------------------------------------------------------------------------
(* How a settlement starts.                                                *)

\* The close route reads the session and its reservations.
CheckClose(p) ==
  /\ pc[p] = "idle" /\ timeLeft["token"] > 0
  /\ session.receipt = None /\ session.state \in {"ACTIVE", "SETTLING"}
  /\ reservation # "ACTIVE"
  /\ GoTo(p, "claim")
  /\ UNCHANGED <<store, chain, timeLeft, local, faults>>

\* The worker lists the sessions and their expired reservations.  Each run of the
\* script makes an adapter of its own.
ListExpired(p) ==
  /\ pc[p] = "idle"
  /\ session.state \in {"ACTIVE", "SETTLING"}
  /\ reservation = "ACTIVE" /\ ReservationDue
  /\ seen' = [seen EXCEPT ![p] = session]
  /\ GoTo(p, "claim")
  /\ settledResults' = [settledResults EXCEPT ![p] = NothingSettled]
  /\ seenNonces' = [seenNonces EXCEPT ![p] = {}]
  /\ UNCHANGED <<store, ledger, inflight, timeLeft, evidence, answer, faults>>

\* claimSettlement. The close route goes on with the record it returns, the
\* worker with the one it listed.
Claim(p) ==
  /\ pc[p] = "claim"
  /\ IF Claimable
     THEN /\ session' = [session EXCEPT !.state = "SETTLING"]
          /\ timeLeft' = [timeLeft EXCEPT !["lease"] = Lease]
          /\ seen' = [seen EXCEPT ![p] = IF p \in Closers THEN session' ELSE @]
          /\ GoTo(p, "attempt")
          /\ UNCHANGED <<evidence, answer>>
     ELSE LeaveTo(p, "idle") /\ UNCHANGED <<session, timeLeft>>
  /\ UNCHANGED <<reservation, stock, journal, chain, faults>>

\* authorize and prepareExpiration of the expire operation. Too early, it
\* throws; a reservation that is not active is answered with its state.
PrepareExpiration(p) ==
  /\ pc[p] = "idle" /\ timeLeft["token"] > 0
  /\ session.state = "ACTIVE"
  /\ session.opCalls["expire"] < MaxCalls["expire"] /\ session.calls < MaxTotalCalls
  /\ reservation \in {"NONE", "ACTIVE"}
  /\ GoTo(p, IF reservation = "ACTIVE" /\ ReservationDue THEN "lock" ELSE "unlock")
  /\ UNCHANGED <<store, chain, timeLeft, local, faults>>

\* transitionSession(ACTIVE, SETTLING): this lock has no lease.
Lock(p) ==
  /\ pc[p] = "lock"
  /\ IF session.state = "ACTIVE"
     THEN Transition("SETTLING") /\ GoTo(p, "meter")
     ELSE GoTo(p, "idle") /\ UNCHANGED <<session, timeLeft>>
  /\ UNCHANGED <<reservation, stock, journal, chain, local, faults>>

\* reserveRequest of the expire operation, under its own lock.
Meter(p) ==
  /\ pc[p] = "meter"
  /\ IF CanMeter("expire", "SETTLING")
     THEN /\ session' = Metered("expire")
          /\ seen' = [seen EXCEPT ![p] = session']
          /\ GoTo(p, "attempt")
     ELSE GoTo(p, "unlock") /\ UNCHANGED <<session, seen>>
  /\ UNCHANGED <<reservation, stock, journal, chain, timeLeft, evidence, answer, faults>>

-----------------------------------------------------------------------------
(* The settlement of the bond, and what follows its confirmation.          *)

\* createSettlementEvidence of the usage settlement of the record p works with.
CreatedEvidence(p) == Charge(seen[p].calls)

\* getOrCreateSettlementAttempt.
CreateAttempt(p) ==
  LET e == Journaled(Outcome(p), CreatedEvidence(p)) IN
  /\ pc[p] = "attempt"
  /\ attempt' = [attempt EXCEPT ![Outcome(p)] = e]
  /\ evidence' = [evidence EXCEPT ![p] = e]
  /\ GoTo(p, "fetch")
  /\ UNCHANGED <<session, reservation, stock, reference, chain, timeLeft, seen,
                 answer, faults>>

\* The settlement of p is confirmed, by the transaction with this signature.
Confirmed(p, signature) ==
  /\ GoTo(p, "journal")
  /\ answer' = [answer EXCEPT ![p] = signature]
  /\ UNCHANGED <<seen, evidence>>

\* The adapter of p's machine notes its result.
NoteResult(p, signature) ==
  settledResults' =
    [q \in Processes |->
       IF q \in MachineOf(p) THEN [settledResults[q] EXCEPT ![Outcome(p)] = signature]
                             ELSE settledResults[q]]

Settled(p) == settledResults[p][Outcome(p)] # None

\* What the adapter has confirmed it confirms again, whatever the evidence, and
\* without a look at the chain.
AnswerAgain(p) ==
  /\ pc[p] = "fetch" /\ Settled(p)
  /\ Confirmed(p, settledResults[p][Outcome(p)])
  /\ UNCHANGED <<store, chain, timeLeft, faults>>

\* checkEvidence: the evidence p holds is made for its request and signed; the
\* adapter sends a nonce once.
EvidenceAccepted(p) == Outcome(p) \notin seenNonces[p]

\* recoverSettled: the settlement happened, and the adapter did not know. It takes
\* the newest transaction of the account for the one that settled the bond, and
\* does without a signature when the list cannot be read.
RecoverSettled(p) ==
  /\ \E signature \in {signatures, NoSignature} :
       /\ Confirmed(p, signature) /\ NoteResult(p, signature)
       /\ IF signature = signatures THEN UNCHANGED faults ELSE Fault
  /\ UNCHANGED <<ledger, inflight, seenNonces>>

\* The adapter reads the bond account: it goes on to send a transaction,
\* recovers a settlement that happened, or refuses an evidence it has seen or a
\* settlement that is not the one it was asked for.
FetchBond(p, settled) ==
  /\ pc[p] = "fetch" /\ ~ Settled(p)
  /\ \/ /\ EvidenceAccepted(p) /\ BondOpen
        /\ GoTo(p, "submit") /\ UNCHANGED <<chain, local, faults>>
     \/ EvidenceAccepted(p) /\ settled /\ RecoverSettled(p)
     \/ /\ EvidenceAccepted(p) => ~ BondOpen /\ ~ settled
        /\ GiveUp(p) /\ UNCHANGED <<chain, faults>>
  /\ UNCHANGED <<store, timeLeft>>

\* The account cannot be read.
FetchFails(p) ==
  /\ pc[p] = "fetch" /\ ~ Settled(p)
  /\ Fault
  /\ GiveUp(p)
  /\ UNCHANGED <<store, chain, timeLeft>>

RequestValidClose(p) ==
  /\ p \in Closers
  /\ AnswerAgain(p) \/ FetchBond(p, RefundedWith(evidence[p])) \/ FetchFails(p)

RequestExpiredReservationSettlement(p) ==
  /\ p \notin Closers
  /\ AnswerAgain(p) \/ FetchBond(p, PenalisedWith(evidence[p])) \/ FetchFails(p)

\* p learns that its transaction settled the bond, and so does its adapter.
Learns(p) ==
  /\ Confirmed(p, signatures') /\ NoteResult(p, signatures')
  /\ seenNonces' = [q \in Processes |-> IF q \in MachineOf(p)
                                        THEN seenNonces[q] \cup {Outcome(p)}
                                        ELSE seenNonces[q]]
  /\ UNCHANGED <<store, inflight, timeLeft, faults>>

CloseLands(p) ==
  pc[p] = "submit" /\ p \in Closers /\ CloseValid(evidence[p]) /\ Learns(p)

PenaltyLands(p) ==
  pc[p] = "submit" /\ p \notin Closers /\ SettleViolation(evidence[p]) /\ Learns(p)

\* Another transaction settled the bond since p read it.
SubmitRefused(p) ==
  /\ pc[p] = "submit"
  /\ FailedTransaction
  /\ GiveUp(p)
  /\ UNCHANGED <<store, inflight, settledResults, seenNonces, timeLeft, faults>>

\* p does not learn what becomes of its transaction.
SubmitTimesOut(p) ==
  /\ pc[p] = "submit"
  /\ Fault
  /\ inflight' = inflight \cup {[outcome |-> Outcome(p), evidence |-> evidence[p]]}
  /\ GiveUp(p)
  /\ UNCHANGED <<store, ledger, settledResults, seenNonces, timeLeft>>

\* mergeSettlementAttempt refuses to replace a signature by another one.
ReferenceConflict(p) ==
  /\ reference[Outcome(p)] \notin {None, NoSignature}
  /\ answer[p] \notin {NoSignature, reference[Outcome(p)]}

\* updateSettlementAttempt, for a settlement that was confirmed: the first
\* confirmation is kept. When it throws, the routes unlock and the worker dies.
UpdateAttempt(p) ==
  /\ pc[p] = "journal"
  /\ IF ReferenceConflict(p)
     THEN LeaveTo(p, IF p \in Workers THEN "idle" ELSE "unlock") /\ UNCHANGED reference
     ELSE /\ reference' = [reference EXCEPT ![Outcome(p)] = IF @ = None THEN answer[p] ELSE @]
          /\ GoTo(p, IF p \in Closers THEN "commit" ELSE "finalize")
          /\ UNCHANGED local
  /\ UNCHANGED <<session, reservation, stock, attempt, chain, timeLeft, faults>>

\* finalizeReservation(.., "EXPIRED") of the access route, which goes on whether
\* or not that changed anything.
RouteExpires(p) ==
  /\ pc[p] = "finalize" /\ p \in Expirers
  /\ IF StillActive THEN FinalizeReservation("EXPIRED")
                    ELSE UNCHANGED <<reservation, stock>>
  /\ GoTo(p, "commit")
  /\ UNCHANGED <<session, journal, chain, timeLeft, local, faults>>

\* That of the worker, which gives up when nothing changed.
WorkerExpires(p) ==
  /\ pc[p] = "finalize" /\ p \notin Expirers
  /\ IF StillActive
     THEN FinalizeReservation("EXPIRED") /\ GoTo(p, "commit") /\ UNCHANGED local
     ELSE GiveUp(p) /\ UNCHANGED <<reservation, stock>>
  /\ UNCHANGED <<session, journal, chain, timeLeft, faults>>

\* The receipt of a close counts the calls of the record that the transition
\* returns, that of an expiry those of the record p worked with.
CloseReceipt(p) ==
  [outcome |-> "CLOSED", calls |-> session.calls, usage |-> Charge(seen[p].calls)]
ExpiryReceipt(p) ==
  [outcome |-> "EXPIRED", calls |-> seen[p].calls, usage |-> Charge(seen[p].calls)]

\* p adds the receipt to the record it gets back.
End(p, receipt) ==
  /\ Transition(receipt.outcome)
  /\ seen' = [seen EXCEPT ![p] = [session' EXCEPT !.receipt = receipt]]
  /\ GoTo(p, "receipt")
  /\ UNCHANGED <<evidence, answer>>

\* transitionSession(SETTLING, CLOSED), whose error the route catches: it unlocks.
CommitClose(p) ==
  /\ pc[p] = "commit" /\ p \in Closers
  /\ IF Expected("SETTLING") THEN End(p, CloseReceipt(p))
                             ELSE GiveUp(p) /\ UNCHANGED <<session, timeLeft>>
  /\ UNCHANGED <<reservation, stock, journal, chain, faults>>

\* transitionSession(SETTLING, EXPIRED), by the access route or the worker.
CommitExpiry(p) ==
  /\ pc[p] = "commit" /\ p \notin Closers
  /\ IF Expected("SETTLING") THEN End(p, ExpiryReceipt(p))
                             ELSE LeaveTo(p, "idle") /\ UNCHANGED <<session, timeLeft>>
  /\ UNCHANGED <<reservation, stock, journal, chain, faults>>

\* saveSession overwrites the whole document.
SaveReceipt(p) ==
  /\ pc[p] = "receipt"
  /\ session' = seen[p]
  /\ LeaveTo(p, "idle")
  /\ UNCHANGED <<reservation, stock, journal, chain, timeLeft, faults>>

-----------------------------------------------------------------------------
(* The chain, the clock and crashes.                                       *)

\* A transaction nobody waits for settles the bond, fails, or is dropped.
Land(t) ==
  /\ t \in inflight
  /\ inflight' = inflight \ {t}
  /\ \/ t.outcome = "CLOSED" /\ CloseValid(t.evidence)
     \/ t.outcome = "VIOLATED" /\ SettleViolation(t.evidence)
     \/ FailedTransaction
     \/ UNCHANGED ledger
  /\ UNCHANGED <<store, settledResults, seenNonces, timeLeft, pc, local, faults>>

\* reclaim_expired, sent by the agent's own wallet.
Reclaim ==
  /\ ReclaimExpired
  /\ UNCHANGED <<store, inflight, settledResults, seenNonces, timeLeft, pc, local, faults>>

\* Anyone may name the account of a bond in a transaction, settled or not; what
\* comes before the settlement is never the newest one again.
Mention ==
  /\ ~ BondOpen /\ Fault
  /\ signatures' = signatures + 1
  /\ UNCHANGED <<store, bond, inflight, settledResults, seenNonces, timeLeft, pc, local>>

Tick ==
  /\ \E d \in Deadlines : timeLeft[d] > 0
  /\ timeLeft' = [d \in Deadlines |-> IF timeLeft[d] > 0 THEN timeLeft[d] - 1 ELSE 0]
  /\ UNCHANGED <<store, chain, pc, local, faults>>

\* The processes that share a machine lose their memory together.
CrashOf(group) ==
  /\ \E p \in group : pc[p] # "idle"
  /\ Fault
  /\ pc' = [p \in Processes |-> IF p \in group THEN "idle" ELSE pc[p]]
  /\ seen' = [p \in Processes |-> IF p \in group THEN None ELSE seen[p]]
  /\ evidence' = [p \in Processes |-> IF p \in group THEN None ELSE evidence[p]]
  /\ answer' = [p \in Processes |-> IF p \in group THEN None ELSE answer[p]]
  /\ settledResults' = [p \in Processes |-> IF p \in group THEN NothingSettled
                                             ELSE settledResults[p]]
  /\ seenNonces' = [p \in Processes |-> IF p \in group THEN {} ELSE seenNonces[p]]
  /\ UNCHANGED <<store, ledger, inflight, timeLeft>>

Crash == \E p \in Processes : CrashOf(MachineOf(p))

-----------------------------------------------------------------------------

Request(p) ==
  \/ Browse(p)
  \/ \E op \in {"reserve", "release", "consume"} : Admit(p, op)
  \/ Reserve(p)
  \/ EndReservation(p)
  \/ OperationFails(p)

Settle(p) ==
  \/ Claim(p)
  \/ CreateAttempt(p)
  \/ RequestValidClose(p) \/ RequestExpiredReservationSettlement(p)
  \/ CloseLands(p) \/ PenaltyLands(p) \/ SubmitRefused(p) \/ SubmitTimesOut(p)
  \/ UpdateAttempt(p)
  \/ RouteExpires(p) \/ WorkerExpires(p)
  \/ CommitClose(p) \/ CommitExpiry(p)
  \/ SaveReceipt(p)

Next ==
  \/ \E p \in Requesters : Request(p)
  \/ \E p \in Closers : CheckClose(p)
  \/ \E p \in Expirers : PrepareExpiration(p) \/ Lock(p) \/ Meter(p)
  \/ \E p \in Workers : ListExpired(p)
  \/ \E p \in Settlers : Settle(p)
  \/ \E p \in Processes : Unlock(p)
  \/ \E t \in Transactions : Land(t)
  \/ Reclaim
  \/ Mention
  \/ Tick
  \/ Crash

Spec == Init /\ [][Next]_vars

\* The worker is scheduled again and again and each of its calls returns, time
\* passes, and a transaction in flight lands or is dropped. No request has to
\* be sent, or sent again.
FairSpec ==
  /\ Spec
  /\ WF_vars(Tick)
  /\ \A t \in Transactions : WF_vars(Land(t))
  /\ \A w \in Workers : WF_vars(ListExpired(w) \/ Settle(w) \/ Unlock(w))

-----------------------------------------------------------------------------
(* Properties that hold.                                                   *)

\* Every unit of the product is in stock, reserved or consumed: no order of
\* concurrent releases, consumptions and expiries returns a unit twice
\* (finalizeReservationWithInventory).
StockConserved ==
  stock + (IF reservation \in {"ACTIVE", "CONSUMED"} THEN 1 ELSE 0) = Stock

\* A penalty is only ever taken for a reservation that existed and whose
\* deadline had passed, whatever happened to it since (settle_violation,
\* docs/03-contracts.md, section 5).
PenaltyOnlyWhenDue ==
  bond.status = "VIOLATED" => reservation # "NONE" /\ timeLeft["reservation"] = 0

\* A unit is returned to the stock as expired only after the penalty was paid:
\* app.ts and expiry-processor.ts finalize after the confirmation.
ExpiredMeansPenalised == reservation = "EXPIRED" => bond.status = "VIOLATED"

\* However the settlement authority settled the bond, late transactions and
\* crashed handlers included, the journal holds the evidence that the chain
\* records, so that a restart can recover it (decision D-014).
SettledAsJournaled ==
  bond.status \in Outcomes =>
    bond.evidence # None /\ bond.evidence = attempt[bond.status]

\* Session, receipt and chain do not disagree on how the bond ended (decision
\* in docs/00-decision-log.md:76): a session ends, and has a receipt, only when
\* the bond was settled with that outcome.
SessionAgreesWithChain ==
  /\ session.state = "CLOSED" => bond.status = "CLOSED"
  /\ session.state = "EXPIRED" => bond.status = "VIOLATED"
  /\ session.receipt # None => session.receipt.outcome = session.state

\* Nobody is billed, by a receipt or by an evidence on the chain, for more
\* requests than were metered, stale session records included.
BilledWithinMeter ==
  /\ session.receipt # None =>
       /\ session.receipt.usage <= session.receipt.calls
       /\ session.receipt.calls <= session.calls
  /\ bond.status \in Outcomes => bond.evidence <= session.calls

Terminal == {"CLOSED", "EXPIRED"}

\* A session that ended only ever gains its receipt: no unlock, claim, metering
\* or saveSession of a stale record changes it again.
TerminalIsFinal ==
  [][session.state \in Terminal =>
       session' = session \/ (session.receipt = None
                              /\ session' = [session EXCEPT !.receipt = session'.receipt])]_vars

\* The penalty was journaled, and its account has had a transaction since: an
\* adapter that does not remember the settlement recovers another signature than
\* the journaled one.
JournalOutrun == reference["VIOLATED"] \notin {None, NoSignature, signatures}

\* A reservation past its deadline is settled, by the worker if by nobody else,
\* unless the bond was refunded or reclaimed first: crashed workers and lost
\* transactions do not block it (lease takeover of claimSettlement), nor do failed
\* transactions and signatures that could not be read, as long as the newest
\* transaction of the account is the one that was journaled (recoverSettled,
\* mergeSettlementAttempt). When it is not, every later update of the attempt
\* throws, and the reservation may stay active for ever.
AbandonedIsSettled ==
  (reservation = "ACTIVE") ~>
    \/ reservation # "ACTIVE"
    \/ bond.status \in {"CLOSED", "RECLAIMED"}
    \/ JournalOutrun

\* The escrow account as the program of module BondEscrow keeps it: amounts in
\* units of 50000 base units. POST /v1/sessions verifies the two amounts (and
\* policy and status). That the settlement authority is the gateway's, that the
\* merchant is the policy's and when the bond expires it does not look at: here
\* they are as the demo's client opens a bond. A bond that names another
\* authority is accepted, and no settlement of it succeeds.
Terms == [merchant |-> "merchant", authority |-> "gateway",
          bondAmount |-> 20, maxPenalty |-> 6, expiresAt |-> BondTTL - 1]

Penalty == 5

Paid ==
  [p \in {"agent", "merchant", "gateway"} |->
     CASE bond.status \in {"CLOSED", "RECLAIMED"} /\ p = "agent" -> Terms.bondAmount
       [] bond.status = "VIOLATED" /\ p = "agent" -> Terms.bondAmount - Penalty
       [] bond.status = "VIOLATED" /\ p = "merchant" -> Penalty
       [] OTHER -> 0]

Program ==
  INSTANCE BondEscrow WITH
    Bonds <- {"bond"}, Parties <- {"agent", "merchant", "gateway"},
    Agent <- [b \in {"bond"} |-> "agent"],
    ZeroKey <- "nobody", Receipts <- Usage, ZeroHash <- None,
    GracePeriod <- 0, Supply <- Terms.bondAmount,
    MaxExpiry <- BondTTL, MaxTime <- BondTTL,
    status <- [b \in {"bond"} |-> bond.status],
    terms <- [b \in {"bond"} |-> Terms],
    receiptHash <- [b \in {"bond"} |-> bond.evidence],
    settledPenalty <- [b \in {"bond"} |-> IF bond.status = "VIOLATED" THEN Penalty ELSE 0],
    escrow <- [b \in {"bond"} |-> IF bond.status = "OPEN" THEN Terms.bondAmount ELSE 0],
    wallet <- Paid,
    now <- BondTTL - timeLeft["bond"]

\* Whatever the handlers, the network and the clock do, the bond account only
\* changes as an instruction of the program allows: the gateway settles it with
\* close_valid or settle_violation, or the agent reclaims it.
ChainObeysProgram ==
  [][\/ Program!Tick
     \/ Program!ReclaimExpired("bond", "agent")
     \/ \E h \in Usage : Program!CloseValid("bond", "gateway", h)
     \/ \E h \in Usage : Program!SettleViolation("bond", "gateway", h, Penalty)]_Program!vars

\* What the two parties of the bond see of all this.
Held == [b \in {"bond"} |-> IF BondOpen THEN "held" ELSE "paid"]
Escrowed == [b \in {"bond"} |-> IF BondOpen THEN Terms.bondAmount ELSE 0]
Deal ==
  INSTANCE BondPromise WITH
    Bonds <- {"bond"}, Parties <- {"agent", "merchant", "gateway"},
    Agent <- [b \in {"bond"} |-> "agent"],
    ZeroKey <- "nobody", Amounts <- 0..Terms.bondAmount,
    phase <- Held,
    payee <- [b \in {"bond"} |-> Terms.merchant],
    cap <- [b \in {"bond"} |-> Terms.maxPenalty],
    escrow <- Escrowed,
    wallet <- Paid

\* However many handlers and workers settle the session, and whatever becomes of
\* their transactions, the parties see one payout of the whole bond: the agent
\* gets all of it, or all but the agreed penalty, that only for a reservation
\* that existed and was past its deadline by then.
DealIsKept ==
  [][\/ Deal!Payout("bond", 0)
     \/ /\ Deal!Payout("bond", Penalty)
        /\ reservation # "NONE" /\ timeLeft["reservation"] = 0]_Deal!vars

\* The evidence that a process journals is the one any later process finds: the
\* use that modules SettlementJournal and Settlement make of an attempt agree.
Journal(o) == INSTANCE WriteOnce WITH
  Values <- Usage, Unset <- None, value <- attempt[o]
EvidenceIsWrittenOnce ==
  [][\A o \in Outcomes : Journal(o)!Write \/ UNCHANGED attempt[o]]_attempt

\* No request that was metered is forgotten: saveSession and the transitions write
\* records that were read before other requests were metered.
MeterOnlyRises == [][session.calls <= session'.calls]_vars

-----------------------------------------------------------------------------
(* What the repository says of the program, and the program does not do.   *)

\* docs/10-integration-test-matrix.md:69, "repository expected-state lock
\* prevents close/expiry/request races": no two settlements are between the
\* lock and the unlock or the terminal transition of app.ts:638 and
\* repository.ts:210.
SettlementExclusion ==
  Cardinality({p \in Settlers :
                 pc[p] \in {"meter", "attempt", "fetch", "submit", "journal", "finalize", "commit"}}) <= 1

\* docs/03-contracts.md:279, close_valid requires "reservation이 없거나
\* release/consume된": no reservation is active when a session is closed.
ClosedWithoutActiveReservation == session.state = "CLOSED" => reservation # "ACTIVE"

\* docs/03-contracts.md:324, "active reservation을 release하면 bond 전액 반환":
\* no penalty is taken once the reservation was released.
ReleasedIsNotPenalised ==
  [][reservation = "RELEASED" /\ bond.status = "OPEN" => bond'.status # "VIOLATED"]_vars

\* docs/00-decision-log.md:101, an expired lease lets close or expiry resume
\* with the same evidence: a session locked while its penalty is paid ends.
LockedSessionEnds ==
  (session.state = "SETTLING" /\ bond.status = "VIOLATED") ~> (session.state = "EXPIRED")
=============================================================================
