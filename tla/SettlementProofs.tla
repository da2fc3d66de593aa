-------------------------- MODULE SettlementProofs --------------------------
(***************************************************************************)
(* Proofs about Settlement, for any number of requests, workers, faults,   *)
(* deadlines and limits of the policy.                                     *)
(***************************************************************************)
EXTENDS Settlement, TLAPS

USE NoneAssumption, CallsAssumption, TimeAssumption, BoundAssumption

(* What a process knows at each step, beyond types. It works with a record *)
(* and with the journaled evidence of its own outcome, and finalizes only  *)
(* what the chain has confirmed.                                           *)
Working ==
  \A p \in Processes :
    /\ pc[p] \in {"attempt", "fetch", "submit", "journal", "finalize", "commit"} =>
         seen[p] # None
    /\ pc[p] = "claim" /\ p \notin Closers => seen[p] # None
    /\ pc[p] \in {"fetch", "submit", "journal", "finalize", "commit"} =>
         evidence[p] # None /\ evidence[p] = attempt[Outcome(p)]
    /\ pc[p] \in {"journal", "finalize", "commit"} => bond.status = Outcome(p)
    /\ pc[p] = "finalize" => p \notin Closers

(* The transactions on their way carry journaled evidence.                 *)
Carried == \A t \in inflight : t.evidence = attempt[t.outcome]

(* An adapter only remembers a settlement that the chain shows, and the    *)
(* nonces it has sent are among those of the settlements it remembers.     *)
Remembered ==
  \A p \in Processes :
    /\ \A o \in Outcomes : settledResults[p][o] # None => bond.status = o
    /\ \A o \in seenNonces[p] : settledResults[p][o] # None

(* The reservation existed and its deadline has passed.                    *)
Due == reservation # "NONE" /\ timeLeft["reservation"] = 0

(* Whoever works towards a penalty does so because it is due.              *)
DueOnly ==
  /\ \A p \in Processes \ Closers :
       pc[p] \in {"claim", "lock", "meter", "attempt", "fetch", "submit"} => Due
  /\ \A t \in inflight : t.outcome = "VIOLATED" => Due

(* A record that someone works with was metered no further than the        *)
(* session, and the evidences were made from such records.                 *)
Metering ==
  /\ \A p \in Processes : seen[p] # None => seen[p].calls <= session.calls
  /\ \A o \in Outcomes : attempt[o] # None => attempt[o] <= session.calls

(* Only the process that ended the session still has a receipt to save,    *)
(* and what it will save differs from the session in the receipt only.     *)
Ending ==
  /\ \A p \in Processes : pc[p] = "receipt" =>
       /\ session.state \in Terminal /\ session.receipt = None
       /\ seen[p] \in Sessions /\ seen[p].receipt \in Receipts
       /\ seen[p] = [session EXCEPT !.receipt = seen[p].receipt]
       /\ seen[p].receipt.outcome = session.state
       /\ seen[p].receipt.usage <= seen[p].receipt.calls
       /\ seen[p].receipt.calls <= session.calls
  /\ \A p, q \in Processes : pc[p] = "receipt" /\ pc[q] = "receipt" => p = q

(* The inductive invariant.                                                *)
Inv ==
  /\ TypeOK /\ Working /\ Carried /\ Remembered /\ DueOnly /\ Metering /\ Ending
  /\ StockConserved /\ PenaltyOnlyWhenDue /\ ExpiredMeansPenalised
  /\ SettledAsJournaled /\ SessionAgreesWithChain /\ BilledWithinMeter

-----------------------------------------------------------------------------
(* What the helpers return.                                                *)

(* A charge is a usage, and never above the calls it is made for.          *)
LEMMA ChargeBounds ==
  ASSUME NEW calls \in Nat
  PROVE  Charge(calls) \in Usage /\ Charge(calls) <= calls
BY DEF Charge, Usage

(* Metering changes the two counters only.                                 *)
LEMMA MeteredSession ==
  ASSUME session \in Sessions, NEW op \in Operations
  PROVE  /\ Metered(op) \in Sessions
         /\ Metered(op).calls = session.calls + 1
         /\ Metered(op).state = session.state
         /\ Metered(op).receipt = session.receipt
<1>1. [session.opCalls EXCEPT ![op] = @ + 1] \in [Operations -> Nat]
  BY DEF Sessions
<1>2. Metered(op) = [state |-> session.state, calls |-> session.calls + 1,
                     opCalls |-> [session.opCalls EXCEPT ![op] = @ + 1],
                     receipt |-> session.receipt]
  <2>1. session = [state |-> session.state, calls |-> session.calls,
                     opCalls |-> session.opCalls, receipt |-> session.receipt]
    BY DEF Sessions
  <2>2. Metered(op) = [session EXCEPT !.calls = session.calls + 1,
                                      !.opCalls = [session.opCalls EXCEPT ![op] = @ + 1]]
    BY DEF Metered
  <2> QED
    BY <2>1, <2>2
<1> QED
  BY <1>1, <1>2 DEF Sessions

-----------------------------------------------------------------------------
(* The steps of a settlement, close and expiry alike.                      *)

Asks(p) == RequestValidClose(p) \/ RequestExpiredReservationSettlement(p)
Lands(p) == CloseLands(p) \/ PenaltyLands(p)
Expires(p) == RouteExpires(p) \/ WorkerExpires(p)
Commits(p) == CommitClose(p) \/ CommitExpiry(p)
Receipt(p) == IF p \in Closers THEN CloseReceipt(p) ELSE ExpiryReceipt(p)

(* A close seeks a refund, everyone else the penalty.                      *)
LEMMA OutcomeType ==
  ASSUME NEW p
  PROVE  /\ Outcome(p) \in Outcomes
         /\ p \in Closers => Outcome(p) = "CLOSED"
         /\ p \notin Closers => Outcome(p) = "VIOLATED"
BY DEF Outcome, Outcomes

LEMMA SettleCases ==
  ASSUME NEW p, Settle(p)
  PROVE  \/ Claim(p) \/ CreateAttempt(p) \/ Asks(p) \/ Lands(p)
         \/ SubmitRefused(p) \/ SubmitTimesOut(p) \/ UpdateAttempt(p)
         \/ Expires(p) \/ Commits(p) \/ SaveReceipt(p)
BY DEF Settle, Asks, Lands, Expires, Commits

(* The adapter sends a transaction, confirms what it remembers or what the *)
(* chain shows, or refuses.                                                *)
LEMMA AskStep ==
  ASSUME NEW p, Asks(p)
  PROVE  /\ pc[p] = "fetch"
         /\ UNCHANGED <<session, reservation, stock, attempt, reference, bond,
                        signatures, inflight, seenNonces, timeLeft>>
         /\ faults' = faults \/ Fault
         /\ \/ settledResults' = settledResults
            \/ /\ \E signature \in {signatures, NoSignature} : NoteResult(p, signature)
               /\ bond.status = Outcome(p)
         /\ \/ GoTo(p, "submit") /\ UNCHANGED local
            \/ /\ \E signature \in {signatures, NoSignature} : Confirmed(p, signature)
               /\ bond.status = Outcome(p)
            \/ Settled(p) /\ Confirmed(p, settledResults[p][Outcome(p)])
            \/ LeaveTo(p, "unlock")
<1>1. CASE AnswerAgain(p)
  BY <1>1 DEF AnswerAgain, store, journal, chain, ledger
<1>2. CASE FetchFails(p)
  BY <1>2 DEF FetchFails, GiveUp, store, journal, chain, ledger
<1>3. ASSUME NEW settled \in BOOLEAN, FetchBond(p, settled),
             settled => bond.status = Outcome(p)
      PROVE  /\ pc[p] = "fetch"
             /\ UNCHANGED <<session, reservation, stock, attempt, reference, bond,
                            signatures, inflight, seenNonces, timeLeft>>
             /\ faults' = faults \/ Fault
             /\ \/ settledResults' = settledResults
                \/ /\ \E signature \in {signatures, NoSignature} : NoteResult(p, signature)
                   /\ bond.status = Outcome(p)
             /\ \/ GoTo(p, "submit") /\ UNCHANGED local
                \/ /\ \E signature \in {signatures, NoSignature} : Confirmed(p, signature)
                   /\ bond.status = Outcome(p)
                \/ LeaveTo(p, "unlock")
  BY <1>3
  DEF FetchBond, RecoverSettled, GiveUp, store, journal, chain, ledger
<1> QED
  BY <1>1, <1>2, <1>3, OutcomeType
  DEF Asks, RequestValidClose, RequestExpiredReservationSettlement,
      RefundedWith, PenalisedWith

(* The bond is settled, and the adapter takes note.                        *)
LEMMA LandStep ==
  ASSUME NEW p, Lands(p)
  PROVE  /\ pc[p] = "submit" /\ BondOpen
         /\ bond' = [status |-> Outcome(p), evidence |-> evidence[p]]
         /\ signatures' = signatures + 1
         /\ Confirmed(p, signatures + 1)
         /\ NoteResult(p, signatures + 1)
         /\ seenNonces' = [q \in Processes |-> IF q \in MachineOf(p)
                                               THEN seenNonces[q] \cup {Outcome(p)}
                                               ELSE seenNonces[q]]
         /\ UNCHANGED <<session, reservation, stock, attempt, reference, inflight,
                        timeLeft, seen, evidence, faults>>
BY OutcomeType
DEF Lands, CloseLands, PenaltyLands, CloseValid, SettleViolation, Ends, Learns,
    Confirmed, store, journal

(* A settlement that comes too late leaves the bond alone.                 *)
LEMMA RefusedStep ==
  ASSUME NEW p, SubmitRefused(p)
  PROVE  /\ pc[p] = "submit" /\ LeaveTo(p, "unlock")
         /\ signatures' \in {signatures, signatures + 1}
         /\ UNCHANGED <<session, reservation, stock, attempt, reference, bond,
                        inflight, settledResults, seenNonces, timeLeft, faults>>
BY DEF SubmitRefused, FailedTransaction, GiveUp, store, journal

(* A confirmation is journaled, or conflicts with the journal.             *)
LEMMA UpdateStep ==
  ASSUME NEW p, UpdateAttempt(p)
  PROVE  /\ pc[p] = "journal"
         /\ \/ reference' = reference
            \/ reference' = [reference EXCEPT ![Outcome(p)] = IF @ = None THEN answer[p]
                                                                    ELSE @]
         /\ \/ GoTo(p, IF p \in Closers THEN "commit" ELSE "finalize") /\ UNCHANGED local
            \/ \E step \in {"unlock", "idle"} : LeaveTo(p, step)
         /\ UNCHANGED <<session, reservation, stock, attempt, bond, signatures,
                        inflight, settledResults, seenNonces, timeLeft, faults>>
BY DEF UpdateAttempt, chain, ledger

(* Only an active reservation is finalized.                                *)
LEMMA ExpireStep ==
  ASSUME NEW p, Expires(p)
  PROVE  /\ pc[p] = "finalize"
         /\ \/ StillActive /\ FinalizeReservation("EXPIRED")
            \/ UNCHANGED <<reservation, stock>>
         /\ \/ GoTo(p, "commit") /\ UNCHANGED local
            \/ LeaveTo(p, "unlock")
         /\ UNCHANGED <<session, attempt, reference, bond, signatures, inflight,
                        settledResults, seenNonces, timeLeft, faults>>
BY DEF Expires, RouteExpires, WorkerExpires, GiveUp, journal, chain, ledger

(* The session ends with a receipt in hand, if it is still locked.         *)
LEMMA CommitStep ==
  ASSUME NEW p, Commits(p)
  PROVE  /\ pc[p] = "commit"
         /\ \/ /\ session.state = "SETTLING"
               /\ Transition(Receipt(p).outcome)
               /\ seen' = [seen EXCEPT ![p] = [session' EXCEPT !.receipt = Receipt(p)]]
               /\ GoTo(p, "receipt") /\ UNCHANGED <<evidence, answer>>
            \/ /\ session.state # "SETTLING"
               /\ session' = session /\ timeLeft' = timeLeft
               /\ \E step \in {"unlock", "idle"} : LeaveTo(p, step)
         /\ UNCHANGED <<reservation, stock, attempt, reference, bond, signatures,
                        inflight, settledResults, seenNonces, faults>>
BY DEF Commits, CommitClose, CommitExpiry, End, Receipt, Expected, GiveUp,
       journal, chain, ledger

-----------------------------------------------------------------------------

(* A session that was just activated satisfies the invariant.              *)
LEMMA InitInv == Init => Inv
<1> SUFFICES ASSUME Init PROVE Inv
  OBVIOUS
<1>1. TypeOK
  BY DEF Init, TypeOK, Sessions, Operations, Outcomes, Deadlines, Steps,
         NothingSettled, Signatures
<1>2. Working /\ Carried /\ Remembered /\ DueOnly /\ Metering /\ Ending
  BY DEF Init, Working, Carried, Remembered, DueOnly, Metering, Ending, Outcomes,
         NothingSettled
<1>3. StockConserved /\ PenaltyOnlyWhenDue /\ ExpiredMeansPenalised
      /\ SettledAsJournaled /\ SessionAgreesWithChain /\ BilledWithinMeter
  BY DEF Init, StockConserved, PenaltyOnlyWhenDue, ExpiredMeansPenalised,
         SettledAsJournaled, SessionAgreesWithChain, BilledWithinMeter, Outcomes
<1> QED
  BY <1>1, <1>2, <1>3 DEF Inv

-----------------------------------------------------------------------------
(* Types are kept.                                                         *)

(* An attempt gets an evidence of what was metered.                        *)
LEMMA EvidenceJournaled ==
  ASSUME Inv, NEW p \in Processes, CreateAttempt(p)
  PROVE  /\ evidence'[p] \in Usage /\ evidence'[p] <= session.calls
         /\ attempt'[Outcome(p)] = evidence'[p]
<1> DEFINE e == Journaled(Outcome(p), CreatedEvidence(p))
<1>1. seen[p] \in Sessions /\ seen[p].calls \in Nat
  BY DEF CreateAttempt, Inv, TypeOK, Working, Sessions
<1>2. Charge(seen[p].calls) \in Usage /\ Charge(seen[p].calls) <= seen[p].calls
  BY <1>1, ChargeBounds
<1>3. seen[p].calls <= session.calls /\ session.calls \in Nat
  BY DEF CreateAttempt, Inv, TypeOK, Working, Metering, Sessions
<1>4. e \in Usage /\ e <= session.calls
  BY <1>1, <1>2, <1>3, OutcomeType
  DEF Journaled, CreatedEvidence, Inv, TypeOK, Metering, Usage
<1>5. evidence'[p] = e /\ attempt'[Outcome(p)] = e
  BY OutcomeType DEF CreateAttempt, Inv, TypeOK
<1> QED
  BY <1>4, <1>5

(* The evidence and the record that a step uses are there (Working).       *)
LEMMA TypeNext == Inv /\ [Next]_vars => TypeOK'
<1> SUFFICES ASSUME Inv, [Next]_vars PROVE TypeOK'
  OBVIOUS
<1>0. TypeOK
  BY DEF Inv
<1> USE <1>0
    DEF TypeOK, Handlers, Settlers, Processes, Steps, GoTo, LeaveTo, store,
        journal, chain, ledger, local
<1>1. ASSUME NEW p \in Requesters, NEW op \in {"reserve", "release", "consume"},
             Browse(p) \/ Admit(p, op)
      PROVE  TypeOK'
  BY <1>1, MeteredSession DEF Browse, Admit, Operations
<1>2. ASSUME NEW p \in Requesters,
             Reserve(p) \/ EndReservation(p) \/ OperationFails(p)
      PROVE  TypeOK'
  BY <1>2
  DEF Reserve, ReservationRefused, EndReservation, FinalizeReservation,
      OperationFails, Deadlines
<1>3. ASSUME NEW p \in Processes,
             CheckClose(p) \/ ListExpired(p) \/ PrepareExpiration(p)
      PROVE  TypeOK'
  BY <1>3 DEF CheckClose, ListExpired, PrepareExpiration, NothingSettled
<1>4. ASSUME NEW p \in Processes, Unlock(p) \/ Lock(p) \/ Claim(p)
      PROVE  TypeOK'
  BY <1>4 DEF Unlock, Lock, Claim, Transition, Sessions, Deadlines
<1>5. ASSUME NEW p \in Processes, Meter(p) PROVE TypeOK'
  BY <1>5, MeteredSession DEF Meter, Operations
<1>6. ASSUME NEW p \in Processes, CreateAttempt(p) PROVE TypeOK'
  BY <1>6, EvidenceJournaled, OutcomeType DEF CreateAttempt
<1>7. ASSUME NEW p \in Processes,
             Asks(p) \/ Lands(p) \/ SubmitRefused(p) \/ SubmitTimesOut(p)
      PROVE  TypeOK'
  <2>1. pc[p] = "submit" => evidence[p] \in Usage
    BY DEF Inv, Working
  <2>2. CASE Asks(p)
    <3>1. ASSUME NEW signature \in Signatures \cup {None}, Confirmed(p, signature)
          PROVE  /\ answer' \in [Processes -> Signatures \cup {None}]
                 /\ seen' = seen /\ evidence' = evidence /\ pc' \in [Processes -> Steps]
      BY <3>1 DEF Confirmed
    <3>2. ASSUME NEW signature \in Signatures, NoteResult(p, signature)
          PROVE  settledResults' \in [Processes -> [Outcomes -> Signatures \cup {None}]]
      BY <3>2, OutcomeType DEF NoteResult
    <3>3. {signatures, NoSignature} \subseteq Signatures
          /\ settledResults[p][Outcome(p)] \in Signatures \cup {None}
      BY OutcomeType DEF Signatures, NoSignature
    <3>4. faults' \in 0..MaxFaults
      BY <2>2, AskStep DEF Fault
    <3>5. settledResults' \in [Processes -> [Outcomes -> Signatures \cup {None}]]
      BY <2>2, <3>2, <3>3, AskStep
    <3>6. /\ answer' \in [Processes -> Signatures \cup {None}]
          /\ seen' \in [Processes -> Sessions \cup {None}]
          /\ evidence' \in [Processes -> Usage \cup {None}]
          /\ pc' \in [Processes -> Steps]
      BY <2>2, <3>1, <3>3, AskStep
    <3> QED
      BY <2>2, <3>4, <3>5, <3>6, AskStep
  <2>3. CASE Lands(p)
    <3>1. signatures + 1 \in Signatures
      BY DEF Signatures
    <3>2. settledResults' \in [Processes -> [Outcomes -> Signatures \cup {None}]]
      BY <2>3, <3>1, OutcomeType, LandStep DEF NoteResult
    <3>3. /\ answer' \in [Processes -> Signatures \cup {None}]
          /\ pc' \in [Processes -> Steps]
      BY <2>3, <3>1, LandStep DEF Confirmed
    <3>4. seenNonces' \in [Processes -> SUBSET Outcomes]
      BY <2>3, OutcomeType, LandStep
    <3>5. bond' \in [status : Outcomes \cup {"OPEN", "RECLAIMED"}, evidence : Usage \cup {None}]
      BY <2>1, <2>3, OutcomeType, LandStep
    <3> QED
      BY <2>3, <3>1, <3>2, <3>3, <3>4, <3>5, LandStep
  <2>4. CASE SubmitRefused(p)
    BY <2>4, RefusedStep
  <2>5. CASE SubmitTimesOut(p)
    BY <2>1, <2>5, OutcomeType DEF GiveUp, SubmitTimesOut, Fault, Transactions
  <2> QED
    BY <1>7, <2>2, <2>3, <2>4, <2>5
<1>8. ASSUME NEW p \in Processes, UpdateAttempt(p) \/ Expires(p) PROVE TypeOK'
  <2>1. CASE UpdateAttempt(p)
    <3>1. reference' \in [Outcomes -> Signatures \cup {None}]
      BY <2>1, OutcomeType, UpdateStep
    <3>2. /\ pc' \in [Processes -> Steps]
          /\ seen' \in [Processes -> Sessions \cup {None}]
          /\ evidence' \in [Processes -> Usage \cup {None}]
          /\ answer' \in [Processes -> Signatures \cup {None}]
      <4>1. CASE \E step \in {"unlock", "idle"} : LeaveTo(p, step)
        BY <4>1
      <4>2. CASE GoTo(p, IF p \in Closers THEN "commit" ELSE "finalize") /\ UNCHANGED local
        BY <4>2
      <4> QED
        BY <2>1, <4>1, <4>2, UpdateStep
    <3> QED
      BY <2>1, <3>1, <3>2, UpdateStep
  <2>2. CASE Expires(p)
    BY <2>2, ExpireStep DEF FinalizeReservation
  <2> QED
    BY <1>8, <2>1, <2>2
<1>9. ASSUME NEW p \in Processes, Commits(p) PROVE TypeOK'
  <2>1. Receipt(p) \in Receipts
    BY <1>9, ChargeBounds, CommitStep
    DEF Receipt, CloseReceipt, ExpiryReceipt, Sessions, Receipts, Inv, Working
  <2>2. Receipt(p).outcome \in {"CLOSED", "EXPIRED"}
    BY DEF Receipt, CloseReceipt, ExpiryReceipt
  <2>3. ASSUME Transition(Receipt(p).outcome)
        PROVE  /\ session' \in Sessions /\ timeLeft' \in [Deadlines -> Nat]
               /\ [session' EXCEPT !.receipt = Receipt(p)] \in Sessions
    BY <2>1, <2>2, <2>3 DEF Transition, Sessions, Deadlines
  <2> HIDE DEF Receipt
  <2> QED
    BY <1>9, <2>3, CommitStep
<1>10. ASSUME NEW p \in Processes, SaveReceipt(p) PROVE TypeOK'
  BY <1>10 DEF SaveReceipt, Inv, Ending
<1>11. ASSUME NEW t \in Transactions, Land(t) PROVE TypeOK'
  BY <1>11 DEF Land, FailedTransaction, CloseValid, Ends, SettleViolation,
               Transactions
<1>12. CASE Reclaim \/ Mention \/ Tick
  BY <1>12 DEF Reclaim, ReclaimExpired, Ends, Tick, Mention, Fault
<1>13. CASE Crash
  BY <1>13 DEF Crash, CrashOf, Fault, NothingSettled
<1>14. CASE UNCHANGED vars
  BY <1>14 DEF vars
<1> QED
  BY <1>1, <1>2, <1>3, <1>4, <1>5, <1>6, <1>7, <1>8, <1>9, <1>10, <1>11, <1>12,
     <1>13, <1>14, SettleCases
  DEF Next, Request

-----------------------------------------------------------------------------
(* What no step takes back.                                                *)

(* A deadline that has passed is not set again.                            *)
LEMMA DueStays == Inv /\ [Next]_vars /\ Due => Due'
<1> SUFFICES ASSUME Inv, [Next]_vars, Due PROVE Due'
  OBVIOUS
<1> USE DEF Due, store, journal, chain, ledger, local
<1>0. timeLeft \in [Deadlines -> Nat] /\ "reservation" \in Deadlines
  BY DEF Inv, TypeOK, Deadlines
<1>1. ASSUME NEW p, Request(p) PROVE Due'
  BY <1>1
  DEF Request, Browse, Admit, Reserve, EndReservation, FinalizeReservation,
      OperationFails
<1>2. ASSUME NEW p,
             \/ CheckClose(p) \/ ListExpired(p) \/ PrepareExpiration(p)
             \/ Lock(p) \/ Meter(p) \/ Unlock(p)
      PROVE  Due'
  BY <1>0, <1>2
  DEF CheckClose, ListExpired, PrepareExpiration, Lock, Meter, Unlock,
      Transition
<1>3. ASSUME NEW p, Settle(p) PROVE Due'
  BY <1>0, <1>3, SettleCases, AskStep, LandStep, RefusedStep, UpdateStep, ExpireStep, CommitStep
  DEF Claim, CreateAttempt, GiveUp, SubmitTimesOut, FinalizeReservation,
      SaveReceipt, Transition
<1>4. ASSUME NEW t \in Transactions, Land(t) PROVE Due'
  BY <1>4 DEF Land, FailedTransaction, CloseValid, Ends, SettleViolation
<1>5. CASE Reclaim \/ Mention \/ Tick \/ Crash \/ UNCHANGED vars
  BY <1>0, <1>5 DEF Reclaim, ReclaimExpired, Ends, Tick, Mention, Crash,
                    CrashOf, vars
<1> QED
  BY <1>1, <1>2, <1>3, <1>4, <1>5 DEF Next

(* The journal keeps the first evidence of an outcome.                     *)
LEMMA JournalStays ==
  ASSUME Inv, [Next]_vars, NEW o \in Outcomes, attempt[o] # None
  PROVE  attempt'[o] = attempt[o]
<1> USE DEF store, journal
<1>0. attempt \in [Outcomes -> Usage \cup {None}]
  BY DEF Inv, TypeOK
<1>1. ASSUME NEW p, CreateAttempt(p) PROVE attempt'[o] = attempt[o]
  BY <1>0, <1>1, OutcomeType DEF CreateAttempt, Journaled
<1>2. attempt' = attempt \/ \E p : CreateAttempt(p)
  BY SettleCases, AskStep, LandStep, RefusedStep, UpdateStep, ExpireStep, CommitStep
  DEF Next, Request, Browse, Admit, Reserve, EndReservation, OperationFails,
      CheckClose, ListExpired, PrepareExpiration, Lock, Meter, Unlock, Claim,
      GiveUp, SubmitTimesOut, SaveReceipt, Land, FailedTransaction, CloseValid,
      Ends, SettleViolation, Reclaim, ReclaimExpired, Tick, Mention, Crash,
      CrashOf, vars
<1> QED
  BY <1>1, <1>2

(* How a bond ends: by the transaction of a handler that waits for it, by  *)
(* one that nobody waits for, or by the agent.                             *)
LEMMA BondStep ==
  ASSUME [Next]_vars
  PROVE  \/ bond' = bond
         \/ \E p \in Settlers : Lands(p)
         \/ \E t \in inflight :
              BondOpen /\ bond' = [status |-> t.outcome, evidence |-> t.evidence]
         \/ BondOpen /\ bond' = [bond EXCEPT !.status = "RECLAIMED"]
BY SettleCases, AskStep, RefusedStep, UpdateStep, ExpireStep, CommitStep
DEF chain, ledger, Next, Request, Browse, Admit, Reserve, EndReservation,
    OperationFails, CheckClose, ListExpired, PrepareExpiration, Lock, Meter,
    Unlock, Claim, CreateAttempt, GiveUp, SubmitTimesOut, SaveReceipt, Land,
    FailedTransaction, CloseValid, Ends, SettleViolation, Reclaim,
    ReclaimExpired, Tick, Mention, Crash, CrashOf, vars

(* A bond that was settled or reclaimed stays so.                          *)
LEMMA BondStays == [Next]_vars /\ ~ BondOpen => bond' = bond
BY BondStep, LandStep

(* The session after a step: terminal states are only left to the receipt. *)
LEMMA SessionStep ==
  ASSUME Inv, [Next]_vars
  PROVE  \/ session' = session
         \/ /\ session.state \notin Terminal
            /\ \E op \in Operations : session' = Metered(op)
         \/ /\ session.state \notin Terminal
            /\ \E s \in {"ACTIVE", "SETTLING"} : session' = [session EXCEPT !.state = s]
         \/ /\ session.state = "SETTLING"
            /\ \E p \in Settlers : Commits(p)
         \/ \E p \in Settlers : SaveReceipt(p)
<1> USE DEF Terminal, store, journal
<1>1. ASSUME NEW p, Request(p)
      PROVE  \/ session' = session
             \/ /\ session.state \notin Terminal
                /\ \E op \in Operations : session' = Metered(op)
  BY <1>1
  DEF Request, Browse, Admit, CanMeter, Reserve, EndReservation, OperationFails,
      Operations
<1>2. ASSUME NEW p, Meter(p)
      PROVE  \/ session' = session
             \/ /\ session.state \notin Terminal
                /\ \E op \in Operations : session' = Metered(op)
  BY <1>2 DEF Meter, CanMeter, Operations
<1>3. ASSUME NEW p, Lock(p) \/ Unlock(p) \/ Claim(p)
      PROVE  \/ session' = session
             \/ /\ session.state \notin Terminal
                /\ \E s \in {"ACTIVE", "SETTLING"} : session' = [session EXCEPT !.state = s]
  BY <1>3 DEF Lock, Unlock, Claim, Claimable, Transition
<1>4. ASSUME NEW p,
             \/ CheckClose(p) \/ ListExpired(p) \/ PrepareExpiration(p) \/ CreateAttempt(p)
             \/ Asks(p) \/ Lands(p) \/ SubmitRefused(p) \/ SubmitTimesOut(p)
             \/ UpdateAttempt(p) \/ Expires(p)
      PROVE  session' = session
  BY <1>4, AskStep, LandStep, RefusedStep, UpdateStep, ExpireStep
  DEF CheckClose, ListExpired, PrepareExpiration, CreateAttempt, GiveUp,
      SubmitTimesOut
<1>5. ASSUME NEW p, Commits(p)
      PROVE  session' = session \/ session.state = "SETTLING"
  BY <1>5, CommitStep
  DEF Expected
<1>6. ASSUME \/ \E t \in Transactions : Land(t)
             \/ Reclaim \/ Mention \/ Tick \/ Crash \/ UNCHANGED vars
      PROVE  session' = session
  BY <1>6
  DEF Land, FailedTransaction, CloseValid, Ends, SettleViolation, Reclaim,
      ReclaimExpired, Tick, Mention, Crash, CrashOf, vars
<1> QED
  BY <1>1, <1>2, <1>3, <1>4, <1>5, <1>6, SettleCases
  DEF Next

(* Saving the receipt changes nothing else, and there was none before.     *)
LEMMA ReceiptSaved ==
  ASSUME Inv, NEW p \in Processes, SaveReceipt(p)
  PROVE  /\ session.state \in Terminal /\ session.receipt = None
         /\ session' \in Sessions /\ session'.receipt \in Receipts
         /\ session' = [session EXCEPT !.receipt = session'.receipt]
         /\ session'.state = session.state /\ session'.calls = session.calls
         /\ session'.receipt.outcome = session.state
         /\ session'.receipt.usage <= session'.receipt.calls
         /\ session'.receipt.calls <= session.calls
<1> DEFINE r == seen[p].receipt
<1>1. /\ session.state \in Terminal /\ session.receipt = None
      /\ seen[p] \in Sessions /\ r \in Receipts
      /\ seen[p] = [session EXCEPT !.receipt = r]
      /\ r.outcome = session.state /\ r.usage <= r.calls /\ r.calls <= session.calls
  BY DEF Inv, Ending, SaveReceipt
<1>2. session' = seen[p] /\ session \in Sessions
  BY DEF SaveReceipt, Inv, TypeOK
<1>3. [session EXCEPT !.receipt = r].state = session.state
      /\ [session EXCEPT !.receipt = r].calls = session.calls
  BY <1>2 DEF Sessions
<1> HIDE DEF r
<1> QED
  BY <1>1, <1>2, <1>3 DEF r

(* Requests that were metered stay metered, saved records included.        *)
LEMMA MeterStays == Inv /\ [Next]_vars => session.calls <= session'.calls
<1> SUFFICES ASSUME Inv, [Next]_vars PROVE session.calls <= session'.calls
  OBVIOUS
<1>0. session \in Sessions /\ session.calls \in Nat
  BY DEF Inv, TypeOK, Sessions
<1>1. ASSUME NEW op \in Operations, session' = Metered(op)
      PROVE  session.calls <= session'.calls
  BY <1>0, <1>1, MeteredSession
<1>2. ASSUME NEW s, session' = [session EXCEPT !.state = s]
      PROVE  session.calls <= session'.calls
  BY <1>0, <1>2 DEF Sessions
<1>3. ASSUME NEW p, Commits(p) PROVE session.calls <= session'.calls
  BY <1>0, <1>3, CommitStep
  DEF Transition, Sessions
<1>4. ASSUME NEW p \in Settlers, SaveReceipt(p) PROVE session.calls <= session'.calls
  BY <1>0, <1>4, ReceiptSaved DEF Settlers, Processes, Handlers, Sessions
<1> QED
  BY <1>0, <1>1, <1>2, <1>3, <1>4, SessionStep

-----------------------------------------------------------------------------
(* Every step preserves the other parts of the invariant.                  *)

(* The evidence of a process stays the journaled one (JournalStays), and   *)
(* a confirmed outcome stays on the chain (BondStays).                     *)
LEMMA WorkingNext == Inv /\ [Next]_vars => Working'
<1> SUFFICES ASSUME Inv, [Next]_vars PROVE Working'
  OBVIOUS
<1>0. TypeOK /\ Working
  BY DEF Inv
<1>a. ASSUME NEW p \in Processes,
             pc[p] \in {"fetch", "submit", "journal", "finalize", "commit"}
      PROVE  attempt'[Outcome(p)] = attempt[Outcome(p)]
  BY <1>0, <1>a, JournalStays, OutcomeType DEF Working
<1>b. ASSUME NEW p \in Processes, pc[p] \in {"journal", "finalize", "commit"}
      PROVE  bond' = bond
  BY <1>0, <1>b, BondStays, OutcomeType DEF Working, BondOpen, Outcomes
<1> USE <1>0
    DEF TypeOK, Working, Handlers, Settlers, Processes, GoTo, LeaveTo, store,
        journal, chain, ledger, local
<1>1. ASSUME NEW p \in Requesters, Request(p) PROVE Working'
  BY <1>1 DEF Request, Browse, Admit, Reserve, EndReservation, OperationFails
<1>2. ASSUME NEW p \in Processes,
             \/ CheckClose(p) /\ p \in Closers
             \/ PrepareExpiration(p) \/ Lock(p) \/ Unlock(p)
      PROVE  Working'
  BY <1>2 DEF CheckClose, PrepareExpiration, Lock, Unlock
<1>3. ASSUME NEW p \in Processes, ListExpired(p) \/ Claim(p) \/ Meter(p)
      PROVE  Working'
  <2>1. session # None /\ session' # None
    BY TypeNext
  <2> QED
    BY <1>3, <2>1 DEF ListExpired, Claim, Meter
<1>4. ASSUME NEW p \in Processes, CreateAttempt(p) PROVE Working'
  <2>1. evidence'[p] = attempt'[Outcome(p)] /\ evidence'[p] # None
    BY <1>4, EvidenceJournaled DEF Usage
  <2> QED
    BY <1>4, <1>a, <2>1 DEF CreateAttempt
<1>5. ASSUME NEW p \in Processes,
             \/ Asks(p) \/ Lands(p) \/ SubmitRefused(p) \/ SubmitTimesOut(p)
             \/ UpdateAttempt(p)
      PROVE  Working'
  <2>1. CASE Asks(p)
    <3>1. Settled(p) => bond.status = Outcome(p)
      BY OutcomeType DEF Settled, Remembered, Inv
    <3> QED
      BY <2>1, <3>1, AskStep DEF Confirmed
  <2>2. CASE Lands(p)
    BY <2>2, <1>b, LandStep
    DEF Confirmed
  <2>3. CASE SubmitRefused(p)
    BY <2>3, RefusedStep
  <2>4. CASE UpdateAttempt(p)
    BY <2>4, UpdateStep, OutcomeType
  <2> QED
    BY <1>5, <2>1, <2>2, <2>3, <2>4 DEF GiveUp, SubmitTimesOut
<1>6. ASSUME NEW p \in Processes,
             Expires(p) \/ Commits(p) \/ SaveReceipt(p)
      PROVE  Working'
  BY <1>6, ExpireStep, CommitStep
  DEF SaveReceipt
<1>7. ASSUME NEW t \in Transactions, Land(t) PROVE Working'
  BY <1>7, <1>b DEF Land, FailedTransaction, CloseValid, Ends, SettleViolation
<1>8. CASE Reclaim \/ Mention \/ Tick
  BY <1>8, <1>b DEF Reclaim, ReclaimExpired, Ends, Tick, Mention
<1>9. CASE Crash
  BY <1>9 DEF Crash, CrashOf
<1>10. CASE UNCHANGED vars
  BY <1>10 DEF vars
<1> QED
  BY <1>1, <1>2, <1>3, <1>4, <1>5, <1>6, <1>7, <1>8, <1>9, <1>10, SettleCases
  DEF Next

(* A transaction is sent with journaled evidence.                          *)
LEMMA CarriedNext == Inv /\ [Next]_vars => Carried'
<1> SUFFICES ASSUME Inv, [Next]_vars PROVE Carried'
  OBVIOUS
<1>0. TypeOK /\ Working /\ Carried
  BY DEF Inv
<1>1. ASSUME NEW t \in inflight PROVE t.evidence = attempt'[t.outcome]
  BY <1>0, <1>1, JournalStays DEF Carried, TypeOK, Transactions, Usage
<1>2. ASSUME NEW p \in Processes, SubmitTimesOut(p) PROVE Carried'
  BY <1>0, <1>1, <1>2 DEF SubmitTimesOut, Carried, Working, store, journal
<1>3. inflight' \subseteq inflight \/ \E p \in Settlers : SubmitTimesOut(p)
  BY SettleCases, AskStep, LandStep, RefusedStep, UpdateStep, ExpireStep, CommitStep
  DEF chain, ledger, Next, Request, Browse, Admit, Reserve, EndReservation,
      OperationFails, CheckClose, ListExpired, PrepareExpiration, Lock, Meter,
      Unlock, Claim, CreateAttempt, GiveUp, SaveReceipt, Land,
      FailedTransaction, CloseValid, Ends, SettleViolation, Reclaim,
      ReclaimExpired, Tick, Mention, Crash, CrashOf, vars
<1> QED
  BY <1>1, <1>2, <1>3 DEF Carried, Settlers, Processes, Handlers

(* A settlement starts when it is due, and stays due (DueStays).           *)
LEMMA DueOnlyNext == Inv /\ [Next]_vars => DueOnly'
<1> SUFFICES ASSUME Inv, [Next]_vars PROVE DueOnly'
  OBVIOUS
<1>0. TypeOK /\ DueOnly
  BY DEF Inv
<1>a. Due => Due'
  BY DueStays
<1> USE <1>0, <1>a
    DEF TypeOK, DueOnly, Handlers, Settlers, Processes, GoTo, LeaveTo, store,
        journal, chain, ledger, local
<1>1. ASSUME NEW p \in Requesters, Request(p) PROVE DueOnly'
  BY <1>1 DEF Request, Browse, Admit, Reserve, EndReservation, OperationFails
<1>2. ASSUME NEW p \in Processes,
             \/ CheckClose(p) /\ p \in Closers
             \/ Unlock(p) \/ Lock(p) \/ Claim(p) \/ Meter(p)
      PROVE  DueOnly'
  BY <1>2 DEF CheckClose, Lock, Unlock, Claim, Meter
<1>3. ASSUME NEW p \in Processes, ListExpired(p) \/ PrepareExpiration(p)
      PROVE  DueOnly'
  BY <1>3 DEF ListExpired, PrepareExpiration, ReservationDue, Due
<1>4. ASSUME NEW p \in Processes,
             \/ CreateAttempt(p) \/ Asks(p) \/ Lands(p) \/ SubmitRefused(p)
             \/ UpdateAttempt(p)
      PROVE  DueOnly'
  BY <1>4, AskStep, LandStep, RefusedStep, UpdateStep
  DEF CreateAttempt, GiveUp, Confirmed
<1>5. ASSUME NEW p \in Processes, SubmitTimesOut(p)
      PROVE  DueOnly'
  BY <1>5, OutcomeType DEF SubmitTimesOut, GiveUp
<1>6. ASSUME NEW p \in Processes,
             Expires(p) \/ Commits(p) \/ SaveReceipt(p)
      PROVE  DueOnly'
  BY <1>6, ExpireStep, CommitStep
  DEF SaveReceipt
<1>7. CASE Reclaim \/ Mention \/ Tick \/ Crash \/ (\E t \in Transactions : Land(t)) \/ UNCHANGED vars
  BY <1>7
  DEF Land, FailedTransaction, CloseValid, Ends, SettleViolation, Reclaim,
      ReclaimExpired, Tick, Mention, Crash, CrashOf, vars
<1> QED
  BY <1>1, <1>2, <1>3, <1>4, <1>5, <1>6, <1>7, SettleCases
  DEF Next

(* Records are taken from the session, whose calls only grow (MeterStays). *)
LEMMA MeteringNext == Inv /\ [Next]_vars => Metering'
<1> SUFFICES ASSUME Inv, [Next]_vars PROVE Metering'
  OBVIOUS
<1>0. TypeOK /\ Metering /\ TypeOK'
  BY TypeNext DEF Inv
<1>1. session.calls \in Nat /\ session'.calls \in Nat /\ session.calls <= session'.calls
  BY <1>0, MeterStays DEF TypeOK, Sessions
<1>2. ASSUME NEW o \in Outcomes, attempt'[o] # None PROVE attempt'[o] <= session'.calls
  <2>1. CASE attempt[o] # None
    BY <1>0, <1>1, <2>1, JournalStays DEF Metering, TypeOK, Usage
  <2>2. CASE attempt[o] = None
    <3>1. PICK p \in Settlers : CreateAttempt(p) /\ Outcome(p) = o
      BY <1>0, <1>2, <2>2, SettleCases, AskStep, LandStep, RefusedStep, UpdateStep, ExpireStep,
         CommitStep
      DEF store, journal, Next, Request, Browse, Admit, Reserve, EndReservation,
          OperationFails, CheckClose, ListExpired, PrepareExpiration, Lock,
          Meter, Unlock, Claim, CreateAttempt, GiveUp, SubmitTimesOut,
          SaveReceipt, Land, FailedTransaction, CloseValid, Ends,
          SettleViolation, Reclaim, ReclaimExpired, Tick, Mention, Crash,
          CrashOf, vars, TypeOK
    <3> QED
      BY <1>1, <3>1, EvidenceJournaled DEF Usage, Settlers, Processes, Handlers
  <2> QED
    BY <2>1, <2>2
<1>3. ASSUME NEW p \in Processes, seen'[p] # None PROVE seen'[p].calls <= session'.calls
  <2>1. CASE seen'[p] = seen[p]
    BY <1>0, <1>1, <1>3, <2>1 DEF Metering, TypeOK, Sessions
  <2>2. CASE seen'[p] \in {session, session'}
    BY <1>1, <2>2
  <2>3. ASSUME Commits(p)
        PROVE  seen'[p].calls <= session'.calls
    <3>1. seen'[p].calls = session'.calls
      BY <1>0, <1>3, <2>3, CommitStep
      DEF LeaveTo, TypeOK, Sessions
    <3> QED
      BY <1>1, <3>1
  <2>4. seen'[p] \in {seen[p], None, session, session'} \/ Commits(p)
    <3>1. ASSUME NEW q \in Settlers, Settle(q)
          PROVE  seen'[p] \in {seen[p], None, session, session'} \/ Commits(p)
      <4>1. CASE Asks(q) \/ Lands(q)
        BY <1>0, <4>1, AskStep, LandStep DEF local, LeaveTo, TypeOK, Confirmed
      <4>2. CASE SubmitRefused(q) \/ UpdateAttempt(q) \/ Expires(q)
        <5>1. seen' = seen \/ seen' = [seen EXCEPT ![q] = None]
          <6>1. CASE SubmitRefused(q)
            BY <6>1, RefusedStep DEF LeaveTo
          <6>2. CASE UpdateAttempt(q)
            BY <6>2, UpdateStep DEF local, LeaveTo
          <6>3. CASE Expires(q)
            BY <6>3, ExpireStep DEF local, LeaveTo
          <6> QED
            BY <4>2, <6>1, <6>2, <6>3
        <5> QED
          BY <1>0, <5>1 DEF TypeOK
      <4>3. CASE Claim(q) \/ CreateAttempt(q) \/ SubmitTimesOut(q) \/ SaveReceipt(q)
        BY <1>0, <4>3
        DEF LeaveTo, Claim, CreateAttempt, GiveUp, SubmitTimesOut, SaveReceipt, TypeOK
      <4>4. CASE Commits(q)
        <5>1. CASE p = q
          BY <4>4, <5>1
        <5>2. CASE p # q
          <6>1. seen \in [Processes -> Sessions \cup {None}]
            BY <1>0 DEF TypeOK
          <6>2. \/ seen' = [seen EXCEPT ![q] = [session' EXCEPT !.receipt = Receipt(q)]]
                \/ seen' = [seen EXCEPT ![q] = None]
            BY <4>4, CommitStep DEF LeaveTo
          <6>3. seen'[p] = seen[p]
            BY <5>2, <6>1, <6>2
          <6> QED
            BY <6>3
        <5> QED
          BY <5>1, <5>2
      <4> QED
        BY <3>1, <4>1, <4>2, <4>3, <4>4, SettleCases
    <3>2. ASSUME NEW q \in Requesters, Request(q) PROVE seen'[p] \in {seen[p], None}
      BY <1>0, <3>2
      DEF local, GoTo, LeaveTo, Request, Browse, Admit, Reserve, EndReservation,
          OperationFails, TypeOK
    <3>3. \/ seen'[p] \in {seen[p], None, session, session'}
          \/ \E q \in Settlers : Settle(q)
          \/ \E q \in Requesters : Request(q)
      BY <1>0
      DEF local, GoTo, LeaveTo, Next, CheckClose, ListExpired,
          PrepareExpiration, Lock, Meter, Unlock, Land, FailedTransaction,
          CloseValid, Ends, SettleViolation, Reclaim, ReclaimExpired, Tick,
          Mention, Crash, CrashOf, vars, TypeOK, Handlers, Settlers, Processes
    <3> QED
      BY <3>1, <3>2, <3>3
  <2> QED
    BY <1>3, <2>1, <2>2, <2>3, <2>4
<1> QED
  BY <1>2, <1>3 DEF Metering

(* The commit of one process excludes that of any other.                   *)
LEMMA EndingNext == Inv /\ [Next]_vars => Ending'
<1> SUFFICES ASSUME Inv, [Next]_vars PROVE Ending'
  OBVIOUS
<1>0. TypeOK /\ Ending /\ TypeOK'
  BY TypeNext DEF Inv
<1> USE <1>0
<1>1. ASSUME NEW p \in Settlers, Commits(p)
      PROVE  \A q \in Processes : pc'[q] = "receipt" => pc[q] = "receipt" \/ q = p
  BY <1>1, CommitStep
  DEF GoTo, LeaveTo, TypeOK
<1>2. \/ \A q \in Processes : pc'[q] = "receipt" => pc[q] = "receipt" /\ seen'[q] = seen[q]
      \/ \E p \in Settlers : Commits(p)
  <2> DEFINE Same(q) == pc'[q] = "receipt" => pc[q] = "receipt" /\ seen'[q] = seen[q]
  <2>1. ASSUME NEW p \in Settlers, Settle(p) PROVE (\A q \in Processes : Same(q)) \/ Commits(p)
    <3>1. CASE Asks(p) \/ Lands(p)
      BY <3>1, AskStep, LandStep DEF local, GoTo, LeaveTo, TypeOK, Confirmed
    <3>2. CASE SubmitRefused(p) \/ Expires(p)
      BY <3>2, RefusedStep, ExpireStep DEF local, GoTo, LeaveTo, TypeOK
    <3>3. CASE UpdateAttempt(p)
      <4>1. ASSUME NEW step \in {"commit", "finalize"}, GoTo(p, step), UNCHANGED local
            PROVE  \A q \in Processes : Same(q)
        BY <4>1 DEF local, GoTo, TypeOK
      <4>2. ASSUME NEW step \in {"unlock", "idle"}, LeaveTo(p, step)
            PROVE  \A q \in Processes : Same(q)
        BY <4>2 DEF LeaveTo, GoTo, TypeOK
      <4> QED
        BY <3>3, <4>1, <4>2, UpdateStep
    <3>4. CASE Claim(p) \/ CreateAttempt(p) \/ SubmitTimesOut(p) \/ SaveReceipt(p)
      BY <3>4
      DEF GoTo, LeaveTo, Claim, CreateAttempt, GiveUp, SubmitTimesOut, SaveReceipt, TypeOK
    <3> QED
      BY <2>1, <3>1, <3>2, <3>3, <3>4, SettleCases
  <2>2. ASSUME NEW p \in Requesters, Request(p) PROVE \A q \in Processes : Same(q)
    BY <2>2
    DEF local, GoTo, LeaveTo, Request, Browse, Admit, Reserve, EndReservation,
        OperationFails, TypeOK
  <2>3. \/ \A q \in Processes : Same(q)
        \/ \E p \in Settlers : Settle(p)
        \/ \E p \in Requesters : Request(p)
    BY DEF local, GoTo, LeaveTo, Next, CheckClose, ListExpired,
           PrepareExpiration, Lock, Meter, Unlock, Land, FailedTransaction,
           CloseValid, Ends, SettleViolation, Reclaim, ReclaimExpired, Tick,
           Mention, Crash, CrashOf, vars, TypeOK, Handlers, Settlers, Processes
  <2> QED
    BY <2>1, <2>2, <2>3
<1>3. ASSUME NEW p \in Settlers, Commits(p) PROVE Ending'
  <2>1. CASE session.state # "SETTLING"
    <3>1. session' = session
          /\ \A q \in Processes : pc'[q] = "receipt" =>
               pc[q] = "receipt" /\ seen'[q] = seen[q]
      BY <1>3, <2>1, CommitStep
      DEF Expected, LeaveTo, GoTo, TypeOK, Settlers, Processes, Handlers
    <3> QED
      BY <3>1 DEF Ending
  <2>2. CASE session.state = "SETTLING"
    <3> DEFINE end == IF p \in Closers THEN "CLOSED" ELSE "EXPIRED"
               receipt == Receipt(p)
    <3>1. session' = [session EXCEPT !.state = end]
          /\ seen'[p] = [session' EXCEPT !.receipt = receipt] /\ pc'[p] = "receipt"
      BY <1>3, <2>2, CommitStep
      DEF Transition, Receipt, CloseReceipt, ExpiryReceipt, GoTo, TypeOK,
          Settlers, Processes, Handlers
    <3>2. seen[p] \in Sessions /\ seen[p].calls <= session.calls
      BY <1>3, CommitStep
      DEF Inv, Working, Metering, TypeOK, Settlers, Processes, Handlers
    <3>3. receipt \in Receipts /\ receipt.outcome = end
          /\ receipt.usage <= receipt.calls /\ receipt.calls <= session.calls
      BY <3>2, ChargeBounds
      DEF Receipt, CloseReceipt, ExpiryReceipt, Receipts, Sessions, TypeOK,
          Usage
    <3>4. session.receipt = None
      BY <2>2 DEF Inv, SessionAgreesWithChain, TypeOK, Sessions, Receipts
    <3>5. session'.state = end /\ session'.receipt = None /\ session'.calls = session.calls
      BY <3>1, <3>4 DEF TypeOK, Sessions
    <3>6. seen'[p].receipt = receipt /\ seen'[p] \in Sessions
      BY <3>1, <3>3 DEF TypeOK, Sessions
    <3>7. \A q \in Processes : pc'[q] = "receipt" => q = p
      BY <1>1, <1>3, <2>2 DEF Ending, Terminal
    <3> HIDE DEF receipt
    <3> QED
      BY <3>1, <3>3, <3>5, <3>6, <3>7 DEF Ending, Terminal
  <2> QED
    BY <2>1, <2>2
<1>4. ASSUME NEW p \in Settlers, SaveReceipt(p) PROVE Ending'
  <2>1. \A q \in Processes : pc'[q] # "receipt"
    BY <1>4
    DEF SaveReceipt, Ending, LeaveTo, GoTo, TypeOK, Settlers, Processes,
        Handlers
  <2> QED
    BY <2>1 DEF Ending
<1>5. CASE /\ \A p \in Settlers : ~ Commits(p) /\ ~ SaveReceipt(p)
           /\ \E p \in Processes : pc'[p] = "receipt"
  <2>1. \A q \in Processes : pc'[q] = "receipt" => pc[q] = "receipt" /\ seen'[q] = seen[q]
    BY <1>2, <1>5
  <2>2. session.state \in Terminal
    BY <1>5, <2>1 DEF Ending
  <2>3. session' = session
    BY <1>5, <2>2, SessionStep
  <2> QED
    BY <2>1, <2>3 DEF Ending
<1>6. CASE \A p \in Processes : pc'[p] # "receipt"
  BY <1>6 DEF Ending
<1> QED
  BY <1>3, <1>4, <1>5, <1>6

(* Only an active reservation is finalized, as expired after the penalty.  *)
LEMMA StockNext == Inv /\ [Next]_vars => StockConserved' /\ ExpiredMeansPenalised'
<1> SUFFICES ASSUME Inv, [Next]_vars PROVE StockConserved' /\ ExpiredMeansPenalised'
  OBVIOUS
<1>0. TypeOK /\ Working /\ StockConserved /\ ExpiredMeansPenalised
  BY DEF Inv
<1>1. bond.status = "VIOLATED" => bond'.status = "VIOLATED"
  BY BondStays DEF BondOpen
<1>2. ASSUME NEW p \in Requesters, Reserve(p) \/ EndReservation(p)
      PROVE  StockConserved' /\ ExpiredMeansPenalised'
  BY <1>0, <1>1, <1>2
  DEF Reserve, EndReservation, FinalizeReservation, StillActive, StockConserved,
      ExpiredMeansPenalised, TypeOK
<1>3. ASSUME NEW p \in Settlers, Expires(p)
      PROVE  StockConserved' /\ ExpiredMeansPenalised'
  BY <1>0, <1>1, <1>3, OutcomeType, ExpireStep
  DEF FinalizeReservation, StillActive, StockConserved, ExpiredMeansPenalised,
      TypeOK, Working, Settlers, Processes, Handlers
<1>4. \/ UNCHANGED <<reservation, stock>>
      \/ \E p \in Requesters : Reserve(p) \/ EndReservation(p)
      \/ \E p \in Settlers : Expires(p)
  BY SettleCases, AskStep, LandStep, RefusedStep, UpdateStep, CommitStep
  DEF store, journal, Next, Request, Browse, Admit, OperationFails, CheckClose,
      ListExpired, PrepareExpiration, Lock, Meter, Unlock, Claim, CreateAttempt,
      GiveUp, SubmitTimesOut, SaveReceipt, Land, FailedTransaction, CloseValid,
      Ends, SettleViolation, Reclaim, ReclaimExpired, Tick, Mention, Crash,
      CrashOf, vars
<1>5. CASE UNCHANGED <<reservation, stock>>
  BY <1>0, <1>1, <1>5 DEF StockConserved, ExpiredMeansPenalised
<1> QED
  BY <1>2, <1>3, <1>4, <1>5

(* What the chain records was journaled, due and metered.                  *)
LEMMA BondNext ==
  Inv /\ [Next]_vars => PenaltyOnlyWhenDue' /\ SettledAsJournaled' /\ BilledWithinMeter'
<1> SUFFICES ASSUME Inv, [Next]_vars
    PROVE PenaltyOnlyWhenDue' /\ SettledAsJournaled' /\ BilledWithinMeter'
  OBVIOUS
<1>0. /\ TypeOK /\ TypeOK' /\ Working /\ Carried /\ DueOnly /\ Metering /\ Metering'
      /\ PenaltyOnlyWhenDue /\ SettledAsJournaled
  BY TypeNext, MeteringNext DEF Inv
<1>1. ASSUME bond'.status \in Outcomes
      PROVE  /\ bond'.evidence # None /\ bond'.evidence = attempt'[bond'.status]
             /\ bond'.status = "VIOLATED" => Due
  <2>1. CASE bond' = bond
    BY <1>0, <1>1, <2>1, JournalStays
    DEF SettledAsJournaled, PenaltyOnlyWhenDue, Due
  <2>2. ASSUME NEW p \in Settlers, Lands(p)
        PROVE  /\ bond'.evidence # None /\ bond'.evidence = attempt'[bond'.status]
               /\ bond'.status = "VIOLATED" => Due
    BY <1>0, <2>2, OutcomeType, JournalStays, LandStep
    DEF Working, DueOnly, Settlers, Processes, Handlers
  <2>3. ASSUME NEW t \in inflight, bond' = [status |-> t.outcome, evidence |-> t.evidence]
        PROVE  /\ bond'.evidence # None /\ bond'.evidence = attempt'[bond'.status]
               /\ bond'.status = "VIOLATED" => Due
    BY <1>0, <2>3, JournalStays
    DEF Carried, DueOnly, TypeOK, Transactions, Usage
  <2>4. bond' # [bond EXCEPT !.status = "RECLAIMED"]
    BY <1>0, <1>1 DEF TypeOK, Outcomes
  <2> QED
    BY <2>1, <2>2, <2>3, <2>4, BondStep
<1>2. PenaltyOnlyWhenDue'
  BY <1>1, DueStays DEF PenaltyOnlyWhenDue, Due, Outcomes
<1>3. SettledAsJournaled'
  BY <1>1 DEF SettledAsJournaled
<1>4. bond'.status \in Outcomes => bond'.evidence <= session'.calls
  BY <1>0, <1>1 DEF Metering
<1>5. session'.receipt # None =>
        /\ session'.receipt.usage <= session'.receipt.calls
        /\ session'.receipt.calls <= session'.calls
  <2>1. ASSUME NEW p \in Settlers, SaveReceipt(p)
        PROVE  /\ session'.receipt.usage <= session'.receipt.calls
               /\ session'.receipt.calls <= session'.calls
    BY <2>1, ReceiptSaved DEF Settlers, Processes, Handlers
  <2>2. CASE session'.receipt = session.receipt
    <3>1. session.receipt # None =>
            /\ session.receipt \in Receipts
            /\ session.receipt.usage <= session.receipt.calls
            /\ session.receipt.calls <= session.calls
      BY <1>0 DEF TypeOK, Sessions, Inv, BilledWithinMeter
    <3> QED
      BY <1>0, <2>2, <3>1, MeterStays DEF TypeOK, Sessions, Receipts
  <2>3. session'.receipt = session.receipt \/ \E p \in Settlers : SaveReceipt(p)
    BY <1>0, SessionStep, MeteredSession, CommitStep
    DEF Transition, TypeOK, Sessions
  <2> QED
    BY <2>1, <2>2, <2>3
<1> QED
  BY <1>2, <1>3, <1>4, <1>5 DEF BilledWithinMeter

(* A session ends in the commit of a confirmed settlement only.            *)
LEMMA AgreementNext == Inv /\ [Next]_vars => SessionAgreesWithChain'
<1> SUFFICES ASSUME Inv, [Next]_vars PROVE SessionAgreesWithChain'
  OBVIOUS
<1>0. /\ TypeOK /\ Working /\ SessionAgreesWithChain /\ session \in Sessions
      /\ session.receipt # None => session.state \in Terminal
  BY DEF Inv, TypeOK, SessionAgreesWithChain, Sessions, Receipts, Terminal
<1>1. bond.status # "OPEN" => bond'.status = bond.status
  BY BondStays DEF BondOpen
<1>2. CASE session' = session
  BY <1>0, <1>1, <1>2 DEF SessionAgreesWithChain
<1>3. ASSUME session.state \notin Terminal,
             NEW op \in Operations, session' = Metered(op)
      PROVE  SessionAgreesWithChain'
  BY <1>0, <1>1, <1>3, MeteredSession DEF SessionAgreesWithChain, Terminal
<1>4. ASSUME session.state \notin Terminal,
             NEW s \in {"ACTIVE", "SETTLING"}, session' = [session EXCEPT !.state = s]
      PROVE  SessionAgreesWithChain'
  BY <1>0, <1>4 DEF SessionAgreesWithChain, Sessions
<1>5. ASSUME NEW p \in Settlers, session.state = "SETTLING", Commits(p)
      PROVE  SessionAgreesWithChain'
  BY <1>0, <1>1, <1>5, OutcomeType, CommitStep
  DEF Receipt, CloseReceipt, ExpiryReceipt, Transition, Working,
      SessionAgreesWithChain, Settlers, Processes, Handlers, Sessions, Terminal
<1>6. ASSUME NEW p \in Settlers, SaveReceipt(p) PROVE SessionAgreesWithChain'
  BY <1>0, <1>1, <1>6, ReceiptSaved
  DEF SessionAgreesWithChain, Settlers, Processes, Handlers, Terminal
<1> QED
  BY <1>2, <1>3, <1>4, <1>5, <1>6, SessionStep

(* An adapter learns of a settlement when the chain shows it, which stays  *)
(* (BondStays), and notes the nonce it sends with the settlement.          *)
LEMMA RememberedNext == Inv /\ [Next]_vars => Remembered'
<1> DEFINE Knows(q) ==
             /\ \A o \in Outcomes : settledResults[q][o] # None => bond.status = o
             /\ \A o \in seenNonces[q] : settledResults[q][o] # None
<1> SUFFICES ASSUME Inv, [Next]_vars, NEW q \in Processes PROVE Knows(q)'
  BY DEF Remembered
<1>0. /\ Knows(q)
      /\ settledResults \in [Processes -> [Outcomes -> Signatures \cup {None}]]
      /\ seenNonces[q] \subseteq Outcomes
  BY DEF Inv, TypeOK, Remembered
<1>1. bond.status \in Outcomes => bond' = bond
  BY BondStays DEF BondOpen, Outcomes
<1>2. CASE settledResults'[q] = settledResults[q] /\ seenNonces'[q] = seenNonces[q]
  BY <1>0, <1>1, <1>2
<1>3. ASSUME NEW p \in Settlers, NEW signature, signature # None,
             NoteResult(p, signature), bond'.status = Outcome(p),
             seenNonces'[q] \in {seenNonces[q], seenNonces[q] \cup {Outcome(p)}},
             q \in MachineOf(p),
             \A o \in Outcomes : settledResults[q][o] # None => o = Outcome(p)
      PROVE  Knows(q)'
  <2>1. settledResults'[q] = [settledResults[q] EXCEPT ![Outcome(p)] = signature]
    BY <1>0, <1>3 DEF NoteResult
  <2> QED
    BY <1>0, <1>3, <2>1, OutcomeType
<1>4. ASSUME NEW p \in Settlers, Asks(p)
      PROVE  Knows(q)'
  <2>1. bond' = bond /\ seenNonces' = seenNonces
    BY <1>4, AskStep
  <2>2. ASSUME NEW signature \in {signatures, NoSignature}, NoteResult(p, signature),
               bond.status = Outcome(p)
        PROVE  Knows(q)'
    <3>1. signature # None
      BY DEF Inv, TypeOK, NoSignature
    <3>2. CASE q \in MachineOf(p)
      BY <1>0, <1>3, <2>1, <2>2, <3>1, <3>2
    <3>3. CASE q \notin MachineOf(p)
      BY <1>2, <2>1, <2>2, <3>3 DEF NoteResult
    <3> QED
      BY <3>2, <3>3
  <2> QED
    BY <1>2, <1>4, <2>1, <2>2, AskStep
<1>5. ASSUME NEW p \in Settlers, Lands(p)
      PROVE  Knows(q)'
  <2>1. /\ bond'.status = Outcome(p) /\ NoteResult(p, signatures + 1)
        /\ seenNonces'[q] = IF q \in MachineOf(p) THEN seenNonces[q] \cup {Outcome(p)}
                                                 ELSE seenNonces[q]
    <3>1. bond' = [status |-> Outcome(p), evidence |-> evidence[p]]
      BY <1>5, LandStep
    <3>2. NoteResult(p, signatures + 1)
      BY <1>5, LandStep
    <3>3. seenNonces' = [r \in Processes |-> IF r \in MachineOf(p)
                                            THEN seenNonces[r] \cup {Outcome(p)}
                                            ELSE seenNonces[r]]
      BY <1>5, LandStep
    <3> QED
      BY <3>1, <3>2, <3>3
  <2>2. \A o \in Outcomes : settledResults[q][o] = None
    BY <1>0, <1>5, LandStep DEF BondOpen, Outcomes
  <2>3. signatures + 1 # None
    BY DEF Inv, TypeOK
  <2>4. CASE q \in MachineOf(p)
    BY <1>3, <2>1, <2>2, <2>3, <2>4
  <2>5. CASE q \notin MachineOf(p)
    <3>1. settledResults'[q] = settledResults[q] /\ seenNonces'[q] = seenNonces[q]
      BY <2>1, <2>5 DEF NoteResult
    <3> QED
      BY <1>0, <2>2, <3>1
  <2> QED
    BY <2>4, <2>5
<1>6. ASSUME \/ settledResults'[q] = NothingSettled /\ seenNonces'[q] = {}
             \/ settledResults'[q] = settledResults[q] /\ seenNonces'[q] = seenNonces[q]
      PROVE  Knows(q)'
  BY <1>2, <1>6 DEF NothingSettled
<1>7. ASSUME \E p \in Workers : ListExpired(p)
      PROVE  Knows(q)'
  BY <1>6, <1>7 DEF ListExpired, Inv, TypeOK
<1>8. CASE Crash
  BY <1>6, <1>8 DEF Crash, CrashOf
<1> HIDE DEF Knows
<1> QED
  BY <1>2, <1>4, <1>5, <1>7, <1>8, SettleCases, RefusedStep, UpdateStep, ExpireStep,
     CommitStep
  DEF chain, Next, Request, Browse, Admit, Reserve, EndReservation,
      OperationFails, CheckClose, PrepareExpiration, Lock, Meter, Unlock, Claim,
      CreateAttempt, SubmitTimesOut, SaveReceipt, Land, FailedTransaction,
      Reclaim, Mention, Tick, vars

(* The parts together.                                                     *)
LEMMA NextInv == Inv /\ [Next]_vars => Inv'
BY TypeNext, WorkingNext, CarriedNext, RememberedNext, DueOnlyNext,
   MeteringNext, EndingNext, StockNext, BondNext, AgreementNext
DEF Inv

LEMMA Invariance == Spec => []Inv
BY InitInv, NextInv, PTL DEF Spec

-----------------------------------------------------------------------------
(* What holds of every settlement.                                         *)

(* Every document, account and local value has its type: no settlement     *)
(* works with an evidence or a record that it does not have.               *)
THEOREM TypeCorrect == Spec => []TypeOK
<1>1. Inv => TypeOK
  BY DEF Inv
<1> QED
  BY <1>1, Invariance, PTL

(* No unit of the product is returned twice or lost, in whatever order     *)
(* releases, consumptions and expiries finalize the reservation.           *)
THEOREM StockIsConserved == Spec => []StockConserved
<1>1. Inv => StockConserved
  BY DEF Inv
<1> QED
  BY <1>1, Invariance, PTL

(* A penalty is only taken for a reservation that was past its deadline.   *)
THEOREM PenaltyIsDue == Spec => []PenaltyOnlyWhenDue
<1>1. Inv => PenaltyOnlyWhenDue
  BY DEF Inv
<1> QED
  BY <1>1, Invariance, PTL

(* A unit returns to the stock as expired only after the penalty was paid. *)
THEOREM ExpiryIsPenalised == Spec => []ExpiredMeansPenalised
<1>1. Inv => ExpiredMeansPenalised
  BY DEF Inv
<1> QED
  BY <1>1, Invariance, PTL

(* What the chain records can be recovered from the journal, whoever sent  *)
(* the transaction and whether or not anybody still waits for it.          *)
THEOREM SettlementIsJournaled == Spec => []SettledAsJournaled
<1>1. Inv => SettledAsJournaled
  BY DEF Inv
<1> QED
  BY <1>1, Invariance, PTL

(* A session only ends, and its receipt only says, as the chain did.       *)
THEOREM SessionAgrees == Spec => []SessionAgreesWithChain
<1>1. Inv => SessionAgreesWithChain
  BY DEF Inv
<1> QED
  BY <1>1, Invariance, PTL

(* No receipt and no evidence on the chain bills more than was metered.    *)
THEOREM BillingIsMetered == Spec => []BilledWithinMeter
<1>1. Inv => BilledWithinMeter
  BY DEF Inv
<1> QED
  BY <1>1, Invariance, PTL

(* A session that ended only gains its receipt, and only once.             *)
THEOREM EndIsFinal == Spec => TerminalIsFinal
<1>1. Inv /\ [Next]_vars /\ session.state \in Terminal =>
        session' = session \/ (session.receipt = None
                               /\ session' = [session EXCEPT !.receipt = session'.receipt])
  <2> SUFFICES ASSUME Inv, [Next]_vars, session.state \in Terminal
      PROVE  session' = session \/ (session.receipt = None
                               /\ session' = [session EXCEPT !.receipt = session'.receipt])
    OBVIOUS
  <2>1. session' = session \/ \E p \in Settlers : SaveReceipt(p)
    BY SessionStep DEF Terminal
  <2> QED
    BY <2>1, ReceiptSaved DEF Settlers, Processes, Handlers
<1> QED
  BY <1>1, Invariance, PTL DEF Spec, TerminalIsFinal

(* An attempt is written once: what a process journals for an outcome is    *)
(* what every later one finds there, however long it was asleep.           *)
THEOREM EvidenceWrittenOnce == Spec => EvidenceIsWrittenOnce
<1>1. Inv /\ [Next]_vars =>
        [\A o \in Outcomes : Journal(o)!Write \/ UNCHANGED attempt[o]]_attempt
  <2> SUFFICES ASSUME Inv, [Next]_vars, NEW o \in Outcomes
      PROVE  Journal(o)!Write \/ UNCHANGED attempt[o]
    OBVIOUS
  <2>1. CASE attempt[o] # None
    BY <2>1, JournalStays
  <2>2. CASE attempt[o] = None
    <3>1. attempt'[o] \in Usage \cup {None}
      BY TypeNext DEF TypeOK
    <3> QED
      BY <2>2, <3>1 DEF Journal!Write
  <2> QED
    BY <2>1, <2>2
<1> QED
  BY <1>1, Invariance, PTL DEF Spec, EvidenceIsWrittenOnce

(* Records that were read before an await and are saved after it take no   *)
(* metered request back.                                                   *)
THEOREM MeterAlwaysRises == Spec => MeterOnlyRises
<1>1. Inv /\ [Next]_vars => [session.calls <= session'.calls]_vars
  BY MeterStays
<1> QED
  BY <1>1, Invariance, PTL DEF Spec, MeterOnlyRises

(* No retry is refused as a replay: a nonce that the adapter has sent is   *)
(* that of a settlement it remembers, and confirms again, and what it      *)
(* remembers is what the chain shows.                                      *)
THEOREM RetriesAreHeard ==
  Spec => [](\A p \in Processes :
               \/ EvidenceAccepted(p)
               \/ Settled(p) /\ bond.status = Outcome(p))
<1>1. Inv => \A p \in Processes :
               \/ EvidenceAccepted(p)
               \/ Settled(p) /\ bond.status = Outcome(p)
  BY OutcomeType DEF Inv, Remembered, EvidenceAccepted, Settled
<1> QED
  BY <1>1, Invariance, PTL

-----------------------------------------------------------------------------
(* The bond account of this module is one of the program's.                *)

(* What the program reads and writes, of the one bond there is.            *)
(* A step that touches neither the bond nor its deadline is a stutter.     *)
LEMMA MappedStutter ==
  ASSUME bond' = bond, timeLeft'["bond"] = timeLeft["bond"]
  PROVE  UNCHANGED Program!vars
BY DEF Program!vars, Paid, Terms, Penalty

(* Time passes for the program while the deadline of the bond is ahead.    *)
LEMMA MappedTick ==
  ASSUME Inv, Tick
  PROVE  Program!Tick \/ UNCHANGED Program!vars
<1>1. bond' = bond
  BY DEF Tick, chain, ledger
<1>2. CASE timeLeft["bond"] = 0
  BY <1>1, <1>2, MappedStutter DEF Tick, Deadlines
<1>3. CASE timeLeft["bond"] # 0
  <2>1. timeLeft["bond"] \in Nat /\ timeLeft'["bond"] = timeLeft["bond"] - 1
    BY <1>3 DEF Inv, TypeOK, Tick, Deadlines
  <2>2. UNCHANGED <<[b \in {"bond"} |-> bond.status], [b \in {"bond"} |-> Terms],
                    [b \in {"bond"} |-> bond.evidence],
                    [b \in {"bond"} |-> IF bond.status = "VIOLATED" THEN Penalty ELSE 0],
                    [b \in {"bond"} |-> IF bond.status = "OPEN" THEN Terms.bondAmount ELSE 0],
                    Paid>>
    BY <1>1 DEF Paid, Terms, Penalty
  <2> QED
    BY <1>3, <2>1, <2>2 DEF Program!Tick
<1> QED
  BY <1>2, <1>3

(* A refund on the chain is close_valid.                                   *)
LEMMA MappedClose ==
  ASSUME BondOpen, NEW e \in Usage, bond' = [status |-> "CLOSED", evidence |-> e],
         timeLeft'["bond"] = timeLeft["bond"]
  PROVE  Program!CloseValid("bond", "gateway", e)
<1> USE DEF Terms, BondOpen
<1>1. /\ Program!Unsettled("bond")
      /\ "gateway" = [b \in {"bond"} |-> Terms]["bond"].authority
  BY DEF Program!Unsettled
<1>2. Paid' = Program!SplitEscrow("bond", 0)
  BY DEF Program!SplitEscrow, Program!PayMerchant, Paid
<1> QED
  BY <1>1, <1>2 DEF Program!CloseValid

(* A penalty on the chain is settle_violation, with the fixed penalty.     *)
LEMMA MappedViolation ==
  ASSUME BondOpen, NEW e \in Usage, bond' = [status |-> "VIOLATED", evidence |-> e],
         timeLeft'["bond"] = timeLeft["bond"]
  PROVE  Program!SettleViolation("bond", "gateway", e, Penalty)
<1> USE DEF Terms, BondOpen, Penalty
<1>1. Program!Unsettled("bond") /\ Program!PenaltyAllowed("bond", Penalty)
  BY DEF Program!Unsettled, Program!PenaltyAllowed
<1>2. Paid' = Program!SplitEscrow("bond", Penalty)
  BY DEF Program!SplitEscrow, Program!PayMerchant, Paid
<1> QED
  BY <1>1, <1>2 DEF Program!SettleViolation

(* The agent reclaims when the program lets it.                            *)
LEMMA MappedReclaim ==
  ASSUME Inv, Reclaim
  PROVE  Program!ReclaimExpired("bond", "agent")
<1> USE DEF Terms, BondOpen
<1>1. bond' = [status |-> "RECLAIMED", evidence |-> bond.evidence]
  BY DEF Reclaim, ReclaimExpired, Ends, Inv, TypeOK
<1>2. Program!Unsettled("bond") /\ Program!GraceElapsed("bond")
  BY DEF Program!Unsettled, Program!GraceElapsed, Reclaim, ReclaimExpired, Ends
<1>3. Paid' = Program!SplitEscrow("bond", 0)
  BY <1>1 DEF Program!SplitEscrow, Program!PayMerchant, Paid, Reclaim,
              ReclaimExpired, Ends
<1> QED
  BY <1>1, <1>2, <1>3 DEF Program!ReclaimExpired, Reclaim, ReclaimExpired, Ends

(* Only reclaiming, settling and the clock move what the program sees.     *)
LEMMA SeenByProgram ==
  ASSUME Inv, [Next]_vars
  PROVE  \/ Tick \/ Reclaim
         \/ /\ timeLeft'["bond"] = timeLeft["bond"]
            /\ \/ bond' = bond
               \/ /\ BondOpen
                  /\ \E o \in Outcomes, e \in Usage : bond' = [status |-> o, evidence |-> e]
<1>0. timeLeft \in [Deadlines -> Nat] /\ "bond" \in Deadlines
  BY DEF Inv, TypeOK, Deadlines
<1> USE DEF store, journal, chain, ledger, local
<1>1. ASSUME NEW p \in Settlers, Lands(p)
      PROVE  /\ timeLeft'["bond"] = timeLeft["bond"]
             /\ BondOpen
             /\ \E o \in Outcomes, e \in Usage : bond' = [status |-> o, evidence |-> e]
  <2>1. evidence[p] \in Usage
    BY <1>1, LandStep
    DEF Inv, TypeOK, Working, Settlers, Processes, Handlers
  <2> QED
    BY <1>1, <2>1, OutcomeType, LandStep
<1>2. ASSUME NEW t \in Transactions, Land(t)
      PROVE  /\ timeLeft'["bond"] = timeLeft["bond"]
             /\ \/ bond' = bond
                \/ /\ BondOpen
                   /\ \E o \in Outcomes, e \in Usage : bond' = [status |-> o, evidence |-> e]
  BY <1>2 DEF Land, FailedTransaction, CloseValid, Ends, SettleViolation,
              Transactions
<1>3. \/ Tick \/ Reclaim
      \/ \E p \in Settlers : Lands(p)
      \/ \E t \in Transactions : Land(t)
      \/ bond' = bond /\ timeLeft'["bond"] = timeLeft["bond"]
  BY <1>0, SettleCases, AskStep, RefusedStep, UpdateStep, ExpireStep, CommitStep
  DEF Next, Request, Browse, Admit, Reserve, EndReservation, OperationFails,
      CheckClose, ListExpired, PrepareExpiration, Lock, Meter, Unlock, Claim,
      CreateAttempt, GiveUp, SubmitTimesOut, FinalizeReservation, SaveReceipt,
      Transition, Mention, Crash, CrashOf, vars
<1> QED
  BY <1>1, <1>2, <1>3

(* Whatever the handlers, the network and the clock do, the bond account   *)
(* changes by the instructions of the program only, and by those that the  *)
(* gateway or the agent may send.                                          *)
THEOREM ChainRefinesProgram == Spec => ChainObeysProgram
<1>1. Inv /\ [Next]_vars =>
        [\/ Program!Tick
         \/ Program!ReclaimExpired("bond", "agent")
         \/ \E h \in Usage : Program!CloseValid("bond", "gateway", h)
         \/ \E h \in Usage : Program!SettleViolation("bond", "gateway", h, Penalty)]_Program!vars
  BY SeenByProgram, MappedStutter, MappedTick, MappedReclaim, MappedClose,
     MappedViolation
  DEF Outcomes
<1> QED
  BY <1>1, Invariance, PTL DEF Spec, ChainObeysProgram

-----------------------------------------------------------------------------
(* What the two parties of the bond see.                                   *)

(* The agent takes back a bond that nobody settled in time.                *)
LEMMA Reclaimed ==
  ASSUME Inv, Reclaim
  PROVE  BondOpen /\ bond' = [status |-> "RECLAIMED", evidence |-> bond.evidence]
BY DEF Reclaim, ReclaimExpired, Ends, Inv, TypeOK

(* Whoever sends a penalty, or left one on its way, does so when it is due.*)
LEMMA PenaltyAsked ==
  ASSUME Inv, [Next]_vars, BondOpen, bond'.status = "VIOLATED"
  PROVE  Due
<1>1. bond' # bond
  BY DEF BondOpen
<1>2. ASSUME NEW p \in Settlers, Lands(p) PROVE Due
  <2>1. bond' = [status |-> Outcome(p), evidence |-> evidence[p]] /\ pc[p] = "submit"
    BY <1>2, LandStep
  <2>2. p \in Processes \ Closers
    BY <2>1 DEF Outcome, Settlers, Processes, Handlers
  <2> QED
    BY <2>1, <2>2 DEF Inv, DueOnly
<1>3. ASSUME NEW t \in inflight, bond' = [status |-> t.outcome, evidence |-> t.evidence]
      PROVE  Due
  BY <1>3 DEF Inv, DueOnly
<1>4. bond' # [bond EXCEPT !.status = "RECLAIMED"]
  BY DEF Inv, TypeOK
<1> QED
  BY <1>1, <1>2, <1>3, <1>4, BondStep

(* A step that leaves the bond alone is invisible to the parties.          *)
LEMMA DealStutter ==
  ASSUME bond' = bond
  PROVE  UNCHANGED Deal!vars
BY DEF Deal!vars, Held, Escrowed, Paid, Terms, Penalty, BondOpen

(* Nothing is paid out of an open bond.                                    *)
LEMMA PaidNothing ==
  ASSUME BondOpen
  PROVE  Paid = [p \in {"agent", "merchant", "gateway"} |-> 0]
BY DEF Paid, BondOpen

(* A bond that ends so is paid out as the terms of the deal allow.         *)
LEMMA DealPays ==
  ASSUME BondOpen, ~ BondOpen', NEW share \in {0, 5},
         Paid' = [(IF share = 0 THEN Paid ELSE [Paid EXCEPT !["merchant"] = @ + share])
                    EXCEPT !["agent"] = @ + (20 - share)]
  PROVE  Deal!Payout("bond", share)
<1>1. /\ Held["bond"] = "held" /\ Held' = [Held EXCEPT !["bond"] = "paid"]
      /\ Escrowed["bond"] = 20 /\ Escrowed' = [Escrowed EXCEPT !["bond"] = 0]
      /\ [b \in {"bond"} |-> Terms.maxPenalty]["bond"] = 6
      /\ [b \in {"bond"} |-> Terms.merchant]["bond"] = "merchant"
      /\ [b \in {"bond"} |-> "agent"]["bond"] = "agent"
  BY DEF Held, Escrowed, Terms
<1>2. LET shared == IF share = 0 THEN Paid
                     ELSE [Paid EXCEPT ![[b \in {"bond"} |-> Terms.merchant]["bond"]] = @ + share]
      IN  Paid' = [shared EXCEPT ![[b \in {"bond"} |-> "agent"]["bond"]]
                     = @ + (Escrowed["bond"] - share)]
  BY <1>1
<1>3. share <= [b \in {"bond"} |-> Terms.maxPenalty]["bond"] /\ share <= Escrowed["bond"]
  BY <1>1
<1>4. UNCHANGED <<[b \in {"bond"} |-> Terms.merchant], [b \in {"bond"} |-> Terms.maxPenalty]>>
  BY DEF Terms
<1> QED
  BY <1>1, <1>2, <1>3, <1>4 DEF Deal!Payout

(* A refund pays the agent everything, whether it was asked for or the     *)
(* agent took it.                                                          *)
LEMMA DealRefunds ==
  ASSUME BondOpen, NEW s \in {"CLOSED", "RECLAIMED"}, NEW e,
         bond' = [status |-> s, evidence |-> e]
  PROVE  Deal!Payout("bond", 0)
<1>1. bond'.status \in {"CLOSED", "RECLAIMED"} /\ ~ BondOpen'
  BY DEF BondOpen
<1>2. Paid' = [p \in {"agent", "merchant", "gateway"} |-> IF p = "agent" THEN 20 ELSE 0]
  BY <1>1 DEF Paid, Terms
<1>3. Paid' = [Paid EXCEPT !["agent"] = @ + (20 - 0)]
  <2>1. Paid = [p \in {"agent", "merchant", "gateway"} |-> 0]
    BY PaidNothing
  <2> QED
    BY <1>2, <2>1
<1>4. Paid' = [(IF 0 = 0 THEN Paid ELSE [Paid EXCEPT !["merchant"] = @ + 0])
                 EXCEPT !["agent"] = @ + (20 - 0)]
  BY <1>3
<1> QED
  BY <1>1, <1>4, DealPays

(* A penalty is shared as the terms of the bond allow.                     *)
LEMMA DealPenalises ==
  ASSUME BondOpen, NEW e, bond' = [status |-> "VIOLATED", evidence |-> e]
  PROVE  Deal!Payout("bond", Penalty)
<1>1. ~ BondOpen'
  BY DEF BondOpen
<1>2. Paid' = [p \in {"agent", "merchant", "gateway"} |->
                IF p = "agent" THEN 15 ELSE IF p = "merchant" THEN 5 ELSE 0]
  BY DEF Paid, Terms, Penalty
<1>3. Paid' = [[Paid EXCEPT !["merchant"] = @ + 5] EXCEPT !["agent"] = @ + (20 - 5)]
  <2>1. Paid = [p \in {"agent", "merchant", "gateway"} |-> 0]
    BY PaidNothing
  <2> QED
    BY <1>2, <2>1
<1>4. Paid' = [(IF 5 = 0 THEN Paid ELSE [Paid EXCEPT !["merchant"] = @ + 5])
                 EXCEPT !["agent"] = @ + (20 - 5)]
  BY <1>3
<1> QED
  BY <1>1, <1>4, DealPays DEF Penalty

(* One payout of the whole bond is all that the parties see, and a penalty *)
(* is only in it for a reservation that was due: the gateway, its workers, *)
(* the program and the network together keep the promise of BondPromise.   *)
THEOREM DealAlwaysKept == Spec => DealIsKept
<1>1. Inv /\ [Next]_vars =>
        [\/ Deal!Payout("bond", 0)
         \/ /\ Deal!Payout("bond", Penalty)
            /\ reservation # "NONE" /\ timeLeft["reservation"] = 0]_Deal!vars
  <2> SUFFICES ASSUME Inv, [Next]_vars
      PROVE  \/ UNCHANGED Deal!vars
             \/ Deal!Payout("bond", 0)
             \/ /\ Deal!Payout("bond", Penalty)
                /\ reservation # "NONE" /\ timeLeft["reservation"] = 0
    OBVIOUS
  <2>1. CASE bond' = bond
    BY <2>1, DealStutter
  <2>2. ASSUME NEW e, BondOpen,
               \/ bond' = [status |-> "CLOSED", evidence |-> e]
               \/ bond' = [status |-> "RECLAIMED", evidence |-> e]
        PROVE  Deal!Payout("bond", 0)
    BY <2>2, DealRefunds
  <2>3. ASSUME NEW e, BondOpen, bond' = [status |-> "VIOLATED", evidence |-> e]
        PROVE  Deal!Payout("bond", Penalty) /\ Due
    <3>1. Deal!Payout("bond", Penalty)
      BY <2>3, DealPenalises
    <3>2. Due
      BY <2>3, PenaltyAsked
    <3> QED
      BY <3>1, <3>2
  <2>4. \/ bond' = bond
        \/ /\ BondOpen
           /\ \E e : \/ bond' = [status |-> "CLOSED", evidence |-> e]
                     \/ bond' = [status |-> "RECLAIMED", evidence |-> e]
                     \/ bond' = [status |-> "VIOLATED", evidence |-> e]
    BY SeenByProgram, Reclaimed DEF Outcomes, Tick, chain, ledger
  <2> QED
    BY <2>1, <2>2, <2>3, <2>4 DEF Due
<1> QED
  BY <1>1, Invariance, PTL DEF Spec, DealIsKept
=============================================================================
