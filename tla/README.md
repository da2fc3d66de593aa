# Verification of BotBond

BotBond lets an agent nobody knows use a merchant's API under a signed policy and a
refundable bond on Solana. An agent that abandons a reservation pays a bounded penalty,
everybody else gets the deposit back. This directory holds TLA+ models of the code that
decides what an agent may do, what it is shown and who gets the deposit, TLC configurations that check them on small instances, and
TLAPS proofs that hold for all instances.

Contents: [the system](#the-system), [the modules](#the-modules), [the runs](#the-runs),
[bounds and fairness](#bounds-and-fairness), [proofs](#proofs),
[what the code does not do](#what-the-repository-says-and-the-code-does-not-do),
[what is left out](#what-is-left-out), [what remains](#what-remains).

## The system

| Part | Source | State it keeps | Operations |
|---|---|---|---|
| Escrow program | `programs/botbond/src/lib.rs` | one account per bond (status, terms, receipt hash, settled penalty) and its escrow token account | `open_bond`, `close_valid`, `settle_violation`, `reclaim_expired` |
| Session creation | `apps/gateway/src/app.ts:415-512` | session document, idempotency claim | create, verify payment, verify bond, activate, roll back |
| Access route | `app.ts:532-750` | session document (calls, state), reservation, inventory | authorize, meter, reserve, release, consume, expire |
| Close route | `app.ts:752-854` | session document, settlement attempt, receipt | check, claim, settle, commit |
| Expiry worker | `expiry-processor.ts`, `scripts/process-expirations.ts` | none of its own | list expired reservations, claim, settle, finalize, commit |
| Repository | `repository.ts`, `firestore-repository.ts` | every document; each method is one transaction | expected-state transitions, settlement lease, metering, reservation with inventory, write-once attempts and nonces, idempotency |
| Settlement journal | `settlement-attempt.ts`, `settlement-polling.ts`, `mergeSettlementAttempt` | attempt document per outcome, nonce document | get or create, claim nonce, poll, merge |
| Adapters | `packages/payment-client/src` | caches of results and nonces of one process | usage charge, open-bond verification, settlement with recovery |
| Events | `app.ts:186-190, 863-905`, `event-stream.ts` | event log, in-process hub | append and publish, replay, catch up, live |
| Public demo | `public-demo-runner.ts` | daily count, cool-down, lease | claim, open a bond, run as a client, release, announce |
| Intent compilers | `compiler.ts`, `services/intent-agent/app` | none | reject, repair and clamp a proposed policy to catalog and budget |
| Contracts | `packages/contracts/src` | none | validate policies and catalogs, canonical hash |
| Web client | `apps/web/lib`, `apps/web/app` | shown events, view state, last event id | resume the stream, poll, reduce events |

How they interact. A gateway process serves the routes; its handlers interleave at every
`await`, and Cloud Run may run several processes. The worker is a process of its own. They
share nothing but Firestore and the chain: the repository's transactions are the only
atomic steps, and a session is locked by its state (`SETTLING`) and, sometimes, a lease of 30 s. A
settlement goes through four places that fail independently: the journal (attempt and
nonce), the chain (one transaction, irrevocable), the reservation with its inventory, and
the session with its receipt, in this order.

What is hard, and what makes each part correct:

* *Escrow program.* Any party may send any instruction at any time, and anybody may send
  tokens to an escrow account. Tokens are conserved, a bond is paid out once, the merchant
  gets at most the signed ceiling, and the deposit never stays locked.
* *Close, expire, worker.* All three may settle the same session, on records they read
  earlier; a lease may run out under its owner; a transaction may land after its sender gave up; a
  process may stop between any two steps. A unit of stock is returned once, a penalty is
  taken only after the deadline, a terminal session never changes again, session and
  receipt never contradict the chain, nobody is billed for calls that were not metered,
  and an abandoned reservation is settled in the end.
* *Journal.* Two owners of one attempt write from stale copies. The first evidence and the
  first transaction reference stay, and the status only rises.
* *Session creation.* Two requests for one session id, retries under the same key, and sponsored
  runs interleave at every await, and any of them may throw or stop. A refusal leaves nothing
  behind, a key has one answer, a token that was answered works, and a session is
  active only with a payment that covers its policy and, if the policy wants one, its bond.
* *Public demo.* At most one run uses the sponsor's wallet, unless it outlived its lease, and a
  late release does not end the lease of its successor.
* *Events.* An event travels through log, replay, catch-up, buffer, live delivery and a poll beside
  the stream, and the worker's never pass the gateway's hub. A stream carries an event
  once and misses none of its process, and the screen shows all of them in the end.
* *Web client.* It reduces events in the order they come, not in the order of the log. The screen
  never goes back, and ends at the end.
* *Compilers and metering.* A model may propose anything. What is compiled is valid and costs no more than the
  budget; requests authorized on stale copies keep within calls and rate.

The hazards of this code, each at its line, are listed under `hazards` in `PROJECT.json`
with the properties that address them.

## The modules

**BondPromise** is what the program promises the two parties, without instructions,
signers, receipts or the clock: a deposit, top-ups, one payout.

**BondEscrow** models the program itself, over any number of bonds. Each instruction is
one action (a Solana transaction is atomic); its guards are the `require!` lines and account
constraints, `SplitEscrow` and `PayMerchant` the token transfers: the merchant is paid first, the agent
gets the rest, and nothing prevents an agent from being its own merchant. `status[b] = "NONE"` is an address whose
account does not exist yet. `TokenTransfer` is the external token program. The module
*implements* BondPromise (property `KeepsPromise`, an `INSTANCE` with a refinement mapping that
merges the three ways a bond ends).

**Settlement** is the centre: one bonded session, its reservation, stock, journal and bond,
and the requests and worker runs that settle it.

| Variable | Code |
|---|---|
| `session` | the session document: `state`, `calls`, `operationCalls`, `receipt` |
| `reservation`, `stock` | reservation and inventory documents |
| `attempt` | the evidence journaled per outcome (`closeAttemptId`, `expiryAttemptId`) |
| `reference` | the signature journaled in that attempt when its settlement was confirmed |
| `bond` | status and receipt hash of the bond account |
| `signatures` | how many transactions name that account, from the one that ended it on; the newest is the one `getSignaturesForAddress` gives |
| `inflight` | signed transactions nobody waits for any more |
| `settledResults`, `seenNonces` | the memory of the Solana adapter in one process: the signature with which it has confirmed an outcome, which evidence it has sent; a crash loses both |
| `timeLeft` | token expiry, reservation TTL, lease, and bond expiry plus grace, as time left |
| `pc`, `seen`, `evidence`, `answer` | a handler's position between two awaits, the session record, the evidence and the signature it holds |

A step of a handler is what it does from one await on the repository or the chain to the
next: `CheckClose`, `Claim`, `CreateAttempt`; in the adapter `AnswerAgain` (from its memory), `FetchBond` with `RecoverSettled` (another
process was first), `CloseLands`/`PenaltyLands`, `SubmitRefused`, `SubmitTimesOut`; then `UpdateAttempt`, `RouteExpires` or `WorkerExpires`, `CommitClose` or
`CommitExpiry`, `SaveReceipt`, `Unlock`.

`RecoverSettled` answers what `recoverSettled` does: the newest signature of the account, or none if the list cannot be read. That need not be the
settlement's, because a settlement that came too late may fail on the chain (`FailedTransaction`), and anybody may name the account in a transaction (`Mention`).
`UpdateAttempt` is the merge into the journal: if it holds another signature already (`ReferenceConflict`), the call throws, whereupon a route unlocks the
session and the worker stops.

The three settling handlers share the steps they share in the
code, and differ where the code differs: the close route claims with a lease, works with the record the
claim returns and catches a failed commit; the expire operation locks without a lease,
meters under its lock and ignores an unchanged finalization; the worker claims with a lease but
keeps the record it listed, and gives up on an unchanged finalization. `Admit`, `Reserve`,
`EndReservation`, `OperationFails` are the other operations, whose failure unlocks the
session whoever locked it. `Reclaim` is the agent's own transaction; `CrashOf` ends a gateway or
a worker. `ChainObeysProgram` instantiates BondEscrow over `bond`: whatever the handlers do, the
account only changes as the program allows.

**SettlementJournal** refines what Settlement keeps of the journal in one write: the attempt
with status, reference and failure code, several writers with stale copies, an adapter that
gives any answer of its contract, polling, and crashes. **WriteOnce** is the register that
both the evidence and the reference implement.

**SessionCreation** models `POST /v1/sessions` with the routes it depends on. A *slot* is one request;
each await is a step, and the stages of a slot are the awaits in the order of the code (`After`).

| Variable | Code |
|---|---|
| `claims` | idempotency records: `None`, in progress (no answer) or completed |
| `sessions`, `log` | session documents and the stored events of each session id |
| `issued`, `cache` | payment tokens the gateway has signed; the challenge cached by this process |
| `bonds` | the bond accounts, and the intent each was opened for |
| `handler` | what each request is doing: stage, key, body, session id, the record it holds |
| `answers`, `faulted`, `crashed` | history: what clients were told, which requests were cut short |
| `left`, `twice` | history: the keys whose claim was left behind, and those of a release that took effect, threw and is or was repeated |

`ClaimKey` and `Replay` are the two answers of the claim (`MakeClaim` is its transaction), `CheckSid`, `CreateSession`, `Emit`, `Transition`,
`SaveSession`, `VerifyPayment`, `VerifyBond` the way to activation, `DeleteSession` and `Release`
`abortSessionCreation`, `Complete` and `Answer` the end. Any call may throw, after it
took effect or before. `Throw` is that inside the `try`: the catch block releases the claim. The claim itself is outside (`ClaimThrows`), a release of
`abortSessionCreation` that throws is repeated by the catch block (`AbortThrows`), and one of the catch block ends the request (`CatchThrows`).
`Crash` ends all requests of the process. `CloseSession` is all that
settlement means here: an active session may be closed in the meantime. The answer stored under a key implements
WriteOnce (`AnswerIsWrittenOnce`).

**PublicDemo** EXTENDS SessionCreation: a run claims the quota and the lease (`ClaimQuota`), opens its bond and obtains its credential in one
step of its own (`RunPrepares`: the run draws its session id, so nobody else knows it), requests a session like any client, releases the lease only if it still has it, and
announces its bond. `LeaseRunsOut` may come at any time.

**EventStream** is the way of an event to a screen. An emitter stamps an event, stores it and gives it to
the hub of its process (`Stamp`, `Store`, `Publish`: three steps, so the order of stamps, of the log
and of the hub may all differ); the worker has a process without streams. A stream is opened with the last id the client has
(`Connect`), subscribes and replays (`Replay`), catches up (`CatchUp`), and empties its buffer (`GoLive`). The client
reads the stream (`Receive`, `Break`, `Finish`) and polls beside it (`Ask`, `Answer`, `LosePoll`). The token of the session
expires at any moment, or not within the behaviour (`Expire`): from then on `requireActiveToken` refuses every new stream and every poll, while an open stream goes on.

**LiveView** EXTENDS EventStream with the reducer (`applyEvent`, folded over the events in the order they were shown)
and the stage of the screen (`stageFor`).

**PolicyCompiler** has no state: it defines what the intent agent accepts of a proposal (`Acceptable`) and builds of it (`Build`), what
it proposes without a model (`FakeProposal`), the gateway's own compiler (`LocalPolicy`) and
`validateAccessPolicy` (`Valid`). **AccessMeter** EXTENDS it: `Propose`, `RejectProposal` and `CompileLocally` are
`POST /v1/intents`; `StartSession` gives the session the limits of the policy. A request reads a copy of the session (`GetSession`), reads the clock and checks the copy (`Authorize`),
and is counted by the transaction that checks again (`ReserveRequest`); then it is served, and unlocks the session if that throws (`Serve`). An expire request
locks the session before (`LockSession`) and is counted under `SETTLING`. A close or a run of the worker locks it as well (`ClaimSettlement`).
Whoever settles ends the session (`EndSession`) or gives the lock back (`Unlock`), after which requests are counted again.

`MC*` modules give constants that a cfg cannot express. `*Proofs` modules hold theorems.
Every definition that stands for code is mapped to its lines in `PROJECT.json`.
Definitions commented "slip" are mistakes the code does not make: each is a variant of the
definition below it under which a property fails, which shows that the property depends on that code.

## The runs

All times are on two cores.

| Run | Participants | Checks | States |
|---|---|---|---|
| `bond_escrow` | 2 bonds, agent, merchant, 2 tokens each, donations | `TypeOK`, `OpenBacked` (escrow covers the deposit, the deposit the ceiling), `RecordTellsOutcome`, `TokensConserved`, `KeepsPromise`, `FundsNotLocked` | 1.0 M |
| `settlement_race` | a close, an expire request, a worker, other requests; no faults | `TypeOK`, `StockConserved`, `PenaltyOnlyWhenDue`, `ExpiredMeansPenalised`, `BilledWithinMeter`, `TerminalIsFinal` | 4.4 M |
| `settlement_crash` | a close, a worker, other requests; 2 faults | `SettledAsJournaled`, `SessionAgreesWithChain`, `ChainObeysProgram` | 3.8 M |
| `settlement_abandoned` | an expire request, a recurring worker; 1 fault; fairness | `AbandonedIsSettled` | 0.5 M |
| `journal` | 2 writers, 2 evidences, 2 references, crashes, any answer | `TypeOK`, `WritersAgree`, `ConfirmedWithoutFailure`, `EvidenceOnce`, `ReferenceOnce`, `OutcomeMonotone` | 45 k |
| `session_creation` | 2 slots; clients with 3 policies, or 4 sponsored runs; 1 request cut short by exceptions, or a crash | `DemoTypeOK`, `AnsweredTokenWorks`, `OneAnswerPerKey`, `HalfMadeOnlyByFault`, `StoryIsClean`, `PaidAndBonded`, `ClaimHasHolder`, `SponsorIsSerialized`, `AnswerIsWrittenOnce` | 1.8 M |
| `event_stream` | 2 handlers of a gateway, a worker, a client with 2 streams and its polls, a token that may expire; fairness | `SentOncePerConnection`, `LiveMissesNothing`, `EndIsShown`, `ScreenGoesForward`, `EveryEventShown` | 0.8 M |
| `policy_enforced` | 3 catalogs, 3 budgets, 1345 proposals; requests, a close, a worker, 2 at a time | `CompiledIsValid`, `WithinBudget`, `CallLimitsHold`, `RateHolds` | 6.4 M |
| `exclusion`, `close_race`, `release_race`, `resume_expiry` | the fewest that show it | one statement of the repository each, violated (below) | |

What the settlement runs show together: although the session lock does not exclude concurrent settlements,
the result is right, because the program pays a bond out once, the first evidence
of an outcome is journaled before its transaction is sent, and the reservation and the session
change by expected-state transactions.

`session_creation` shows the same of the beginning: the steps that look unguarded (the session id is
looked up before the record is created, the record is saved whole after events were emitted, the
roll-back deletes) are right because creation refuses an id that exists, every later write
expects the state that the same request left, and a claim in progress has one holder. Only what a fault leaves is not
cleaned up: an exception keeps a half-made session (`HalfMadeOnlyByFault` names it). The claim stays when the process stops, when
the claim itself throws after it took effect, and when the release of the catch block throws (`left`); and a release that took effect, threw and is repeated may
take the claim of another request (`twice`). `ClaimHasHolder`, `OneAnswerPerKey` and `AnswerIsWrittenOnce` exempt exactly the keys to which that happened.

`settlement_abandoned` shows that the worker ends every abandoned reservation, with one exception that the property names (`JournalOutrun`): the signature of the penalty is journaled,
the reservation not finalized yet, and the account has had another transaction since. Every later worker that does not remember the settlement recovers that newer signature, and
the merge throws every time. A reservation then may stay active for ever, although its bond was penalised.

`event_stream` shows that the poll is not a luxury: events of the worker never reach the gateway's hub, so
a live stream misses them, and `EveryEventShown` holds by the polls alone, for as long as the token lasts. Nothing is assumed of the stream, and nothing is promised of what
is stored after the token has expired.

`policy_enforced` counts everything the code counts: requests under `ACTIVE`, expire requests under `SETTLING`, and requests again after a settlement that failed.

## Bounds and fairness

*Settlement.* One session, since handlers of different sessions share only the stock, which
`finalizeReservationWithInventory` changes in one transaction. One reservation: the merchant catalog
allows one per session. One expire call fewer or more does not matter (`MaxCalls`: two, as in the
catalog). `MaxTotalCalls` 3 with `UsageCap` 2 lets the charge reach its cap and stay below it. The
deadlines (reservation 1, lease 1, token 2, bond 3; bond 2 in `settlement_crash`) let each pass before, between and after the
steps of any settlement, and in the only order the policy allows (the reservation ends before
the token in some behaviours and after it in others). `MaxFaults` bounds crashes, timeouts,
network failures and foreign transactions together; two are enough for a lost transaction and a crash of whoever
comes next. A run has one process of each kind, and each may serve one request after another; two
settlements of different kinds cover two of the same kind, which differ in less.
The proofs have none of these bounds.

*BondEscrow.* `Supply` 2 gives ceilings of zero, below and at the deposit and room for a donation;
two bonds show that they do not share an escrow; `GracePeriod` 1 and `MaxTime` 3 let settlement and reclaim race.

*Journal.* Two writers suffice for a conflict; two evidences and references to tell the first from
the second. All three sets are symmetric: nothing in the code orders or names them.

*Session creation.* Two requests at a time are every pair of steps; `MaxSends` 2 claims in all let a request follow
or overlap another with the same or another key and session id. The three policies are the cases the code tells apart:
free of a bond, bonded, and dearer than a credential. A body may lack a session id or name
another policy's hash. `MaxFaults` 1 is one request cut short anywhere, by an
exception and then perhaps one of its catch block, or one crash, after which others go on. Four run ids
reach `DailyLimit` 3. `Mixed = FALSE` keeps clients and sponsored runs in behaviours of their own, since they share no
key, session id or bond; the theorems hold for both values.

*Event stream.* Three scenarios: the agent closes; two requests emit at once; the worker settles while a
request emits. The log begins with the end of the creation and the second `BOND_OPENED` of a sponsored run. One reconnection shows resumption; two streams at a time cannot be, since the client opens the next
after the last has ended. Two events of the same millisecond are ordered by who stamped first, as if a write
lasted a millisecond at least.

*Screen.* `StreamAssumption` says that the scripts are sequences of the event types and that a session has some events before a client
has its token, as creation emits them (`app.ts:436-497`). `StoryAssumption` says which: what opens a session and starts its work is emitted by the creation alone, in
order, and before the answer that carries the token, so it is in `Before`; the second `BOND_OPENED` of a sponsored run, which the run
announces itself, is part of it as well. Whoever emits `SESSION_CLOSED` of a bonded session has emitted the refund or the penalty before, as the close route,
the expire operation and the worker do.

*Metering.* `MaxClock` 4 is two windows of length 2; a request may hold a time that is two units old when
it is counted. Two handlers are any two of requests, expire requests, closes and workers at the same time, and each serves one after another. Nothing tells
them apart, so they are symmetric. One catalog offers the expire operation. The catalogs have every cap, no cap, and no reservation; the budgets have less, as much and more than both. The proposals
are nothing, too little, too much, an operation or a field that is not in the catalog, and bonds that do not fit.

*Fairness.* `BondEscrow!FairSpec`: time passes and the agent keeps sending `reclaim_expired`; nothing
about the authority. `Settlement!FairSpec`: the worker is scheduled again and again and its
calls return (Cloud Scheduler runs `process-expirations.ts`), time passes, and a transaction in
flight lands or is dropped (its blockhash expires). No fairness is assumed of requests: agents may
go away. These are weak fairness: none of the actions is disabled and enabled for ever in turn. `EventStream!Spec`: the browser polls
every second while the page is open (WF of `Ask`), and, among the polls that were let in,
one gets through again and again though many may be lost (SF of `Answer`). Once the token has expired `Ask` is disabled, so fairness demands nothing of the gateway that it refuses;
`Expire` is not fair.
Deadlock checking is off where the system may come to rest: all requests served, all bonds paid.

## Proofs

TLAPS checks every obligation with its SMT and Zenon backends and LS4. Everything below holds for
any values of the constants that satisfy the named assumptions. They say that keys, hashes and records are
distinguishable from "none", that amounts and times are natural numbers, that run ids are distinct and a run asks for a stored intent
under its own session id, that there are finitely many bonds and parties (an address has 32 bytes), that proposals, requests and catalogs satisfy
their schemas (`MeterAssumption`: limits are at least 1, as `PolicyProposal` and the merchant catalog of the intent agent demand with `ge=1` and the gateway checks with `validateCatalog`
when it starts), and the order of events described under [bounds](#bounds-and-fairness). None of them limits a size.

*InductionLemmas.* The library's induction rules take an operator as a parameter, which the provers cannot instantiate. Here induction
is a fact about sets instead: a set that holds 0 and every successor holds all naturals (`SetInduction`, from the well-foundedness of `<`). From it
come the unfolding of recursive functions and what finite sums do when one term changes, which the other modules cite.

*BondEscrowProofs.* `TypeCorrect`: no balance goes below zero; the one subtraction that
could, in `settle_violation`, is covered by its guard (`SplitEscrowType`). `SafeAlways`:
`OpenBacked /\ RecordTellsOutcome` is inductive given the types. `PromiseKept`: `Spec` implies
`KeepsPromise`, by mapping each instruction to a step of BondPromise; `OpenBacked` is needed to
show that a payout leaves the escrow empty and within the ceiling. `RecordAlwaysTells` states its second half
alone: the record of a bond tells how it ended. `TokensAreConserved`: no step changes the sum of all wallets and escrows. The proof needs two more
invariants: the merchant of an open bond is a party, so what it is paid is counted (`PayeeKnown`), and an escrow that was not opened is
empty, so that opening it adds nothing (`UnopenedEmpty`).

*SettlementProofs*, for any number of requests and workers, any limits, deadlines and number of faults.
None of the checked invariants is inductive: each depends on what processes remember between two awaits.
`Inv` adds that
* `Working`: a process that is past the journal holds the journaled evidence of its own outcome, and one that is
  past the confirmation, the step of the journal included, sees that outcome on the chain; `Carried`: so do transactions on their way;
* `DueOnly`: everybody on the way to a penalty, and every such transaction, started after the deadline;
* `Remembered`: an adapter only remembers a settlement that the chain shows, and has sent no other evidence than of those it remembers;
* `Metering`: remembered session records and journaled evidences were metered no further than the session;
* `Ending`: at most one process has a receipt to save, and its record differs from the session in the receipt only.

The argument is stability: four lemmas say what no step takes back (`DueStays`, `JournalStays`, `BondStays`,
`MeterStays`), `BondStep` and `SessionStep` list the few ways the bond and the session change at all, and
each part of `Inv` follows from these and the actions that touch it. Exclusion between settlements is
not used, and does not hold (run `exclusion`): that all theorems hold without it is the point. They are one per
checked safety property, `EndIsFinal` for `TerminalIsFinal`, and
`ChainRefinesProgram`: each step maps to an instruction of BondEscrow or a stutter (`Mapped*`).
`RetriesAreHeard` says that the replay check of the adapter never stops a retry: it refuses
only evidence of a settlement that it remembers, and that is confirmed again. `EvidenceWrittenOnce` (from `JournalStays`) says of the
journal in this module what SettlementJournal shows in detail, that an attempt's evidence is a WriteOnce register: for the evidence, the short
journal here keeps the promise of the detailed one. `MeterAlwaysRises` (from `MeterStays`) excludes the lost update of `saveSession`.
`DealAlwaysKept` goes from the gateway to the top in one step: with the bond's tokens as its parties see them (`Held`, `Escrowed`, `Paid`), every step
is the one `Payout` of BondPromise or invisible, and a penalty is in it only if the reservation is due. It needs `DueOnly` for transactions nobody
waits for any more (`PenaltyAsked`). `Inv` itself was model-checked with the constants of `settlement_race` and `settlement_crash` before it was proved.

*SettlementJournalProofs.* The inductive invariant adds `Working` to the checked ones: a writer
has a copy while it works and an answer when it journals one. `MergeObeys` states what one merge
preserves, `RecordStep` that every step leaves the record alone, creates it or merges into
it. From these follow `TypeCorrect`, `Agreement`, `NoFailureLeft`, `OutcomeIsMonotone`, and the
two refinements of WriteOnce, `FirstEvidenceKept` and `FirstReferenceKept`.

*SessionCreationProofs* and *SessionRecordProofs*, for the specification with sponsored runs and any number of slots, keys, session
ids, faults and runs. Four invariants, each on top of the one before:
* `ClaimInv`: a request at work holds the claim of its key (`Holds`), unanswered until it completes it; no two requests hold the same; and each claim in progress has a holder,
  unless a fault left it (`left`). Keys of repeated releases (`twice`) are exempt, but a request that has just completed its claim finds it there all the same. `ClaimAlwaysHasHolder` follows, and, with what each step does to the claims (`WrittenOnceStep`),
  `AnswerAlwaysWrittenOnce`.
* `LeaseInv`: a run that is busy has outlived its lease or holds it, and runs have distinct ids;
  a late release leaves another's lease alone, which is `SponsorAlwaysSerialized`.
* `AnswerInv`: what clients were told is what is stored under their keys (`OneAnswerAlways`), or the key is in `twice`; even then an answer stays stored, for the body that was told it.
* `RecordInv`: from the creation of its record to its answer, a request *owns* the record. No other request of that session id owns one
  (`OwnerInv`), because creation refuses an id that exists; so at every await the record is in the state the code expects there, the
  copy that `SaveSession` writes is the record as it still is, and the payment and the bond that were verified stay good (`Mine`). One lemma, `SlotStep`, says
  why a step of one request disturbs no other; `OutsideKeeps` does the same for tokens, bonds and closing. It gives
  `AnsweredAlwaysWorks`, `HalfMadeAlwaysByFault`, `AlwaysPaidAndBonded` and `TypesAlwaysRight`. `OneMakerAlways` states the exclusion between makers itself: it
  comes from the creation that refuses an existing id, not from the idempotency claims, which are by key.
* `NameInv` and `StoryInv`, for the event log: a session id that was named is kept, and a run's claim holds the run's own body; the log of an owned
  record is the story of its request so far, a session that does not exist has no log, and one that was answered begins with the whole story.
  The events a sponsored run adds itself cannot fall into the middle of a story, because its session was answered before. This is `StoryAlwaysClean`.

*LiveViewProofs*, for any scenario and number of streams. Whatever was published is stored (`StoredFirst`), and from the catch-up
on, whatever was published is sent, listed or buffered (`NothingMissed`): if it came before the second reading of the log it is in the list, if after
it is in the buffer, because the stream subscribed first. When the buffer is emptied, `NothingIsMissed`.
`SInv` adds to these what the client sees:
* `EventsKnown` and `Written`: what a stream has written, it has written once, because the gateway skips what is in `sent`; and it writes the
  events of the creation in their order, before all others. This gives `SentOnce`.
* `OnScreen`: the screen too has the events of the creation first and in order, since a first connection replays the log from its beginning, a later one
  resumes after what is shown, and a poll has all of the log;
* `Story` and `ClosedAfterReturn`: no session starts later, and none is closed before its refund or penalty is stored.

`FromTheLog`, on top of `SInv`: what a stream lists, buffers or has sent and what a poll brings is in the log, because an event is stored before it is published.
This is `ShownIsStored`: the screen shows nothing that a reload would not.

The view is a fold of the reducer over what is shown. `ViewTells` says what it tells of a set of events whatever their order, and each event that comes in its turn
(`InTurn`) keeps it so (`StepTells`). From it follow `EndIsOnScreen`, `ForwardOnly`, and `ReturnedStays`: a bond shown as returned is not shown as locked again.

*AccessMeterProofs*, for any catalog, budget, proposals and number of concurrent requests. `LesserIsLeast` and `BuildFits` are the clamps; from them
`BudgetAlwaysKept`. `CompiledAlwaysValid`: whatever the intent agent builds is valid (`AgentValid`, from `CallsFit`, `LimitsFit` and `MoneyUnder`), and what the local compiler
builds fails for one of two reasons only (`LocalValid`). The second of them was found by the proof: no catalog of the run had a reservation that cannot be bonded, and now one has
none. `Fit` says what a request carries from one step to the next: a copy that is a session under the same limits, an operation of the policy once that was checked, and a time; nothing
of the state of the session, which settlements lock, unlock and end in between (`MovesInv`, `RequestInv`). `Counted` ties counters and stamps of the session to the set of
admitted requests: `CallLimitsAlwaysHold`.
The transaction drops stamps that are a minute older than *its* time, and times come out of order; `Stamped` says that every missing
stamp is a minute older than some admitted request, hence than the newest: `RateAlwaysHolds`. All these invariants were
model-checked, with the constants of the runs, before they were proved.

Every safety property of a passing run is thereby a theorem. `DealIsKept`, `EvidenceIsWrittenOnce`, `MeterOnlyRises` and `ShowsOnlyStored` were checked with the constants of
`settlement_race`, `settlement_crash`, `settlement_abandoned` and `event_stream` before they were proved, and are stated as theorems only. Only model-checked are the three liveness properties, `FundsNotLocked`, `AbandonedIsSettled` and
`EveryEventShown`: fairness and ENABLED are beyond the provers installed.

## What the repository says and the code does not do

Each is a run that TLC ends with a counterexample, and a finding in `PROJECT.json` with the quoted line.

* `exclusion`: the expire operation locks the session without a lease, so a worker or a close joins
  its settlement. The outcome stays right (`settlement_race`), but not because of the lock.
* `close_race`: close looks at the reservations before it claims the session. A reservation made in
  between is never settled, and its unit never returns to the stock.
* `release_race`: a worker or an expire request that has checked a reservation penalises it even
  if it is released, with success, before the transaction is sent.
* `resume_expiry`: a worker that stops after it finalized the reservation leaves a `SETTLING` session
  that no later run selects.

Other oddities met while modelling. No statement of the repository contradicts them, so no run does:

* If the transaction of `releaseIdempotent` commits and its call still throws, the catch block releases again, and a retry that
  claimed the key in between loses its claim (`app.ts:428`). A third request may then claim the key, and store a second answer under it.
* A claim that takes effect and throws is outside the `try` (`app.ts:420`), and the release of the catch block may throw (`app.ts:509`): either leaves the key in
  progress for good.
* `recoverSettled` takes the newest signature of the account for the settlement's (`bond-adapter.ts:375`). If another was journaled before, every later update of
  the attempt throws (`expiry-processor.ts:96`, `app.ts:680`): a penalised reservation may never be ended (`JournalOutrun` in `AbandonedIsSettled`), and a journal or receipt may
  name a transaction that settled nothing.
* `verifyOpenBond` does not look at the settlement authority, merchant, mint and expiry of the bond (`bond-adapter.ts:90`): a bond that names another authority is
  accepted, and every settlement of it fails. Settlement assumes the bond of the demo's client (`Terms`).
* The local compiler may build a policy that the gateway then refuses: for its number of calls, or because it bonds a reservation
  that the catalog does not offer as a bonded one (`CompiledIsValid`).
* The intents route strips `maxSessionTtlSeconds`, so the sponsored run's 60 s are lost (`app.ts:89-97`, `public-demo-runner.ts:182`).
* Requests counted out of order may overfill an older minute; the newest minute is within the rate (`RateHolds`).
* A token that expires ends the polls and every attempt to reconnect (`usePlayer.ts:168`, `186`): events stored later, above all those of the worker, are never shown. `EveryEventShown`
  promises nothing from then on.
* A release shown before its reservation is dropped by the reducer, which then leaves the reservation held (`reducer.ts:271`).
* An expiry shown after the end of a session turns the screen back until the penalty is shown too (the exception in
  `ScreenGoesForward`); with everything shown it is at its end (`EndIsShown`).
* A receipt may bill other usage than the evidence on the chain records. A close whose settlement fails unlocks the session and leaves its evidence
  journaled; a request is metered; the next close submits the journaled evidence but builds its receipt from its new record
  (`app.ts:772-834`). Both are within what was metered (`BilledWithinMeter`), and that is all that holds.
* Two sessions may be activated over one bond account: `verifyOpenBond` and the activation are separate awaits, and nothing records
  the use of a bond. `PaidAndBonded` does not exclude it; the program pays the bond out once, whoever settles first.

## What is left out

Formatting, schemas, hashing and signatures (a hash is the identity of what it covers, a signed token verifies when it was
issued); the wording and data of events; fake adapters. Then, module by module:

* *Settlement*: sessions without bonded actions, which close without touching the chain; idempotency
  keys (every request has its own). The Solana adapter never answers `PENDING`, so there is no polling;
  SettlementJournal covers it for any adapter of the contract.
* *BondEscrow*: widths of integers. Amounts are `u64` and sums of balances of one mint cannot exceed
  its supply; `expires_at + GRACE_PERIOD_SECONDS` can overflow for an absurd expiry (listed as a hazard).
* *SessionCreation*: no bond is settled in it; instead `VerifyBond` may refuse whatever the account says. One process cache, one crash.
* *PublicDemo*: one day; the cool-down, whose deployed default is 0 (`public-demo-runner.ts:295`); run ids are drawn in order.
* *EventStream*: heartbeats; the client reads a stream only once it is live, or when it breaks (then any prefix); one poll is in flight.
* *LiveView*: amounts, counters and trace, which no stage depends on; playback of fixtures.
* *AccessMeter*: the session starts when its policy is compiled (SessionCreation is what happens in between); what the shop does, and
  whether a settlement succeeds, is chosen freely (Settlement has it); the lease, so that a lock may always be taken over; `maxActive`, which the code does not enforce except through calls. A catalog's expiry penalty is a natural number:
  where it is absent, the intent agent reads 0 and the local compiler its maximum penalty.

Not modelled at all: the external agent (a client like any other, whose requests the models admit in any order), fake adapters and process
entry, logging and redaction, deployment and recording scripts, and the pages of the web client. They keep no state that a
property could be about. Contracts are modelled as far as policies go; the validation of catalogs, events and receipts, and canonical
hashing, are string processing.

## What remains

The plan of the project's start (session creation, metering, event stream, quota, compilers, reducer) is carried out. What could follow, in order:

1. Two sessions over one bond from SessionCreation through Settlement: which settlement wins, and what the other session is told.
2. Sessions without bonded actions and idempotency claims of close, in Settlement.
3. Expiries as `i64` in BondEscrow.
