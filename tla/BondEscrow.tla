----------------------------- MODULE BondEscrow -----------------------------
(***************************************************************************)
(* The Anchor program programs/botbond/src/lib.rs: one action per          *)
(* instruction, over all bond accounts (PDAs) of one mint.                 *)
(*                                                                         *)
(* A transaction is atomic on Solana, so an instruction is one action. The *)
(* token program is external: a wallet is the balance of a party's token   *)
(* accounts, an escrow that of a bond's associated token account. Which of *)
(* its token accounts a party uses is left out. A bond's address is        *)
(* derived from the agent's key, the policy hash and a nonce, so Agent is  *)
(* a constant function; the other two seeds are what makes b one of Bonds. *)
(***************************************************************************)
EXTENDS Integers, FiniteSetsExt

CONSTANTS
  Bonds,        \* addresses of bond accounts
  Parties,      \* keys that own token accounts or sign
  Agent,        \* Agent[b]: the key that is a seed of b's address
  ZeroKey,      \* a key of a zero-filled account
  Receipts,     \* 32-byte receipt hashes a settlement may carry
  ZeroHash,     \* the receipt hash of a bond not settled by its authority
  GracePeriod,  \* GRACE_PERIOD_SECONDS
  Supply,       \* no party owns more tokens than this (bound on the amounts)
  MaxExpiry,    \* no agent asks for a later expires_at (bound)
  MaxTime       \* bound on the clock

ASSUME AgentAssumption == Agent \in [Bonds -> Parties]
ASSUME FiniteAssumption == IsFiniteSet(Bonds) /\ IsFiniteSet(Parties)
ASSUME ZeroAssumption == ZeroKey \notin Parties /\ ZeroHash \notin Receipts
ASSUME BoundAssumption ==
  GracePeriod \in Nat /\ Supply \in Nat /\ MaxExpiry \in Nat /\ MaxTime \in Nat

VARIABLES
  status,          \* status[b]: "NONE" until open_bond initialises the account
  terms,           \* terms[b]: what open_bond records
  receiptHash,     \* receiptHash[b]
  settledPenalty,  \* settledPenalty[b]
  escrow,          \* escrow[b]: balance of b's escrow token account
  wallet,          \* wallet[p]: tokens of p outside of the escrows
  now              \* Clock::unix_timestamp

vars == <<status, terms, receiptHash, settledPenalty, escrow, wallet, now>>

Status == {"NONE", "OPEN", "CLOSED", "VIOLATED", "RECLAIMED"}

Terms == [merchant : Parties \cup {ZeroKey}, authority : Parties \cup {ZeroKey},
          bondAmount : Nat, maxPenalty : Nat, expiresAt : Nat]

ZeroTerms == [merchant |-> ZeroKey, authority |-> ZeroKey,
              bondAmount |-> 0, maxPenalty |-> 0, expiresAt |-> 0]

TypeOK ==
  /\ status \in [Bonds -> Status]
  /\ terms \in [Bonds -> Terms]
  /\ receiptHash \in [Bonds -> Receipts \cup {ZeroHash}]
  /\ settledPenalty \in [Bonds -> Nat]
  /\ escrow \in [Bonds -> Nat]
  /\ wallet \in [Parties -> Nat]
  /\ now \in Nat

Init ==
  /\ status = [b \in Bonds |-> "NONE"]
  /\ terms = [b \in Bonds |-> ZeroTerms]
  /\ receiptHash = [b \in Bonds |-> ZeroHash]
  /\ settledPenalty = [b \in Bonds |-> 0]
  /\ escrow = [b \in Bonds |-> 0]
  /\ wallet \in [Parties -> 0..Supply]
  /\ now = 0

-----------------------------------------------------------------------------
(* Guards of the instructions, and the slips the properties must notice.   *)

\* slip: the penalty ceiling is not compared with the deposit
TermsUnbounded(t) == t.bondAmount > 0 /\ t.expiresAt > now

TermsAccepted(t) ==
  t.bondAmount > 0 /\ t.maxPenalty <= t.bondAmount /\ t.expiresAt > now

\* slip: the status is not looked at before the escrow is emptied again
NotNone(b) == status[b] # "NONE"

Unsettled(b) == status[b] = "OPEN"

\* slip: settle_violation takes any penalty
PenaltyUnchecked(b, penalty) == TRUE

\* slip: settle_violation checks the penalty against the escrow alone
PenaltyPayable(b, penalty) == penalty <= escrow[b]

\* penalty <= max_penalty, and checked_sub of the escrow amount
PenaltyAllowed(b, penalty) ==
  penalty <= terms[b].maxPenalty /\ penalty <= escrow[b]

\* slip: reclaim waits for a time the bounded clock never shows
GraceNever(b) == now > MaxTime + terms[b].expiresAt

GraceElapsed(b) == now > terms[b].expiresAt + GracePeriod

\* A transfer of zero is skipped, so it needs no account of the merchant.
PayMerchant(b, penalty) ==
  IF penalty = 0 THEN wallet ELSE [wallet EXCEPT ![terms[b].merchant] = @ + penalty]

\* slip: the penalty moved to the merchant is not deducted from the refund
RefundAll(b, penalty) == [PayMerchant(b, penalty) EXCEPT ![Agent[b]] = @ + escrow[b]]

\* The wallets after the escrow of b is split: the agent may be its own merchant.
SplitEscrow(b, penalty) ==
  [PayMerchant(b, penalty) EXCEPT ![Agent[b]] = @ + (escrow[b] - penalty)]

-----------------------------------------------------------------------------
(* Instructions.                                                           *)

\* open_bond. "init" of the PDA fails if the account exists, whatever its
\* status, so an address is used once.
OpenBond(b, t) ==
  /\ status[b] = "NONE"
  /\ TermsAccepted(t)
  /\ t.bondAmount <= wallet[Agent[b]]
  /\ status' = [status EXCEPT ![b] = "OPEN"]
  /\ terms' = [terms EXCEPT ![b] = t]
  /\ escrow' = [escrow EXCEPT ![b] = t.bondAmount]
  /\ wallet' = [wallet EXCEPT ![Agent[b]] = @ - t.bondAmount]
  /\ UNCHANGED <<receiptHash, settledPenalty, now>>

\* close_valid, signed by the recorded settlement authority.
CloseValid(b, signer, hash) ==
  /\ Unsettled(b)
  /\ signer = terms[b].authority
  /\ wallet' = SplitEscrow(b, 0)
  /\ escrow' = [escrow EXCEPT ![b] = 0]
  /\ receiptHash' = [receiptHash EXCEPT ![b] = hash]
  /\ status' = [status EXCEPT ![b] = "CLOSED"]
  /\ UNCHANGED <<terms, settledPenalty, now>>

\* settle_violation, signed by the recorded settlement authority.
SettleViolation(b, signer, hash, penalty) ==
  /\ Unsettled(b)
  /\ signer = terms[b].authority
  /\ PenaltyAllowed(b, penalty)
  /\ wallet' = SplitEscrow(b, penalty)
  /\ escrow' = [escrow EXCEPT ![b] = 0]
  /\ receiptHash' = [receiptHash EXCEPT ![b] = hash]
  /\ settledPenalty' = [settledPenalty EXCEPT ![b] = penalty]
  /\ status' = [status EXCEPT ![b] = "VIOLATED"]
  /\ UNCHANGED <<terms, now>>

\* reclaim_expired, signed by the agent.
ReclaimExpired(b, signer) ==
  /\ Unsettled(b)
  /\ signer = Agent[b]
  /\ GraceElapsed(b)
  /\ wallet' = SplitEscrow(b, 0)
  /\ escrow' = [escrow EXCEPT ![b] = 0]
  /\ status' = [status EXCEPT ![b] = "RECLAIMED"]
  /\ UNCHANGED <<terms, receiptHash, settledPenalty, now>>

\* The token program lets any owner send tokens to the escrow account, before
\* or after the settlement: the program never closes that account.
TokenTransfer(b, p, n) ==
  /\ status[b] # "NONE"
  /\ n <= wallet[p]
  /\ wallet' = [wallet EXCEPT ![p] = @ - n]
  /\ escrow' = [escrow EXCEPT ![b] = @ + n]
  /\ UNCHANGED <<status, terms, receiptHash, settledPenalty, now>>

Tick ==
  /\ now < MaxTime
  /\ now' = now + 1
  /\ UNCHANGED <<status, terms, receiptHash, settledPenalty, escrow, wallet>>

\* What an agent may ask open_bond to record, with amounts up to Supply.
Offers == [merchant : Parties, authority : Parties,
           bondAmount : 1..Supply, maxPenalty : 0..Supply, expiresAt : 0..MaxExpiry]

Next ==
  \/ Tick
  \/ \E b \in Bonds :
       \/ \E t \in Offers : OpenBond(b, t)
       \/ \E s \in Parties, h \in Receipts : CloseValid(b, s, h)
       \/ \E s \in Parties, h \in Receipts, n \in 0..Supply : SettleViolation(b, s, h, n)
       \/ \E s \in Parties : ReclaimExpired(b, s)
       \/ \E p \in Parties, n \in 1..Supply : TokenTransfer(b, p, n)

Spec == Init /\ [][Next]_vars

\* The agent keeps trying to reclaim, and time passes. Nothing is assumed of
\* the settlement authority.
FairSpec ==
  /\ Spec
  /\ WF_vars(Tick)
  /\ \A b \in Bonds : WF_vars(ReclaimExpired(b, Agent[b]))

-----------------------------------------------------------------------------
(* Properties.                                                             *)

\* While a bond is open its escrow covers the deposit, the deposit covers the
\* penalty ceiling, and no instruction has recorded an outcome yet. So the
\* checked subtraction of settle_violation cannot fail for an allowed penalty.
OpenBacked ==
  \A b \in Bonds : status[b] = "OPEN" =>
    /\ terms[b].maxPenalty <= terms[b].bondAmount
    /\ terms[b].bondAmount <= escrow[b]
    /\ receiptHash[b] = ZeroHash
    /\ settledPenalty[b] = 0

\* The account tells how the bond ended: a receipt hash if and only if the
\* authority settled it, and a penalty within the signed ceiling only after a
\* violation.
RecordTellsOutcome ==
  \A b \in Bonds :
    /\ receiptHash[b] # ZeroHash <=> status[b] \in {"CLOSED", "VIOLATED"}
    /\ settledPenalty[b] <= terms[b].maxPenalty
    /\ settledPenalty[b] > 0 => status[b] = "VIOLATED"

InAll(accounts) == MapThenSumSet(LAMBDA x : accounts[x], DOMAIN accounts)
Tokens == InAll(escrow) + InAll(wallet)

\* No instruction creates or destroys tokens: whatever leaves a wallet or an
\* escrow account arrives in another one (contract test 7, bond conservation).
TokensConserved == [][Tokens' = Tokens]_vars

Phase ==
  [b \in Bonds |-> CASE status[b] = "NONE" -> "none"
                     [] status[b] = "OPEN" -> "held"
                     [] OTHER -> "paid"]

Promise ==
  INSTANCE BondPromise WITH
    phase <- Phase,
    payee <- [b \in Bonds |-> terms[b].merchant],
    cap <- [b \in Bonds |-> terms[b].maxPenalty],
    Amounts <- 0..Supply

\* The program keeps its promise: every instruction is a deposit, a top-up, the
\* one payout of a bond, or invisible to the parties.
KeepsPromise == Promise!Spec

\* reclaim_expired, "funds are not locked if the settlement authority
\* disappears": under FairSpec an open bond is eventually paid out.
FundsNotLocked ==
  \A b \in Bonds : (status[b] = "OPEN") ~> (status[b] # "OPEN")
=============================================================================
