-------------------------- MODULE BondEscrowProofs --------------------------
(***************************************************************************)
(* Proofs about BondEscrow, for any set of bonds, parties and receipts,    *)
(* any grace period and any amounts: its invariants are inductive, no step *)
(* creates or destroys tokens, and the program implements the promise of   *)
(* BondPromise.                                                            *)
(***************************************************************************)
EXTENDS BondEscrow, InductionLemmas

USE AgentAssumption, ZeroAssumption, BoundAssumption

(* Splitting an escrow that covers the penalty leaves wallets of tokens:   *)
(* the subtraction of settle_violation does not go below zero.             *)
LEMMA SplitEscrowType ==
  ASSUME TypeOK, NEW b \in Bonds, NEW n \in Nat, n <= escrow[b]
  PROVE  SplitEscrow(b, n) \in [Parties -> Nat]
BY DEF TypeOK, SplitEscrow, PayMerchant, Terms

(* Every value the program keeps has its type: no amount goes below zero.  *)
THEOREM TypeCorrect == Spec => []TypeOK
<1>1. Init => TypeOK
  BY DEF Init, TypeOK, Status, Terms, ZeroTerms
<1>2. TypeOK /\ [Next]_vars => TypeOK'
  <2> SUFFICES ASSUME TypeOK, [Next]_vars PROVE TypeOK'
    OBVIOUS
  <2>1. CASE Tick
    BY <2>1 DEF TypeOK, Tick
  <2>2. ASSUME NEW b \in Bonds, NEW t \in Offers, OpenBond(b, t) PROVE TypeOK'
    BY <2>2 DEF TypeOK, OpenBond, Offers, Terms, Status
  <2>3. ASSUME NEW b \in Bonds, NEW s \in Parties, NEW h \in Receipts, CloseValid(b, s, h)
        PROVE  TypeOK'
    <3>1. SplitEscrow(b, 0) \in [Parties -> Nat]
      BY SplitEscrowType DEF TypeOK
    <3> QED
      BY <2>3, <3>1 DEF TypeOK, CloseValid, Status
  <2>4. ASSUME NEW b \in Bonds, NEW s \in Parties, NEW h \in Receipts, NEW n \in 0..Supply,
               SettleViolation(b, s, h, n)
        PROVE  TypeOK'
    <3>1. SplitEscrow(b, n) \in [Parties -> Nat]
      BY <2>4, SplitEscrowType DEF SettleViolation, PenaltyAllowed
    <3> QED
      BY <2>4, <3>1 DEF TypeOK, SettleViolation, Status
  <2>5. ASSUME NEW b \in Bonds, NEW s \in Parties, ReclaimExpired(b, s) PROVE TypeOK'
    <3>1. SplitEscrow(b, 0) \in [Parties -> Nat]
      BY SplitEscrowType DEF TypeOK
    <3> QED
      BY <2>5, <3>1 DEF TypeOK, ReclaimExpired, Status
  <2>6. ASSUME NEW b \in Bonds, NEW p \in Parties, NEW n \in 1..Supply, TokenTransfer(b, p, n)
        PROVE  TypeOK'
    BY <2>6 DEF TypeOK, TokenTransfer
  <2>7. CASE UNCHANGED vars
    BY <2>7 DEF TypeOK, vars
  <2> QED
    BY <2>1, <2>2, <2>3, <2>4, <2>5, <2>6, <2>7 DEF Next
<1> QED
  BY <1>1, <1>2, PTL DEF Spec

(* The two safety invariants support each other: an unopened bond must have *)
(* no receipt hash for open_bond to establish OpenBacked, and an open one   *)
(* no penalty for close_valid to preserve RecordTellsOutcome.               *)
Safe == OpenBacked /\ RecordTellsOutcome

LEMMA SafeInductive == TypeOK /\ Safe /\ [Next]_vars => Safe'
<1> SUFFICES ASSUME TypeOK, Safe, [Next]_vars PROVE Safe'
  OBVIOUS
<1> USE DEF TypeOK, Safe, OpenBacked, RecordTellsOutcome, Status, Terms
<1>1. CASE Tick
  BY <1>1 DEF Tick
<1>2. ASSUME NEW b \in Bonds, NEW t \in Offers, OpenBond(b, t) PROVE Safe'
  BY <1>2 DEF OpenBond, Offers, TermsAccepted
<1>3. ASSUME NEW b \in Bonds, NEW s \in Parties, NEW h \in Receipts, CloseValid(b, s, h)
      PROVE  Safe'
  BY <1>3 DEF CloseValid, Unsettled
<1>4. ASSUME NEW b \in Bonds, NEW s \in Parties, NEW h \in Receipts, NEW n \in 0..Supply,
             SettleViolation(b, s, h, n)
      PROVE  Safe'
  BY <1>4 DEF SettleViolation, Unsettled, PenaltyAllowed
<1>5. ASSUME NEW b \in Bonds, NEW s \in Parties, ReclaimExpired(b, s) PROVE Safe'
  BY <1>5 DEF ReclaimExpired, Unsettled
<1>6. ASSUME NEW b \in Bonds, NEW p \in Parties, NEW n \in 1..Supply, TokenTransfer(b, p, n)
      PROVE  Safe'
  BY <1>6 DEF TokenTransfer
<1>7. CASE UNCHANGED vars
  BY <1>7 DEF vars
<1> QED
  BY <1>1, <1>2, <1>3, <1>4, <1>5, <1>6, <1>7 DEF Next

(* An open bond is backed by its escrow, and the account of a bond tells   *)
(* how it ended, in every reachable state of the program.                  *)
THEOREM SafeAlways == Spec => [](OpenBacked /\ RecordTellsOutcome)
<1>1. Init => Safe
  BY DEF Init, Safe, OpenBacked, RecordTellsOutcome, ZeroTerms
<1>2. Safe => OpenBacked /\ RecordTellsOutcome
  BY DEF Safe
<1> QED
  BY <1>1, <1>2, SafeInductive, TypeCorrect, PTL DEF Spec

(* Its second half alone: the account of a bond tells how it ended.        *)
THEOREM RecordAlwaysTells == Spec => []RecordTellsOutcome
BY SafeAlways, PTL

-----------------------------------------------------------------------------
(* Conservation.  A penalty can only be lost if the merchant recorded for  *)
(* an open bond were no party, so this is an invariant first.              *)
PayeeKnown == \A b \in Bonds : status[b] = "OPEN" => terms[b].merchant \in Parties

LEMMA PayeeInductive == TypeOK /\ PayeeKnown /\ [Next]_vars => PayeeKnown'
<1> SUFFICES ASSUME TypeOK, PayeeKnown, [Next]_vars PROVE PayeeKnown'
  OBVIOUS
<1> USE DEF TypeOK, PayeeKnown, Status
<1>1. CASE Tick
  BY <1>1 DEF Tick
<1>2. ASSUME NEW b \in Bonds, NEW t \in Offers, OpenBond(b, t) PROVE PayeeKnown'
  BY <1>2 DEF OpenBond, Offers
<1>3. ASSUME NEW b \in Bonds, NEW s \in Parties, NEW h \in Receipts, CloseValid(b, s, h)
      PROVE  PayeeKnown'
  BY <1>3 DEF CloseValid
<1>4. ASSUME NEW b \in Bonds, NEW s \in Parties, NEW h \in Receipts, NEW n \in 0..Supply,
             SettleViolation(b, s, h, n)
      PROVE  PayeeKnown'
  BY <1>4 DEF SettleViolation
<1>5. ASSUME NEW b \in Bonds, NEW s \in Parties, ReclaimExpired(b, s) PROVE PayeeKnown'
  BY <1>5 DEF ReclaimExpired
<1>6. ASSUME NEW b \in Bonds, NEW p \in Parties, NEW n \in 1..Supply, TokenTransfer(b, p, n)
      PROVE  PayeeKnown'
  BY <1>6 DEF TokenTransfer
<1>7. CASE UNCHANGED vars
  BY <1>7 DEF vars
<1> QED
  BY <1>1, <1>2, <1>3, <1>4, <1>5, <1>6, <1>7 DEF Next

(* Writing one account of a set of accounts changes their sum by as much.  *)
LEMMA OneAccount ==
  ASSUME NEW S, IsFiniteSet(S), NEW f, NEW h, NEW a, Changes(f, h, S, a)
  PROVE  /\ SumOf(h, S) + f[a] = SumOf(f, S) + h[a]
         /\ SumOf(h, S) \in Nat /\ SumOf(f, S) \in Nat
<1>1. SumOf(h, S) + f[a] = SumOf(f, S) + h[a]
  BY SumChange
<1>2. f \in [S -> Nat] /\ h \in [S -> Nat]
  BY DEF Changes
<1>3. SumOf(h, S) \in Nat /\ SumOf(f, S) \in Nat
  BY <1>2, SumBounds
<1> QED
  BY <1>1, <1>3

(* The tokens are the sums of the escrows and the wallets.                 *)
LEMMA TokensAre ==
  ASSUME NEW e, e \in [Bonds -> Nat], NEW w, w \in [Parties -> Nat]
  PROVE  /\ InAll(e) = SumOf(e, Bonds) /\ SumOf(e, Bonds) \in Nat
         /\ InAll(w) = SumOf(w, Parties) /\ SumOf(w, Parties) \in Nat
<1>1. DOMAIN e = Bonds /\ DOMAIN w = Parties
  OBVIOUS
<1>2. SumOf(e, Bonds) \in Nat /\ SumOf(w, Parties) \in Nat
  BY SumBounds, FiniteAssumption
<1>3. InAll(e) = SumOf(e, DOMAIN e) /\ InAll(w) = SumOf(w, DOMAIN w)
  BY Zenon DEF InAll, SumOf
<1> QED
  BY <1>1, <1>2, <1>3

(* Splitting an escrow adds all of it to the wallets.                      *)
LEMMA SplitAddsEscrow ==
  ASSUME TypeOK, PayeeKnown, NEW b \in Bonds, NEW n \in Nat, n <= escrow[b], Unsettled(b)
  PROVE  SumOf(SplitEscrow(b, n), Parties) = SumOf(wallet, Parties) + escrow[b]
<1> DEFINE m == terms[b].merchant
           a == Agent[b]
           w == PayMerchant(b, n)
           v == SplitEscrow(b, n)
<1>1. /\ wallet \in [Parties -> Nat] /\ escrow[b] \in Nat /\ a \in Parties /\ m \in Parties
      /\ w = IF n = 0 THEN wallet ELSE [wallet EXCEPT ![m] = wallet[m] + n]
      /\ v = [w EXCEPT ![a] = w[a] + (escrow[b] - n)]
  BY DEF TypeOK, PayeeKnown, Unsettled, SplitEscrow, PayMerchant
<1> HIDE DEF m, a, w, v
<1>2. w \in [Parties -> Nat] /\ SumOf(w, Parties) = SumOf(wallet, Parties) + n
  <2>1. CASE n = 0
    BY <1>1, <2>1, SumBounds, FiniteAssumption
  <2>2. CASE n # 0
    <3>1. /\ Changes(wallet, w, Parties, m) /\ w[m] = wallet[m] + n /\ wallet[m] \in Nat
          /\ w \in [Parties -> Nat]
      BY <1>1, <2>2 DEF Changes
    <3>2. /\ SumOf(w, Parties) + wallet[m] = SumOf(wallet, Parties) + w[m]
          /\ SumOf(w, Parties) \in Nat /\ SumOf(wallet, Parties) \in Nat
      BY <3>1, OneAccount, FiniteAssumption
    <3> QED
      BY <3>1, <3>2
  <2> QED
    BY <2>1, <2>2
<1>3. Changes(w, v, Parties, a) /\ v[a] = w[a] + (escrow[b] - n) /\ w[a] \in Nat
  BY <1>1, <1>2 DEF Changes
<1>4. /\ SumOf(v, Parties) + w[a] = SumOf(w, Parties) + v[a]
      /\ SumOf(v, Parties) \in Nat /\ SumOf(w, Parties) \in Nat
  BY <1>3, OneAccount, FiniteAssumption
<1>5. SumOf(wallet, Parties) \in Nat
  BY <1>1, SumBounds, FiniteAssumption
<1>6. SumOf(v, Parties) = SumOf(wallet, Parties) + escrow[b]
  BY <1>1, <1>2, <1>3, <1>4, <1>5
<1> QED
  BY <1>6 DEF v

(* Emptying an escrow into the wallets keeps the tokens.                   *)
LEMMA SplitKeepsTokens ==
  ASSUME TypeOK, TypeOK', PayeeKnown, NEW b \in Bonds, NEW n, n \in Nat, n <= escrow[b],
         Unsettled(b), wallet' = SplitEscrow(b, n), escrow' = [escrow EXCEPT ![b] = 0]
  PROVE  Tokens' = Tokens
<1>1. SumOf(wallet', Parties) = SumOf(wallet, Parties) + escrow[b]
  BY SplitAddsEscrow
<1>2. /\ escrow \in [Bonds -> Nat] /\ wallet \in [Parties -> Nat]
      /\ escrow' \in [Bonds -> Nat] /\ wallet' \in [Parties -> Nat]
  BY DEF TypeOK
<1>3. /\ SumOf(escrow', Bonds) + escrow[b] = SumOf(escrow, Bonds) + 0
      /\ SumOf(escrow', Bonds) \in Nat /\ SumOf(escrow, Bonds) \in Nat
  <2> DEFINE e == escrow'
  <2>1. Changes(escrow, e, Bonds, b) /\ e[b] = 0
    BY <1>2 DEF Changes
  <2> HIDE DEF e
  <2>2. /\ SumOf(e, Bonds) + escrow[b] = SumOf(escrow, Bonds) + e[b]
        /\ SumOf(e, Bonds) \in Nat /\ SumOf(escrow, Bonds) \in Nat
    BY <2>1, OneAccount, FiniteAssumption
  <2>3. /\ SumOf(e, Bonds) + escrow[b] = SumOf(escrow, Bonds) + 0
        /\ SumOf(e, Bonds) \in Nat /\ SumOf(escrow, Bonds) \in Nat
    BY <2>1, <2>2
  <2> QED
    BY <2>3 DEF e
<1>4. /\ InAll(escrow) = SumOf(escrow, Bonds) /\ SumOf(escrow, Bonds) \in Nat
      /\ InAll(wallet) = SumOf(wallet, Parties) /\ SumOf(wallet, Parties) \in Nat
  BY <1>2, TokensAre
<1>5. /\ InAll(escrow') = SumOf(escrow', Bonds) /\ SumOf(escrow', Bonds) \in Nat
      /\ InAll(wallet') = SumOf(wallet', Parties) /\ SumOf(wallet', Parties) \in Nat
  BY <1>2, TokensAre
<1> QED
  BY <1>1, <1>2, <1>3, <1>4, <1>5 DEF Tokens

(* Moving n tokens between a wallet and an escrow keeps the tokens.        *)
LEMMA MoveKeepsTokens ==
  ASSUME TypeOK, TypeOK', NEW b \in Bonds, NEW p, p \in Parties, NEW n, n \in Nat,
         n <= wallet[p], wallet' = [wallet EXCEPT ![p] = wallet[p] - n],
         escrow' = [escrow EXCEPT ![b] = escrow[b] + n]
  PROVE  Tokens' = Tokens
<1>1. /\ escrow \in [Bonds -> Nat] /\ wallet \in [Parties -> Nat]
      /\ escrow' \in [Bonds -> Nat] /\ wallet' \in [Parties -> Nat]
      /\ wallet[p] - n \in Nat /\ escrow[b] + n \in Nat
  BY DEF TypeOK
<1> DEFINE e == escrow'
           w == wallet'
<1>2. /\ Changes(wallet, w, Parties, p) /\ w[p] = wallet[p] - n
      /\ Changes(escrow, e, Bonds, b) /\ e[b] = escrow[b] + n
      /\ wallet[p] \in Nat /\ escrow[b] \in Nat
  BY <1>1 DEF Changes
<1>4. /\ InAll(escrow) = SumOf(escrow, Bonds) /\ SumOf(escrow, Bonds) \in Nat
      /\ InAll(wallet) = SumOf(wallet, Parties) /\ SumOf(wallet, Parties) \in Nat
  BY <1>1, TokensAre
<1>5. /\ InAll(e) = SumOf(e, Bonds) /\ SumOf(e, Bonds) \in Nat
      /\ InAll(w) = SumOf(w, Parties) /\ SumOf(w, Parties) \in Nat
  BY <1>1, TokensAre
<1>7. Tokens' = InAll(e) + InAll(w)
  BY DEF Tokens
<1> HIDE DEF e, w
<1>3. /\ SumOf(w, Parties) + wallet[p] = SumOf(wallet, Parties) + w[p]
      /\ SumOf(w, Parties) \in Nat /\ SumOf(wallet, Parties) \in Nat
  BY <1>2, OneAccount, FiniteAssumption
<1>6. /\ SumOf(e, Bonds) + escrow[b] = SumOf(escrow, Bonds) + e[b]
      /\ SumOf(e, Bonds) \in Nat /\ SumOf(escrow, Bonds) \in Nat
  BY <1>2, OneAccount, FiniteAssumption
<1> QED
  BY <1>2, <1>3, <1>4, <1>5, <1>6, <1>7 DEF Tokens

(* A bond that was not opened yet holds nothing.                           *)
UnopenedEmpty == \A b \in Bonds : status[b] = "NONE" => escrow[b] = 0

LEMMA UnopenedInductive == TypeOK /\ UnopenedEmpty /\ [Next]_vars => UnopenedEmpty'
<1> SUFFICES ASSUME TypeOK, UnopenedEmpty, [Next]_vars PROVE UnopenedEmpty'
  OBVIOUS
<1> USE DEF TypeOK, UnopenedEmpty, Status
<1>1. CASE Tick
  BY <1>1 DEF Tick
<1>2. ASSUME NEW b \in Bonds, NEW t \in Offers, OpenBond(b, t) PROVE UnopenedEmpty'
  BY <1>2 DEF OpenBond
<1>3. ASSUME NEW b \in Bonds, NEW s \in Parties, NEW h \in Receipts, CloseValid(b, s, h)
      PROVE  UnopenedEmpty'
  BY <1>3 DEF CloseValid
<1>4. ASSUME NEW b \in Bonds, NEW s \in Parties, NEW h \in Receipts, NEW n \in 0..Supply,
             SettleViolation(b, s, h, n)
      PROVE  UnopenedEmpty'
  BY <1>4 DEF SettleViolation
<1>5. ASSUME NEW b \in Bonds, NEW s \in Parties, ReclaimExpired(b, s) PROVE UnopenedEmpty'
  BY <1>5 DEF ReclaimExpired
<1>6. ASSUME NEW b \in Bonds, NEW p \in Parties, NEW n \in 1..Supply, TokenTransfer(b, p, n)
      PROVE  UnopenedEmpty'
  BY <1>6 DEF TokenTransfer
<1>7. CASE UNCHANGED vars
  BY <1>7 DEF vars
<1> QED
  BY <1>1, <1>2, <1>3, <1>4, <1>5, <1>6, <1>7 DEF Next

(* No instruction creates or destroys tokens, for any number of bonds and  *)
(* parties, any amounts and any merchant, the agent itself included.       *)
THEOREM TokensAreConserved == Spec => TokensConserved
<1>1. Init => PayeeKnown /\ UnopenedEmpty
  BY DEF Init, PayeeKnown, UnopenedEmpty
<1>2. TypeOK /\ TypeOK' /\ PayeeKnown /\ UnopenedEmpty /\ [Next]_vars => [Tokens' = Tokens]_vars
  <2> SUFFICES ASSUME TypeOK, TypeOK', PayeeKnown, UnopenedEmpty, Next PROVE Tokens' = Tokens
    OBVIOUS
  <2>1. CASE Tick
    BY <2>1 DEF Tick, Tokens
  <2>2. ASSUME NEW b \in Bonds, NEW t \in Offers, OpenBond(b, t) PROVE Tokens' = Tokens
    <3>1. escrow[b] = 0 /\ escrow[b] + t.bondAmount = t.bondAmount
      BY <2>2 DEF OpenBond, Offers, UnopenedEmpty
    <3>2. /\ Agent[b] \in Parties /\ t.bondAmount \in Nat /\ t.bondAmount <= wallet[Agent[b]]
          /\ wallet' = [wallet EXCEPT ![Agent[b]] = wallet[Agent[b]] - t.bondAmount]
          /\ escrow' = [escrow EXCEPT ![b] = t.bondAmount]
      BY <2>2 DEF OpenBond, Offers
    <3> QED
      BY <3>1, <3>2, MoveKeepsTokens
  <2>3. ASSUME NEW b \in Bonds, NEW s \in Parties, NEW h \in Receipts, CloseValid(b, s, h)
        PROVE  Tokens' = Tokens
    <3>1. /\ 0 \in Nat /\ 0 <= escrow[b] /\ Unsettled(b)
          /\ wallet' = SplitEscrow(b, 0) /\ escrow' = [escrow EXCEPT ![b] = 0]
      BY <2>3 DEF CloseValid, TypeOK
    <3> QED
      BY <3>1, SplitKeepsTokens
  <2>4. ASSUME NEW b \in Bonds, NEW s \in Parties, NEW h \in Receipts, NEW n \in 0..Supply,
               SettleViolation(b, s, h, n)
        PROVE  Tokens' = Tokens
    <3>1. /\ n \in Nat /\ n <= escrow[b] /\ Unsettled(b)
          /\ wallet' = SplitEscrow(b, n) /\ escrow' = [escrow EXCEPT ![b] = 0]
      BY <2>4 DEF SettleViolation, PenaltyAllowed
    <3> QED
      BY <3>1, SplitKeepsTokens
  <2>5. ASSUME NEW b \in Bonds, NEW s \in Parties, ReclaimExpired(b, s)
        PROVE  Tokens' = Tokens
    <3>1. /\ 0 \in Nat /\ 0 <= escrow[b] /\ Unsettled(b)
          /\ wallet' = SplitEscrow(b, 0) /\ escrow' = [escrow EXCEPT ![b] = 0]
      BY <2>5 DEF ReclaimExpired, TypeOK
    <3> QED
      BY <3>1, SplitKeepsTokens
  <2>6. ASSUME NEW b \in Bonds, NEW p \in Parties, NEW n \in 1..Supply, TokenTransfer(b, p, n)
        PROVE  Tokens' = Tokens
    <3>1. /\ n \in Nat /\ n <= wallet[p]
          /\ wallet' = [wallet EXCEPT ![p] = wallet[p] - n]
          /\ escrow' = [escrow EXCEPT ![b] = escrow[b] + n]
      BY <2>6 DEF TokenTransfer
    <3> QED
      BY <3>1, MoveKeepsTokens
  <2> QED
    BY <2>1, <2>2, <2>3, <2>4, <2>5, <2>6 DEF Next
<1> QED
  BY <1>1, <1>2, PayeeInductive, UnopenedInductive, TypeCorrect, PTL DEF Spec, TokensConserved

-----------------------------------------------------------------------------
(* Refinement: each instruction is one action of BondPromise.              *)

LEMMA PhaseChanges ==
  ASSUME TypeOK, NEW b \in Bonds, NEW st \in Status \ {"NONE"},
         status' = [status EXCEPT ![b] = st]
  PROVE  Phase' = [Phase EXCEPT ![b] = IF st = "OPEN" THEN "held" ELSE "paid"]
BY DEF TypeOK, Phase, Status

LEMMA DepositStep ==
  ASSUME TypeOK, NEW b \in Bonds, NEW t \in Offers, OpenBond(b, t)
  PROVE  Promise!Deposit(b, t.merchant, t.bondAmount, t.maxPenalty)
<1>1. Phase' = [Phase EXCEPT ![b] = "held"]
  BY PhaseChanges DEF OpenBond, Status
<1>2. Phase[b] = "none"
  BY DEF OpenBond, Phase
<1>3. [c \in Bonds |-> terms[c].merchant]'
        = [[c \in Bonds |-> terms[c].merchant] EXCEPT ![b] = t.merchant]
  BY DEF OpenBond, TypeOK
<1>4. [c \in Bonds |-> terms[c].maxPenalty]'
        = [[c \in Bonds |-> terms[c].maxPenalty] EXCEPT ![b] = t.maxPenalty]
  BY DEF OpenBond, TypeOK
<1> QED
  BY <1>1, <1>2, <1>3, <1>4 DEF OpenBond, TermsAccepted, Offers, Promise!Deposit

LEMMA PayoutStep ==
  ASSUME TypeOK, OpenBacked, NEW b \in Bonds, NEW n \in Nat,
         n <= terms[b].maxPenalty, n <= escrow[b], Unsettled(b),
         NEW st \in {"CLOSED", "VIOLATED", "RECLAIMED"},
         status' = [status EXCEPT ![b] = st],
         escrow' = [escrow EXCEPT ![b] = 0],
         wallet' = SplitEscrow(b, n),
         UNCHANGED terms
  PROVE  Promise!Payout(b, n)
<1>1. Phase' = [Phase EXCEPT ![b] = "paid"]
  BY PhaseChanges DEF Status
<1>2. Phase[b] = "held"
  BY DEF Unsettled, Phase
<1>3. [c \in Bonds |-> terms[c].merchant][b] = terms[b].merchant
  OBVIOUS
<1>4. [c \in Bonds |-> terms[c].maxPenalty][b] = terms[b].maxPenalty
  OBVIOUS
<1>5. wallet' = [(IF n = 0 THEN wallet
                  ELSE [wallet EXCEPT ![[c \in Bonds |-> terms[c].merchant][b]] = @ + n])
                    EXCEPT ![Agent[b]] = @ + (escrow[b] - n)]
  BY <1>3, Zenon DEF SplitEscrow, PayMerchant
<1>6. UNCHANGED <<[c \in Bonds |-> terms[c].merchant], [c \in Bonds |-> terms[c].maxPenalty]>>
  OBVIOUS
<1> QED
  BY <1>1, <1>2, <1>4, <1>5, <1>6, Zenon DEF Promise!Payout

(* The program implements the promise: tokens under a bond are paid out in *)
(* one go, at most the agreed penalty of them to the recorded merchant.    *)
THEOREM PromiseKept == Spec => KeepsPromise
<1>1. Init => Promise!Init
  BY DEF Init, Promise!Init, Phase, ZeroTerms
<1>2. TypeOK /\ OpenBacked /\ [Next]_vars => [Promise!Next]_Promise!vars
  <2> SUFFICES ASSUME TypeOK, OpenBacked, [Next]_vars PROVE [Promise!Next]_Promise!vars
    OBVIOUS
  <2>1. CASE Tick
    BY <2>1 DEF Tick, Promise!vars, Phase
  <2>2. ASSUME NEW b \in Bonds, NEW t \in Offers, OpenBond(b, t) PROVE Promise!Next
    BY <2>2, DepositStep DEF Promise!Next, Offers
  <2>3. ASSUME NEW b \in Bonds, NEW s \in Parties, NEW h \in Receipts, CloseValid(b, s, h)
        PROVE  Promise!Next
    <3>1. Promise!Payout(b, 0)
      <4>1. /\ 0 \in Nat /\ 0 <= terms[b].maxPenalty /\ 0 <= escrow[b]
            /\ Unsettled(b)
        BY <2>3 DEF CloseValid, TypeOK, Terms
      <4>2. /\ "CLOSED" \in {"CLOSED", "VIOLATED", "RECLAIMED"}
            /\ status' = [status EXCEPT ![b] = "CLOSED"]
            /\ escrow' = [escrow EXCEPT ![b] = 0]
            /\ wallet' = SplitEscrow(b, 0)
            /\ UNCHANGED terms
        BY <2>3 DEF CloseValid
      <4> QED
        BY <4>1, <4>2, PayoutStep, Zenon
    <3> QED
      BY <3>1 DEF Promise!Next
  <2>4. ASSUME NEW b \in Bonds, NEW s \in Parties, NEW h \in Receipts, NEW n \in 0..Supply,
               SettleViolation(b, s, h, n)
        PROVE  Promise!Next
    <3>1. Promise!Payout(b, n)
      <4>1. /\ n \in Nat /\ n <= terms[b].maxPenalty /\ n <= escrow[b]
            /\ Unsettled(b)
        BY <2>4 DEF SettleViolation, PenaltyAllowed
      <4>2. /\ "VIOLATED" \in {"CLOSED", "VIOLATED", "RECLAIMED"}
            /\ status' = [status EXCEPT ![b] = "VIOLATED"]
            /\ escrow' = [escrow EXCEPT ![b] = 0]
            /\ wallet' = SplitEscrow(b, n)
            /\ UNCHANGED terms
        BY <2>4 DEF SettleViolation
      <4> QED
        BY <4>1, <4>2, PayoutStep, Zenon
    <3> QED
      BY <3>1 DEF Promise!Next
  <2>5. ASSUME NEW b \in Bonds, NEW s \in Parties, ReclaimExpired(b, s) PROVE Promise!Next
    <3>1. Promise!Payout(b, 0)
      <4>1. /\ 0 \in Nat /\ 0 <= terms[b].maxPenalty /\ 0 <= escrow[b]
            /\ Unsettled(b)
        BY <2>5 DEF ReclaimExpired, TypeOK, Terms
      <4>2. /\ "RECLAIMED" \in {"CLOSED", "VIOLATED", "RECLAIMED"}
            /\ status' = [status EXCEPT ![b] = "RECLAIMED"]
            /\ escrow' = [escrow EXCEPT ![b] = 0]
            /\ wallet' = SplitEscrow(b, 0)
            /\ UNCHANGED terms
        BY <2>5 DEF ReclaimExpired
      <4> QED
        BY <4>1, <4>2, PayoutStep, Zenon
    <3> QED
      BY <3>1 DEF Promise!Next
  <2>6. ASSUME NEW b \in Bonds, NEW p \in Parties, NEW n \in 1..Supply, TokenTransfer(b, p, n)
        PROVE  Promise!Next
    <3>1. Promise!TopUp(b, p, n)
      BY <2>6 DEF TokenTransfer, Promise!TopUp, Phase
    <3> QED
      BY <3>1 DEF Promise!Next
  <2>7. CASE UNCHANGED vars
    BY <2>7 DEF vars, Promise!vars, Phase
  <2> QED
    BY <2>1, <2>2, <2>3, <2>4, <2>5, <2>6, <2>7 DEF Next
<1> QED
  BY <1>1, <1>2, TypeCorrect, SafeAlways, PTL DEF Spec, KeepsPromise, Promise!Spec
=============================================================================
