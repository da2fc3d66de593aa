---------------------------- MODULE BondPromise ----------------------------
(***************************************************************************)
(* What the escrow program promises the two parties of a bond, with the    *)
(* instructions, signers, receipts and the clock left out (decision D-004  *)
(* of docs/00-decision-log.md): tokens deposited under a bond are paid out *)
(* in one go, at most the agreed penalty goes to the merchant recorded     *)
(* when the bond was opened, and everything else returns to the agent.     *)
(***************************************************************************)
EXTENDS Integers

CONSTANTS
  Bonds,      \* bond accounts
  Parties,    \* owners of token accounts
  Agent,      \* Agent[b]: the party whose key is a seed of b's address
  ZeroKey,    \* the merchant of a bond nobody opened
  Amounts     \* the amounts of tokens a transaction may move

VARIABLES
  phase,      \* phase[b]: "none", "held" or "paid"
  payee,      \* payee[b]: who may receive the penalty
  cap,        \* cap[b]: most that payee may receive
  escrow,     \* escrow[b]: tokens in b's escrow account
  wallet      \* wallet[p]: tokens p owns outside of the escrows

vars == <<phase, payee, cap, escrow, wallet>>

Init ==
  /\ phase = [b \in Bonds |-> "none"]
  /\ payee = [b \in Bonds |-> ZeroKey]
  /\ cap = [b \in Bonds |-> 0]
  /\ escrow = [b \in Bonds |-> 0]
  /\ wallet \in [Parties -> Amounts]

\* The agent deposits n tokens and fixes, for good, who is paid at most c.
Deposit(b, m, n, c) ==
  /\ phase[b] = "none"
  /\ 0 < n /\ c <= n /\ n <= wallet[Agent[b]]
  /\ phase' = [phase EXCEPT ![b] = "held"]
  /\ payee' = [payee EXCEPT ![b] = m]
  /\ cap' = [cap EXCEPT ![b] = c]
  /\ escrow' = [escrow EXCEPT ![b] = n]
  /\ wallet' = [wallet EXCEPT ![Agent[b]] = @ - n]

\* Anybody may add tokens of their own to an escrow account that exists.
TopUp(b, p, n) ==
  /\ phase[b] # "none"
  /\ 0 < n /\ n <= wallet[p]
  /\ wallet' = [wallet EXCEPT ![p] = @ - n]
  /\ escrow' = [escrow EXCEPT ![b] = @ + n]
  /\ UNCHANGED <<phase, payee, cap>>

\* The only payout of the bond: the whole escrow, at most cap[b] of it not to
\* the agent.
Payout(b, share) ==
  /\ phase[b] = "held"
  /\ share <= cap[b] /\ share <= escrow[b]
  /\ phase' = [phase EXCEPT ![b] = "paid"]
  /\ escrow' = [escrow EXCEPT ![b] = 0]
  /\ LET shared == IF share = 0 THEN wallet ELSE [wallet EXCEPT ![payee[b]] = @ + share]
     IN  wallet' = [shared EXCEPT ![Agent[b]] = @ + (escrow[b] - share)]
  /\ UNCHANGED <<payee, cap>>

Next ==
  \E b \in Bonds :
    \/ \E m \in Parties, n, c \in Amounts : Deposit(b, m, n, c)
    \/ \E p \in Parties, n \in Amounts : TopUp(b, p, n)
    \/ \E share \in Amounts : Payout(b, share)

Spec == Init /\ [][Next]_vars
=============================================================================
