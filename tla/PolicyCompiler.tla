--------------------------- MODULE PolicyCompiler ---------------------------
(***************************************************************************)
(* How a task becomes an access policy: the clamping and rejection of a    *)
(* proposal by the intent agent (services/intent-agent), the in-process    *)
(* compiler of the gateway for development (apps/gateway/src/compiler.ts)  *)
(* and the gateway's own check (validateAccessPolicy of packages/contracts).*)
(*                                                                         *)
(* Amounts, calls and times are naturals; an absent cap is None.  A list   *)
(* of operations or bonded actions, each with its own id, is a function of *)
(* ids.  Budgets hold the two amounts the intents route lets through.      *)
(***************************************************************************)
EXTENDS Naturals, FiniteSetsExt

CONSTANTS
  Reserve, Release, Expire, Search, Inventory, \* the ids the compilers know by name
  DefaultRate,  \* requests per minute the intent agent never exceeds
  LocalRate,    \* requests per minute of the local compiler
  DefaultTtl,   \* longest session, in the time of the model
  HoldTtl,      \* longest reservation
  None

ASSUME CompilerAssumption ==
  /\ \A c \in {DefaultRate, LocalRate, DefaultTtl, HoldTtl} : c \in Nat \ {0}
  /\ None \notin Nat

Lesser(a, cap) == IF cap = None \/ a <= cap THEN a ELSE cap
Sum(calls) == MapThenSumSet(LAMBDA id : calls[id], DOMAIN calls)
IsBonded(catalog, id) == catalog.tier[id] = "BONDED"

-----------------------------------------------------------------------------
(* The intent agent: _validate_and_build_policy.                           *)

\* Release and expiry belong to a reservation whether or not they are proposed.
Selected(catalog, p) ==
  DOMAIN p.ops \cup
  (IF Reserve \in DOMAIN p.ops THEN {Release, Expire} \cap catalog.ops ELSE {})

\* A proposal is taken when it selects something, every operation and field of
\* it is in the catalog, and its bonded actions are those of the bonded
\* operations it selects.
Acceptable(catalog, p) ==
  /\ p # None
  /\ DOMAIN p.ops # {}
  /\ DOMAIN p.ops \subseteq catalog.ops
  /\ \A id \in DOMAIN p.ops : p.ops[id].fields \subseteq catalog.fields[id]
  /\ DOMAIN p.actions = {id \in Selected(catalog, p) : IsBonded(catalog, id)}

Calls(catalog, p) ==
  [id \in Selected(catalog, p) |->
     IF id \in DOMAIN p.ops THEN Lesser(p.ops[id].calls, catalog.calls[id])
     ELSE catalog.calls[id]]

Fields(catalog, p) ==
  [id \in Selected(catalog, p) |->
     IF id \in DOMAIN p.ops THEN p.ops[id].fields ELSE catalog.fields[id]]

\* slip: the catalog is asked, the budget is not.
UsageOfCatalog(catalog, budget, p) == Lesser(p.usage, catalog.usage)

UsageCap(catalog, budget, p) == Lesser(Lesser(p.usage, budget.usage), catalog.usage)
Bond(catalog, budget, p) ==
  IF DOMAIN p.actions = {} THEN 0 ELSE Lesser(Lesser(p.bond, budget.bond), catalog.bond)

\* slip: the penalty is not bounded by the bond.
PenaltyOfCatalog(catalog, budget, p) ==
  IF DOMAIN p.actions = {} THEN 0 ELSE Lesser(p.penalty, catalog.penalty)

MaxPenalty(catalog, budget, p) ==
  IF DOMAIN p.actions = {} THEN 0
  ELSE Lesser(Lesser(p.penalty, Bond(catalog, budget, p)), catalog.penalty)

Total(catalog, p) == Lesser(Lesser(p.total, Sum(Calls(catalog, p))), catalog.total)
Ttl(catalog, p) == Lesser(Lesser(p.ttl, catalog.ttl), DefaultTtl)

Actions(catalog, budget, p) ==
  [id \in DOMAIN p.actions |->
     [active  |-> Lesser(p.actions[id].active, Calls(catalog, p)[id]),
      ttl     |-> Lesser(p.actions[id].ttl, Ttl(catalog, p)),
      penalty |-> Lesser(Lesser(p.actions[id].penalty, MaxPenalty(catalog, budget, p)),
                         catalog.expiry)]]

Build(catalog, budget, p) ==
  [calls |-> Calls(catalog, p), fields |-> Fields(catalog, p),
   total |-> Total(catalog, p),
   rate |-> Lesser(Lesser(Lesser(p.rate, Total(catalog, p)), catalog.rate), DefaultRate),
   ttl |-> Ttl(catalog, p),
   usage |-> UsageCap(catalog, budget, p), bond |-> Bond(catalog, budget, p),
   penalty |-> MaxPenalty(catalog, budget, p), actions |-> Actions(catalog, budget, p)]

\* FakeProposalProvider: each operation the task asks for, with all its calls and
\* the fields shown of it.
FakeProposal(catalog, budget, wanted, shown) ==
  LET held == {id \in wanted : IsBonded(catalog, id)}
      bond == IF held = {} THEN 0 ELSE Lesser(budget.bond, catalog.bond)
      penalty == Lesser(bond, catalog.penalty)
      total == Sum([id \in wanted |-> catalog.calls[id]])
  IN [ops |-> [id \in wanted |-> [fields |-> shown[id], calls |-> catalog.calls[id]]],
      total |-> total, rate |-> total, ttl |-> DefaultTtl, usage |-> budget.usage,
      bond |-> bond, penalty |-> penalty,
      actions |-> [id \in held |-> [active |-> 1, ttl |-> Lesser(HoldTtl, catalog.ttl),
                                    penalty |-> Lesser(catalog.expiry, penalty)]]]

-----------------------------------------------------------------------------
(* The gateway's local compiler: FakeIntentCompiler.  It builds a policy   *)
(* without a proposal; asked is how many items the task wants compared.    *)

LocalPolicy(catalog, budget, reserves, asked) ==
  LET ids == ({Search, Inventory} \cup (IF reserves THEN {Reserve, Release, Expire} ELSE {}))
               \cap catalog.ops
      calls == [id \in ids |->
                  IF id = Inventory /\ asked < catalog.calls[id]
                  THEN IF asked = 0 THEN 1 ELSE asked ELSE catalog.calls[id]]
      bond == IF reserves THEN Lesser(budget.bond, catalog.bond) ELSE 0
      penalty == Lesser(bond, catalog.penalty)
      ttl == Lesser(DefaultTtl, catalog.ttl)
  IN [calls |-> calls, fields |-> [id \in ids |-> catalog.fields[id]],
      total |-> Sum(calls), rate |-> IF catalog.rate = None THEN LocalRate ELSE catalog.rate,
      ttl |-> ttl, usage |-> Lesser(budget.usage, catalog.usage), bond |-> bond,
      penalty |-> penalty,
      actions |-> [id \in (IF reserves /\ bond > 0 THEN {Reserve} ELSE {}) |->
                     [active |-> 1, ttl |-> Lesser(HoldTtl, ttl),
                      penalty |-> Lesser(penalty, catalog.expiry)]]]

-----------------------------------------------------------------------------
(* validateAccessPolicy: the schema, then the catalog.                     *)

WellFormed(policy) ==
  /\ policy.total \in Nat \ {0} /\ policy.rate \in Nat \ {0}
  /\ \A id \in DOMAIN policy.calls : policy.calls[id] \in Nat \ {0}
  /\ \A id \in DOMAIN policy.actions :
       policy.actions[id].active \in Nat \ {0} /\ policy.actions[id].ttl \in Nat \ {0}

Under(a, cap) == cap = None \/ a <= cap

Valid(catalog, policy) ==
  /\ WellFormed(policy)
  /\ policy.total <= Sum(policy.calls)
  /\ Under(policy.total, catalog.total)
  /\ Under(policy.rate, catalog.rate)
  /\ Under(policy.usage, catalog.usage)
  /\ Under(policy.bond, catalog.bond)
  /\ Under(policy.penalty, catalog.penalty)
  /\ \A id \in DOMAIN policy.calls :
       /\ id \in catalog.ops
       /\ policy.calls[id] <= catalog.calls[id]
       /\ policy.fields[id] \subseteq catalog.fields[id]
  /\ \A id \in DOMAIN policy.actions :
       /\ id \in catalog.ops /\ IsBonded(catalog, id)
       /\ id \in DOMAIN policy.calls
       /\ policy.actions[id].penalty <= policy.penalty
  /\ policy.penalty <= policy.bond
=============================================================================
