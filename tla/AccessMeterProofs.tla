-------------------------- MODULE AccessMeterProofs --------------------------
(***************************************************************************)
(* The meter's limits for every number of concurrent requests, and the     *)
(* budget and the validity of what is compiled for every catalog, request  *)
(* and proposal.                                                           *)
(*                                                                         *)
(* The calls are counted in the step that admits them, so the counters of  *)
(* the session are the sizes of what was admitted.  For the rate the       *)
(* transaction may drop a stamp only because an admitted request is a      *)
(* minute younger: whatever is missing from the stamps is outside the      *)
(* minute of the newest request.                                           *)
(***************************************************************************)
EXTENDS AccessMeter, InductionLemmas

OfOp(op) == {a \in admitted : a.op = op}

IntentInv ==
  /\ catalog \in Catalogs
  /\ intent.outcome # "used" => budget \in Budgets
  /\ intent.outcome = "accepted" => WellFormed(intent.policy)
  /\ intent.outcome # "used" => session.state = "NONE"
  /\ intent.outcome = "accepted" => WithinBudget
  /\ CompiledIsValid

Before == session.state = "NONE" => admitted = {} /\ \A h \in Handlers : handler[h] = None

Shape ==
  /\ handler = [h \in Handlers |-> handler[h]]
  /\ clock \in Nat
  /\ IsFiniteSet(admitted)
  /\ \A a \in admitted : a.at \in Nat

\* A request was let in under the limits of the session, whatever copy of it was
\* checked, and what is counted has a time.
Fit(e) ==
  e # None =>
    /\ e.stage = "check" => e.copy.limits = session.limits
    /\ e.stage \in {"prepare", "reserve"} => e.op \in DOMAIN session.limits.calls
    /\ e.stage = "reserve" => e.since \in Nat

Limited ==
  session.state # "NONE" =>
    /\ session = [state |-> session.state, limits |-> session.limits, calls |-> session.calls,
                  opCalls |-> session.opCalls, stamps |-> session.stamps]
    /\ session.limits.total \in Nat
    /\ session.limits.rate \in Nat \ {0}
    /\ \A op \in DOMAIN session.limits.calls : session.limits.calls[op] \in Nat
    /\ \A h \in Handlers : Fit(handler[h])

Counted ==
  session.state # "NONE" =>
    /\ session.calls \in Nat
    /\ session.calls = Cardinality(admitted)
    /\ session.calls <= session.limits.total
    /\ \A a \in admitted : a.n \in Nat /\ a.n < session.calls
    /\ session.opCalls = [op \in DOMAIN session.limits.calls |-> Cardinality(OfOp(op))]
    /\ \A op \in DOMAIN session.limits.calls :
         session.opCalls[op] <= session.limits.calls[op]

Stamped ==
  session.state # "NONE" =>
    /\ session.stamps \subseteq admitted
    /\ Cardinality(session.stamps) <= session.limits.rate
    /\ \A a \in admitted \ session.stamps : \E b \in admitted : a.at + Minute <= b.at

IInv == IntentInv /\ Before /\ Shape /\ Limited /\ Counted /\ Stamped

-----------------------------------------------------------------------------

LEMMA LesserIsLeast ==
  ASSUME NEW a \in Nat, NEW cap \in Nat \cup {None}
  PROVE  /\ Lesser(a, cap) \in Nat
         /\ Lesser(a, cap) <= a
         /\ cap \in Nat => Lesser(a, cap) <= cap
BY CompilerAssumption DEF Lesser

\* What the clamps make of a proposal's money fits the budget.
LEMMA BuildFits ==
  ASSUME NEW c \in Catalogs, NEW b \in Budgets, NEW p, InSchema(p)
  PROVE  LET q == Build(c, b, p) IN
         /\ q.usage <= b.usage /\ q.bond <= b.bond /\ q.penalty <= q.bond
         /\ \A id \in DOMAIN q.actions : q.actions[id].penalty <= q.penalty
<1> DEFINE q == Build(c, b, p)
<1>0. /\ b.usage \in Nat /\ b.bond \in Nat
      /\ c.usage \in Nat \cup {None} /\ c.bond \in Nat \cup {None}
      /\ c.penalty \in Nat \cup {None} /\ c.expiry \in Nat
      /\ p.usage \in Nat /\ p.bond \in Nat /\ p.penalty \in Nat
  BY MeterAssumption DEF InSchema
<1>1. q.usage = UsageCap(c, b, p) /\ q.bond = Bond(c, b, p) /\ q.penalty = MaxPenalty(c, b, p)
  BY DEF Build
<1>2. UsageCap(c, b, p) <= b.usage
  <2>1. Lesser(p.usage, b.usage) \in Nat /\ Lesser(p.usage, b.usage) <= b.usage
    BY <1>0, LesserIsLeast
  <2>2. UsageCap(c, b, p) \in Nat /\ UsageCap(c, b, p) <= Lesser(p.usage, b.usage)
    BY <1>0, <2>1, LesserIsLeast DEF UsageCap
  <2> QED BY <1>0, <2>1, <2>2
<1>3. Bond(c, b, p) \in Nat /\ Bond(c, b, p) <= b.bond
  <2>1. Lesser(p.bond, b.bond) \in Nat /\ Lesser(p.bond, b.bond) <= b.bond
    BY <1>0, LesserIsLeast
  <2>2. /\ Lesser(Lesser(p.bond, b.bond), c.bond) \in Nat
        /\ Lesser(Lesser(p.bond, b.bond), c.bond) <= Lesser(p.bond, b.bond)
    BY <1>0, <2>1, LesserIsLeast
  <2> QED BY <1>0, <2>1, <2>2 DEF Bond
<1>4. MaxPenalty(c, b, p) \in Nat /\ MaxPenalty(c, b, p) <= Bond(c, b, p)
  <2> DEFINE bond == Bond(c, b, p)
  <2> HIDE DEF bond
  <2>0. bond \in Nat BY <1>3 DEF bond
  <2>1. Lesser(p.penalty, bond) \in Nat /\ Lesser(p.penalty, bond) <= bond
    BY <1>0, <2>0, LesserIsLeast
  <2>2. /\ Lesser(Lesser(p.penalty, bond), c.penalty) \in Nat
        /\ Lesser(Lesser(p.penalty, bond), c.penalty) <= Lesser(p.penalty, bond)
    BY <1>0, <2>1, LesserIsLeast
  <2> QED BY <2>0, <2>1, <2>2 DEF MaxPenalty, bond
<1>5. ASSUME NEW id \in DOMAIN q.actions
      PROVE  q.actions[id].penalty <= q.penalty
  <2> DEFINE penalty == MaxPenalty(c, b, p)
  <2> HIDE DEF penalty
  <2>1. id \in DOMAIN p.actions
    BY DEF Build, Actions
  <2>2. q.actions[id].penalty = Lesser(Lesser(p.actions[id].penalty, penalty), c.expiry)
    BY <2>1 DEF Build, Actions, penalty
  <2>3. p.actions[id].penalty \in Nat /\ penalty \in Nat
    BY <2>1, <1>4 DEF InSchema, penalty
  <2>4. /\ Lesser(p.actions[id].penalty, penalty) \in Nat
        /\ Lesser(p.actions[id].penalty, penalty) <= penalty
    BY <2>3, LesserIsLeast
  <2>5. q.actions[id].penalty \in Nat
        /\ q.actions[id].penalty <= Lesser(p.actions[id].penalty, penalty)
    BY <1>0, <2>2, <2>4, LesserIsLeast
  <2>6. q.penalty = penalty BY <1>1 DEF penalty
  <2> QED BY <2>3, <2>4, <2>5, <2>6
<1> QED BY <1>1, <1>2, <1>3, <1>4, <1>5

(* What a positive amount is capped with leaves it positive, and under it. *)
LEMMA LesserPositive ==
  ASSUME NEW a, a \in Nat \ {0}, NEW cap, cap \in (Nat \ {0}) \cup {None}
  PROVE  Lesser(a, cap) \in Nat \ {0} /\ Lesser(a, cap) <= a /\ Under(Lesser(a, cap), cap)
BY CompilerAssumption DEF Lesser, Under

LEMMA LesserUnder ==
  ASSUME NEW a, a \in Nat, NEW cap, cap \in Nat \cup {None}
  PROVE  Lesser(a, cap) \in Nat /\ Lesser(a, cap) <= a /\ Under(Lesser(a, cap), cap)
BY CompilerAssumption DEF Lesser, Under

LEMMA StillUnder ==
  ASSUME NEW a, a \in Nat, NEW b, b \in Nat, NEW cap, cap \in Nat \cup {None},
         a <= b, Under(b, cap)
  PROVE  Under(a, cap)
BY CompilerAssumption DEF Under

(* A sum of positive calls is positive, unless there is nothing to sum.    *)
LEMMA PositiveSum ==
  ASSUME NEW ids, IsFiniteSet(ids), NEW calls, calls \in [ids -> Nat \ {0}]
  PROVE  Sum(calls) \in Nat /\ (ids # {} => Sum(calls) \in Nat \ {0})
<1>1. DOMAIN calls = ids /\ calls \in [ids -> Nat]
  OBVIOUS
<1>2. SumOf(calls, ids) \in Nat /\ \A id \in ids : calls[id] <= SumOf(calls, ids)
  BY <1>1, SumBounds
<1>3. Sum(calls) = SumOf(calls, DOMAIN calls)
  BY Zenon DEF Sum, SumOf
<1>4. ASSUME NEW id \in ids PROVE SumOf(calls, ids) # 0
  BY <1>2
<1> QED
  BY <1>1, <1>2, <1>3, <1>4

(* The operations that a taken proposal selects, with their calls.         *)
LEMMA CallsFit ==
  ASSUME NEW c \in Catalogs, NEW p, InSchema(p), Acceptable(c, p)
  PROVE  /\ Selected(c, p) \subseteq c.ops /\ Selected(c, p) # {} /\ IsFiniteSet(Selected(c, p))
         /\ Calls(c, p) \in [Selected(c, p) -> Nat \ {0}]
         /\ \A id \in Selected(c, p) : Calls(c, p)[id] <= c.calls[id]
<1>0. /\ IsFiniteSet(c.ops) /\ \A id \in c.ops : c.calls[id] \in Nat \ {0}
      /\ \A id \in DOMAIN p.ops : p.ops[id].calls \in Nat \ {0}
      /\ DOMAIN p.ops # {} /\ DOMAIN p.ops \subseteq c.ops
  BY MeterAssumption DEF InSchema, Acceptable
<1>1. Selected(c, p) \subseteq c.ops /\ Selected(c, p) # {} /\ IsFiniteSet(Selected(c, p))
  BY <1>0, FS_Subset DEF Selected
<1>2. ASSUME NEW id \in Selected(c, p)
      PROVE  Calls(c, p)[id] \in Nat \ {0} /\ Calls(c, p)[id] <= c.calls[id]
  <2>1. c.calls[id] \in Nat \ {0}
    BY <1>0, <1>1
  <2>2. CASE id \in DOMAIN p.ops
    <3>1. p.ops[id].calls \in Nat \ {0}
      BY <1>0, <2>2
    <3>2. Calls(c, p)[id] = Lesser(p.ops[id].calls, c.calls[id])
      BY <2>2 DEF Calls
    <3> QED
      BY <2>1, <3>1, <3>2, LesserIsLeast, LesserPositive
  <2>3. CASE id \notin DOMAIN p.ops
    BY <2>1, <2>3 DEF Calls
  <2> QED
    BY <2>2, <2>3
<1>3. Calls(c, p) = [id \in Selected(c, p) |-> Calls(c, p)[id]]
  BY DEF Calls
<1> QED
  BY <1>1, <1>2, <1>3

(* The limits that the agent's policy puts on calls, requests and time.    *)
LEMMA LimitsFit ==
  ASSUME NEW c \in Catalogs, NEW b \in Budgets, NEW p, InSchema(p), Acceptable(c, p)
  PROVE  LET q == Build(c, b, p) IN
         /\ q.total \in Nat \ {0} /\ q.total <= Sum(q.calls) /\ Under(q.total, c.total)
         /\ q.rate \in Nat \ {0} /\ Under(q.rate, c.rate)
         /\ q.ttl \in Nat \ {0}
<1> DEFINE sum == Sum(Calls(c, p))
           total == Total(c, p)
           ttl == Ttl(c, p)
           rate == Lesser(Lesser(Lesser(p.rate, total), c.rate), DefaultRate)
<1>0. /\ p.total \in Nat \ {0} /\ p.rate \in Nat \ {0} /\ p.ttl \in Nat \ {0}
      /\ c.total \in (Nat \ {0}) \cup {None} /\ c.rate \in (Nat \ {0}) \cup {None}
      /\ c.ttl \in (Nat \ {0}) \cup {None}
      /\ DefaultRate \in (Nat \ {0}) \cup {None} /\ DefaultTtl \in (Nat \ {0}) \cup {None}
  BY MeterAssumption, CompilerAssumption DEF InSchema
<1>1. sum \in Nat \ {0}
  BY CallsFit, PositiveSum
<1>2. /\ Build(c, b, p).calls = Calls(c, p) /\ Build(c, b, p).total = total
      /\ Build(c, b, p).rate = rate /\ Build(c, b, p).ttl = ttl
  BY DEF Build
<1>3. total \in Nat \ {0} /\ total <= sum /\ Under(total, c.total)
  <2> HIDE DEF sum
  <2> DEFINE x == Lesser(p.total, sum)
  <2>1. x \in Nat \ {0} /\ x <= sum
    BY <1>0, <1>1, LesserPositive, LesserIsLeast
  <2>2. total = Lesser(x, c.total)
    BY DEF Total, sum
  <2> HIDE DEF x, total
  <2>3. Lesser(x, c.total) \in Nat \ {0} /\ Lesser(x, c.total) <= x
        /\ Under(Lesser(x, c.total), c.total)
    BY <1>0, <2>1, LesserPositive
  <2> QED
    BY <1>1, <2>1, <2>2, <2>3
<1>4. rate \in Nat \ {0} /\ Under(rate, c.rate)
  <2> HIDE DEF total
  <2> DEFINE x == Lesser(p.rate, total)
             y == Lesser(x, c.rate)
  <2>1. total \in (Nat \ {0}) \cup {None}
    BY <1>3
  <2>2. x \in Nat \ {0}
    BY <1>0, <2>1, LesserPositive
  <2> HIDE DEF x
  <2>3. y \in Nat \ {0} /\ Under(y, c.rate)
    BY <1>0, <2>2, LesserPositive
  <2> HIDE DEF y
  <2>4. Lesser(y, DefaultRate) \in Nat \ {0} /\ Lesser(y, DefaultRate) <= y
    BY <1>0, <2>3, LesserPositive
  <2>5. Under(Lesser(y, DefaultRate), c.rate)
    BY <1>0, <2>3, <2>4, StillUnder
  <2> QED
    BY <2>4, <2>5 DEF y, x
<1>5. ttl \in Nat \ {0}
  <2>1. Lesser(p.ttl, c.ttl) \in Nat \ {0}
    BY <1>0, LesserPositive
  <2> QED
    BY <1>0, <2>1, LesserPositive DEF Ttl
<1> HIDE DEF sum, total, ttl, rate
<1>6. sum = Sum(Build(c, b, p).calls)
  BY <1>2 DEF sum
<1> QED
  BY <1>2, <1>3, <1>4, <1>5, <1>6

(* Its usage, bond and penalty are under what the catalog allows.          *)
LEMMA MoneyUnder ==
  ASSUME NEW c \in Catalogs, NEW b \in Budgets, NEW p, InSchema(p)
  PROVE  LET q == Build(c, b, p) IN
         Under(q.usage, c.usage) /\ Under(q.bond, c.bond) /\ Under(q.penalty, c.penalty)
<1>0. /\ b.usage \in Nat /\ b.bond \in Nat
      /\ c.usage \in Nat \cup {None} /\ c.bond \in Nat \cup {None}
      /\ c.penalty \in Nat \cup {None}
      /\ p.usage \in Nat /\ p.bond \in Nat /\ p.penalty \in Nat
  BY MeterAssumption DEF InSchema
<1>1. /\ Build(c, b, p).usage = UsageCap(c, b, p) /\ Build(c, b, p).bond = Bond(c, b, p)
      /\ Build(c, b, p).penalty = MaxPenalty(c, b, p)
  BY DEF Build
<1>2. \A cap \in Nat \cup {None} : Under(0, cap)
  BY DEF Under
<1>3. Lesser(p.usage, b.usage) \in Nat /\ Lesser(p.bond, b.bond) \in Nat
  BY <1>0, LesserIsLeast
<1>4. Under(UsageCap(c, b, p), c.usage)
  BY <1>0, <1>3, LesserUnder DEF UsageCap
<1>5. /\ Under(Lesser(Lesser(p.bond, b.bond), c.bond), c.bond)
      /\ Lesser(Lesser(p.bond, b.bond), c.bond) \in Nat
  BY <1>0, <1>3, LesserUnder
<1>6. Under(Bond(c, b, p), c.bond) /\ Bond(c, b, p) \in Nat
  BY <1>0, <1>2, <1>5 DEF Bond
<1>7. Under(MaxPenalty(c, b, p), c.penalty)
  <2>1. Lesser(p.penalty, Bond(c, b, p)) \in Nat
    BY <1>0, <1>6, LesserIsLeast
  <2>2. Under(Lesser(Lesser(p.penalty, Bond(c, b, p)), c.penalty), c.penalty)
    BY <1>0, <2>1, LesserUnder
  <2> QED
    BY <1>0, <1>2, <2>2 DEF MaxPenalty
<1> QED
  BY <1>1, <1>4, <1>6, <1>7

(* So validateAccessPolicy takes every policy that the agent builds.       *)
LEMMA AgentValid ==
  ASSUME NEW c \in Catalogs, NEW b \in Budgets, NEW p, InSchema(p), Acceptable(c, p)
  PROVE  Valid(c, Build(c, b, p))
<1> DEFINE q == Build(c, b, p)
<1>1. /\ q.total \in Nat \ {0} /\ q.total <= Sum(q.calls) /\ Under(q.total, c.total)
      /\ q.rate \in Nat \ {0} /\ Under(q.rate, c.rate)
      /\ q.ttl \in Nat \ {0}
  BY LimitsFit
<1>2. Under(q.usage, c.usage) /\ Under(q.bond, c.bond) /\ Under(q.penalty, c.penalty)
  BY MoneyUnder
<1>3. q.penalty <= q.bond /\ \A id \in DOMAIN q.actions : q.actions[id].penalty <= q.penalty
  BY BuildFits
<1>4. q.calls = Calls(c, p) /\ DOMAIN q.calls = Selected(c, p)
  BY DEF Build, Calls
<1>5. ASSUME NEW id \in DOMAIN q.calls
      PROVE  /\ id \in c.ops /\ q.calls[id] \in Nat \ {0} /\ q.calls[id] <= c.calls[id]
             /\ q.fields[id] \subseteq c.fields[id]
  <2>1. id \in c.ops /\ q.calls[id] \in Nat \ {0} /\ q.calls[id] <= c.calls[id]
    BY <1>4, CallsFit
  <2>2. q.fields[id] = IF id \in DOMAIN p.ops THEN p.ops[id].fields ELSE c.fields[id]
    BY <1>4 DEF Build, Fields
  <2>3. id \in DOMAIN p.ops => p.ops[id].fields \subseteq c.fields[id]
    BY DEF Acceptable
  <2> QED
    BY <2>1, <2>2, <2>3
<1>6. ASSUME NEW id \in DOMAIN q.actions
      PROVE  /\ id \in c.ops /\ IsBonded(c, id) /\ id \in DOMAIN q.calls
             /\ q.actions[id].active \in Nat \ {0} /\ q.actions[id].ttl \in Nat \ {0}
  <2>1. id \in DOMAIN p.actions /\ id \in Selected(c, p) /\ IsBonded(c, id)
    BY DEF Build, Actions, Acceptable
  <2>2. /\ q.actions[id].active = Lesser(p.actions[id].active, q.calls[id])
        /\ q.actions[id].ttl = Lesser(p.actions[id].ttl, q.ttl)
    BY <2>1 DEF Build, Actions
  <2>3. p.actions[id].active \in Nat \ {0} /\ p.actions[id].ttl \in Nat \ {0}
    BY <2>1 DEF InSchema
  <2>4. q.calls[id] \in (Nat \ {0}) \cup {None} /\ q.ttl \in (Nat \ {0}) \cup {None}
    BY <1>1, <1>4, <1>5, <2>1
  <2> HIDE DEF q
  <2>5. q.actions[id].active \in Nat \ {0} /\ q.actions[id].ttl \in Nat \ {0}
    BY <2>2, <2>3, <2>4, LesserPositive
  <2> QED
    BY <1>4, <1>5, <2>1, <2>5
<1> HIDE DEF q
<1>7. WellFormed(q)
  BY <1>1, <1>5, <1>6 DEF WellFormed
<1>8. Valid(c, q)
  BY <1>1, <1>2, <1>3, <1>5, <1>6, <1>7 DEF Valid
<1> QED
  BY <1>8 DEF q

\* So does what the local compiler builds.
LEMMA LocalFits ==
  ASSUME NEW c \in Catalogs, NEW b \in Budgets, NEW reserves \in BOOLEAN, NEW asked
  PROVE  LET q == LocalPolicy(c, b, reserves, asked) IN
         /\ q.usage <= b.usage /\ q.bond <= b.bond /\ q.penalty <= q.bond
         /\ \A id \in DOMAIN q.actions : q.actions[id].penalty <= q.penalty
<1> DEFINE q == LocalPolicy(c, b, reserves, asked)
           bond == IF reserves THEN Lesser(b.bond, c.bond) ELSE 0
           penalty == Lesser(bond, c.penalty)
<1>0. /\ b.usage \in Nat /\ b.bond \in Nat
      /\ c.usage \in Nat \cup {None} /\ c.bond \in Nat \cup {None}
      /\ c.penalty \in Nat \cup {None} /\ c.expiry \in Nat
  BY MeterAssumption
<1>1. q.usage = Lesser(b.usage, c.usage) /\ q.bond = bond /\ q.penalty = penalty
  BY DEF LocalPolicy
<1>2. Lesser(b.usage, c.usage) <= b.usage
  BY <1>0, LesserIsLeast
<1>3. bond \in Nat /\ bond <= b.bond
  <2>1. Lesser(b.bond, c.bond) \in Nat /\ Lesser(b.bond, c.bond) <= b.bond
    BY <1>0, LesserIsLeast
  <2> QED BY <1>0, <2>1
<1> HIDE DEF bond
<1>4. penalty \in Nat /\ penalty <= bond
  BY <1>0, <1>3, LesserIsLeast
<1> HIDE DEF penalty
<1>5. ASSUME NEW id \in DOMAIN q.actions
      PROVE  q.actions[id].penalty <= q.penalty
  <2>1. q.actions[id].penalty = Lesser(penalty, c.expiry)
    BY DEF LocalPolicy, bond, penalty
  <2>2. Lesser(penalty, c.expiry) <= penalty
    BY <1>0, <1>4, LesserIsLeast
  <2> QED BY <1>1, <2>1, <2>2
<1> QED BY <1>1, <1>2, <1>3, <1>4, <1>5

(* The gateway refuses a local policy only for its number of calls, or for *)
(* a bonded action that the catalog does not offer.                        *)
LEMMA LocalValid ==
  ASSUME NEW c \in Catalogs, NEW b \in Budgets, NEW reserves \in BOOLEAN, NEW asked \in Nat
  PROVE  LET q == LocalPolicy(c, b, reserves, asked) IN
         ~Valid(c, q) =>
           \/ Sum(q.calls) = 0
           \/ ~Under(Sum(q.calls), c.total)
           \/ DOMAIN q.actions # {} /\ ~(Reserve \in c.ops /\ IsBonded(c, Reserve))
<1> DEFINE q == LocalPolicy(c, b, reserves, asked)
           wanted == {Search, Inventory} \cup (IF reserves THEN {Reserve, Release, Expire} ELSE {})
           ids == wanted \cap c.ops
           bond == IF reserves THEN Lesser(b.bond, c.bond) ELSE 0
           penalty == Lesser(bond, c.penalty)
           ttl == Lesser(DefaultTtl, c.ttl)
<1> SUFFICES ASSUME Sum(q.calls) # 0, Under(Sum(q.calls), c.total),
                    DOMAIN q.actions # {} => Reserve \in c.ops /\ IsBonded(c, Reserve)
             PROVE  Valid(c, q)
  OBVIOUS
<1>0. /\ b.usage \in Nat /\ b.bond \in Nat
      /\ c.usage \in Nat \cup {None} /\ c.bond \in Nat \cup {None}
      /\ c.penalty \in Nat \cup {None} /\ c.expiry \in Nat
      /\ c.rate \in (Nat \ {0}) \cup {None} /\ c.ttl \in (Nat \ {0}) \cup {None}
      /\ IsFiniteSet(c.ops) /\ \A id \in c.ops : c.calls[id] \in Nat \ {0}
      /\ LocalRate \in Nat \ {0} /\ DefaultTtl \in Nat \ {0} /\ HoldTtl \in Nat \ {0}
  BY MeterAssumption, CompilerAssumption
<1>1. /\ q.fields = [id \in ids |-> c.fields[id]] /\ q.total = Sum(q.calls)
      /\ q.rate = IF c.rate = None THEN LocalRate ELSE c.rate
      /\ q.usage = Lesser(b.usage, c.usage) /\ q.bond = bond /\ q.penalty = penalty
      /\ DOMAIN q.actions = IF reserves /\ bond > 0 THEN {Reserve} ELSE {}
      /\ \A id \in DOMAIN q.actions : q.actions[id].active = 1 /\ q.actions[id].ttl = Lesser(HoldTtl, ttl)
  BY DEF LocalPolicy
<1>2. q.calls = [id \in ids |-> IF id = Inventory /\ asked < c.calls[id]
                                THEN IF asked = 0 THEN 1 ELSE asked ELSE c.calls[id]]
  BY DEF LocalPolicy
<1>3. q.penalty <= q.bond /\ \A id \in DOMAIN q.actions : q.actions[id].penalty <= q.penalty
  BY LocalFits
<1> HIDE DEF q
<1>4. ASSUME NEW id \in ids
      PROVE  /\ id \in c.ops /\ q.calls[id] \in Nat \ {0} /\ q.calls[id] <= c.calls[id]
             /\ q.fields[id] \subseteq c.fields[id]
  <2>1. c.calls[id] \in Nat \ {0}
    BY <1>0
  <2>2. q.calls[id] = IF id = Inventory /\ asked < c.calls[id]
                      THEN IF asked = 0 THEN 1 ELSE asked ELSE c.calls[id]
    BY <1>2
  <2> QED
    BY <1>1, <2>1, <2>2
<1>5. DOMAIN q.calls = ids
  BY <1>2
<1>6. Sum(q.calls) \in Nat
  <2>1. IsFiniteSet(ids)
    BY <1>0, FS_Subset
  <2>2. q.calls \in [ids -> Nat \ {0}]
    BY <1>2, <1>4
  <2> HIDE DEF ids
  <2> QED
    BY <2>1, <2>2, PositiveSum
<1>7. q.rate \in Nat \ {0} /\ Under(q.rate, c.rate)
  BY <1>0, <1>1, CompilerAssumption DEF Under
<1>8. bond \in Nat /\ Under(bond, c.bond)
  <2>1. Lesser(b.bond, c.bond) \in Nat /\ Under(Lesser(b.bond, c.bond), c.bond)
    BY <1>0, LesserUnder
  <2>2. Under(0, c.bond)
    BY <1>0 DEF Under
  <2> QED
    BY <2>1, <2>2
<1> HIDE DEF bond
<1>9. Under(penalty, c.penalty) /\ Under(q.usage, c.usage)
  <2>1. Under(Lesser(bond, c.penalty), c.penalty)
    BY <1>0, <1>8, LesserUnder
  <2>2. Under(Lesser(b.usage, c.usage), c.usage)
    BY <1>0, LesserUnder
  <2> QED
    BY <1>1, <2>1, <2>2 DEF penalty
<1>10. ttl \in Nat \ {0}
  BY <1>0, LesserPositive
<1> HIDE DEF ttl, penalty
<1>11. Lesser(HoldTtl, ttl) \in Nat \ {0}
  BY <1>0, <1>10, LesserPositive
<1>12. ASSUME NEW id \in DOMAIN q.actions
       PROVE  /\ id \in c.ops /\ IsBonded(c, id) /\ id \in DOMAIN q.calls
              /\ q.actions[id].active \in Nat \ {0} /\ q.actions[id].ttl \in Nat \ {0}
  <2>1. id = Reserve /\ reserves
    BY <1>1
  <2>2. id \in c.ops /\ IsBonded(c, id)
    BY <2>1
  <2>3. id \in DOMAIN q.calls
    BY <1>5, <2>1, <2>2
  <2> QED
    BY <1>1, <1>11, <2>2, <2>3
<1>13. WellFormed(q)
  BY <1>1, <1>4, <1>5, <1>6, <1>7, <1>12 DEF WellFormed
<1> QED
  BY <1>1, <1>3, <1>4, <1>5, <1>6, <1>7, <1>8, <1>9, <1>12, <1>13 DEF Valid

(* The development provider's proposal meets the schema of proposals.      *)
LEMMA FakeInSchema ==
  ASSUME NEW c \in Catalogs, NEW b \in Budgets, NEW wanted \in SUBSET c.ops, wanted # {}, NEW shown
  PROVE  InSchema(FakeProposal(c, b, wanted, shown))
<1> DEFINE held == {id \in wanted : IsBonded(c, id)}
           bond == IF held = {} THEN 0 ELSE Lesser(b.bond, c.bond)
           penalty == Lesser(bond, c.penalty)
           calls == [id \in wanted |-> c.calls[id]]
           total == Sum(calls)
           p == FakeProposal(c, b, wanted, shown)
<1>0. /\ b.usage \in Nat /\ b.bond \in Nat
      /\ c.bond \in Nat \cup {None} /\ c.penalty \in Nat \cup {None} /\ c.expiry \in Nat
      /\ c.ttl \in (Nat \ {0}) \cup {None} /\ DefaultTtl \in Nat \ {0} /\ HoldTtl \in Nat \ {0}
      /\ IsFiniteSet(c.ops) /\ \A id \in c.ops : c.calls[id] \in Nat \ {0}
  BY MeterAssumption, CompilerAssumption
<1>1. /\ p.usage = b.usage /\ p.bond = bond /\ p.penalty = penalty
      /\ p.total = total /\ p.rate = total /\ p.ttl = DefaultTtl
  BY DEF FakeProposal
<1>2. \A id \in DOMAIN p.actions :
        /\ p.actions[id].penalty = Lesser(c.expiry, penalty)
        /\ p.actions[id].active = 1 /\ p.actions[id].ttl = Lesser(HoldTtl, c.ttl)
  BY DEF FakeProposal
<1>3. \A id \in DOMAIN p.ops : p.ops[id].calls \in Nat \ {0}
  BY <1>0 DEF FakeProposal
<1>4. bond \in Nat
  BY <1>0, LesserIsLeast
<1> HIDE DEF bond
<1>5. penalty \in Nat
  BY <1>0, <1>4, LesserIsLeast
<1>6. total \in Nat \ {0}
  <2>1. IsFiniteSet(wanted)
    BY <1>0, FS_Subset
  <2>2. calls \in [wanted -> Nat \ {0}]
    BY <1>0
  <2> HIDE DEF calls
  <2> QED
    BY <2>1, <2>2, PositiveSum
<1> HIDE DEF penalty, p, total
<1>7. Lesser(c.expiry, penalty) \in Nat
  BY <1>0, <1>5, LesserIsLeast
<1>8. Lesser(HoldTtl, c.ttl) \in Nat \ {0}
  BY <1>0, LesserPositive
<1>9. InSchema(p)
  BY <1>0, <1>1, <1>2, <1>3, <1>4, <1>5, <1>6, <1>7, <1>8 DEF InSchema
<1> QED BY <1>9 DEF p

-----------------------------------------------------------------------------

LEMMA InitInv == Init => IInv
<1> SUFFICES ASSUME Init PROVE IInv
  OBVIOUS
<1>1. IntentInv /\ Before
  BY DEF Init, Pending, IntentInv, Before, CompiledIsValid
<1>2. Shape
  BY FS_EmptySet DEF Init, Shape
<1>3. Limited /\ Counted /\ Stamped
  BY DEF Init, Limited, Counted, Stamped
<1> QED BY <1>1, <1>2, <1>3 DEF IInv

\* A policy within the budget that passes the check, or fails it for a reason the
\* local compiler may have, leaves the rest as it was.
LEMMA CheckedInv ==
  ASSUME IInv, intent = Pending, NoSession, NEW origin, NEW policy,
         Checked(origin, policy),
         /\ policy.usage <= budget.usage /\ policy.bond <= budget.bond
         /\ policy.penalty <= policy.bond
         /\ \A id \in DOMAIN policy.actions : policy.actions[id].penalty <= policy.penalty,
         ~Valid(catalog, policy) =>
           /\ origin = "local"
           /\ \/ Sum(policy.calls) = 0
              \/ ~Under(Sum(policy.calls), catalog.total)
              \/ DOMAIN policy.actions # {} /\ ~(Reserve \in catalog.ops /\ IsBonded(catalog, Reserve))
  PROVE  IInv'
<1>1. session.state = "NONE" /\ session'.state = "NONE"
  BY DEF IInv, IntentInv, Pending, NoSession
<1>2. intent'.policy = policy /\ intent'.outcome \in {"accepted", "invalid"}
      /\ (intent'.outcome = "accepted" => Valid(catalog, policy))
      /\ (intent'.outcome = "invalid" => ~Valid(catalog, policy))
      /\ intent'.origin = origin
  BY DEF Checked
<1>7. CompiledIsValid'
  BY <1>2 DEF CompiledIsValid, NoSession
<1>8. budget \in Budgets /\ budget' = budget
  BY DEF IInv, IntentInv, Pending, NoSession
<1>3. IntentInv'
  BY <1>1, <1>2, <1>7, <1>8 DEF IInv, IntentInv, NoSession, WithinBudget, Valid
<1>4. Before'
  BY <1>1 DEF IInv, Before, NoSession
<1>5. Shape'
  BY DEF IInv, Shape, NoSession
<1>6. Limited' /\ Counted' /\ Stamped'
  BY <1>1 DEF Limited, Counted, Stamped
<1> QED BY <1>3, <1>4, <1>5, <1>6 DEF IInv

LEMMA CompileInv == IInv /\ Compile => IInv'
<1> SUFFICES ASSUME IInv, Compile PROVE IInv'
  OBVIOUS
<1>0. intent = Pending /\ catalog \in Catalogs /\ budget \in Budgets
  BY DEF Compile, IInv, IntentInv, Pending
<1>1. ASSUME NEW p \in Proposals(catalog) \cup
               {FakeProposal(catalog, budget, wanted, catalog.fields) :
                  wanted \in SUBSET catalog.ops},
             Propose(p)
      PROVE  IInv'
  <2>1. InSchema(p)
    <3>1. CASE p \in Proposals(catalog)
      <4>1. p # None BY <1>1 DEF Propose, Acceptable
      <4> QED BY <1>0, <3>1, <4>1, MeterAssumption
    <3>2. CASE p \notin Proposals(catalog)
      <4>1. PICK wanted \in SUBSET catalog.ops :
              p = FakeProposal(catalog, budget, wanted, catalog.fields)
        BY <1>1, <3>2
      <4>2. DOMAIN p.ops = wanted
        BY <4>1 DEF FakeProposal
      <4>3. wanted # {}
        BY <1>1, <4>2 DEF Propose, Acceptable
      <4> QED BY <1>0, <4>1, <4>3, FakeInSchema
    <3> QED BY <3>1, <3>2
  <2>2. /\ Build(catalog, budget, p).usage <= budget.usage
        /\ Build(catalog, budget, p).bond <= budget.bond
        /\ Build(catalog, budget, p).penalty <= Build(catalog, budget, p).bond
        /\ \A id \in DOMAIN Build(catalog, budget, p).actions :
             Build(catalog, budget, p).actions[id].penalty <= Build(catalog, budget, p).penalty
    BY <1>0, <2>1, BuildFits
  <2>3. NoSession /\ Checked("agent", Build(catalog, budget, p))
    BY <1>1 DEF Propose
  <2>4. Valid(catalog, Build(catalog, budget, p))
    BY <1>0, <1>1, <2>1, AgentValid DEF Propose
  <2> QED BY <1>0, <2>2, <2>3, <2>4, CheckedInv
<1>2. ASSUME NEW p, RejectProposal(p) PROVE IInv'
  <2>1. NoSession BY <1>2 DEF RejectProposal
  <2>2. session.state = "NONE" /\ session'.state = "NONE"
    BY <1>0, <2>1 DEF IInv, IntentInv, Pending, NoSession
  <2>3. intent'.outcome \in {"pending", "failed"}
    BY <1>0, <1>2 DEF RejectProposal, Pending
  <2>4. IntentInv'
    BY <1>0, <2>1, <2>2, <2>3 DEF IInv, IntentInv, NoSession, WithinBudget, CompiledIsValid
  <2>5. Before' /\ Shape'
    BY <2>1, <2>2 DEF IInv, Before, Shape, NoSession
  <2>6. Limited' /\ Counted' /\ Stamped'
    BY <2>2 DEF Limited, Counted, Stamped
  <2> QED BY <2>4, <2>5, <2>6 DEF IInv
<1>3. ASSUME NEW reserves \in BOOLEAN, NEW asked \in Asked, CompileLocally(reserves, asked)
      PROVE  IInv'
  <2>1. NoSession /\ Checked("local", LocalPolicy(catalog, budget, reserves, asked))
    BY <1>3 DEF CompileLocally
  <2>2. /\ LocalPolicy(catalog, budget, reserves, asked).usage <= budget.usage
        /\ LocalPolicy(catalog, budget, reserves, asked).bond <= budget.bond
        /\ LocalPolicy(catalog, budget, reserves, asked).penalty
             <= LocalPolicy(catalog, budget, reserves, asked).bond
        /\ \A id \in DOMAIN LocalPolicy(catalog, budget, reserves, asked).actions :
             LocalPolicy(catalog, budget, reserves, asked).actions[id].penalty
               <= LocalPolicy(catalog, budget, reserves, asked).penalty
    BY <1>0, LocalFits
  <2> DEFINE q == LocalPolicy(catalog, budget, reserves, asked)
  <2>3. ~Valid(catalog, q) =>
           \/ Sum(q.calls) = 0
           \/ ~Under(Sum(q.calls), catalog.total)
           \/ DOMAIN q.actions # {} /\ ~(Reserve \in catalog.ops /\ IsBonded(catalog, Reserve))
    BY <1>0, LocalValid, MeterAssumption
  <2> QED BY <1>0, <2>1, <2>2, <2>3, CheckedInv
<1> QED BY <1>1, <1>2, <1>3 DEF Compile

LEMMA StartSessionInv == IInv /\ StartSession => IInv'
<1> SUFFICES ASSUME IInv, StartSession PROVE IInv'
  OBVIOUS
<1>1. /\ intent.outcome = "accepted" /\ session.state = "NONE" /\ admitted = {}
      /\ \A h \in Handlers : handler[h] = None
      /\ WellFormed(intent.policy)
  BY DEF IInv, IntentInv, Before, StartSession
<1>2. UNCHANGED <<catalog, handler, clock, admitted>>
  BY DEF StartSession
<1>4. IntentInv' /\ Before'
  BY <1>1, <1>2 DEF IInv, IntentInv, Before, StartSession, Pending, WithinBudget,
                      CompiledIsValid
<1>5. Shape'
  BY <1>2 DEF IInv, Shape
<1>6. Limited'
  BY <1>1, <1>2 DEF StartSession, Limited, WellFormed, Fit
<1>7. Cardinality(admitted') = 0 /\ \A op : OfOp(op)' = {} /\ Cardinality(OfOp(op))' = 0
  BY <1>1, <1>2, FS_EmptySet DEF OfOp
<1>8. Counted'
  BY <1>1, <1>2, <1>7 DEF StartSession, Counted, WellFormed
<1>9. Stamped'
  BY <1>1, <1>2, <1>7, FS_EmptySet DEF StartSession, Stamped, WellFormed
<1> QED BY <1>4, <1>5, <1>6, <1>8, <1>9 DEF IInv

\* A step that counts nothing: one request moves on, and the session may be
\* locked, unlocked or ended.
LEMMA MovesInv ==
  ASSUME IInv, session.state # "NONE", UNCHANGED <<catalog, budget, intent, clock, admitted>>,
         NEW h \in Handlers, NEW STATE e, Becomes(h, e), Fit(e),
         NEW s, s # "NONE", session' \in {session, [session EXCEPT !.state = s]}
  PROVE  IInv'
<1>1. session = [state |-> session.state, limits |-> session.limits, calls |-> session.calls,
                 opCalls |-> session.opCalls, stamps |-> session.stamps]
  BY DEF IInv, Limited
<1>2. session' = [state |-> session'.state, limits |-> session.limits, calls |-> session.calls,
                  opCalls |-> session.opCalls, stamps |-> session.stamps]
      /\ session'.state # "NONE"
  BY <1>1
<1>3. IntentInv' /\ Before'
  BY <1>2 DEF IInv, IntentInv, Before, WithinBudget, CompiledIsValid
<1>4. Shape'
  BY DEF IInv, Shape, Becomes
<1>5. \A g \in Handlers : handler'[g] = e \/ handler'[g] = handler[g]
  BY DEF IInv, Shape, Becomes
<1>6. Limited'
  BY <1>2, <1>5 DEF IInv, Limited, Fit
<1>7. Counted' /\ Stamped'
  BY <1>2 DEF IInv, Counted, Stamped, OfOp
<1> QED BY <1>3, <1>4, <1>6, <1>7 DEF IInv

LEMMA NothingAhead == Fit(None) /\ \A s \in {"unlock", "serve", "settle"} : Fit([stage |-> s])
BY DEF Fit

\* Every step of a request, a close or the worker but the counting.
LEMMA RequestInv ==
  ASSUME IInv, NEW h \in Handlers,
         \/ \E op : GetSession(h, op)
         \/ Authorize(h) \/ LockSession(h) \/ Serve(h)
         \/ ClaimSettlement(h) \/ EndSession(h) \/ Unlock(h)
  PROVE  IInv'
<1>1. UNCHANGED <<catalog, budget, intent, clock, admitted>>
  BY DEF GetSession, Authorize, LockSession, Serve, ClaimSettlement, EndSession, Unlock, Aside
<1>2. session.state # "NONE"
  BY DEF GetSession, Authorize, LockSession, Serve, ClaimSettlement, EndSession, Unlock, At,
         IInv, Before
<1>3. clock \in Nat /\ Fit(handler[h])
  BY <1>2 DEF IInv, Shape, Limited
<1>4. ASSUME NEW op, GetSession(h, op) PROVE IInv'
  <2>1. Fit([stage |-> "check", op |-> op, copy |-> session])
    BY DEF Fit
  <2> QED BY <1>1, <1>2, <1>4, <2>1, MovesInv DEF GetSession
<1>5. CASE Authorize(h)
  <2> DEFINE op == handler[h].op
             let == Authorized(handler[h].copy, op)
  <2>1. At(h, "check") /\ session' = session
    BY <1>5 DEF Authorize
  <2>2. let => op \in DOMAIN session.limits.calls
    BY <1>3, <2>1 DEF Authorized, At, Fit
  <2>3. PICK e : e = IF ~let THEN None ELSE IF op = Expire THEN [stage |-> "prepare", op |-> op]
                     ELSE Reserving(op, "ACTIVE")
    OBVIOUS
  <2>4. Becomes(h, e)
    BY <1>5, <2>3 DEF Authorize
  <2>5. Fit(e)
    <3> HIDE DEF let, op
    <3>1. CASE ~let
      BY <2>3, <3>1, NothingAhead
    <3>2. CASE let
      BY <1>3, <2>2, <2>3, <3>2 DEF Fit, Reserving
    <3> QED BY <3>1, <3>2
  <2> QED BY <1>1, <1>2, <2>1, <2>4, <2>5, MovesInv
<1>6. CASE LockSession(h)
  <2>1. At(h, "prepare") /\ handler[h].op \in DOMAIN session.limits.calls
    BY <1>3, <1>6 DEF LockSession, At, Fit
  <2>2. Fit(Reserving(handler[h].op, "SETTLING"))
    BY <1>3, <2>1 DEF Fit, Reserving
  <2> QED BY <1>1, <1>2, <1>6, <2>2, NothingAhead, MovesInv DEF LockSession
<1>7. CASE Serve(h)
  BY <1>1, <1>2, <1>7, NothingAhead, MovesInv DEF Serve
<1>8. CASE ClaimSettlement(h)
  BY <1>1, <1>2, <1>8, NothingAhead, MovesInv DEF ClaimSettlement
<1>9. CASE EndSession(h)
  <2>1. PICK state \in {"CLOSED", "EXPIRED"} : session' = [session EXCEPT !.state = state]
    BY <1>9 DEF EndSession
  <2> QED BY <1>1, <1>2, <1>9, <2>1, NothingAhead, MovesInv DEF EndSession
<1>10. CASE Unlock(h)
  BY <1>1, <1>2, <1>10, NothingAhead, MovesInv DEF Unlock
<1> QED BY <1>4, <1>5, <1>6, <1>7, <1>8, <1>9, <1>10

\* One more counted request: the sizes and the window.
LEMMA AdmitInv ==
  ASSUME IInv, NEW h \in Handlers, At(h, "reserve"),
         NEW now \in handler[h].since..clock, MayReserve(handler[h], now),
         Count(handler[h].op, now), NEW STATE e, Becomes(h, e), Fit(e), Aside
  PROVE  IInv'
<1> DEFINE r == handler[h]
           stamp == [n |-> session.calls, at |-> now, op |-> r.op]
<1>0. session.state # "NONE" /\ Fit(handler[h]) /\ clock \in Nat
  BY DEF IInv, Before, Limited, Shape, At
<1>1. /\ session' = [session EXCEPT !.calls = @ + 1, !.opCalls[r.op] = @ + 1,
                                    !.stamps = Recent(session, now) \cup {stamp}]
      /\ admitted' = admitted \cup {stamp}
      /\ handler' = [handler EXCEPT ![h] = e]
      /\ UNCHANGED <<catalog, budget, intent, clock>>
  BY DEF Count, Becomes, Aside
<1>2. /\ session.state # "NONE"
      /\ ~(session.opCalls[r.op] >= session.limits.calls[r.op])
      /\ ~(session.calls >= session.limits.total)
      /\ ~(Cardinality(Recent(session, now)) >= session.limits.rate)
  BY <1>0 DEF MayReserve, RefusedForCalls, RefusedForRate
<1>3. now \in Nat /\ r.op \in DOMAIN session.limits.calls
  BY <1>0 DEF At, Fit
<1>4. session' = [state |-> session.state, limits |-> session.limits, calls |-> session.calls + 1,
                  opCalls |-> [session.opCalls EXCEPT ![r.op] = @ + 1],
                  stamps |-> Recent(session, now) \cup {stamp}]
  <2>1. session = [state |-> session.state, limits |-> session.limits, calls |-> session.calls,
                   opCalls |-> session.opCalls, stamps |-> session.stamps]
    BY <1>2 DEF IInv, Limited
  <2> HIDE DEF stamp
  <2> QED BY <1>1, <2>1
<1> HIDE DEF r
<1>5. /\ session.calls \in Nat /\ session.calls = Cardinality(admitted)
      /\ IsFiniteSet(admitted) /\ session.stamps \subseteq admitted
      /\ \A a \in admitted : a.n \in Nat /\ a.n < session.calls /\ a.at \in Nat
      /\ session.limits.total \in Nat /\ session.limits.rate \in Nat \ {0}
  BY <1>2 DEF IInv, Shape, Limited, Counted, Stamped
<1>6. stamp \notin admitted /\ stamp.at = now /\ stamp.op = r.op /\ stamp.n = session.calls
  BY <1>5
<1> HIDE DEF stamp
<1>7. IntentInv'
  BY <1>1, <1>2, <1>4 DEF IInv, IntentInv, WithinBudget, CompiledIsValid
<1>8. Before'
  BY <1>2, <1>4 DEF Before
<1>9. Shape'
  <2>1. IsFiniteSet(admitted')
    BY <1>1, <1>5, FS_AddElement
  <2> QED BY <1>1, <1>3, <1>5, <1>6, <2>1 DEF IInv, Shape
<1>10. Limited'
  <2>1. \A g \in Handlers : handler'[g] = e \/ handler'[g] = handler[g]
    BY <1>1 DEF IInv, Shape
  <2>2. session'.limits = session.limits /\ session'.state # "NONE"
    BY <1>2, <1>4
  <2>3. \A g \in Handlers : Fit(handler[g]) /\ (Fit(handler[g])' <=> Fit(handler'[g]))
    BY <1>2, <2>2 DEF IInv, Limited, Fit
  <2>4. \A g \in Handlers : Fit(handler[g])'
    BY <2>1, <2>3
  <2>5. Limited
    BY DEF IInv
  <2> QED BY <1>2, <1>4, <2>2, <2>4, <2>5 DEF Limited
<1>11. Counted'
  <2> PICK key : key = r.op
    OBVIOUS
  <2>1. Cardinality(admitted') = Cardinality(admitted) + 1
    BY <1>1, <1>5, <1>6, FS_AddElement
  <2>2. OfOp(key)' = OfOp(key) \cup {stamp}
    BY <1>1, <1>6 DEF OfOp
  <2>3. IsFiniteSet(OfOp(key)) /\ stamp \notin OfOp(key)
    BY <1>5, <1>6, FS_Subset DEF OfOp
  <2>4. Cardinality(OfOp(key)') = Cardinality(OfOp(key)) + 1
    BY <2>2, <2>3, FS_AddElement
  <2>5. \A op : op # key => OfOp(op)' = OfOp(op)
    BY <1>1, <1>6 DEF OfOp
  <2>6. /\ session.opCalls = [op \in DOMAIN session.limits.calls |-> Cardinality(OfOp(op))]
        /\ \A op \in DOMAIN session.limits.calls :
             /\ session.opCalls[op] <= session.limits.calls[op]
             /\ session.limits.calls[op] \in Nat
    BY <1>2 DEF IInv, Counted, Limited
  <2>7. session'.opCalls
          = [op \in DOMAIN session.limits.calls |-> Cardinality(OfOp(op)')]
    BY <1>3, <1>4, <2>4, <2>5, <2>6
  <2>8. Cardinality(OfOp(key)) \in Nat
    BY <2>3, FS_CardinalityType
  <2>9. ASSUME NEW op \in DOMAIN session.limits.calls
        PROVE  session'.opCalls[op] <= session.limits.calls[op]
    <3>1. CASE op = key
      <4>1. session.opCalls[key] = Cardinality(OfOp(key)) /\ session.limits.calls[key] \in Nat
            /\ ~(session.opCalls[key] >= session.limits.calls[key])
        BY <1>2, <1>3, <2>6
      <4>2. session'.opCalls[key] = session.opCalls[key] + 1
        BY <1>3, <1>4, <2>6
      <4> QED BY <3>1, <4>1, <4>2, <2>8
    <3>2. CASE op # key
      BY <1>4, <2>6, <3>2
    <3> QED BY <3>1, <3>2
  <2>10. \A a \in admitted' : a.n \in Nat /\ a.n < session'.calls
    BY <1>1, <1>4, <1>5, <1>6
  <2> QED BY <1>2, <1>4, <1>5, <2>1, <2>7, <2>9, <2>10 DEF Counted
<1>12. Stamped'
  <2>1. IsFiniteSet(Recent(session, now)) /\ stamp \notin Recent(session, now)
    BY <1>5, <1>6, FS_Subset DEF Recent
  <2>2. Cardinality(Recent(session, now) \cup {stamp}) = Cardinality(Recent(session, now)) + 1
        /\ Cardinality(Recent(session, now)) \in Nat
    BY <2>1, FS_AddElement, FS_CardinalityType
  <2>3. Cardinality(session'.stamps) <= session'.limits.rate
    BY <1>2, <1>4, <1>5, <2>2
  <2>4. session'.stamps \subseteq admitted'
    BY <1>1, <1>4, <1>5 DEF Recent
  <2>5. ASSUME NEW a \in admitted' \ session'.stamps
        PROVE  \E b \in admitted' : a.at + Minute <= b.at
    <3>1. a \in admitted /\ a \notin Recent(session, now)
      BY <1>1, <1>4, <2>5
    <3>2. CASE a \in session.stamps
      <4>1. ~(a.at + Minute > now)
        BY <3>1, <3>2 DEF Recent
      <4>2. a.at + Minute <= stamp.at
        BY <4>1, <3>1, <1>3, <1>5, <1>6, MeterAssumption
      <4> QED BY <1>1, <4>2
    <3>3. CASE a \notin session.stamps
      BY <1>1, <1>2, <3>1, <3>3 DEF IInv, Stamped
    <3> QED BY <3>2, <3>3
  <2> QED BY <2>3, <2>4, <2>5 DEF Stamped
<1> QED BY <1>7, <1>8, <1>9, <1>10, <1>11, <1>12 DEF IInv

LEMMA ReserveRequestInv ==
  ASSUME IInv, NEW h \in Handlers, ReserveRequest(h)
  PROVE  IInv'
<1> DEFINE r == handler[h]
<1>1. At(h, "reserve") /\ Aside /\ session.state # "NONE"
  BY DEF ReserveRequest, At, IInv, Before
<1>2. PICK now \in r.since..clock :
        \/ /\ MayReserve(r, now)
           /\ Count(r.op, now)
           /\ Becomes(h, [stage |-> IF r.expected = "ACTIVE" THEN "serve" ELSE "settle"])
        \/ /\ Becomes(h, IF r.expected = "ACTIVE" THEN None ELSE [stage |-> "unlock"])
           /\ UNCHANGED <<session, admitted>>
  BY DEF ReserveRequest
<1>3. /\ Fit([stage |-> IF r.expected = "ACTIVE" THEN "serve" ELSE "settle"])
      /\ Fit(IF r.expected = "ACTIVE" THEN None ELSE [stage |-> "unlock"])
  BY NothingAhead
<1> HIDE DEF r
<1>4. CASE /\ MayReserve(r, now) /\ Count(r.op, now)
           /\ Becomes(h, [stage |-> IF r.expected = "ACTIVE" THEN "serve" ELSE "settle"])
  BY <1>1, <1>3, <1>4, AdmitInv DEF r
<1>5. CASE /\ Becomes(h, IF r.expected = "ACTIVE" THEN None ELSE [stage |-> "unlock"])
           /\ UNCHANGED <<session, admitted>>
  <2>1. UNCHANGED <<catalog, budget, intent, clock, admitted>>
    BY <1>1, <1>5 DEF Aside
  <2> QED BY <1>1, <1>3, <1>5, <2>1, MovesInv
<1> QED BY <1>2, <1>4, <1>5

LEMMA NextInv == IInv /\ [Next]_vars => IInv'
<1> SUFFICES ASSUME IInv, [Next]_vars PROVE IInv'
  OBVIOUS
<1>2. CASE Tick
  <2>1. UNCHANGED <<catalog, budget, intent, session, handler, admitted>> /\ clock' = clock + 1
    BY <1>2 DEF Tick
  <2> QED BY <2>1 DEF IInv, IntentInv, WithinBudget, CompiledIsValid, Before, Shape,
                      Limited, Fit, Counted, Stamped, OfOp
<1>3. CASE UNCHANGED vars
  BY <1>3 DEF vars, IInv, IntentInv, WithinBudget, CompiledIsValid, Before, Shape, Limited,
              Fit, Counted, Stamped, OfOp
<1> QED BY <1>2, <1>3, CompileInv, StartSessionInv, RequestInv, ReserveRequestInv DEF Next

-----------------------------------------------------------------------------

\* The inductive invariant holds throughout.
LEMMA Invariant == Spec => []IInv
<1> QED BY InitInv, NextInv, PTL DEF Spec

\* Whatever the catalog, the request and the proposals: an accepted policy keeps
\* usage, bond and penalties within what the user offered (compiler.py, compiler.ts).
THEOREM BudgetAlwaysKept == Spec => []WithinBudget
<1>1. IInv => WithinBudget
  BY DEF IInv, IntentInv, WithinBudget
<1> QED BY <1>1, Invariant, PTL

\* Whatever a model proposes for whatever catalog and request: the gateway refuses
\* no policy of the intent agent, and one of the local compiler only for its number
\* of calls or for a bonded action that the catalog does not offer.
THEOREM CompiledAlwaysValid == Spec => []CompiledIsValid
<1>1. IInv => CompiledIsValid
  BY DEF IInv, IntentInv
<1> QED BY <1>1, Invariant, PTL

\* Whatever the number of concurrent requests: reserveRequest counts no more of
\* them than the policy allows, in all and of each operation.
THEOREM CallLimitsAlwaysHold == Spec => []CallLimitsHold
<1>1. IInv => CallLimitsHold
  BY DEF IInv, Counted, CallLimitsHold, OfOp
<1> QED BY <1>1, Invariant, PTL

\* Whatever the number of concurrent requests and however late their transactions
\* run: the minute of the newest counted request never exceeds the rate.
THEOREM RateAlwaysHolds == Spec => []RateHolds
<1>1. ASSUME IInv, NEW a \in admitted, \A b \in admitted : b.at <= a.at
      PROVE  Cardinality({b \in admitted : b.at + Minute > a.at}) <= session.limits.rate
  <2> DEFINE newest == {b \in admitted : b.at + Minute > a.at}
  <2>1. session.state # "NONE"
    BY <1>1 DEF IInv, Before
  <2>2. newest \subseteq session.stamps
    <3> SUFFICES ASSUME NEW b \in newest, b \notin session.stamps PROVE FALSE
      OBVIOUS
    <3>1. PICK c \in admitted : b.at + Minute <= c.at
      BY <1>1, <2>1 DEF IInv, Stamped
    <3>2. c.at <= a.at /\ b.at + Minute > a.at
      BY <1>1
    <3>3. a.at \in Nat /\ b.at \in Nat /\ c.at \in Nat /\ Minute \in Nat
      BY <1>1, MeterAssumption DEF IInv, Shape
    <3> QED BY <3>1, <3>2, <3>3
  <2>3. IsFiniteSet(session.stamps) /\ Cardinality(session.stamps) <= session.limits.rate
        /\ session.limits.rate \in Nat
    BY <1>1, <2>1, FS_Subset DEF IInv, Stamped, Shape, Limited
  <2>4. Cardinality(newest) <= Cardinality(session.stamps) /\ Cardinality(newest) \in Nat
        /\ Cardinality(session.stamps) \in Nat
    BY <2>2, <2>3, FS_Subset, FS_CardinalityType
  <2> QED BY <2>3, <2>4
<1>2. IInv => RateHolds
  BY <1>1 DEF RateHolds
<1> QED BY <1>2, Invariant, PTL
=============================================================================
