----------------------------- MODULE AccessMeter -----------------------------
(***************************************************************************)
(* From a task to metered calls.  POST /v1/intents has the task compiled   *)
(* and checks the policy; the session keeps its limits; and every request  *)
(* to /v1/access passes authorize, which checks a copy of the session, and *)
(* then reserveRequest, the transaction that checks again and counts.  An  *)
(* expire request locks the session first and is counted under the lock.   *)
(* Requests, a close and a run of the worker are in progress at once, each *)
(* await a step of its own.                                                *)
(*                                                                         *)
(* The session starts when its policy is compiled, and the request for it  *)
(* is forgotten then: the meter reads nothing of the money.                *)
(***************************************************************************)
EXTENDS PolicyCompiler, FiniteSets

CONSTANTS
  Catalogs, Budgets,  \* what the merchant may publish, what a request may offer
  Proposals(_),       \* what a model may answer for a catalog, the malformed included
  Asked,              \* how many items a task may want compared
  MaxRepairs,         \* further proposals asked for after a rejected one
  Minute,             \* the sliding window of the rate limit
  Handlers,           \* requests in progress at once
  MaxClock            \* bound

\* The schemas: amounts are naturals; calls, rates and times are positive where
\* they are given (PolicyProposal of the agent; validateCatalog at the start of the
\* gateway and MerchantCatalog of the agent; the body schema of POST /v1/intents).
InSchema(p) ==
  /\ {p.usage, p.bond, p.penalty} \subseteq Nat
  /\ {p.total, p.rate, p.ttl} \subseteq Nat \ {0}
  /\ \A id \in DOMAIN p.ops : p.ops[id].calls \in Nat \ {0}
  /\ \A id \in DOMAIN p.actions :
       /\ {p.actions[id].active, p.actions[id].ttl} \subseteq Nat \ {0}
       /\ p.actions[id].penalty \in Nat

ASSUME MeterAssumption ==
  /\ Minute \in Nat /\ Asked \subseteq Nat
  /\ \A b \in Budgets : b.usage \in Nat /\ b.bond \in Nat
  /\ \A c \in Catalogs :
       /\ {c.usage, c.bond, c.penalty} \subseteq Nat \cup {None}
       /\ {c.total, c.rate, c.ttl} \subseteq (Nat \ {0}) \cup {None}
       /\ c.expiry \in Nat
       /\ IsFiniteSet(c.ops) /\ \A id \in c.ops : c.calls[id] \in Nat \ {0}
       /\ \A p \in Proposals(c) \ {None} : InSchema(p)

VARIABLES
  catalog,            \* fixed by the deployment
  budget,             \* that of the request, None once the session has started
  attempt,            \* proposals rejected so far
  intent,             \* [outcome, origin, policy] of POST /v1/intents
  session,            \* [state, limits, calls, opCalls, stamps], only state at first
  handler,            \* None, or what a request is about: [stage, ...]
  clock,
  admitted            \* every request that was counted

vars == <<catalog, budget, attempt, intent, session, handler, clock, admitted>>

Pending == [outcome |-> "pending", origin |-> None, policy |-> None]

Init ==
  /\ catalog \in Catalogs
  /\ budget \in Budgets
  /\ attempt = 0
  /\ intent = Pending
  /\ session = [state |-> "NONE"]
  /\ handler = [h \in Handlers |-> None]
  /\ clock = 0
  /\ admitted = {}

-----------------------------------------------------------------------------
(* POST /v1/intents                                                        *)

Checked(origin, policy) ==
  intent' = [outcome |-> IF Valid(catalog, policy) THEN "accepted" ELSE "invalid",
             origin |-> origin, policy |-> policy]

NoSession == UNCHANGED <<catalog, budget, session, handler, clock, admitted>>

\* IntentCompiler.compile of the agent: one proposal of its provider.
Propose(p) ==
  /\ Acceptable(catalog, p)
  /\ Checked("agent", Build(catalog, budget, p))
  /\ UNCHANGED attempt
  /\ NoSession

\* A rejected proposal goes back as feedback until the attempts are used up.
RejectProposal(p) ==
  /\ ~Acceptable(catalog, p)
  /\ attempt' = attempt + 1
  /\ intent' = IF attempt = MaxRepairs THEN [Pending EXCEPT !.outcome = "failed"] ELSE intent
  /\ NoSession

\* The gateway without an agent compiles by itself.
CompileLocally(reserves, asked) ==
  /\ attempt = 0
  /\ Checked("local", LocalPolicy(catalog, budget, reserves, asked))
  /\ UNCHANGED attempt
  /\ NoSession

StartSession ==
  /\ intent.outcome = "accepted"
  /\ session' = [state |-> "ACTIVE",
                 limits |-> [calls |-> intent.policy.calls, total |-> intent.policy.total,
                             rate |-> intent.policy.rate, ends |-> clock + intent.policy.ttl],
                 calls |-> 0,
                 opCalls |-> [id \in DOMAIN intent.policy.calls |-> 0],
                 stamps |-> {}]
  /\ intent' = [Pending EXCEPT !.outcome = "used"]
  /\ attempt' = 0
  /\ budget' = None
  /\ UNCHANGED <<catalog, handler, clock, admitted>>

-----------------------------------------------------------------------------
(* /v1/access                                                              *)

Recent(s, now) == {stamp \in s.stamps : stamp.at + Minute > now}

RefusedForCalls(s, op) ==
  \/ s.opCalls[op] >= s.limits.calls[op]
  \/ s.calls >= s.limits.total

RefusedForRate(s, now) == Cardinality(Recent(s, now)) >= s.limits.rate

At(h, stage) == handler[h] # None /\ handler[h].stage = stage
Becomes(h, next) == handler' = [handler EXCEPT ![h] = next]
Aside == UNCHANGED <<catalog, budget, attempt, intent, clock>>

\* authorize reads the session.
GetSession(h, op) ==
  /\ handler[h] = None
  /\ session.state # "NONE"
  /\ Becomes(h, [stage |-> "check", op |-> op, copy |-> session])
  /\ Aside /\ UNCHANGED <<session, admitted>>

\* Then it reads the clock and checks the copy.  An expire request may also ask
\* for what became of the reservation that ended the session.
Authorized(copy, op) ==
  /\ copy.state = "ACTIVE" \/ (op = Expire /\ copy.state = "EXPIRED")
  /\ clock < copy.limits.ends
  /\ op \in DOMAIN copy.limits.calls
  /\ ~RefusedForCalls(copy, op)
  /\ ~RefusedForRate(copy, clock)

\* A request about to be counted, under a state it expects, with a time it reads
\* from now on.
Reserving(op, state) ==
  [stage |-> "reserve", op |-> op, since |-> clock, expected |-> state]

Authorize(h) ==
  /\ At(h, "check")
  /\ LET op == handler[h].op IN
       Becomes(h, IF ~Authorized(handler[h].copy, op) THEN None
                  ELSE IF op = Expire THEN [stage |-> "prepare", op |-> op]
                  ELSE Reserving(op, "ACTIVE"))
  /\ Aside /\ UNCHANGED <<session, admitted>>

\* An expire request whose reservation is still active locks the session, unless
\* it is locked or has ended.  Any other is answered without being counted, or
\* refused with an exception.
LockSession(h) ==
  /\ At(h, "prepare")
  /\ \/ /\ session.state = "ACTIVE"
        /\ session' = [session EXCEPT !.state = "SETTLING"]
        /\ Becomes(h, Reserving(handler[h].op, "SETTLING"))
     \/ /\ \/ Becomes(h, None)
           \/ Becomes(h, [stage |-> "unlock"])
        /\ UNCHANGED session
  /\ Aside /\ UNCHANGED admitted

\* slip: the transaction trusts the call limits of authorize.
ReserveByRate(r, now) == session.state = r.expected /\ ~RefusedForRate(session, now)
\* slip: the transaction trusts the rate limit of authorize.
ReserveByCalls(r, now) == session.state = r.expected /\ ~RefusedForCalls(session, r.op)

MayReserve(r, now) ==
  /\ session.state = r.expected
  /\ ~RefusedForCalls(session, r.op)
  /\ ~RefusedForRate(session, now)

\* It drops the old time stamps and counts.
Count(op, now) ==
  LET stamp == [n |-> session.calls, at |-> now, op |-> op] IN
    /\ session' = [session EXCEPT !.calls = @ + 1,
                                  !.opCalls[op] = @ + 1,
                                  !.stamps = Recent(session, now) \cup {stamp}]
    /\ admitted' = admitted \cup {stamp}

\* reserveRequest checks again.  A refused request ends; if it holds the lock it
\* gives that back.
ReserveRequest(h) ==
  /\ At(h, "reserve")
  /\ LET r == handler[h] IN
       \E now \in r.since..clock :
         \/ /\ MayReserve(r, now)
            /\ Count(r.op, now)
            /\ Becomes(h, [stage |-> IF r.expected = "ACTIVE" THEN "serve" ELSE "settle"])
         \/ /\ ~MayReserve(r, now)
            /\ Becomes(h, IF r.expected = "ACTIVE" THEN None ELSE [stage |-> "unlock"])
            /\ UNCHANGED <<session, admitted>>
  /\ Aside

\* The shop answers.  If it throws, the catch block unlocks the session, whoever
\* has locked it.
Serve(h) ==
  /\ At(h, "serve")
  /\ \/ Becomes(h, None)
     \/ Becomes(h, [stage |-> "unlock"])
  /\ Aside /\ UNCHANGED <<session, admitted>>

-----------------------------------------------------------------------------
(* What settlements do to the state that requests are counted under.       *)

\* A close, or a run of the worker: claimSettlement.  It takes over a lock that
\* has no lease, or one that has run out.
ClaimSettlement(h) ==
  /\ handler[h] = None
  /\ session.state \in {"ACTIVE", "SETTLING"}
  /\ session' = [session EXCEPT !.state = "SETTLING"]
  /\ Becomes(h, [stage |-> "settle"])
  /\ Aside /\ UNCHANGED admitted

\* The terminal transition of a settlement that has succeeded.
EndSession(h) ==
  /\ At(h, "settle")
  /\ session.state = "SETTLING"
  /\ \E state \in {"CLOSED", "EXPIRED"} : session' = [session EXCEPT !.state = state]
  /\ Becomes(h, None)
  /\ Aside /\ UNCHANGED admitted

\* unlock: a settlement that did not succeed lets requests be counted again.
Unlock(h) ==
  /\ At(h, "settle") \/ At(h, "unlock")
  /\ session' = IF session.state = "SETTLING" THEN [session EXCEPT !.state = "ACTIVE"]
                ELSE session
  /\ Becomes(h, None)
  /\ Aside /\ UNCHANGED admitted

Tick ==
  /\ session.state # "NONE"
  /\ clock < MaxClock
  /\ clock' = clock + 1
  /\ UNCHANGED <<catalog, budget, attempt, intent, session, handler, admitted>>

Compile ==
  /\ intent = Pending
  /\ \/ \E p \in Proposals(catalog) \cup
               {FakeProposal(catalog, budget, wanted, catalog.fields) :
                  wanted \in SUBSET catalog.ops} :
          Propose(p) \/ RejectProposal(p)
     \/ \E reserves \in BOOLEAN, asked \in Asked : CompileLocally(reserves, asked)

Next ==
  \/ Compile
  \/ StartSession
  \/ \E h \in Handlers :
       \/ \E op \in catalog.ops : GetSession(h, op)
       \/ Authorize(h) \/ LockSession(h) \/ ReserveRequest(h) \/ Serve(h)
       \/ ClaimSettlement(h) \/ EndSession(h) \/ Unlock(h)
  \/ Tick

Spec == Init /\ [][Next]_vars

-----------------------------------------------------------------------------
(* Properties                                                              *)

\* The gateway refuses no policy the intent agent built: whatever a model
\* proposes, the clamps leave nothing for validateAccessPolicy to object to.
\* The local compiler alone may be refused: for its number of calls, or because it
\* puts a bond on a reservation that the catalog does not offer as a bonded one.
CompiledIsValid ==
  intent.outcome = "invalid" =>
    /\ intent.origin = "local"
    /\ \/ Sum(intent.policy.calls) = 0
       \/ ~Under(Sum(intent.policy.calls), catalog.total)
       \/ /\ DOMAIN intent.policy.actions # {}
          /\ ~(Reserve \in catalog.ops /\ IsBonded(catalog, Reserve))

\* An accepted policy costs the user at most what the request offered: the usage
\* within its usage cap, the bond within its bond cap, and every penalty within
\* the bond.
WithinBudget ==
  intent.outcome = "accepted" =>
    /\ intent.policy.usage <= budget.usage
    /\ intent.policy.bond <= budget.bond
    /\ intent.policy.penalty <= intent.policy.bond
    /\ \A id \in DOMAIN intent.policy.actions :
         intent.policy.actions[id].penalty <= intent.policy.penalty

\* Concurrent requests, each authorized on a copy read before the others were
\* counted, never exceed the calls of an operation or of the session.
CallLimitsHold ==
  session.state # "NONE" =>
    /\ Cardinality(admitted) <= session.limits.total
    /\ \A op \in DOMAIN session.limits.calls :
         Cardinality({a \in admitted : a.op = op}) <= session.limits.calls[op]

\* The minute that ends at the newest counted request holds at most the rate's
\* requests, although each was counted with a time read before its transaction
\* and the transactions drop old stamps by that time.
RateHolds ==
  \A a \in admitted :
    (\A b \in admitted : b.at <= a.at) =>
      Cardinality({b \in admitted : b.at + Minute > a.at}) <= session.limits.rate
=============================================================================
