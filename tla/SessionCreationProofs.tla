------------------------ MODULE SessionCreationProofs ------------------------
(***************************************************************************)
(* Proofs about SessionCreation and the sponsored demo on top of it, for   *)
(* any number of requests, keys, session ids, faults and runs.             *)
(***************************************************************************)
EXTENDS PublicDemo, TLAPS

USE CreationAssumption

Fields == {"stage", "key", "body", "n", "sid", "copy"}
\* The stages in which a request has done with its claim.
Last == {"answer"} \cup Releasing
USE DEF Releasing, Last

(* A request at work holds the claim of its key: the claim is its own, and  *)
(* it is still in progress until the request has completed it or gives up.  *)
(* Where a release was repeated, a request may have lost its claim, and only *)
(* one that has just completed it knows that it is there.                   *)
Holds(h) ==
  /\ DOMAIN handler[h] = Fields
  /\ Stage(h) \in Stages
  /\ handler[h].key \in Keys /\ handler[h].n \in Ids /\ Sid(h) \in AllSids
  /\ Body(h) \in Bodies
  /\ handler[h].key \notin twice \/ Stage(h) = "answer" =>
       claims[handler[h].key] \in Claims /\ claims[handler[h].key].body = Body(h)
  /\ handler[h].key \notin twice /\ Stage(h) \notin Last =>
       claims[handler[h].key].answer = None
  /\ Stage(h) = "answer" => claims[handler[h].key].answer # None

(* The inductive invariant of the claims: every request at work holds its   *)
(* claim, no two of them the same, and each claim in progress has a holder, *)
(* except where one was left behind or a release was repeated.              *)
ClaimInv ==
  /\ sends \in Nat
  /\ claims \in [Keys -> Claims \cup {None}]
  /\ DOMAIN handler = Slots
  /\ left \subseteq Keys /\ twice \subseteq Keys
  /\ \A h \in Slots : handler[h] = Idle \/ Holds(h)
  /\ \A g, h \in Slots : g # h /\ handler[g] # Idle /\ handler[h] # Idle =>
       handler[g].key # handler[h].key \/ handler[h].key \in twice
  /\ \A k \in Keys \ (left \cup twice) : claims[k] # None /\ claims[k].answer = None =>
       \E h \in Slots : handler[h] # Idle /\ handler[h].key = k

LEMMA IdleIsNoStage == Idle.stage \notin Stages
BY DEF Idle, Stages

LEMMA ClaimInvImplies == ClaimInv => ClaimHasHolder
BY DEF ClaimInv, ClaimHasHolder

(* Where a request may go next, and that it goes nowhere near an answer     *)
(* without completing its claim.                                            *)
LEMMA NextStage ==
  ASSUME NEW i, NEW stage \in Stages,
         stage \notin {"complete", "delete"} \cup Last
  PROVE  After(i)[stage] \in Stages \ Last
BY DEF After, Stages

LEMMA LastStage ==
  ASSUME NEW i PROVE After(i)["complete"] = "answer"
BY DEF After

(* A request that moves on and leaves the claims alone keeps the invariant. *)
LEMMA MoveOn ==
  ASSUME ClaimInv, NEW h \in Slots, handler[h] # Idle,
         NEW r, DOMAIN r = Fields, r.key = handler[h].key, r.body = Body(h),
         r.n = handler[h].n, r.sid = Sid(h), r.stage \in Stages,
         r.stage # "answer", r.stage \in Releasing \/ Stage(h) \notin Last,
         handler' = [handler EXCEPT ![h] = r],
         UNCHANGED <<claims, sends, left, twice>>
  PROVE  ClaimInv'
<1>1. Holds(h)
  BY DEF ClaimInv
<1>2. r # Idle
  BY DEF Fields, Idle, Stages
<1>3. Holds(h)'
  BY <1>1 DEF Holds, ClaimInv, Stage, Body, Sid
<1>4. \A g \in Slots : handler'[g] = Idle \/ Holds(g)'
  <2> TAKE g \in Slots
  <2>1. CASE g = h
    BY <2>1, <1>3
  <2>2. CASE g # h
    <3>1. handler'[g] = handler[g]
      BY <2>2 DEF ClaimInv
    <3> QED
      BY <3>1 DEF ClaimInv, Holds, Stage, Body, Sid
  <2> QED
    BY <2>1, <2>2
<1>5. \A g \in Slots : /\ (handler'[g] = Idle <=> handler[g] = Idle)
                       /\ handler[g] # Idle => handler'[g].key = handler[g].key
  BY <1>2 DEF ClaimInv
<1> QED
  BY <1>4, <1>5 DEF ClaimInv

LEMMA GotoKeeps ==
  ASSUME ClaimInv, NEW h \in Slots, Stage(h) \in Stages, NEW s \in Stages,
         s # "answer", s \in Releasing \/ Stage(h) \notin Last,
         Goto(h, s), UNCHANGED <<claims, sends, left, twice>>
  PROVE  ClaimInv'
<1> DEFINE r == [handler[h] EXCEPT !.stage = s]
<1>1. handler[h] # Idle
  BY IdleIsNoStage DEF Stage
<1>2. Holds(h)
  BY <1>1 DEF ClaimInv
<1>3. DOMAIN r = Fields /\ r.stage = s /\ r.key = handler[h].key /\ r.body = Body(h)
      /\ r.n = handler[h].n /\ r.sid = Sid(h)
  BY <1>2 DEF Holds, Fields, Body, Sid
<1>4. handler' = [handler EXCEPT ![h] = r]
  BY DEF Goto
<1> QED
  BY <1>1, <1>3, <1>4, MoveOn

LEMMA AdvanceKeeps ==
  ASSUME ClaimInv, NEW h \in Slots,
         Stage(h) \in Stages \ ({"complete", "delete"} \cup Last),
         Advance(h), UNCHANGED <<claims, sends, left, twice>>
  PROVE  ClaimInv'
<1>1. After(Body(h).intent)[Stage(h)] \in Stages \ Last
  BY NextStage
<1> QED
  BY <1>1, GotoKeeps DEF Advance

(* The steps of a request that leave the claims alone.                      *)
LEMMA WorkKeeps ==
  ASSUME ClaimInv, NEW h \in Slots,
         \/ CheckSid(h) \/ CreateSession(h) \/ Emit(h) \/ Transition(h) \/ SaveSession(h)
         \/ VerifyPayment(h) \/ VerifyBond(h) \/ DeleteSession(h) \/ Throw(h)
  PROVE  ClaimInv'
<1> DEFINE Same == UNCHANGED <<claims, sends, left, twice>>
<1>1. CASE CheckSid(h)
  <2>1. Stage(h) = "exists" /\ Same /\ (Advance(h) \/ Goto(h, "release"))
    BY <1>1 DEF CheckSid, failures
  <2> QED
    BY <2>1, AdvanceKeeps, GotoKeeps DEF Stages
<1>2. CASE CreateSession(h)
  <2>1. Stage(h) = "create" /\ Same /\ (Advance(h) \/ Goto(h, "release"))
    BY <1>2 DEF CreateSession, failures
  <2> QED
    BY <2>1, AdvanceKeeps, GotoKeeps DEF Stages
<1>3. CASE Emit(h)
  <2>1. Stage(h) \in DOMAIN EventAt /\ Same /\ Advance(h)
    BY <1>3 DEF Emit, failures
  <2>2. Stage(h) \in Stages \ ({"complete", "delete"} \cup Last)
    BY <2>1 DEF EventAt, Stages
  <2> QED
    BY <2>1, <2>2, AdvanceKeeps
<1>4. CASE Transition(h)
  <2> DEFINE stages == {"to_policy", "to_payment", "to_bonded", "to_active"}
             next == After(Body(h).intent)[Stage(h)]
             moved == [sessions[Sid(h)] EXCEPT
                         !.state = Move(Body(h).intent)[Stage(h)][2]]
  <2>1. Stage(h) \in stages /\ Same
    BY <1>4 DEF Transition, failures
  <2>2. \/ Goto(h, "catch")
        \/ handler' = [handler EXCEPT ![h].copy = moved, ![h].stage = next]
    BY <1>4 DEF Transition
  <2>3. next \in Stages \ Last
    BY <2>1, NextStage DEF Stages
  <2>4. CASE Goto(h, "catch")
    BY <2>1, <2>4, GotoKeeps DEF Stages
  <2>5. CASE handler' = [handler EXCEPT ![h].copy = moved, ![h].stage = next]
    <3> HIDE DEF moved, next
    <3> DEFINE r == [[handler[h] EXCEPT !.copy = moved] EXCEPT !.stage = next]
    <3>1. handler[h] # Idle
      BY <2>1, IdleIsNoStage DEF Stage, Stages
    <3>2. Holds(h)
      BY <3>1 DEF ClaimInv
    <3>3. DOMAIN r = Fields /\ r.stage = next /\ r.key = handler[h].key
          /\ r.body = Body(h) /\ r.n = handler[h].n /\ r.sid = Sid(h)
      BY <3>2 DEF Holds, Fields, Body, Sid
    <3>4. handler' = [handler EXCEPT ![h] = r]
      BY <2>5 DEF ClaimInv
    <3>5. Stage(h) \notin Last
      BY <2>1
    <3> HIDE DEF r
    <3> QED
      BY <2>1, <2>3, <3>1, <3>3, <3>4, <3>5, MoveOn
  <2> QED
    BY <2>2, <2>4, <2>5
<1>5. CASE SaveSession(h)
  <2>1. Stage(h) \in {"save_payment", "save_bond", "save_token"} /\ Same /\ Advance(h)
    BY <1>5 DEF SaveSession, failures
  <2> QED
    BY <2>1, AdvanceKeeps DEF Stages
<1>6. CASE VerifyPayment(h)
  <2>1. Stage(h) = "verify" /\ Same /\ (Advance(h) \/ Goto(h, "delete"))
    BY <1>6 DEF VerifyPayment, failures
  <2> QED
    BY <2>1, AdvanceKeeps, GotoKeeps DEF Stages
<1>7. CASE VerifyBond(h)
  <2>1. Stage(h) = "bond" /\ Same /\ (Advance(h) \/ Goto(h, "delete"))
    BY <1>7 DEF VerifyBond, failures
  <2> QED
    BY <2>1, AdvanceKeeps, GotoKeeps DEF Stages
<1>8. CASE DeleteSession(h)
  <2>1. Stage(h) = "delete" /\ Same /\ Goto(h, "release")
    BY <1>8 DEF DeleteSession, failures
  <2> QED
    BY <2>1, GotoKeeps DEF Stages
<1>9. CASE Throw(h)
  <2>1. Stage(h) \in Stages /\ Same /\ Goto(h, "catch")
    BY <1>9 DEF Throw
  <2> QED
    BY <2>1, GotoKeeps DEF Stages
<1> QED
  BY <1>1, <1>2, <1>3, <1>4, <1>5, <1>6, <1>7, <1>8, <1>9

(* The answer is stored under a key once, unless a release was repeated.    *)
WrittenOnceStep ==
  \A k \in Keys \ twice : Stored(k)!Write \/ UNCHANGED StoredAnswerOf(k)

(* What happens to one claim does not matter to the requests of other keys, *)
(* nor to those that know that theirs may be lost.                          *)
LEMMA OthersKeep ==
  ASSUME ClaimInv, NEW k \in Keys, twice \subseteq twice',
         \A j \in Keys \ {k} : claims'[j] = claims[j],
         k \in twice => \/ claims'[k] = claims[k]
                        \/ claims[k] = None \/ claims[k].answer = None
                        \/ claims'[k] \in Claims /\ claims'[k].body = claims[k].body
                             /\ claims'[k].answer # None,
         NEW g \in Slots, handler'[g] = handler[g], handler[g] # Idle,
         handler[g].key # k \/ k \in twice
  PROVE  Holds(g)'
<1>1. Holds(g)
  BY DEF ClaimInv
<1>2. Stage(g)' = Stage(g) /\ Body(g)' = Body(g) /\ Sid(g)' = Sid(g)
  BY DEF Stage, Body, Sid
<1>3. CASE handler[g].key # k
  <2>1. claims'[handler[g].key] = claims[handler[g].key]
    BY <1>1, <1>3 DEF Holds
  <2> QED
    BY <1>1, <1>2, <2>1 DEF Holds
<1>4. CASE handler[g].key = k /\ k \in twice
  <2>1. k \in twice'
    BY <1>4
  <2>2. Stage(g) = "answer" =>
          claims'[k] \in Claims /\ claims'[k].body = Body(g) /\ claims'[k].answer # None
    BY <1>1, <1>4 DEF Holds
  <2> QED
    BY <1>1, <1>2, <1>4, <2>1, <2>2 DEF Holds
<1> QED
  BY <1>1, <1>3, <1>4

LEMMA CompleteKeeps ==
  ASSUME ClaimInv, NEW h \in Slots, Complete(h)
  PROVE  ClaimInv' /\ WrittenOnceStep
<1> DEFINE key == handler[h].key
           answer == [sid |-> Sid(h), token |-> handler[h].n]
           r == [handler[h] EXCEPT !.stage = "answer"]
           Mine == claims[key] # None /\ claims[key].body = Body(h)
<1>1. Stage(h) = "complete" /\ handler[h] # Idle
  BY IdleIsNoStage DEF Complete, Stages, Stage
<1>2. Holds(h) /\ key \in Keys
  BY <1>1 DEF ClaimInv, Holds
<1>3. CASE ~Mine
  <2>1. Goto(h, "catch") /\ UNCHANGED <<claims, sends, left, twice>>
    BY <1>1, <1>3 DEF Complete, failures
  <2>2. ClaimInv'
    BY <1>1, <2>1, GotoKeeps DEF Stages
  <2> QED
    BY <2>1, <2>2 DEF WrittenOnceStep, StoredAnswerOf
<1>4. CASE Mine
  <2>1. /\ claims' = [claims EXCEPT ![key].answer = answer]
        /\ Goto(h, "answer") /\ UNCHANGED <<sends, left, twice>>
    BY <1>1, <1>4, LastStage DEF Complete, Advance, failures
  <2>2. answer \in Answers /\ answer # None
    BY <1>2 DEF Holds, Answers
  <2>3. claims[key] \in Claims
    BY <1>2, <1>4 DEF ClaimInv
  <2>4. /\ DOMAIN r = Fields /\ r.stage = "answer" /\ r.key = key /\ r.body = Body(h)
        /\ r.n = handler[h].n /\ r.sid = Sid(h)
    BY <1>2 DEF Holds, Fields, Body, Sid
  <2>5. handler'[h] = r /\ \A g \in Slots \ {h} : handler'[g] = handler[g]
    BY <2>1 DEF Goto, ClaimInv
  <2> HIDE DEF answer, r
  <2>6. /\ claims' \in [Keys -> Claims \cup {None}]
        /\ claims'[key] \in Claims
        /\ claims'[key].answer = answer /\ claims'[key].body = Body(h)
        /\ \A k \in Keys \ {key} : claims'[k] = claims[k]
    BY <1>2, <1>4, <2>1, <2>2, <2>3 DEF ClaimInv, Claims
  <2>7. r # Idle
    BY <2>4 DEF Fields, Idle
  <2>8. Holds(h)'
    BY <1>2, <2>2, <2>4, <2>5, <2>6 DEF Holds, Stage, Body, Sid, Stages
  <2>9. \A g \in Slots \ {h} : handler[g] # Idle => Holds(g)'
    <3> SUFFICES ASSUME NEW g \in Slots \ {h}, handler[g] # Idle PROVE Holds(g)'
      OBVIOUS
    <3>1. /\ twice' = twice /\ handler'[g] = handler[g]
          /\ handler[g].key # key \/ key \in twice
      BY <1>1, <2>1, <2>5 DEF ClaimInv
    <3> QED
      BY <1>1, <1>2, <1>4, <2>2, <2>6, <3>1, OthersKeep
  <2>10. \A g \in Slots : handler'[g] = Idle \/ Holds(g)'
    BY <2>5, <2>8, <2>9
  <2>11. \A g, k \in Slots : g # k /\ handler'[g] # Idle /\ handler'[k] # Idle =>
           handler'[g].key # handler'[k].key \/ handler'[k].key \in twice'
    BY <1>1, <2>1, <2>4, <2>5 DEF ClaimInv
  <2>12. \A k \in Keys \ (left' \cup twice') : claims'[k] # None /\ claims'[k].answer = None =>
           \E g \in Slots : handler'[g] # Idle /\ handler'[g].key = k
    <3> SUFFICES ASSUME NEW k \in Keys \ (left' \cup twice'), claims'[k] # None,
                        claims'[k].answer = None
                 PROVE  \E g \in Slots : handler'[g] # Idle /\ handler'[g].key = k
      OBVIOUS
    <3>1. k # key /\ claims'[k] = claims[k]
      BY <2>2, <2>6
    <3>2. PICK g \in Slots : handler[g] # Idle /\ handler[g].key = k
      BY <2>1, <3>1 DEF ClaimInv
    <3> QED
      BY <2>5, <3>1, <3>2
  <2>13. ClaimInv'
    BY <2>1, <2>5, <2>6, <2>10, <2>11, <2>12 DEF ClaimInv, Goto
  <2>14. ASSUME NEW k \in Keys \ twice
         PROVE  Stored(k)!Write \/ UNCHANGED StoredAnswerOf(k)
    <3>1. CASE k = key
      <4>1. StoredAnswerOf(k) = None
        BY <3>1, <1>1, <1>2 DEF StoredAnswerOf, Holds
      <4>2. StoredAnswerOf(k)' = answer
        BY <3>1, <2>6 DEF StoredAnswerOf
      <4> QED
        BY <4>1, <4>2, <2>2 DEF Stored!Write
    <3>2. CASE k # key
      BY <3>2, <2>6 DEF StoredAnswerOf
    <3> QED
      BY <3>1, <3>2
  <2> QED
    BY <2>13, <2>14 DEF WrittenOnceStep
<1> QED
  BY <1>3, <1>4

(* A release ends a claim in progress or leaves everything as it is.        *)
LEMMA ReleasedOnlyInProgress ==
  ASSUME ClaimInv, NEW h \in Slots, Holds(h), claims' \in {claims, Released(h)}
  PROVE  /\ claims' \in [Keys -> Claims \cup {None}]
         /\ \A k \in Keys \ {handler[h].key} : claims'[k] = claims[k]
         /\ claims' # claims =>
              /\ claims[handler[h].key] # None /\ claims[handler[h].key].answer = None
              /\ claims'[handler[h].key] = None
         /\ \A k \in Keys : UNCHANGED StoredAnswerOf(k)
<1> DEFINE key == handler[h].key
<1>1. key \in Keys
  BY DEF Holds
<1>2. \/ claims' = claims
      \/ /\ claims' = [claims EXCEPT ![key] = None]
         /\ claims[key] # None /\ claims[key].answer = None
  BY DEF Released, InProgress
<1> QED
  BY <1>1, <1>2 DEF ClaimInv, StoredAnswerOf

(* A request that ends: its slot is idle again, and its claim is gone,      *)
(* completed or left behind.                                                *)
LEMMA EndKeeps ==
  ASSUME ClaimInv, NEW h \in Slots, Release(h) \/ Answer(h) \/ CatchThrows(h)
  PROVE  ClaimInv' /\ WrittenOnceStep
<1> DEFINE key == handler[h].key
<1>1. Stage(h) \in Last /\ handler[h] # Idle
  BY IdleIsNoStage DEF Release, Answer, CatchThrows, Stages, Stage
<1>2. Holds(h) /\ key \in Keys
  BY <1>1 DEF ClaimInv, Holds
<1>3. /\ handler' = [handler EXCEPT ![h] = Idle]
      /\ sends' = sends /\ twice' = twice /\ left \subseteq left' /\ left' \subseteq Keys
      /\ claims' \in {claims, Released(h)}
  BY <1>2 DEF Release, Answer, CatchThrows, failures, ClaimInv
<1>4. /\ claims' \in [Keys -> Claims \cup {None}]
      /\ \A k \in Keys \ {key} : claims'[k] = claims[k]
      /\ claims' # claims => claims[key] # None /\ claims[key].answer = None /\ claims'[key] = None
      /\ \A k \in Keys : UNCHANGED StoredAnswerOf(k)
  BY <1>2, <1>3, ReleasedOnlyInProgress
<1>5. handler'[h] = Idle /\ \A g \in Slots \ {h} : handler'[g] = handler[g]
  BY <1>3 DEF ClaimInv
<1>6. key \notin left' \cup twice' => claims'[key] = None \/ claims'[key].answer # None
  <2> SUFFICES ASSUME key \notin left', key \notin twice
               PROVE  claims'[key] = None \/ claims'[key].answer # None
    BY <1>3
  <2>1. CASE Answer(h)
    BY <1>2, <2>1 DEF Answer, Holds
  <2>2. CASE CatchThrows(h)
    BY <1>4, <2>2 DEF CatchThrows
  <2>3. CASE Release(h)
    BY <1>2, <2>3 DEF Release, Released, InProgress, Holds, ClaimInv
  <2> QED
    BY <2>1, <2>2, <2>3
<1>7. \A g \in Slots : handler'[g] = Idle \/ Holds(g)'
  <2> TAKE g \in Slots
  <2>1. CASE handler'[g] = Idle
    BY <2>1
  <2>2. CASE handler'[g] # Idle
    <3>1. /\ handler'[g] = handler[g] /\ handler[g] # Idle
          /\ handler[g].key # key \/ key \in twice
      BY <2>2, <1>1, <1>5 DEF ClaimInv
    <3>2. claims'[key] = claims[key] \/ claims[key].answer = None
      BY <1>4
    <3> QED
      BY <1>1, <1>2, <1>3, <1>4, <3>1, <3>2, OthersKeep
  <2> QED
    BY <2>1, <2>2
<1>8. \A k \in Keys \ (left' \cup twice') : claims'[k] # None /\ claims'[k].answer = None =>
        \E g \in Slots : handler'[g] # Idle /\ handler'[g].key = k
  <2> SUFFICES ASSUME NEW k \in Keys \ (left' \cup twice'), claims'[k] # None,
                      claims'[k].answer = None
               PROVE  \E g \in Slots : handler'[g] # Idle /\ handler'[g].key = k
    OBVIOUS
  <2>1. k # key /\ claims'[k] = claims[k]
    BY <1>4, <1>6
  <2>2. PICK g \in Slots : handler[g] # Idle /\ handler[g].key = k
    BY <1>3, <2>1 DEF ClaimInv
  <2> QED
    BY <1>5, <2>1, <2>2
<1>9. ClaimInv'
  BY <1>3, <1>4, <1>5, <1>7, <1>8 DEF ClaimInv
<1> QED
  BY <1>4, <1>9 DEF WrittenOnceStep

(* The release of abortSessionCreation throws: the request goes on to the   *)
(* catch block, and if its claim is gone it knows that it may be.           *)
LEMMA AbortKeeps ==
  ASSUME ClaimInv, NEW h \in Slots, AbortThrows(h)
  PROVE  ClaimInv' /\ WrittenOnceStep
<1> DEFINE key == handler[h].key
           r == [handler[h] EXCEPT !.stage = "catch"]
<1>1. Stage(h) = "release" /\ handler[h] # Idle
  BY IdleIsNoStage DEF AbortThrows, Stages, Stage
<1>2. Holds(h) /\ key \in Keys
  BY <1>1 DEF ClaimInv, Holds
<1>3. /\ handler' = [handler EXCEPT ![h] = r]
      /\ sends' = sends /\ left' = left /\ claims' \in {claims, Released(h)}
      /\ twice' = IF claims' = claims THEN twice ELSE twice \cup {key}
  BY DEF AbortThrows, Goto
<1>4. /\ DOMAIN r = Fields /\ r.stage = "catch" /\ r.key = key /\ r.body = Body(h)
      /\ r.n = handler[h].n /\ r.sid = Sid(h)
  BY <1>2 DEF Holds, Fields, Body, Sid
<1> HIDE DEF r
<1>5. /\ claims' \in [Keys -> Claims \cup {None}]
      /\ \A k \in Keys \ {key} : claims'[k] = claims[k]
      /\ claims' # claims => claims[key] # None /\ claims[key].answer = None /\ claims'[key] = None
      /\ \A k \in Keys : UNCHANGED StoredAnswerOf(k)
  BY <1>2, <1>3, ReleasedOnlyInProgress
<1>6. handler'[h] = r /\ \A g \in Slots \ {h} : handler'[g] = handler[g]
  BY <1>3 DEF ClaimInv
<1>7. r # Idle
  BY <1>4 DEF Fields, Idle
<1>8. twice \subseteq twice' /\ twice' \subseteq Keys
  BY <1>2, <1>3 DEF ClaimInv
<1>9. Holds(h)'
  BY <1>1, <1>2, <1>3, <1>4, <1>6, <1>8 DEF Holds, Stage, Body, Sid, Stages
<1>10. \A g \in Slots \ {h} : handler[g] # Idle => Holds(g)'
  <2> SUFFICES ASSUME NEW g \in Slots \ {h}, handler[g] # Idle PROVE Holds(g)'
    OBVIOUS
  <2>1. claims'[key] = claims[key] \/ claims[key].answer = None
    BY <1>5
  <2>2. handler[g].key # key \/ key \in twice
    BY <1>1 DEF ClaimInv
  <2> QED
    BY <1>2, <1>5, <1>6, <1>8, <2>1, <2>2, OthersKeep
<1>11. \A g \in Slots : handler'[g] = Idle \/ Holds(g)'
  BY <1>6, <1>9, <1>10
<1>12. \A g, k \in Slots : g # k /\ handler'[g] # Idle /\ handler'[k] # Idle =>
         handler'[g].key # handler'[k].key \/ handler'[k].key \in twice'
  BY <1>1, <1>4, <1>6, <1>8 DEF ClaimInv
<1>13. \A k \in Keys \ (left' \cup twice') : claims'[k] # None /\ claims'[k].answer = None =>
         \E g \in Slots : handler'[g] # Idle /\ handler'[g].key = k
  <2> SUFFICES ASSUME NEW k \in Keys \ (left' \cup twice'), claims'[k] # None,
                      claims'[k].answer = None
               PROVE  \E g \in Slots : handler'[g] # Idle /\ handler'[g].key = k
    OBVIOUS
  <2>1. claims'[k] = claims[k] /\ k \notin left \cup twice
    BY <1>3, <1>5, <1>8
  <2>2. PICK g \in Slots : handler[g] # Idle /\ handler[g].key = k
    BY <2>1 DEF ClaimInv
  <2> QED
    BY <1>4, <1>6, <1>7, <2>2
<1>14. ClaimInv'
  BY <1>3, <1>5, <1>8, <1>11, <1>12, <1>13 DEF ClaimInv
<1> QED
  BY <1>5, <1>14 DEF WrittenOnceStep

(* A key that is claimed had no claim, so nobody held it but requests that  *)
(* may have lost theirs.                                                    *)
LEMMA ClaimKeeps ==
  ASSUME ClaimInv, NEW h \in Slots, NEW k \in Keys, NEW b \in Bodies, Claim(h, k, b)
  PROVE  ClaimInv' /\ WrittenOnceStep
<1> DEFINE stage == IF b.intent \in Intents /\ b.hash = b.intent THEN "exists" ELSE "release"
           sid == IF b.sid = None THEN sends' ELSE b.sid
           r == [stage |-> stage, key |-> k, body |-> b, n |-> sends', sid |-> sid,
                 copy |-> None]
           c == [body |-> b, answer |-> None]
<1>1. /\ handler[h] = Idle /\ claims[k] = None
      /\ sends' = sends + 1 /\ sends < MaxSends /\ twice' = twice
      /\ claims' = [claims EXCEPT ![k] = c]
      /\ \/ handler' = [handler EXCEPT ![h] = r] /\ left' = left
         \/ handler' = handler /\ left' = left \cup {k}
  BY DEF Claim, ClaimKey, ClaimThrows, MakeClaim, failures
<1>2. sends' \in Ids /\ sends' \in Nat
  BY <1>1 DEF ClaimInv, Ids
<1>3. sid \in AllSids /\ stage \in Stages /\ stage # "answer"
  BY <1>2 DEF AllSids, Stages
<1>4. c \in Claims /\ c # None /\ c.body = b /\ c.answer = None
  BY DEF Claims
<1>5. /\ DOMAIN r = Fields /\ r.stage = stage /\ r.key = k /\ r.body = b
      /\ r.n = sends' /\ r.sid = sid
  BY DEF Fields
<1> HIDE DEF r, c, stage, sid
<1>6. r # Idle
  BY <1>5 DEF Fields, Idle
<1>7. /\ claims' \in [Keys -> Claims \cup {None}] /\ claims'[k] = c
      /\ \A j \in Keys \ {k} : claims'[j] = claims[j]
      /\ handler'[h] \in {Idle, r} /\ \A g \in Slots \ {h} : handler'[g] = handler[g]
      /\ DOMAIN handler' = Slots /\ left' \subseteq Keys /\ left \subseteq left'
  BY <1>1, <1>4 DEF ClaimInv
<1>8. handler'[h] = r => Holds(h)'
  BY <1>2, <1>3, <1>4, <1>5, <1>7 DEF Holds, Stage, Body, Sid
<1>9. \A g \in Slots \ {h} : handler[g] # Idle => (handler[g].key # k \/ k \in twice) /\ Holds(g)'
  <2> SUFFICES ASSUME NEW g \in Slots \ {h}, handler[g] # Idle
               PROVE  (handler[g].key # k \/ k \in twice) /\ Holds(g)'
    OBVIOUS
  <2>1. handler[g].key # k \/ k \in twice
    BY <1>1 DEF ClaimInv, Holds
  <2>2. handler'[g] = handler[g] /\ twice' = twice
    BY <1>1, <1>7
  <2> QED
    BY <1>1, <1>7, <2>1, <2>2, OthersKeep
<1>10. \A g \in Slots : handler'[g] = Idle \/ Holds(g)'
  BY <1>7, <1>8, <1>9
<1>11. \A f, g \in Slots : f # g /\ handler'[f] # Idle /\ handler'[g] # Idle =>
         handler'[f].key # handler'[g].key \/ handler'[g].key \in twice'
  <2> SUFFICES ASSUME NEW f \in Slots, NEW g \in Slots, f # g,
                      handler'[f] # Idle, handler'[g] # Idle
               PROVE  handler'[f].key # handler'[g].key \/ handler'[g].key \in twice
    BY <1>1
  <2>1. CASE f # h /\ g # h
    BY <1>7, <2>1 DEF ClaimInv
  <2>2. CASE f = h \/ g = h
    BY <1>5, <1>7, <1>9, <2>2
  <2> QED
    BY <2>1, <2>2
<1>12. \A j \in Keys \ (left' \cup twice') : claims'[j] # None /\ claims'[j].answer = None =>
         \E g \in Slots : handler'[g] # Idle /\ handler'[g].key = j
  <2> SUFFICES ASSUME NEW j \in Keys \ (left' \cup twice'), claims'[j] # None,
                      claims'[j].answer = None
               PROVE  \E g \in Slots : handler'[g] # Idle /\ handler'[g].key = j
    OBVIOUS
  <2>1. CASE j = k
    <3>1. handler' = [handler EXCEPT ![h] = r]
      BY <1>1, <2>1
    <3>2. handler'[h] = r
      BY <3>1 DEF ClaimInv
    <3> QED
      BY <1>5, <1>6, <2>1, <3>2
  <2>2. CASE j # k
    <3>1. claims'[j] = claims[j] /\ j \notin left \cup twice
      BY <1>1, <1>7, <2>2
    <3>2. PICK g \in Slots : handler[g] # Idle /\ handler[g].key = j
      BY <3>1 DEF ClaimInv
    <3> QED
      BY <1>1, <1>7, <3>2
  <2> QED
    BY <2>1, <2>2
<1>13. ClaimInv'
  BY <1>1, <1>2, <1>7, <1>10, <1>11, <1>12 DEF ClaimInv
<1>14. \A j \in Keys : UNCHANGED StoredAnswerOf(j)
  BY <1>1, <1>4, <1>7 DEF StoredAnswerOf
<1> QED
  BY <1>13, <1>14 DEF WrittenOnceStep

(* The process stops: every claim in progress was somebody's.               *)
LEMMA CrashKeeps ==
  ASSUME ClaimInv, Crash
  PROVE  ClaimInv' /\ WrittenOnceStep
<1>1. /\ claims' = claims /\ sends' = sends /\ twice' = twice
      /\ handler' = [h \in Slots |-> Idle]
      /\ left' = left \cup {handler[h].key : h \in {g \in Slots : handler[g] # Idle}}
  BY DEF Crash
<1>2. left' \subseteq Keys
  BY <1>1 DEF ClaimInv, Holds
<1>3. \A k \in Keys \ (left' \cup twice') : ~(claims'[k] # None /\ claims'[k].answer = None)
  BY <1>1 DEF ClaimInv
<1> QED
  BY <1>1, <1>2, <1>3 DEF ClaimInv, WrittenOnceStep, StoredAnswerOf

(* What ClaimInv speaks of.                                                 *)
ClaimVars == <<claims, handler, sends, left, twice>>

LEMMA QuietKeeps ==
  ASSUME ClaimInv, UNCHANGED ClaimVars
  PROVE  ClaimInv' /\ WrittenOnceStep
BY DEF ClaimInv, ClaimVars, WrittenOnceStep, StoredAnswerOf, Holds, Stage, Body, Sid

(* The inductive invariant of the lease.  Runs have ids of their own, drawn *)
(* before; a run that has not outlived its lease still holds it.            *)
Drawn == {RunIds[i] : i \in 1..drawn}
Busy(h) == runs[h] # None /\ runs[h].stage # "opened"
LeaseInv ==
  /\ drawn \in 0..DailyLimit
  /\ runs \in [Slots -> [id : Runs, stage : RunStages] \cup {None}]
  /\ \A h \in Slots : runs[h] # None => runs[h].id \in Drawn
  /\ \A g, h \in Slots :
       g # h /\ runs[g] # None /\ runs[h] # None => runs[g].id # runs[h].id
  /\ \A h \in Slots : Busy(h) => runs[h].id \in outlived \/ runs[h].id = lease

(* A sponsored run claims its key like any client.                          *)
LEMMA RunClaims ==
  ASSUME LeaseInv, NEW h \in Slots, RunRequestsSession(h)
  PROVE  \E k \in Keys, b \in Bodies : Claim(h, k, b)
<1>1. runs[h].id \in Runs
  BY DEF RunRequestsSession, Running, LeaseInv
<1>2. runs[h].id \in Keys /\ RunBody[runs[h].id] \in Bodies
  BY <1>1, DemoAssumption DEF Runs
<1> QED
  BY <1>2 DEF RunRequestsSession

(* Every step of the gateway, its clients and its sponsored runs.           *)
LEMMA ClaimStep ==
  ASSUME ClaimInv, LeaseInv, [DemoNext]_allVars
  PROVE  ClaimInv' /\ WrittenOnceStep
<1>1. CASE UNCHANGED ClaimVars
  BY <1>1, QuietKeeps
<1>2. CASE \E h \in Slots, k \in Keys, b \in Bodies : Claim(h, k, b)
  BY <1>2, ClaimKeeps
<1>3. ASSUME NEW h \in Slots, Handle(h) \/ Fails(h)
      PROVE  ClaimInv' /\ WrittenOnceStep
  <2>1. CASE Release(h) \/ Answer(h) \/ CatchThrows(h)
    BY <2>1, EndKeeps
  <2>2. CASE Complete(h)
    BY <2>2, CompleteKeeps
  <2>3. CASE AbortThrows(h)
    BY <2>3, AbortKeeps
  <2>4. CASE \/ CheckSid(h) \/ CreateSession(h) \/ Emit(h) \/ Transition(h) \/ SaveSession(h)
             \/ VerifyPayment(h) \/ VerifyBond(h) \/ DeleteSession(h) \/ Throw(h)
    <3>1. claims' = claims
      BY <2>4 DEF CheckSid, CreateSession, Emit, Transition, SaveSession, VerifyPayment,
                  VerifyBond, DeleteSession, Throw
    <3> QED
      BY <2>4, <3>1, WorkKeeps DEF WrittenOnceStep, StoredAnswerOf
  <2> QED
    BY <1>3, <2>1, <2>2, <2>3, <2>4 DEF Handle, Fails
<1>4. CASE Crash
  BY <1>4, CrashKeeps
<1>5. CASE Direct
  <2>1. ASSUME NEW i, NEW s, CreateChallenge(i, s) \/ IssueCredential(i, s) \/ OpenBond(i, s)
        PROVE  UNCHANGED ClaimVars
    BY <2>1 DEF CreateChallenge, SignChallenge, IssueCredential, OpenBond, ClaimVars, failures
  <2>2. ASSUME NEW h, NEW k, NEW b, Replay(h, k, b)
        PROVE  UNCHANGED ClaimVars
    BY <2>2 DEF Replay, ClaimVars, failures
  <2> QED
    BY <1>1, <1>2, <1>5, <2>1, <2>2 DEF Direct
<1>6. CASE Gateway
  <2>1. ASSUME NEW a, CloseSession(a)
        PROVE  UNCHANGED ClaimVars
    BY <2>1 DEF CloseSession, ClaimVars, failures
  <2> QED
    BY <1>1, <1>3, <1>6, <2>1 DEF Gateway
<1>7. ASSUME NEW h \in Slots, Run(h) \/ ClaimQuota(h), ~ RunRequestsSession(h)
      PROVE  UNCHANGED ClaimVars
  BY <1>7 DEF Run, ClaimQuota, RunPrepares, RunFails, RunIsAnswered, ReleaseLease,
              AnnounceRun, vars, failures, ClaimVars
<1>8. ASSUME NEW h \in Slots, RunRequestsSession(h)
      PROVE  \E k \in Keys, b \in Bodies : Claim(h, k, b)
  BY <1>8, RunClaims
<1>9. CASE LeaseRunsOut \/ UNCHANGED allVars
  BY <1>1, <1>9 DEF LeaseRunsOut, vars, failures, allVars, ClaimVars
<1> QED
  BY <1>1, <1>2, <1>4, <1>5, <1>6, <1>7, <1>8, <1>9 DEF DemoNext, DemoCrash, Run

(* The inductive invariant of the answers: what a client was told is what   *)
(* is stored under its key, and a request tells what it stored, unless a    *)
(* release was repeated; even then an answer stays stored for that body.    *)
Finishing(h) ==
  Stage(h) = "answer" /\ handler[h].key \notin twice =>
    claims[handler[h].key].answer = [sid |-> Sid(h), token |-> handler[h].n]
Told(a) ==
  /\ a.key \in Keys /\ StoredAnswerOf(a.key) # None /\ claims[a.key].body = a.body
  /\ a.key \notin twice =>
       a = [key |-> a.key, body |-> claims[a.key].body, session |-> claims[a.key].answer]
AnswerInv ==
  /\ \A h \in Slots : Finishing(h)
  /\ \A a \in answers : Told(a)

LEMMA AnswerInvImplies == AnswerInv => OneAnswerPerKey
<1> SUFFICES ASSUME AnswerInv, NEW a \in answers, NEW b \in answers, a.key = b.key,
                    a.key \notin twice
             PROVE  a = b
  BY DEF OneAnswerPerKey
<1>1. Told(a) /\ Told(b)
  BY DEF AnswerInv
<1> QED
  BY <1>1 DEF Told

(* A step keeps what was answered, and says nothing but what is stored.     *)
Keeps ==
  /\ \A k \in Keys : StoredAnswerOf(k) # None =>
       /\ StoredAnswerOf(k)' # None /\ claims'[k].body = claims[k].body
       /\ k \notin twice => claims'[k] = claims[k]
  /\ twice \subseteq twice'
  /\ \A a \in answers' : a \in answers \/ Told(a)
  /\ \A h \in Slots : handler'[h] = handler[h] \/ Finishing(h)'

LEMMA KeepsInv ==
  ASSUME ClaimInv, AnswerInv, Keeps
  PROVE  AnswerInv'
<1>1. ASSUME NEW a \in answers' PROVE Told(a)'
  <2>1. Told(a)
    BY DEF Keeps, AnswerInv
  <2>2. /\ StoredAnswerOf(a.key)' # None /\ claims'[a.key].body = claims[a.key].body
        /\ a.key \notin twice' => a.key \notin twice /\ claims'[a.key] = claims[a.key]
    BY <2>1 DEF Keeps, Told
  <2> QED
    BY <2>1, <2>2 DEF Told
<1>2. ASSUME NEW h \in Slots PROVE Finishing(h)'
  <2>1. CASE handler'[h] = handler[h] /\ Stage(h) = "answer"
    <3>1. Holds(h) /\ Finishing(h)
      BY <2>1 DEF ClaimInv, AnswerInv, Stage, Idle
    <3>2. handler[h].key \notin twice' =>
            handler[h].key \notin twice /\ claims'[handler[h].key] = claims[handler[h].key]
      BY <2>1, <3>1 DEF Keeps, Holds, StoredAnswerOf
    <3> QED
      BY <2>1, <3>1, <3>2 DEF Finishing, Stage, Sid
  <2>2. CASE handler'[h] = handler[h] /\ Stage(h) # "answer"
    BY <2>2 DEF Finishing, Stage
  <2> QED
    BY <2>1, <2>2 DEF Keeps
<1> QED
  BY <1>1, <1>2 DEF AnswerInv

(* A request in the middle of its work says nothing and ends nowhere near   *)
(* its answer.                                                              *)
LEMMA WorkIsSilent ==
  ASSUME ClaimInv, NEW h \in Slots,
         \/ CheckSid(h) \/ CreateSession(h) \/ Emit(h) \/ Transition(h) \/ SaveSession(h)
         \/ VerifyPayment(h) \/ VerifyBond(h) \/ DeleteSession(h) \/ Throw(h)
  PROVE  Keeps
<1>1. claims' = claims /\ answers' = answers /\ twice' = twice
  BY DEF CheckSid, CreateSession, Emit, Transition, SaveSession, VerifyPayment,
         VerifyBond, DeleteSession, Throw, failures
<1>2. Stage(h) \in Stages /\ handler[h] # Idle
  BY IdleIsNoStage DEF CheckSid, CreateSession, Emit, EventAt, Transition, SaveSession,
     VerifyPayment, VerifyBond, DeleteSession, Throw, Stage, Stages
<1>3. Holds(h)
  BY <1>2 DEF ClaimInv
<1>4. ASSUME NEW s, s # "answer", Goto(h, s)
      PROVE  Stage(h)' # "answer" /\ \A g \in Slots \ {h} : handler'[g] = handler[g]
  BY <1>3, <1>4 DEF Goto, Stage, Holds, ClaimInv, Fields
<1>5. ASSUME Stage(h) \notin {"complete", "delete"} \cup Last, Advance(h)
      PROVE  Stage(h)' # "answer" /\ \A g \in Slots \ {h} : handler'[g] = handler[g]
  <2>1. After(Body(h).intent)[Stage(h)] # "answer"
    BY <1>2, <1>5, NextStage
  <2> QED
    BY <1>5, <2>1, <1>4 DEF Advance
<1>6. CASE Transition(h)
  <2> DEFINE next == After(Body(h).intent)[Stage(h)]
             moved == [sessions[Sid(h)] EXCEPT
                         !.state = Move(Body(h).intent)[Stage(h)][2]]
  <2>1. next # "answer"
    BY <1>2, <1>6, NextStage DEF Transition
  <2>2. Goto(h, "catch") \/ handler' = [handler EXCEPT ![h].copy = moved, ![h].stage = next]
    BY <1>6 DEF Transition
  <2> HIDE DEF next, moved
  <2>3. Stage(h)' # "answer" /\ \A g \in Slots \ {h} : handler'[g] = handler[g]
    BY <1>3, <1>4, <2>1, <2>2 DEF Stage, Holds, ClaimInv, Fields
  <2> QED
    BY <1>1, <2>3 DEF Keeps, Finishing, StoredAnswerOf
<1>7. CASE ~Transition(h)
  <2>1. \/ \E s \in {"release", "delete", "catch"} : Goto(h, s)
        \/ Stage(h) \notin {"complete", "delete"} \cup Last /\ Advance(h)
    BY <1>7 DEF CheckSid, CreateSession, Emit, EventAt, SaveSession, VerifyPayment,
                VerifyBond, DeleteSession, Throw
  <2>2. Stage(h)' # "answer" /\ \A g \in Slots \ {h} : handler'[g] = handler[g]
    BY <2>1, <1>4, <1>5
  <2> QED
    BY <1>1, <2>2 DEF Keeps, Finishing, StoredAnswerOf
<1> QED
  BY <1>6, <1>7

LEMMA CompleteTells ==
  ASSUME ClaimInv, NEW h \in Slots, Complete(h)
  PROVE  Keeps
<1> DEFINE key == handler[h].key
           answer == [sid |-> Sid(h), token |-> handler[h].n]
           r == [handler[h] EXCEPT !.stage = "answer"]
           Mine == claims[key] # None /\ claims[key].body = Body(h)
<1>1. Stage(h) = "complete" /\ handler[h] # Idle
  BY IdleIsNoStage DEF Complete, Stages, Stage
<1>2. Holds(h) /\ key \in Keys
  BY <1>1 DEF ClaimInv, Holds
<1>3. answers' = answers /\ twice' = twice
  BY DEF Complete, failures
<1>4. CASE ~Mine
  <2>1. Goto(h, "catch") /\ claims' = claims
    BY <1>1, <1>4 DEF Complete
  <2>2. Stage(h)' # "answer" /\ \A g \in Slots \ {h} : handler'[g] = handler[g]
    BY <1>2, <2>1 DEF Goto, Stage, Holds, ClaimInv, Fields
  <2> QED
    BY <1>3, <2>1, <2>2 DEF Keeps, Finishing, StoredAnswerOf
<1>5. CASE Mine
  <2>1. claims' = [claims EXCEPT ![key].answer = answer] /\ Goto(h, "answer")
    BY <1>1, <1>5, LastStage DEF Complete, Advance
  <2>2. answer # None
    BY <1>2 DEF Holds, Answers
  <2>3. handler' = [handler EXCEPT ![h] = r] /\ r.key = key /\ r.n = handler[h].n /\ r.sid = Sid(h)
    BY <1>2, <2>1 DEF Goto, Holds, Fields, Sid
  <2>4. claims[key] \in Claims
    BY <1>2, <1>5 DEF ClaimInv
  <2> HIDE DEF answer, r
  <2>5. /\ claims'[key].answer = answer /\ claims'[key] # None
        /\ claims'[key].body = claims[key].body
        /\ \A k \in Keys \ {key} : claims'[k] = claims[k]
    <3>1. [claims[key] EXCEPT !.answer = answer] # None
      <4>1. answer \in Answers
        BY <1>2 DEF Holds, Answers, answer
      <4>2. [claims[key] EXCEPT !.answer = answer] \in Claims
        BY <2>4, <4>1 DEF Claims
      <4> QED
        BY <4>2
    <3>2. claims' = [claims EXCEPT ![key] = [claims[key] EXCEPT !.answer = answer]]
      BY <2>1
    <3> QED
      BY <1>2, <2>4, <3>1, <3>2 DEF ClaimInv, Claims
  <2>6. handler'[h] = r /\ \A g \in Slots \ {h} : handler'[g] = handler[g]
    BY <2>3 DEF ClaimInv
  <2>7. Finishing(h)'
    BY <2>3, <2>5, <2>6 DEF Finishing, Sid, answer
  <2>8. key \in twice \/ StoredAnswerOf(key) = None
    BY <1>1, <1>2 DEF Holds, StoredAnswerOf
  <2>9. ASSUME NEW k \in Keys, k = key PROVE StoredAnswerOf(k)' # None
    BY <2>2, <2>5, <2>9 DEF StoredAnswerOf
  <2>10. ASSUME NEW k \in Keys, k # key PROVE StoredAnswerOf(k)' = StoredAnswerOf(k)
    BY <2>5, <2>10 DEF StoredAnswerOf
  <2>11. ASSUME NEW k \in Keys, StoredAnswerOf(k) # None
         PROVE  /\ StoredAnswerOf(k)' # None /\ claims'[k].body = claims[k].body
                /\ k \notin twice => claims'[k] = claims[k]
    <3>1. CASE k = key
      BY <2>5, <2>8, <2>9, <2>11, <3>1
    <3>2. CASE k # key
      BY <2>5, <2>10, <2>11, <3>2
    <3> QED
      BY <3>1, <3>2
  <2> QED
    BY <1>3, <2>6, <2>7, <2>11 DEF Keeps
<1> QED
  BY <1>4, <1>5

LEMMA EndTells ==
  ASSUME ClaimInv, AnswerInv, NEW h \in Slots,
         Release(h) \/ Answer(h) \/ AbortThrows(h) \/ CatchThrows(h)
  PROVE  Keeps
<1>1. Stage(h) \in Last /\ handler[h] # Idle
  BY IdleIsNoStage DEF Release, Answer, AbortThrows, CatchThrows, Stages, Stage
<1>2. Holds(h) /\ Finishing(h)
  BY <1>1 DEF ClaimInv, AnswerInv
<1>3. /\ handler' = [handler EXCEPT ![h] = Idle] \/ Goto(h, "catch")
      /\ claims' \in {claims, Released(h)} /\ twice \subseteq twice'
  BY DEF Release, Answer, AbortThrows, CatchThrows, failures
<1>4. \A g \in Slots : handler'[g] = handler[g] \/ Finishing(g)'
  <2>1. Stage(h)' # "answer" /\ \A g \in Slots \ {h} : handler'[g] = handler[g]
    BY <1>2, <1>3 DEF Goto, Stage, Idle, Holds, ClaimInv, Fields
  <2> QED
    BY <2>1 DEF Finishing
<1>5. \A k \in Keys : StoredAnswerOf(k) # None => claims'[k] = claims[k]
  BY <1>2, <1>3, ReleasedOnlyInProgress DEF StoredAnswerOf
<1>6. ASSUME NEW a \in answers', a \notin answers PROVE Told(a)
  <2>1. Answer(h) /\ Stage(h) = "answer"
    BY <1>6 DEF Release, Answer, AbortThrows, CatchThrows
  <2>2. a = [key |-> handler[h].key, body |-> Body(h),
             session |-> [sid |-> Sid(h), token |-> handler[h].n]]
    BY <1>6, <2>1 DEF Answer
  <2>3. /\ handler[h].key \notin twice =>
             claims[handler[h].key].answer = [sid |-> Sid(h), token |-> handler[h].n]
        /\ claims[handler[h].key].body = Body(h)
        /\ handler[h].key \in Keys /\ StoredAnswerOf(handler[h].key) # None
    BY <1>2, <2>1 DEF Finishing, Holds, StoredAnswerOf, Claims
  <2> QED
    BY <2>2, <2>3 DEF Told
<1> QED
  BY <1>3, <1>4, <1>5, <1>6 DEF Keeps, StoredAnswerOf

LEMMA ReplayTells ==
  ASSUME NEW h, NEW k \in Keys, NEW b, Replay(h, k, b)
  PROVE  Keeps
<1> DEFINE a == [key |-> k, body |-> b, session |-> claims[k].answer]
<1>1. /\ claims' = claims /\ handler' = handler /\ twice' = twice
      /\ answers' = answers \cup {a}
  BY DEF Replay, failures
<1>2. Told(a)
  BY DEF Replay, StoredAnswer, Told, StoredAnswerOf
<1> QED
  BY <1>1, <1>2 DEF Keeps, StoredAnswerOf

LEMMA ClaimTells ==
  ASSUME ClaimInv, NEW h \in Slots, NEW k \in Keys, NEW b \in Bodies, Claim(h, k, b)
  PROVE  Keeps
<1>1. claims[k] = None /\ answers' = answers /\ twice' = twice
      /\ \A j \in Keys \ {k} : claims'[j] = claims[j]
  BY DEF Claim, ClaimKey, ClaimThrows, MakeClaim, ClaimInv, failures
<1>2. handler' = handler \/ Stage(h)' \in {"exists", "release"}
  BY DEF Claim, ClaimKey, ClaimThrows, Stage, ClaimInv
<1>3. \A g \in Slots \ {h} : handler'[g] = handler[g]
  BY DEF Claim, ClaimKey, ClaimThrows, ClaimInv
<1> QED
  BY <1>1, <1>2, <1>3 DEF Keeps, StoredAnswerOf, Finishing

LEMMA AnswerStep ==
  ASSUME ClaimInv, LeaseInv, AnswerInv, [DemoNext]_allVars
  PROVE  AnswerInv'
<1>1. CASE UNCHANGED <<claims, handler, answers, twice>>
  BY <1>1, KeepsInv DEF Keeps, StoredAnswerOf
<1>2. CASE \E h \in Slots, k \in Keys, b \in Bodies : Claim(h, k, b)
  BY <1>2, ClaimTells, KeepsInv
<1>3. CASE \E h \in Slots : Handle(h) \/ Fails(h)
  BY <1>3, WorkIsSilent, CompleteTells, EndTells, KeepsInv DEF Handle, Fails
<1>4. CASE Crash
  <2>1. /\ claims' = claims /\ answers' = answers /\ twice' = twice
        /\ \A h \in Slots : handler'[h] = Idle
    BY <1>4 DEF Crash
  <2> QED
    BY <2>1, KeepsInv DEF Keeps, Finishing, Stage, Idle, StoredAnswerOf
<1>5. CASE Direct
  <2>1. ASSUME NEW i, NEW s, CreateChallenge(i, s) \/ IssueCredential(i, s) \/ OpenBond(i, s)
        PROVE  UNCHANGED <<claims, handler, answers, twice>>
    BY <2>1 DEF CreateChallenge, SignChallenge, IssueCredential, OpenBond, failures
  <2>2. ASSUME NEW h, NEW k \in Keys, NEW b, Replay(h, k, b)
        PROVE  AnswerInv'
    BY <2>2, ReplayTells, KeepsInv
  <2> QED
    BY <1>1, <1>2, <1>5, <2>1, <2>2 DEF Direct
<1>6. CASE Gateway
  <2>1. ASSUME NEW a, CloseSession(a)
        PROVE  UNCHANGED <<claims, handler, answers, twice>>
    BY <2>1 DEF CloseSession, failures
  <2> QED
    BY <1>1, <1>3, <1>6, <2>1 DEF Gateway
<1>7. ASSUME NEW h \in Slots, Run(h) \/ ClaimQuota(h), ~ RunRequestsSession(h)
      PROVE  UNCHANGED <<claims, handler, answers, twice>>
  BY <1>7 DEF Run, ClaimQuota, RunPrepares, RunFails, RunIsAnswered, ReleaseLease,
              AnnounceRun, vars, failures
<1>8. ASSUME NEW h \in Slots, RunRequestsSession(h)
      PROVE  \E k \in Keys, b \in Bodies : Claim(h, k, b)
  BY <1>8, RunClaims
<1>9. CASE LeaseRunsOut \/ UNCHANGED allVars
  BY <1>1, <1>9 DEF LeaseRunsOut, vars, failures, allVars
<1> QED
  BY <1>1, <1>2, <1>4, <1>5, <1>6, <1>7, <1>8, <1>9 DEF DemoNext, DemoCrash, Run

LEMMA LeaseImplies == LeaseInv => SponsorIsSerialized
BY DemoAssumption DEF LeaseInv, SponsorIsSerialized, Busy

(* A new run: its id is fresh, and whoever held the lease outlived it.      *)
LEMMA ClaimQuotaKeeps ==
  ASSUME LeaseInv, NEW h \in Slots, ClaimQuota(h)
  PROVE  LeaseInv'
<1> DEFINE r == RunIds[drawn + 1]
           run == [id |-> r, stage |-> "open"]
<1> USE DemoAssumption
<1>1. /\ drawn \in Nat /\ drawn < DailyLimit /\ drawn' = drawn + 1 /\ lease' = r
      /\ runs' = [runs EXCEPT ![h] = run] /\ outlived' = outlived
      /\ lease = None \/ lease \in outlived
  BY DEF ClaimQuota, LeaseInv
<1>2. drawn + 1 \in DOMAIN RunIds /\ 1..drawn \subseteq DOMAIN RunIds
  BY <1>1
<1>3. r \in Runs /\ r \notin Drawn /\ Drawn' = Drawn \cup {r}
  BY <1>1, <1>2 DEF Runs, Drawn
<1>4. run \in [id : Runs, stage : RunStages] /\ run # None
  BY <1>3 DEF RunStages
<1>5. None \notin Runs
  BY DEF Runs, AllSids
<1> HIDE DEF r
<1>6. runs' \in [Slots -> [id : Runs, stage : RunStages] \cup {None}]
      /\ runs'[h] = run /\ \A g \in Slots \ {h} : runs'[g] = runs[g]
  BY <1>1, <1>4 DEF LeaseInv
<1>7. \A g \in Slots \ {h} : runs[g] # None => runs[g].id # r /\ runs[g].id \in Drawn
  BY <1>3 DEF LeaseInv
<1>8. \A g \in Slots \ {h} : Busy(g) => runs[g].id \in outlived
  BY <1>1, <1>5 DEF LeaseInv, Busy
<1>9. drawn' \in 0..DailyLimit
  BY <1>1 DEF LeaseInv
<1> QED
  BY <1>1, <1>3, <1>6, <1>7, <1>8, <1>9 DEF LeaseInv, Busy

(* A run that goes on, or ends: it gives back no lease but its own.         *)
LEMMA RunKeeps ==
  ASSUME LeaseInv, NEW h \in Slots, Run(h)
  PROVE  LeaseInv'
<1> USE DemoAssumption
<1>1. runs[h] # None /\ runs[h] \in [id : Runs, stage : RunStages] /\ drawn' = drawn
  BY DEF Run, RunPrepares, RunRequestsSession, RunFails, RunIsAnswered, ReleaseLease,
         AnnounceRun, Running, LeaseInv
<1>2. ASSUME NEW stage \in RunStages, stage # "opened", runs[h].stage # "opened",
             At(h, stage), lease' = lease, outlived' = outlived
      PROVE  LeaseInv'
  <2> DEFINE run == [runs[h] EXCEPT !.stage = stage]
  <2>1. run \in [id : Runs, stage : RunStages] /\ run.id = runs[h].id /\ run.stage = stage
    BY <1>1
  <2>2. runs' = [runs EXCEPT ![h] = run]
    BY <1>2 DEF At
  <2> HIDE DEF run
  <2>3. /\ runs' \in [Slots -> [id : Runs, stage : RunStages] \cup {None}]
        /\ runs'[h] = run /\ \A g \in Slots \ {h} : runs'[g] = runs[g]
    BY <2>1, <2>2 DEF LeaseInv
  <2>4. \A g \in Slots : runs'[g] # None => runs[g] # None /\ runs'[g].id = runs[g].id
    BY <1>1, <2>1, <2>3
  <2>5. \A g \in Slots : Busy(g)' => Busy(g)
    BY <1>1, <1>2, <2>3 DEF Busy
  <2>6. Drawn' = Drawn
    BY <1>1 DEF Drawn
  <2>7. \A g \in Slots : Busy(g)' => runs'[g].id \in outlived' \/ runs'[g].id = lease'
    BY <1>2, <2>4, <2>5 DEF LeaseInv, Busy
  <2>8. \A g, k \in Slots : g # k /\ runs'[g] # None /\ runs'[k] # None => runs'[g].id # runs'[k].id
    BY <2>4 DEF LeaseInv
  <2>9. \A g \in Slots : runs'[g] # None => runs'[g].id \in Drawn
    BY <2>4 DEF LeaseInv
  <2> QED
    BY <1>1, <2>3, <2>6, <2>7, <2>8, <2>9 DEF LeaseInv
<1>3. CASE RunPrepares(h) \/ RunRequestsSession(h) \/ RunFails(h) \/ RunIsAnswered(h)
  <2>1. \E stage \in RunStages :
          /\ stage # "opened" /\ runs[h].stage # "opened"
          /\ At(h, stage) /\ lease' = lease /\ outlived' = outlived
    BY <1>3 DEF RunPrepares, RunRequestsSession, RunFails, RunIsAnswered, Running, RunStages
  <2> QED
    BY <2>1, <1>2
<1>4. CASE ReleaseLease(h) \/ AnnounceRun(h)
  <2> DEFINE run == [runs[h] EXCEPT !.stage = "opened"]
  <2>1. run \in [id : Runs, stage : RunStages] /\ run.id = runs[h].id /\ run.stage = "opened"
    BY <1>1 DEF RunStages
  <2>2. /\ runs' = [runs EXCEPT ![h] = run] \/ runs' = [runs EXCEPT ![h] = None]
        /\ lease' = lease \/ lease = runs[h].id
        /\ \A x : x \in outlived /\ x # runs[h].id => x \in outlived'
    BY <1>4 DEF ReleaseLease, AnnounceRun, At
  <2> HIDE DEF run
  <2>3. \A g \in Slots \ {h} : runs'[g] = runs[g] /\ (runs[g] # None => runs[g].id # runs[h].id)
    BY <1>1, <2>2 DEF LeaseInv
  <2>4. runs'[h] = run \/ runs'[h] = None
    BY <2>2 DEF LeaseInv
  <2>5. \A g \in Slots : Busy(g)' => runs[g].id \in outlived' \/ runs[g].id = lease'
    BY <2>1, <2>2, <2>3, <2>4 DEF LeaseInv, Busy
  <2>6. runs' \in [Slots -> [id : Runs, stage : RunStages] \cup {None}]
    BY <2>1, <2>2 DEF LeaseInv
  <2>7. \A g \in Slots : runs'[g] # None => runs[g] # None /\ runs'[g].id = runs[g].id
    BY <1>1, <2>1, <2>3, <2>4
  <2>8. Drawn' = Drawn
    BY <1>1 DEF Drawn
  <2>9. \A g, k \in Slots : g # k /\ runs'[g] # None /\ runs'[k] # None => runs'[g].id # runs'[k].id
    BY <2>7 DEF LeaseInv
  <2>10. \A g \in Slots : runs'[g] # None => runs'[g].id \in Drawn
    BY <2>7 DEF LeaseInv
  <2>11. \A g \in Slots : Busy(g)' => runs'[g].id \in outlived' \/ runs'[g].id = lease'
    BY <2>5, <2>7 DEF Busy
  <2> QED
    BY <1>1, <2>6, <2>8, <2>9, <2>10, <2>11 DEF LeaseInv
<1> QED
  BY <1>3, <1>4 DEF Run

LEMMA LeaseStep ==
  ASSUME LeaseInv, [DemoNext]_allVars
  PROVE  LeaseInv'
<1>1. CASE UNCHANGED demoVars
  BY <1>1 DEF demoVars, LeaseInv, Busy, Drawn
<1>2. CASE DemoCrash
  BY <1>2 DEF DemoCrash, LeaseInv, Busy, Drawn
<1>3. CASE LeaseRunsOut
  BY <1>3 DEF LeaseRunsOut, LeaseInv, Busy, Drawn
<1> QED
  BY <1>1, <1>2, <1>3, ClaimQuotaKeeps, RunKeeps DEF DemoNext, Direct, Gateway, allVars

LEMMA InvInit == DemoInit => ClaimInv /\ LeaseInv /\ AnswerInv
<1> SUFFICES ASSUME DemoInit PROVE ClaimInv /\ LeaseInv /\ AnswerInv
  OBVIOUS
<1>1. ClaimInv /\ LeaseInv
  BY DemoAssumption DEF DemoInit, Init, ClaimInv, LeaseInv, Busy
<1>2. AnswerInv
  BY DEF DemoInit, Init, AnswerInv, Finishing, Stage, Idle
<1> QED
  BY <1>1, <1>2

LEMMA Invariance == DemoSpec => [](ClaimInv /\ LeaseInv /\ AnswerInv)
BY InvInit, ClaimStep, LeaseStep, AnswerStep, PTL DEF DemoSpec

(* A claim in progress has exactly one holder, whatever is refused, retried *)
(* or thrown, unless it was left behind by a process that stopped, a claim  *)
(* that threw or a release of the catch block that threw (app.ts:420, 509), *)
(* or the release of its key was repeated (app.ts:428).                     *)
THEOREM ClaimAlwaysHasHolder == DemoSpec => []ClaimHasHolder
BY Invariance, ClaimInvImplies, PTL

(* Whatever is retried, replayed, thrown or crashed: one answer per key,    *)
(* unless a release of it took effect, threw and was repeated.              *)
THEOREM OneAnswerAlways == DemoSpec => []OneAnswerPerKey
BY Invariance, AnswerInvImplies, PTL

(* The sponsor's wallet serves two runs only when one outlived its lease.   *)
THEOREM SponsorAlwaysSerialized == DemoSpec => []SponsorIsSerialized
BY Invariance, LeaseImplies, PTL

(* An answer stored under a key is neither replaced nor forgotten, with the *)
(* same exception.                                                          *)
THEOREM AnswerAlwaysWrittenOnce == DemoSpec => AnswerIsWrittenOnce
<1>1. ClaimInv /\ LeaseInv /\ [DemoNext]_allVars => [WrittenOnceStep]_claims
  BY ClaimStep
<1> QED
  BY <1>1, Invariance, PTL DEF DemoSpec, AnswerIsWrittenOnce, WrittenOnceStep
=============================================================================
