------------------------- MODULE SessionRecordProofs -------------------------
(***************************************************************************)
(* Proofs about the session records of SessionCreation and PublicDemo:     *)
(* what a request knows of the record it is making at every await, and     *)
(* what follows for the answers, the roll-back, the payment and the bond.  *)
(* Then the same for the event logs: what a log holds at each stage.       *)
(***************************************************************************)
EXTENDS SessionCreationProofs, SequenceTheorems

USE CreationAssumption DEF Releasing, Last

(* The stages in which a request owns a record, those after the token is    *)
(* stored, after the payment and the bond were verified, those that save    *)
(* the copy, and those of bonded policies only.                             *)
Owning == Stages \ ({"exists", "create"} \cup Releasing)
Tokened == {"activated", "complete", "answer"}
Verified == Owning \ {"received", "compiled", "to_policy", "verify", "delete"}
Secured == {"to_bonded", "save_bond", "opened", "to_active", "save_token"} \cup Tokened
Saving == {"save_payment", "save_bond", "save_token"}
ForBonded == {"bond", "to_bonded", "save_bond", "opened"}

Settled == {"ACTIVE", "CLOSED"}
\* The state of the record at each stage.
StateAt(stage, i, state) ==
  /\ stage \in {"received", "compiled", "to_policy"} => state = "CREATED"
  /\ stage \in {"verify", "to_payment"} => state = "POLICY_READY"
  /\ stage \in {"save_payment", "paid", "bond", "to_bonded"} => state = "PAYMENT_READY"
  /\ stage \in {"save_bond", "opened"} => state = "BONDED"
  /\ stage = "to_active" => state = IF i \in Bonded THEN "BONDED" ELSE "PAYMENT_READY"
  /\ stage = "save_token" => state = "ACTIVE"
  /\ stage \in Tokened => state \in Settled
  /\ stage = "delete" => state \in Unfinished

Paid(b, s, tokens) ==
  /\ Token("credential", s, b.credential.amount) \in tokens
  /\ b.credential.amount >= Cap[b.intent]
Backed(b, accounts) ==
  b.intent \in Bonded => b.bond \in Bonds /\ accounts[b.bond] # None
                         /\ accounts[b.bond].intent = b.intent

(* The record that request r is making.                                     *)
Mine(r, record, tokens, accounts) ==
  /\ record \in Records
  /\ record.maker = r.n /\ record.body = r.body /\ record.intent = r.body.intent
  /\ StateAt(r.stage, r.body.intent, record.state)
  /\ record.token = IF r.stage \in Tokened THEN r.n ELSE None
  /\ r.stage \in Saving => r.copy = record
  /\ r.stage \in Verified => Paid(r.body, r.sid, tokens)
  /\ r.stage \in Secured => Backed(r.body, accounts)
  /\ r.stage \in ForBonded => r.body.intent \in Bonded

(* Any record of session id s.                                              *)
Sound(s, record, tokens, accounts) ==
  record # None =>
    /\ record \in Records
    /\ record.intent = record.body.intent
    /\ record.state \in Settled => Paid(record.body, s, tokens) /\ Backed(record.body, accounts)

(* What clients were told, and what they would be told if they asked again. *)
AllTold ==
  {[body |-> a.body, answer |-> a.session] : a \in answers} \cup
  {claims[k] : k \in {j \in Keys : StoredAnswerOf(j) # None}}

(* The record that an answer names.                                         *)
Works(claim) ==
  LET record == sessions[claim.answer.sid]
  IN /\ record \in Records
     /\ record.token = claim.answer.token
     /\ record.state \in Settled
     /\ record.intent = claim.body.intent

Owns(h) == Stage(h) \in Owning

OwnerInv ==
  /\ \A h \in Slots : Stage(h) \in Stages \ Releasing => Body(h).intent \in Intents
  /\ \A h \in Slots : Owns(h) => Mine(handler[h], sessions[Sid(h)], issued, bonds)
  /\ \A g, h \in Slots : g # h /\ Owns(g) /\ Owns(h) => Sid(g) # Sid(h)
SoundInv ==
  /\ sessions \in [AllSids -> Records \cup {None}]
  /\ \A s \in AllSids : Sound(s, sessions[s], issued, bonds)
HalfInv ==
  \A s \in AllSids : sessions[s] # None /\ sessions[s].state \in Unfinished =>
    sessions[s].maker \in faulted \/ \E h \in Slots : Owns(h) /\ Sid(h) = s
WorksInv == \A c \in AllTold : c.answer \in Answers /\ Works(c)
TokenInv ==
  /\ \A t \in issued : t = Token(t.kind, t.sid, t.amount)
  /\ bonds \in [Bonds -> Accounts \cup {None}]
  /\ sends \in 0..MaxSends /\ faulted \subseteq Ids

RecordInv == OwnerInv /\ SoundInv /\ HalfInv /\ WorksInv /\ TokenInv

(* Settled sessions are not taken back, so what was answered works.         *)
WorksStays ==
  \A s \in AllSids :
    sessions[s] \in Records /\ sessions[s].state \in Settled /\ sessions[s].token # None =>
      /\ sessions'[s] \in Records /\ sessions'[s].state \in Settled
      /\ sessions'[s].token = sessions[s].token /\ sessions'[s].intent = sessions[s].intent

LEMMA StoredSid ==
  ASSUME ClaimInv, NEW k \in Keys, StoredAnswerOf(k) # None
  PROVE  /\ claims[k] # None /\ claims[k] \in AllTold /\ claims[k].answer \in Answers
         /\ claims[k].answer.sid \in AllSids /\ claims[k].answer.token \in Ids
         /\ claims[k].answer.token # None
BY DEF ClaimInv, StoredAnswerOf, Claims, Answers, AllSids, AllTold

LEMMA AnswerSid ==
  ASSUME NEW answer \in Answers
  PROVE  answer.sid \in AllSids /\ answer.token \in Ids /\ answer.token # None
BY DEF Answers, AllSids

(* Nothing new is told.                                                     *)
LEMMA ToldStays ==
  ASSUME answers' = answers,
         \A k \in Keys : StoredAnswerOf(k)' # None => claims'[k] = claims[k]
  PROVE  \A c \in AllTold' : c \in AllTold
BY DEF AllTold, StoredAnswerOf

LEMMA WorksKeeps ==
  ASSUME WorksInv, WorksStays, \A c \in AllTold' : c \in AllTold
  PROVE  WorksInv'
<1> SUFFICES ASSUME NEW c \in AllTold
             PROVE  c.answer \in Answers /\ Works(c)'
  BY DEF WorksInv
<1>1. c.answer \in Answers /\ Works(c)
  BY DEF WorksInv
<1>2. c.answer.sid \in AllSids /\ c.answer.token # None
  BY <1>1, AnswerSid
<1> QED
  BY <1>1, <1>2 DEF Works, WorksStays

(* A step of the request in slot h: it may change the record that is its    *)
(* own, or make one where there is none, and nothing else.                  *)
LEMMA SlotStep ==
  ASSUME ClaimInv, OwnerInv, SoundInv, HalfInv, NEW h \in Slots, Stage(h) \in Stages \ Releasing,
         NEW r, r.body = Body(h), r.n = handler[h].n, r.sid = Sid(h), r.stage \in Stages,
         handler' = [handler EXCEPT ![h] = r],
         NEW x \in Records \cup {None}, sessions' = [sessions EXCEPT ![Sid(h)] = x],
         issued' = issued, bonds' = bonds, faulted \subseteq faulted',
         x = sessions[Sid(h)] \/ Owns(h) \/ sessions[Sid(h)] = None,
         r.stage \in Owning => Mine(r, x, issued, bonds) /\ (Owns(h) \/ sessions[Sid(h)] = None),
         Sound(Sid(h), x, issued, bonds),
         x # None /\ x.state \in Unfinished /\ r.stage \notin Owning =>
           x = sessions[Sid(h)] /\ (Owns(h) => handler[h].n \in faulted')
  PROVE  OwnerInv' /\ SoundInv' /\ HalfInv'
<1>1. Holds(h) /\ handler[h] # Idle
  BY IdleIsNoStage DEF ClaimInv, Stage
<1>2. Sid(h) \in AllSids
  BY <1>1 DEF Holds
<1>3. /\ handler'[h] = r /\ \A g \in Slots \ {h} : handler'[g] = handler[g]
      /\ sessions'[Sid(h)] = x /\ \A s \in AllSids \ {Sid(h)} : sessions'[s] = sessions[s]
      /\ sessions' \in [AllSids -> Records \cup {None}]
  BY <1>2 DEF ClaimInv, SoundInv
<1>4. ASSUME NEW g \in Slots \ {h}, Owns(g), Owns(h) \/ sessions[Sid(h)] = None
      PROVE  Sid(g) # Sid(h)
  <2>1. Mine(handler[g], sessions[Sid(g)], issued, bonds)
    BY <1>4 DEF OwnerInv
  <2>2. sessions[Sid(g)] # None
    BY <2>1 DEF Mine
  <2> QED
    BY <1>4, <2>2 DEF OwnerInv
<1>5. ASSUME NEW g \in Slots \ {h}, Owns(g)
      PROVE  Sid(g) \in AllSids /\ sessions'[Sid(g)] = sessions[Sid(g)]
  <2>1. Sid(g) \in AllSids
    BY <1>5, IdleIsNoStage DEF ClaimInv, Holds, Owns, Owning, Stage
  <2>2. CASE x = sessions[Sid(h)]
    BY <2>1, <2>2, <1>3
  <2>3. CASE x # sessions[Sid(h)]
    BY <2>1, <2>3, <1>3, <1>4, <1>5
  <2> QED
    BY <2>1, <2>2, <2>3
<1>6. \A g \in Slots \ {h} : /\ Owns(g)' <=> Owns(g)
                             /\ Stage(g)' = Stage(g) /\ Body(g)' = Body(g) /\ Sid(g)' = Sid(g)
  BY <1>3 DEF Owns, Stage, Body, Sid
<1>7. /\ Owns(h)' <=> r.stage \in Owning
      /\ Stage(h)' = r.stage /\ Body(h)' = Body(h) /\ Sid(h)' = Sid(h)
  BY <1>3 DEF Owns, Stage, Body, Sid
<1>8. OwnerInv'
  <2>1. \A g \in Slots : Stage(g)' \in Stages \ Releasing => Body(g)'.intent \in Intents
    BY <1>6, <1>7 DEF OwnerInv
  <2>2. ASSUME NEW g \in Slots, Owns(g)'
        PROVE  Mine(handler'[g], sessions'[Sid(g)'], issued', bonds')
    <3>1. CASE g = h
      BY <3>1, <2>2, <1>3, <1>7
    <3>2. CASE g # h
      <4>1. /\ handler'[g] = handler[g] /\ sessions'[Sid(g)'] = sessions[Sid(g)]
            /\ Mine(handler[g], sessions[Sid(g)], issued, bonds)
        BY <3>2, <2>2, <1>3, <1>5, <1>6 DEF OwnerInv
      <4> QED
        BY <4>1
    <3> QED
      BY <3>1, <3>2
  <2>3. \A g, k \in Slots : g # k /\ Owns(g)' /\ Owns(k)' => Sid(g)' # Sid(k)'
    <3> SUFFICES ASSUME NEW g \in Slots, NEW k \in Slots, g # k, Owns(g)', Owns(k)'
                 PROVE  Sid(g)' # Sid(k)'
      OBVIOUS
    <3>1. CASE g # h /\ k # h
      BY <3>1, <1>6 DEF OwnerInv
    <3>2. CASE g = h \/ k = h
      BY <3>2, <1>4, <1>6, <1>7
    <3> QED
      BY <3>1, <3>2
  <2> QED
    BY <2>1, <2>2, <2>3 DEF OwnerInv
<1>9. SoundInv'
  <2>1. ASSUME NEW s \in AllSids PROVE Sound(s, sessions'[s], issued', bonds')
    <3>1. CASE s = Sid(h)
      BY <3>1, <1>3
    <3>2. CASE s # Sid(h)
      BY <3>2, <1>3 DEF SoundInv
    <3> QED
      BY <3>1, <3>2
  <2> QED
    BY <2>1, <1>3 DEF SoundInv
<1>10. HalfInv'
  <2> SUFFICES ASSUME NEW s \in AllSids, sessions'[s] # None, sessions'[s].state \in Unfinished
               PROVE  sessions'[s].maker \in faulted' \/ \E g \in Slots : Owns(g)' /\ Sid(g)' = s
    BY DEF HalfInv
  <2>1. CASE s = Sid(h) /\ r.stage \in Owning
    BY <2>1, <1>7
  <2>2. CASE s = Sid(h) /\ r.stage \notin Owning
    <3>1. x = sessions[s] /\ sessions'[s] = x /\ (Owns(h) => handler[h].n \in faulted')
      BY <2>2, <1>3
    <3>2. CASE Owns(h)
      <4>1. x.maker = handler[h].n
        BY <3>1, <3>2, <2>2 DEF OwnerInv, Mine
      <4> QED
        BY <3>1, <3>2, <4>1
    <3>3. CASE ~Owns(h)
      BY <2>2, <3>1, <3>3, <1>6 DEF HalfInv
    <3> QED
      BY <3>2, <3>3
  <2>3. CASE s # Sid(h)
    <3>1. sessions[s].maker \in faulted \/ \E g \in Slots : Owns(g) /\ Sid(g) = s
      BY <2>3, <1>3 DEF HalfInv
    <3> QED
      BY <2>3, <3>1, <1>3, <1>6
  <2> QED
    BY <2>1, <2>2, <2>3
<1> QED
  BY <1>8, <1>9, <1>10

(* What comes next for a request whose record stays as it is.               *)
Follows(r, q, tokens, accounts) ==
  \/ r.stage = "received" /\ q.stage = "compiled"
  \/ r.stage = "compiled" /\ q.stage = "to_policy"
  \/ r.stage = "verify" /\ q.stage = "to_payment" /\ Paid(r.body, r.sid, tokens)
  \/ r.stage \in {"verify", "bond"} /\ q.stage = "delete"
  \/ r.stage = "paid" /\ q.stage = IF r.body.intent \in Bonded THEN "bond" ELSE "to_active"
  \/ r.stage = "bond" /\ q.stage = "to_bonded" /\ Backed(r.body, accounts)
  \/ r.stage = "opened" /\ q.stage = "to_active"
  \/ r.stage = "activated" /\ q.stage = "complete"
  \/ r.stage = "complete" /\ q.stage = "answer"

LEMMA MineMoves ==
  ASSUME NEW r, NEW q, q.body = r.body, q.n = r.n, q.sid = r.sid,
         NEW record, NEW tokens, NEW accounts,
         Mine(r, record, tokens, accounts), Follows(r, q, tokens, accounts)
  PROVE  Mine(q, record, tokens, accounts)
<1> USE DEF Mine, Verified, Secured, Owning, Tokened, Saving, ForBonded, Stages, Settled, Unfinished
<1>1. StateAt(q.stage, q.body.intent, record.state)
  BY DEF Follows, StateAt
<1>2. record.token = IF q.stage \in Tokened THEN q.n ELSE None
  BY DEF Follows
<1>3. q.stage \notin Saving
  BY DEF Follows
<1>4. q.stage \in Verified => Paid(q.body, q.sid, tokens)
  BY DEF Follows
<1>5. q.stage \in Secured => Backed(q.body, accounts)
  BY DEF Follows, Backed
<1>6. q.stage \in ForBonded => q.body.intent \in Bonded
  BY DEF Follows
<1> QED
  BY <1>1, <1>2, <1>3, <1>4, <1>5, <1>6

Quiet == sessions' = sessions /\ issued' = issued /\ bonds' = bonds
Silent == claims' = claims /\ answers' = answers

LEMMA StageStep ==
  ASSUME ClaimInv, OwnerInv, SoundInv, HalfInv, NEW h \in Slots, Stage(h) \in Stages \ Releasing,
         NEW t \in Stages, Goto(h, t), Quiet, faulted \subseteq faulted',
         t \in Owning => Owns(h) /\ Follows(handler[h], [handler[h] EXCEPT !.stage = t], issued, bonds),
         t \notin Owning /\ Owns(h) =>
           \/ handler[h].n \in faulted'
           \/ sessions[Sid(h)] = None \/ sessions[Sid(h)].state \notin Unfinished
  PROVE  OwnerInv' /\ SoundInv' /\ HalfInv'
<1> DEFINE r == [handler[h] EXCEPT !.stage = t]
           x == sessions[Sid(h)]
<1>1. Holds(h)
  BY IdleIsNoStage DEF ClaimInv, Stage
<1>2. /\ r.stage = t /\ r.body = Body(h) /\ r.n = handler[h].n /\ r.sid = Sid(h)
      /\ r.body = handler[h].body /\ r.sid = handler[h].sid
  BY <1>1 DEF Holds, Fields, Body, Sid
<1>3. handler' = [handler EXCEPT ![h] = r]
  BY DEF Goto
<1>4. x \in Records \cup {None} /\ Sound(Sid(h), x, issued, bonds)
      /\ sessions' = [sessions EXCEPT ![Sid(h)] = x]
  BY <1>1 DEF Holds, SoundInv, Quiet
<1>5. ASSUME t \in Owning
      PROVE  Mine(r, x, issued, bonds) /\ Owns(h)
  <2>1. Owns(h) /\ Mine(handler[h], x, issued, bonds) /\ Follows(handler[h], r, issued, bonds)
    BY <1>5 DEF OwnerInv
  <2> HIDE DEF r, x
  <2> QED
    BY <2>1, <1>2, MineMoves
<1> HIDE DEF r
<1> QED
  BY <1>2, <1>3, <1>4, <1>5, SlotStep DEF Quiet

(* A slot that becomes idle, or takes a request that owns no record yet.    *)
LEMMA EndStep ==
  ASSUME ClaimInv, OwnerInv, SoundInv, HalfInv, NEW h \in Slots,
         NEW r, r.stage \notin Owning, r.stage \in Stages \ Releasing => r.body.intent \in Intents,
         handler' = [handler EXCEPT ![h] = r], Quiet, faulted \subseteq faulted',
         Owns(h) => sessions[Sid(h)].state \notin Unfinished
  PROVE  OwnerInv' /\ SoundInv' /\ HalfInv'
<1>1. \A g \in Slots \ {h} : handler'[g] = handler[g]
  BY DEF ClaimInv
<1>2. ~Owns(h)' /\ (Stage(h)' \in Stages \ Releasing => Body(h)'.intent \in Intents)
  BY DEF ClaimInv, Stage, Body, Owns
<1>3. \A g \in Slots \ {h} : /\ Owns(g)' <=> Owns(g)
                             /\ Stage(g)' = Stage(g) /\ Body(g)' = Body(g) /\ Sid(g)' = Sid(g)
  BY <1>1 DEF Owns, Stage, Body, Sid
<1>4. OwnerInv'
  BY <1>1, <1>2, <1>3 DEF OwnerInv, Quiet
<1>5. SoundInv'
  BY DEF SoundInv, Quiet
<1>6. HalfInv'
  <2> SUFFICES ASSUME NEW s \in AllSids, sessions[s] # None, sessions[s].state \in Unfinished
               PROVE  sessions[s].maker \in faulted' \/ \E g \in Slots : Owns(g)' /\ Sid(g)' = s
    BY DEF HalfInv, Quiet
  <2>1. sessions[s].maker \in faulted \/ \E g \in Slots : Owns(g) /\ Sid(g) = s
    BY DEF HalfInv
  <2> QED
    BY <2>1, <1>3
<1> QED
  BY <1>4, <1>5, <1>6

LEMMA Order ==
  ASSUME NEW i
  PROVE  /\ After(i)["exists"] = "create" /\ After(i)["create"] = "received"
         /\ After(i)["received"] = "compiled" /\ After(i)["compiled"] = "to_policy"
         /\ After(i)["to_policy"] = "verify" /\ After(i)["verify"] = "to_payment"
         /\ After(i)["to_payment"] = "save_payment" /\ After(i)["save_payment"] = "paid"
         /\ After(i)["paid"] = (IF i \in Bonded THEN "bond" ELSE "to_active")
         /\ After(i)["bond"] = "to_bonded" /\ After(i)["to_bonded"] = "save_bond"
         /\ After(i)["save_bond"] = "opened" /\ After(i)["opened"] = "to_active"
         /\ After(i)["to_active"] = "save_token" /\ After(i)["save_token"] = "activated"
         /\ After(i)["activated"] = "complete" /\ After(i)["complete"] = "answer"
BY DEF After

(* The rest of the invariant when a request works on its own record.        *)
LEMMA OwnStep ==
  ASSUME ClaimInv, RecordInv, OwnerInv', SoundInv', HalfInv',
         UNCHANGED <<claims, answers>>, sends' = sends, issued' = issued, bonds' = bonds,
         faulted' \subseteq Ids,
         NEW s \in AllSids, NEW x, sessions' = [sessions EXCEPT ![s] = x],
         x = sessions[s] \/ sessions[s] = None \/ sessions[s].token = None
           \/ sessions[s].state \notin Settled
  PROVE  RecordInv'
<1>1. \A u \in AllSids \ {s} : sessions'[u] = sessions[u]
  BY DEF RecordInv, SoundInv
<1>2. sessions'[s] = x
  BY DEF RecordInv, SoundInv
<1>3. WorksStays
  BY <1>1, <1>2 DEF WorksStays
<1>4. WorksInv'
  BY <1>3, ToldStays, WorksKeeps DEF RecordInv
<1>5. TokenInv'
  BY DEF RecordInv, TokenInv
<1> QED
  BY <1>4, <1>5 DEF RecordInv

LEMMA QuietStep ==
  ASSUME ClaimInv, RecordInv, OwnerInv', SoundInv', HalfInv', Quiet,
         \A c \in AllTold' : c \in AllTold, sends' = sends, faulted' \subseteq Ids
  PROVE  RecordInv'
<1>1. WorksStays
  BY DEF WorksStays, Quiet
<1>2. WorksInv'
  BY <1>1, WorksKeeps DEF RecordInv
<1>3. TokenInv'
  BY DEF RecordInv, TokenInv, Quiet
<1> QED
  BY <1>2, <1>3 DEF RecordInv

LEMMA AdvanceStep ==
  ASSUME ClaimInv, OwnerInv, SoundInv, HalfInv, NEW h \in Slots, Owns(h), Advance(h), Quiet,
         faulted' = faulted, NEW t \in Owning, After(Body(h).intent)[Stage(h)] = t,
         Follows(handler[h], [handler[h] EXCEPT !.stage = t], issued, bonds)
  PROVE  OwnerInv' /\ SoundInv' /\ HalfInv'
<1>1. Goto(h, t) /\ t \in Stages /\ Stage(h) \in Stages \ Releasing
  BY DEF Advance, Owning, Owns
<1> QED
  BY <1>1, StageStep

(* The steps that leave the record as it is.                                *)
LEMMA ReadingKeeps ==
  ASSUME ClaimInv, RecordInv, NEW h \in Slots,
         CheckSid(h) \/ Emit(h) \/ VerifyPayment(h) \/ VerifyBond(h)
  PROVE  RecordInv'
<1> DEFINE r(t) == [handler[h] EXCEPT !.stage = t]
<1>1. /\ Quiet /\ Silent /\ sends' = sends /\ faulted' = faulted
      /\ faulted' \subseteq Ids
  BY DEF CheckSid, Emit, VerifyPayment, VerifyBond, Quiet, Silent, RecordInv, TokenInv, failures
<1>2. Stage(h) \in {"exists", "verify", "bond", "received", "compiled", "paid", "opened", "activated"}
  BY DEF CheckSid, Emit, VerifyPayment, VerifyBond, EventAt
<1>3. Stage(h) \in Stages \ Releasing /\ Holds(h) /\ OwnerInv /\ SoundInv /\ HalfInv
  BY <1>2, IdleIsNoStage DEF Stages, ClaimInv, Stage, RecordInv
<1>4. /\ handler[h].stage = Stage(h) /\ handler[h].body = Body(h) /\ handler[h].sid = Sid(h)
      /\ \A t : r(t).stage = t
  BY <1>3 DEF Holds, Fields, Stage, Body, Sid
<1> HIDE DEF r
<1> SUFFICES OwnerInv' /\ SoundInv' /\ HalfInv'
  BY <1>1, ToldStays, QuietStep DEF Silent
<1>5. CASE CheckSid(h)
  <2>1. Goto(h, "create") \/ Goto(h, "release")
    BY <1>5, Order DEF CheckSid, Advance
  <2>2. ~Owns(h) /\ {"create", "release"} \subseteq Stages \ Owning
    BY <1>5 DEF CheckSid, Owns, Owning, Stages
  <2> QED
    BY <1>1, <1>3, <2>1, <2>2, StageStep
<1>6. CASE Emit(h)
  <2> DEFINE t == After(Body(h).intent)[Stage(h)]
  <2>1. Stage(h) \in {"received", "compiled", "paid", "opened", "activated"} /\ Advance(h)
    BY <1>6 DEF Emit, EventAt
  <2>2. Owns(h) /\ t \in Owning
    BY <2>1, Order DEF Owns, Owning, Stages
  <2>3. Follows(handler[h], r(t), issued, bonds)
    BY <1>4, <2>1, Order DEF Follows
  <2> HIDE DEF t
  <2> QED
    BY <1>1, <1>3, <2>1, <2>2, <2>3, AdvanceStep DEF t, r
<1>7. CASE VerifyPayment(h)
  <2>1. Stage(h) = "verify" /\ Owns(h) /\ {"to_payment", "delete"} \subseteq Owning \cap Stages
    BY <1>7 DEF VerifyPayment, Owns, Owning, Stages
  <2>2. CASE CredentialCovers(Body(h), Sid(h)) /\ Goto(h, "to_payment")
    <3>1. Paid(Body(h), Sid(h), issued)
      BY <2>2 DEF CredentialCovers, VerifyCredential, VerifyToken, Paid, RecordInv, TokenInv
    <3>2. Follows(handler[h], r("to_payment"), issued, bonds)
      BY <1>4, <2>1, <3>1 DEF Follows
    <3> QED
      BY <1>1, <1>3, <2>1, <2>2, <3>2, StageStep DEF r
  <2>3. CASE Goto(h, "delete")
    <3>1. Follows(handler[h], r("delete"), issued, bonds)
      BY <1>4, <2>1 DEF Follows
    <3> QED
      BY <1>1, <1>3, <2>1, <2>3, <3>1, StageStep DEF r
  <2> QED
    BY <1>7, <2>2, <2>3, Order DEF VerifyPayment, Advance
<1>8. CASE VerifyBond(h)
  <2>1. Stage(h) = "bond" /\ Owns(h) /\ {"to_bonded", "delete"} \subseteq Owning \cap Stages
    BY <1>8 DEF VerifyBond, Owns, Owning, Stages
  <2>2. CASE BondCovers(Body(h)) /\ Goto(h, "to_bonded")
    <3>1. Follows(handler[h], r("to_bonded"), issued, bonds)
      BY <1>4, <2>1, <2>2 DEF Follows, BondCovers, Backed
    <3> QED
      BY <1>1, <1>3, <2>1, <2>2, <3>1, StageStep DEF r
  <2>3. CASE Goto(h, "delete")
    <3>1. Follows(handler[h], r("delete"), issued, bonds)
      BY <1>4, <2>1 DEF Follows
    <3> QED
      BY <1>1, <1>3, <2>1, <2>3, <3>1, StageStep DEF r
  <2> QED
    BY <1>8, <2>2, <2>3, Order DEF VerifyBond, Advance
<1> QED
  BY <1>5, <1>6, <1>7, <1>8

(* A step that leaves the work and goes to release the claim.               *)
LEMMA LeavingKeeps ==
  ASSUME ClaimInv, RecordInv, NEW h \in Slots, Stage(h) \in Stages \ Releasing,
         NEW t \in Releasing, Goto(h, t), Quiet, Silent, sends' = sends,
         faulted' = faulted \/ faulted' = faulted \cup {handler[h].n},
         Owns(h) => \/ handler[h].n \in faulted'
                    \/ sessions[Sid(h)] = None \/ sessions[Sid(h)].state \notin Unfinished
  PROVE  RecordInv'
<1>1. faulted' \subseteq Ids /\ faulted \subseteq faulted'
  BY IdleIsNoStage DEF RecordInv, TokenInv, ClaimInv, Holds, Stage
<1>2. t \in Stages \ Owning /\ OwnerInv /\ SoundInv /\ HalfInv
  BY DEF Owning, Stages, RecordInv
<1>3. OwnerInv' /\ SoundInv' /\ HalfInv'
  BY <1>1, <1>2, StageStep
<1> QED
  BY <1>1, <1>3, ToldStays, QuietStep DEF Silent

LEMMA ThrowingKeeps ==
  ASSUME ClaimInv, RecordInv, NEW h \in Slots, Throw(h)
  PROVE  RecordInv'
<1>1. /\ Quiet /\ Silent /\ sends' = sends /\ faulted' = faulted \cup {handler[h].n}
      /\ Stage(h) \in Stages \ Releasing /\ Goto(h, "catch")
  BY DEF Throw, CutShort, Quiet, Silent
<1> QED
  BY <1>1, LeavingKeeps

(* The steps that end a request, or release its claim.                      *)
LEMMA EndingKeeps ==
  ASSUME ClaimInv, RecordInv, NEW h \in Slots,
         Release(h) \/ Answer(h) \/ AbortThrows(h) \/ CatchThrows(h)
  PROVE  RecordInv'
<1>1. Quiet /\ sends' = sends /\ OwnerInv /\ SoundInv /\ HalfInv /\ Stage(h) \in Last
  BY DEF Release, Answer, AbortThrows, CatchThrows, Quiet, RecordInv
<1>2. Holds(h)
  BY <1>1, IdleIsNoStage DEF ClaimInv, Stage, Stages
<1>3. faulted' = faulted \/ faulted' = faulted \cup {handler[h].n}
  BY DEF Release, Answer, AbortThrows, CatchThrows, CutShort, failures
<1>4. faulted' \subseteq Ids /\ faulted \subseteq faulted'
  BY <1>2, <1>3 DEF RecordInv, TokenInv, Holds
<1>5. \E u : handler' = [handler EXCEPT ![h] = u] /\ u.stage \in {Idle.stage, "catch"}
  <2>1. CASE AbortThrows(h)
    <3>1. handler' = [handler EXCEPT ![h] = [handler[h] EXCEPT !.stage = "catch"]]
      BY <2>1 DEF AbortThrows, Goto
    <3>2. [handler[h] EXCEPT !.stage = "catch"].stage = "catch"
      BY <1>2 DEF Holds, Fields
    <3> QED
      BY <3>1, <3>2
  <2>2. CASE ~AbortThrows(h)
    BY <2>2 DEF Release, Answer, CatchThrows
  <2> QED
    BY <2>1, <2>2
<1>6. Owns(h) => sessions[Sid(h)].state \notin Unfinished
  <2> SUFFICES ASSUME Owns(h) PROVE sessions[Sid(h)].state \notin Unfinished
    OBVIOUS
  <2>1. Stage(h) = "answer"
    BY <1>1 DEF Owns, Owning
  <2>2. sessions[Sid(h)].state \in Settled
    BY <1>1, <2>1 DEF OwnerInv, Mine, StateAt, Tokened, Stage
  <2> QED
    BY <2>2 DEF Settled, Unfinished
<1>7. OwnerInv' /\ SoundInv' /\ HalfInv'
  <2>1. PICK u : handler' = [handler EXCEPT ![h] = u] /\ u.stage \in {Idle.stage, "catch"}
    BY <1>5
  <2>2. u.stage \notin Owning /\ u.stage \notin Stages \ Releasing
    BY <2>1, IdleIsNoStage DEF Owning
  <2> QED
    BY <1>1, <1>4, <1>6, <2>1, <2>2, EndStep
<1>8. \A k \in Keys : StoredAnswerOf(k)' # None => claims'[k] = claims[k]
  <2>1. claims' \in {claims, Released(h)}
    BY DEF Release, Answer, AbortThrows, CatchThrows
  <2> QED
    BY <1>2, <2>1, ReleasedOnlyInProgress DEF StoredAnswerOf
<1>9. WorksStays
  BY <1>1 DEF WorksStays, Quiet
<1>10. WorksInv'
  <2>1. CASE ~Answer(h)
    <3>1. answers' = answers
      BY <2>1 DEF Release, AbortThrows, CatchThrows
    <3> QED
      BY <1>8, <1>9, <3>1, ToldStays, WorksKeeps DEF RecordInv
  <2>2. CASE Answer(h)
    <3> DEFINE answer == [sid |-> Sid(h), token |-> handler[h].n]
               c == [body |-> Body(h), answer |-> answer]
    <3>1. /\ claims' = claims /\ Stage(h) = "answer"
          /\ answers' = answers \cup {[key |-> handler[h].key, body |-> Body(h), session |-> answer]}
      BY <2>2 DEF Answer
    <3>2. \A d \in AllTold' : d \in AllTold \/ d = c
      BY <3>1 DEF AllTold, StoredAnswerOf
    <3>3. Mine(handler[h], sessions[Sid(h)], issued, bonds)
      BY <1>1, <3>1 DEF OwnerInv, Owns, Owning, Stages
    <3>4. c.answer \in Answers /\ Works(c)
      BY <1>2, <3>1, <3>3 DEF Works, Mine, StateAt, Tokened, Stage, Body, Holds, Answers
    <3> HIDE DEF c
    <3>5. \A d : Works(d)' <=> Works(d)
      BY <1>1 DEF Works, Quiet
    <3> QED
      BY <3>2, <3>4, <3>5 DEF RecordInv, WorksInv
  <2> QED
    BY <2>1, <2>2
<1>11. TokenInv'
  BY <1>1, <1>4 DEF RecordInv, TokenInv, Quiet
<1> QED
  BY <1>7, <1>10, <1>11 DEF RecordInv

(* A request that stores its answer: the record is there and has its token. *)
LEMMA CompletingKeeps ==
  ASSUME ClaimInv, RecordInv, NEW h \in Slots, Complete(h)
  PROVE  RecordInv'
<1> DEFINE key == handler[h].key
           answer == [sid |-> Sid(h), token |-> handler[h].n]
           Own == claims[key] # None /\ claims[key].body = Body(h)
<1>1. Stage(h) = "complete" /\ handler[h] # Idle /\ Owns(h)
  BY IdleIsNoStage DEF Complete, Stages, Stage, Owns, Owning
<1>2. Holds(h) /\ key \in Keys /\ OwnerInv /\ SoundInv /\ HalfInv
  BY <1>1 DEF ClaimInv, RecordInv, Holds
<1>3. sends' = sends /\ faulted' = faulted /\ answers' = answers /\ Quiet
  BY DEF Complete, Quiet, failures
<1>4. Mine(handler[h], sessions[Sid(h)], issued, bonds)
  BY <1>1, <1>2 DEF OwnerInv
<1>5. LET record == sessions[Sid(h)]
      IN /\ record \in Records /\ record.intent = Body(h).intent
         /\ record.state \in Settled /\ record.token = handler[h].n
  BY <1>1, <1>4 DEF Mine, StateAt, Tokened, Stage, Body
<1>6. CASE ~Own
  <2>1. Goto(h, "catch") /\ Silent
    BY <1>1, <1>3, <1>6 DEF Complete, Silent
  <2>2. Stage(h) \in Stages \ Releasing
    BY <1>1 DEF Stages
  <2> QED
    BY <1>3, <1>5, <2>1, <2>2, LeavingKeeps DEF Settled, Unfinished
<1>7. CASE Own
  <2>1. claims' = [claims EXCEPT ![key].answer = answer] /\ Goto(h, "answer")
    BY <1>1, <1>7, LastStage DEF Complete, Advance
  <2>2. OwnerInv' /\ SoundInv' /\ HalfInv'
    <3>1. "answer" \in Stages \cap Owning /\ Stage(h) \in Stages \ Releasing
      BY <1>1 DEF Owning, Stages
    <3>2. [handler[h] EXCEPT !.stage = "answer"].stage = "answer" /\ handler[h].stage = "complete"
      BY <1>1, <1>2 DEF Holds, Fields, Stage
    <3>3. Follows(handler[h], [handler[h] EXCEPT !.stage = "answer"], issued, bonds)
      BY <3>2 DEF Follows
    <3> QED
      BY <1>1, <1>2, <1>3, <2>1, <3>1, <3>3, StageStep
  <2>3. answer.sid = Sid(h) /\ answer.token = handler[h].n /\ answer \in Answers
    BY <1>2 DEF Holds, Answers
  <2>4. claims[key] \in Claims
    BY <1>2, <1>7 DEF ClaimInv
  <2> HIDE DEF answer
  <2>5. /\ claims'[key].answer = answer /\ claims'[key].body = Body(h)
        /\ \A k \in Keys \ {key} : claims'[k] = claims[k]
    BY <1>2, <1>7, <2>1, <2>4 DEF ClaimInv, Claims
  <2>6. \A c \in AllTold' : c \in AllTold \/ c = claims'[key]
    BY <1>3, <2>5 DEF AllTold, StoredAnswerOf
  <2>7. \A c : Works(c)' <=> Works(c)
    BY <1>3 DEF Works, Quiet
  <2>8. claims'[key].answer \in Answers /\ Works(claims'[key])
    BY <1>5, <2>3, <2>5 DEF Works
  <2>9. WorksInv'
    BY <2>6, <2>7, <2>8 DEF RecordInv, WorksInv
  <2>10. TokenInv'
    BY <1>3 DEF RecordInv, TokenInv, Quiet
  <2> QED
    BY <2>2, <2>9, <2>10 DEF RecordInv
<1> QED
  BY <1>6, <1>7

(* Where there is no record, a request makes one.                           *)
LEMMA CreatingKeeps ==
  ASSUME ClaimInv, RecordInv, NEW h \in Slots, CreateSession(h)
  PROVE  RecordInv'
<1> DEFINE x == NewSession(h)
           r == [handler[h] EXCEPT !.stage = "received"]
<1>1. /\ Stage(h) = "create" /\ Silent /\ sends' = sends /\ issued' = issued
      /\ bonds' = bonds /\ faulted' = faulted /\ faulted' \subseteq Ids
      /\ OwnerInv /\ SoundInv /\ HalfInv
  BY DEF CreateSession, Silent, RecordInv, TokenInv, failures
<1>2. Holds(h) /\ Stage(h) \in Stages \ Releasing /\ ~Owns(h)
  BY <1>1, IdleIsNoStage DEF Stages, ClaimInv, Stage, Owns, Owning
<1>3. CASE sessions[Sid(h)] = None
  <2>1. sessions' = [sessions EXCEPT ![Sid(h)] = x] /\ handler' = [handler EXCEPT ![h] = r]
    BY <1>1, <1>3, Order DEF CreateSession, Advance, Goto
  <2>2. /\ r.stage = "received" /\ r.body = Body(h) /\ r.n = handler[h].n /\ r.sid = Sid(h)
        /\ r.stage \in Stages \cap Owning
    BY <1>2 DEF Holds, Fields, Body, Sid, Stages, Owning
  <2>3. Body(h) \in Bodies /\ Body(h).intent \in Intents /\ handler[h].n \in Ids
    BY <1>1, <1>2 DEF Holds, OwnerInv, Stages
  <2>4. /\ x \in Records /\ x.state = "CREATED" /\ x.intent = Body(h).intent
        /\ x.token = None /\ x.body = Body(h) /\ x.maker = handler[h].n
    BY <2>3 DEF NewSession, Records, Unfinished
  <2> HIDE DEF x, r
  <2>5. Mine(r, x, issued, bonds)
    BY <2>2, <2>4 DEF Mine, StateAt, Tokened, Saving, Verified, Secured, ForBonded
  <2>6. Sound(Sid(h), x, issued, bonds)
    BY <2>4 DEF Sound, Settled
  <2>7. OwnerInv' /\ SoundInv' /\ HalfInv'
    BY <1>1, <1>2, <1>3, <2>1, <2>2, <2>4, <2>5, <2>6, SlotStep
  <2> QED
    BY <1>1, <1>2, <1>3, <2>1, <2>7, OwnStep DEF Holds, Silent
<1>4. CASE sessions[Sid(h)] # None
  <2>1. Goto(h, "release") /\ Quiet
    BY <1>1, <1>4 DEF CreateSession, Quiet
  <2> QED
    BY <1>1, <1>2, <2>1, LeavingKeeps
<1> QED
  BY <1>3, <1>4

(* The roll-back of a refused request deletes its own record.               *)
LEMMA DeletingKeeps ==
  ASSUME ClaimInv, RecordInv, NEW h \in Slots, DeleteSession(h)
  PROVE  RecordInv'
<1> DEFINE r == [handler[h] EXCEPT !.stage = "release"]
<1>1. /\ Stage(h) = "delete" /\ Silent /\ sends' = sends /\ issued' = issued
      /\ bonds' = bonds /\ faulted' = faulted /\ faulted' \subseteq Ids
      /\ OwnerInv /\ SoundInv /\ HalfInv
  BY DEF DeleteSession, Silent, RecordInv, TokenInv, failures
<1>2. Holds(h) /\ Stage(h) \in Stages \ Releasing /\ Owns(h)
  BY <1>1, IdleIsNoStage DEF Stages, ClaimInv, Stage, Owns, Owning
<1>3. Mine(handler[h], sessions[Sid(h)], issued, bonds)
  BY <1>1, <1>2 DEF OwnerInv
<1>4. /\ sessions[Sid(h)] \in Records /\ sessions[Sid(h)] # None
      /\ sessions[Sid(h)].state \in Unfinished /\ sessions[Sid(h)].token = None
  BY <1>1, <1>3 DEF Mine, StateAt, Stage, Tokened
<1>5. sessions' = [sessions EXCEPT ![Sid(h)] = None] /\ handler' = [handler EXCEPT ![h] = r]
  BY <1>4 DEF DeleteSession, Goto
<1>6. /\ r.stage = "release" /\ r.body = Body(h) /\ r.n = handler[h].n /\ r.sid = Sid(h)
      /\ r.stage \in Stages \ Owning
  BY <1>2 DEF Holds, Fields, Body, Sid, Stages, Owning
<1> HIDE DEF r
<1>7. Sound(Sid(h), None, issued, bonds)
  BY DEF Sound
<1>8. OwnerInv' /\ SoundInv' /\ HalfInv'
  BY <1>1, <1>2, <1>5, <1>6, <1>7, SlotStep
<1> QED
  BY <1>1, <1>2, <1>4, <1>5, <1>8, OwnStep DEF Holds, Silent

(* A transition finds the record in the state it expects, because nobody    *)
(* else touches it.                                                         *)
LEMMA TransitionKeeps ==
  ASSUME ClaimInv, RecordInv, NEW h \in Slots, Transition(h)
  PROVE  RecordInv'
<1> DEFINE i == Body(h).intent
           old == sessions[Sid(h)]
           move == Move(i)[Stage(h)]
           next == After(i)[Stage(h)]
           x == [old EXCEPT !.state = move[2]]
           r == [[handler[h] EXCEPT !.copy = x] EXCEPT !.stage = next]
<1>1. /\ Stage(h) \in {"to_policy", "to_payment", "to_bonded", "to_active"}
      /\ Silent /\ sends' = sends /\ issued' = issued
      /\ bonds' = bonds /\ faulted' = faulted /\ faulted' \subseteq Ids
      /\ OwnerInv /\ SoundInv /\ HalfInv
  BY DEF Transition, Silent, RecordInv, TokenInv, failures
<1>2. Holds(h) /\ Stage(h) \in Stages \ Releasing /\ Owns(h)
  BY <1>1, IdleIsNoStage DEF Stages, ClaimInv, Stage, Owns, Owning
<1>3. Mine(handler[h], old, issued, bonds)
  BY <1>1, <1>2 DEF OwnerInv
<1>4. old \in Records /\ old # None /\ old.intent = i /\ old.body = Body(h)
      /\ old.token = None /\ old.maker = handler[h].n
  BY <1>1, <1>3 DEF Mine, Tokened, Stage, Body
<1>5. old.state = move[1] /\ move[2] \in Unfinished \cup Settled
      /\ (move[2] = "ACTIVE" <=> Stage(h) = "to_active") /\ move[2] # "CLOSED"
      /\ old.state \in Unfinished
  BY <1>1, <1>3 DEF Mine, StateAt, Stage, Body, Move, Unfinished, Settled
<1>6. /\ sessions' = [sessions EXCEPT ![Sid(h)] = x]
      /\ handler' = [handler EXCEPT ![h].copy = x, ![h].stage = next]
  BY <1>4, <1>5 DEF Transition
<1>7. /\ x \in Records /\ x.state = move[2] /\ x.intent = i /\ x.body = Body(h)
      /\ x.token = None /\ x.maker = handler[h].n
  BY <1>4, <1>5 DEF Records, Settled
<1>8. \/ Stage(h) = "to_policy" /\ next = "verify" /\ move[2] = "POLICY_READY"
      \/ Stage(h) = "to_payment" /\ next = "save_payment" /\ move[2] = "PAYMENT_READY"
      \/ Stage(h) = "to_bonded" /\ next = "save_bond" /\ move[2] = "BONDED"
      \/ Stage(h) = "to_active" /\ next = "save_token" /\ move[2] = "ACTIVE"
  <2>1. /\ After(i)["to_policy"] = "verify" /\ After(i)["to_payment"] = "save_payment"
        /\ After(i)["to_bonded"] = "save_bond" /\ After(i)["to_active"] = "save_token"
    BY Order
  <2>2. /\ Move(i)["to_policy"][2] = "POLICY_READY" /\ Move(i)["to_payment"][2] = "PAYMENT_READY"
        /\ Move(i)["to_bonded"][2] = "BONDED" /\ Move(i)["to_active"][2] = "ACTIVE"
    BY DEF Move
  <2> QED
    BY <1>1, <2>1, <2>2
<1> HIDE DEF x, next
<1>9. handler' = [handler EXCEPT ![h] = r]
  BY <1>6 DEF ClaimInv
<1>10. /\ r.stage = next /\ r.body = Body(h) /\ r.n = handler[h].n /\ r.sid = Sid(h)
       /\ r.copy = x /\ r.stage \in Stages \cap Owning
  BY <1>2, <1>8 DEF Holds, Fields, Body, Sid, Stages, Owning
<1> HIDE DEF r, old, move
<1>11. Mine(r, x, issued, bonds)
  <2>1. /\ StateAt(r.stage, i, x.state)
        /\ r.stage \notin Tokened
        /\ r.stage \in Verified => Paid(Body(h), Sid(h), issued)
        /\ r.stage \in Secured => Backed(Body(h), bonds)
        /\ r.stage \in ForBonded => i \in Bonded
    BY <1>3, <1>7, <1>8, <1>10 DEF Mine, StateAt, Tokened, Verified, Secured, ForBonded,
       Owning, Stages, Stage, Body, Sid
  <2> QED
    BY <2>1, <1>7, <1>10 DEF Mine
<1>12. Sound(Sid(h), x, issued, bonds)
  BY <1>3, <1>5, <1>7 DEF Sound, Settled, Mine, Verified, Secured, Owning, Stages, Stage, Body, Sid
<1>13. OwnerInv' /\ SoundInv' /\ HalfInv'
  BY <1>1, <1>2, <1>6, <1>7, <1>9, <1>10, <1>11, <1>12, SlotStep
<1> QED
  BY <1>1, <1>2, <1>4, <1>6, <1>13, OwnStep DEF Holds, Silent, old

(* A save writes back the copy, which is the record as it still is.         *)
LEMMA SavingKeeps ==
  ASSUME ClaimInv, RecordInv, NEW h \in Slots, SaveSession(h)
  PROVE  RecordInv'
<1> DEFINE i == Body(h).intent
           old == sessions[Sid(h)]
           token == IF Stage(h) = "save_token" THEN handler[h].n ELSE old.token
           next == After(i)[Stage(h)]
           x == [old EXCEPT !.token = token]
           r == [handler[h] EXCEPT !.stage = next]
<1>1. /\ Stage(h) \in Saving
      /\ Silent /\ sends' = sends /\ issued' = issued
      /\ bonds' = bonds /\ faulted' = faulted /\ faulted' \subseteq Ids
      /\ OwnerInv /\ SoundInv /\ HalfInv
  BY DEF SaveSession, Silent, RecordInv, TokenInv, Saving, failures
<1>2. Holds(h) /\ Stage(h) \in Stages \ Releasing /\ Owns(h)
  BY <1>1, IdleIsNoStage DEF Stages, ClaimInv, Stage, Owns, Owning, Saving
<1>3. Mine(handler[h], old, issued, bonds)
  BY <1>1, <1>2 DEF OwnerInv
<1>4. old \in Records /\ old.intent = i /\ old.body = Body(h)
      /\ old.token = None /\ old.maker = handler[h].n /\ handler[h].copy = old
  BY <1>1, <1>3 DEF Mine, Tokened, Saving, Stage, Body
<1>5. token = (IF Stage(h) = "save_token" THEN handler[h].n ELSE None)
      /\ token \in Ids \cup {None}
  BY <1>2, <1>4 DEF Holds
<1>6. /\ sessions' = [sessions EXCEPT ![Sid(h)] = x]
      /\ handler' = [handler EXCEPT ![h] = r]
  BY <1>4 DEF SaveSession, Advance, Goto
<1>7. /\ x \in Records /\ x.state = old.state /\ x.intent = i /\ x.body = Body(h)
      /\ x.token = token /\ x.maker = handler[h].n
  BY <1>4, <1>5 DEF Records
<1>8. \/ Stage(h) = "save_payment" /\ next = "paid"
      \/ Stage(h) = "save_bond" /\ next = "opened"
      \/ Stage(h) = "save_token" /\ next = "activated"
  <2>1. /\ After(i)["save_payment"] = "paid" /\ After(i)["save_bond"] = "opened"
        /\ After(i)["save_token"] = "activated"
    BY Order
  <2> QED
    BY <1>1, <2>1 DEF Saving
<1> HIDE DEF next
<1>9. /\ r.stage = next /\ r.body = Body(h) /\ r.n = handler[h].n /\ r.sid = Sid(h)
      /\ r.stage \in Stages \cap Owning
  BY <1>2, <1>8 DEF Holds, Fields, Body, Sid, Stages, Owning
<1> HIDE DEF x, r, old, token
<1>10. Mine(r, x, issued, bonds)
  <2>1. /\ StateAt(r.stage, i, x.state)
        /\ r.stage \notin Saving
        /\ x.token = IF r.stage \in Tokened THEN handler[h].n ELSE None
        /\ r.stage \in Verified => Paid(Body(h), Sid(h), issued)
        /\ r.stage \in Secured => Backed(Body(h), bonds)
        /\ r.stage \in ForBonded => i \in Bonded
    BY <1>3, <1>5, <1>7, <1>8, <1>9 DEF Mine, StateAt, Tokened, Verified, Secured, ForBonded,
       Owning, Stages, Stage, Body, Sid, Saving, Settled
  <2> QED
    BY <2>1, <1>7, <1>9 DEF Mine
<1>11. Sound(Sid(h), x, issued, bonds)
  BY <1>3, <1>7, <1>8 DEF Sound, Mine, StateAt, Settled, Verified, Secured, Owning, Stages,
     Stage, Body, Sid
<1>12. OwnerInv' /\ SoundInv' /\ HalfInv'
  BY <1>1, <1>2, <1>6, <1>7, <1>9, <1>10, <1>11, SlotStep
<1> QED
  BY <1>1, <1>2, <1>4, <1>6, <1>12, OwnStep DEF Holds, Silent, old

(* A request that is let in.                                                *)
LEMMA ClaimingKeeps ==
  ASSUME ClaimInv, RecordInv, NEW h \in Slots, NEW k \in Keys, NEW b \in Bodies, Claim(h, k, b)
  PROVE  RecordInv'
<1> DEFINE stage == IF b.intent \in Intents /\ b.hash = b.intent THEN "exists" ELSE "release"
           r == [stage |-> stage, key |-> k, body |-> b, n |-> sends',
                 sid |-> IF b.sid = None THEN sends' ELSE b.sid, copy |-> None]
<1>1. /\ handler[h] = Idle /\ sends < MaxSends /\ sends' = sends + 1 /\ claims[k] = None
      /\ claims' = [claims EXCEPT ![k] = [body |-> b, answer |-> None]]
      /\ handler' = handler \/ handler' = [handler EXCEPT ![h] = r]
      /\ Quiet /\ answers' = answers
      /\ faulted' = faulted \/ faulted' = faulted \cup {sends'}
  BY DEF Claim, ClaimKey, ClaimThrows, MakeClaim, Quiet, failures
<1>2. r.stage = stage /\ r.body = b
  OBVIOUS
<1>3. r.stage \notin Owning /\ (r.stage \in Stages \ Releasing => r.body.intent \in Intents)
  BY <1>2 DEF Owning
<1>4. ~Owns(h)
  BY <1>1, IdleIsNoStage DEF Owns, Owning, Stage
<1> HIDE DEF r
<1>5. faulted \subseteq faulted'
  BY <1>1
<1>6. OwnerInv' /\ SoundInv' /\ HalfInv'
  <2>1. CASE handler' = handler
    BY <1>1, <1>5, <2>1 DEF RecordInv, OwnerInv, SoundInv, HalfInv, Quiet, Owns, Stage, Body, Sid
  <2>2. CASE handler' = [handler EXCEPT ![h] = r]
    BY <1>1, <1>3, <1>4, <1>5, <2>2, EndStep DEF RecordInv
  <2> QED
    BY <1>1, <2>1, <2>2
<1>7. \A c \in AllTold' : c \in AllTold
  <2>1. ASSUME NEW j \in Keys, StoredAnswerOf(j)' # None PROVE claims'[j] = claims[j]
    <3>1. CASE j = k
      BY <1>1, <2>1, <3>1 DEF StoredAnswerOf, ClaimInv
    <3>2. CASE j # k
      BY <1>1, <3>2 DEF ClaimInv
    <3> QED
      BY <3>1, <3>2
  <2> QED
    BY <1>1, <2>1, ToldStays
<1>8. WorksInv'
  <2>1. WorksStays
    BY <1>1 DEF WorksStays, Quiet
  <2> QED
    BY <1>7, <2>1, WorksKeeps DEF RecordInv
<1>9. TokenInv'
  BY <1>1 DEF RecordInv, TokenInv, Quiet, Ids
<1> QED
  BY <1>6, <1>8, <1>9 DEF RecordInv

LEMMA ReplayingKeeps ==
  ASSUME ClaimInv, RecordInv, NEW h, NEW k \in Keys, NEW b, Replay(h, k, b)
  PROVE  RecordInv'
<1>1. /\ UNCHANGED <<claims, handler, sends, faulted>> /\ Quiet
      /\ answers' = answers \cup {[key |-> k, body |-> b, session |-> claims[k].answer]}
  BY DEF Replay, Quiet, failures
<1>2. claims[k] = [body |-> b, answer |-> claims[k].answer] /\ StoredAnswerOf(k) # None
  BY DEF Replay, StoredAnswer, StoredAnswerOf, ClaimInv, Claims
<1>3. \A c \in AllTold' : c \in AllTold
  BY <1>1, <1>2 DEF AllTold, StoredAnswerOf
<1>4. OwnerInv' /\ SoundInv' /\ HalfInv'
  BY <1>1 DEF RecordInv, OwnerInv, SoundInv, HalfInv, Quiet, Owns, Stage, Body, Sid
<1>5. faulted' \subseteq Ids
  BY <1>1 DEF RecordInv, TokenInv
<1> QED
  BY <1>1, <1>3, <1>4, <1>5, QuietStep

(* The process stops: its half-made sessions were cut short.                *)
LEMMA CrashingKeeps ==
  ASSUME ClaimInv, RecordInv, Crash
  PROVE  RecordInv'
<1>1. /\ Quiet /\ Silent /\ sends' = sends
      /\ \A h \in Slots : handler'[h] = Idle
      /\ faulted' = faulted \cup {handler[h].n : h \in {g \in Slots : handler[g] # Idle}}
  BY DEF Crash, Quiet, Silent
<1>2. \A h \in Slots : Stage(h)' \notin Stages /\ ~Owns(h)'
  BY <1>1, IdleIsNoStage DEF Stage, Owns, Owning
<1>3. OwnerInv' /\ SoundInv'
  BY <1>1, <1>2 DEF RecordInv, OwnerInv, SoundInv, Quiet
<1>4. HalfInv'
  <2> SUFFICES ASSUME NEW s \in AllSids, sessions[s] # None, sessions[s].state \in Unfinished
               PROVE  sessions[s].maker \in faulted'
    BY <1>1 DEF HalfInv, Quiet
  <2>1. ASSUME NEW h \in Slots, Owns(h), Sid(h) = s PROVE sessions[s].maker \in faulted'
    <3>1. sessions[s].maker = handler[h].n
      BY <2>1 DEF RecordInv, OwnerInv, Mine
    <3>2. handler[h] # Idle
      BY <2>1, IdleIsNoStage DEF Owns, Owning, Stage
    <3> QED
      BY <1>1, <3>1, <3>2
  <2> QED
    BY <1>1, <2>1 DEF RecordInv, HalfInv
<1>5. faulted' \subseteq Ids
  BY <1>1 DEF RecordInv, TokenInv, ClaimInv, Holds
<1> QED
  BY <1>1, <1>3, <1>4, <1>5, ToldStays, QuietStep DEF Silent

(* What happens around the requests: tokens are signed, bonds are opened,   *)
(* and sessions that were answered are closed.                              *)
Signs == issued \subseteq issued'
BondsStay ==
  \A b \in Bonds : bonds[b] # None => bonds'[b] # None /\ bonds'[b].intent = bonds[b].intent
Closes(s) ==
  /\ sessions[s] \in Records /\ sessions[s].state = "ACTIVE" /\ sessions[s].token # None
  /\ sessions'[s] = [sessions[s] EXCEPT !.state = "CLOSED"]

LEMMA OutsideKeeps ==
  ASSUME ClaimInv, RecordInv, Signs, BondsStay, TokenInv',
         sessions' \in [AllSids -> Records \cup {None}],
         \A s \in AllSids : sessions'[s] = sessions[s] \/ Closes(s),
         Silent, handler' = handler, faulted' = faulted
  PROVE  RecordInv'
<1>1. \A h \in Slots : Stage(h)' = Stage(h) /\ Body(h)' = Body(h) /\ Sid(h)' = Sid(h)
                       /\ (Owns(h)' <=> Owns(h))
  BY DEF Stage, Body, Sid, Owns
<1>2. ASSUME NEW s \in AllSids, Closes(s)
      PROVE  /\ sessions'[s] \in Records /\ sessions'[s].state = "CLOSED"
             /\ sessions'[s].token = sessions[s].token /\ sessions'[s].intent = sessions[s].intent
             /\ sessions'[s].body = sessions[s].body /\ sessions'[s].maker = sessions[s].maker
  BY <1>2 DEF Closes, Records
<1>3. \A b, s : Paid(b, s, issued) => Paid(b, s, issued')
  BY DEF Paid, Signs
<1>4. \A b : Backed(b, bonds) => Backed(b, bonds')
  BY DEF Backed, BondsStay
<1>5. ASSUME NEW h \in Slots, Owns(h)
      PROVE  Mine(handler[h], sessions'[Sid(h)], issued', bonds')
  <2>1. Mine(handler[h], sessions[Sid(h)], issued, bonds)
    BY <1>5 DEF RecordInv, OwnerInv
  <2>2. Sid(h) \in AllSids
    BY <1>5, IdleIsNoStage DEF ClaimInv, Holds, Owns, Owning, Stage
  <2>3. CASE sessions'[Sid(h)] = sessions[Sid(h)]
    BY <2>1, <2>3, <1>3, <1>4 DEF Mine
  <2>4. CASE Closes(Sid(h))
    <3>1. handler[h].stage \in Tokened
      BY <2>1, <2>4 DEF Mine, Closes
    <3>2. /\ StateAt(handler[h].stage, handler[h].body.intent, "CLOSED")
          /\ handler[h].stage \notin Saving
      BY <3>1 DEF StateAt, Tokened, Settled, Saving
    <3> QED
      BY <2>1, <2>2, <2>4, <3>1, <3>2, <1>2, <1>3, <1>4 DEF Mine
  <2> QED
    BY <2>2, <2>3, <2>4
<1>6. OwnerInv'
  BY <1>1, <1>5 DEF RecordInv, OwnerInv
<1>7. SoundInv'
  <2>1. ASSUME NEW s \in AllSids PROVE Sound(s, sessions'[s], issued', bonds')
    <3>1. Sound(s, sessions[s], issued, bonds)
      BY DEF RecordInv, SoundInv
    <3>2. CASE sessions'[s] = sessions[s]
      BY <3>1, <3>2, <1>3, <1>4 DEF Sound
    <3>3. CASE Closes(s)
      <4>1. sessions[s] # None /\ sessions[s].state \in Settled
        BY <3>3 DEF Closes, Settled
      <4>2. /\ sessions[s].intent = sessions[s].body.intent
            /\ Paid(sessions[s].body, s, issued) /\ Backed(sessions[s].body, bonds)
        BY <3>1, <4>1 DEF Sound
      <4> QED
        BY <3>3, <4>2, <1>2, <1>3, <1>4 DEF Sound
    <3> QED
      BY <3>2, <3>3
  <2> QED
    BY <2>1 DEF SoundInv
<1>8. HalfInv'
  <2> SUFFICES ASSUME NEW s \in AllSids, sessions'[s] # None, sessions'[s].state \in Unfinished
               PROVE  sessions'[s].maker \in faulted' \/ \E h \in Slots : Owns(h)' /\ Sid(h)' = s
    BY DEF HalfInv
  <2>1. sessions'[s] = sessions[s]
    BY <1>2 DEF Unfinished
  <2> QED
    BY <2>1, <1>1 DEF RecordInv, HalfInv
<1>9. WorksInv'
  <2>1. WorksStays
    BY <1>2 DEF WorksStays, Settled
  <2> QED
    BY <2>1, ToldStays, WorksKeeps DEF RecordInv, Silent
<1> QED
  BY <1>6, <1>7, <1>8, <1>9 DEF RecordInv

LEMMA OpeningKeeps ==
  ASSUME ClaimInv, RecordInv, NEW b \in Bonds, NEW i \in Intents, bonds[b] = None,
         bonds' = [bonds EXCEPT ![b] = NewBond(i)],
         Signs, \A t \in issued' : t \in issued \/ t = Token(t.kind, t.sid, t.amount),
         UNCHANGED <<claims, answers, sessions, handler, sends, faulted>>
  PROVE  RecordInv'
<1>1. TokenInv'
  BY DEF RecordInv, TokenInv, Accounts, NewBond
<1>2. BondsStay
  BY DEF BondsStay, RecordInv, TokenInv, NewBond
<1> QED
  BY <1>1, <1>2, OutsideKeeps DEF RecordInv, SoundInv, Silent

LEMMA SigningKeeps ==
  ASSUME ClaimInv, RecordInv, NEW i, NEW s, CreateChallenge(i, s) \/ IssueCredential(i, s)
  PROVE  RecordInv'
<1>1. PICK kind : /\ issued' = issued \cup {Token(kind, s, Cap[i])}
                  /\ UNCHANGED <<claims, answers, sessions, bonds, handler, sends, faulted>>
  BY DEF CreateChallenge, SignChallenge, IssueCredential, Credential, failures
<1>2. TokenInv'
  BY <1>1 DEF RecordInv, TokenInv, Token
<1>3. BondsStay /\ Signs
  BY <1>1 DEF BondsStay, Signs
<1> QED
  BY <1>1, <1>2, <1>3, OutsideKeeps DEF RecordInv, SoundInv, Silent

LEMMA ClosingKeeps ==
  ASSUME ClaimInv, AnswerInv, RecordInv, NEW a \in answers, CloseSession(a)
  PROVE  RecordInv'
<1> DEFINE s == a.session.sid
<1>1. a.session \in Answers
  <2>1. [body |-> a.body, answer |-> a.session] \in AllTold
    BY DEF AllTold
  <2> QED
    BY <2>1 DEF RecordInv, WorksInv
<1>2. s \in AllSids /\ a.session.token # None
  BY <1>1 DEF Answers, AllSids
<1>3. /\ sessions[s] # None /\ sessions[s].state = "ACTIVE" /\ sessions[s].token # None
      /\ sessions' = [sessions EXCEPT ![s].state = "CLOSED"]
      /\ UNCHANGED <<claims, answers, issued, handler, sends, faulted>>
      /\ \/ bonds' = bonds
         \/ bonds' = [bonds EXCEPT ![sessions[s].body.bond].open = FALSE]
              /\ sessions[s].intent \in Bonded
  BY <1>2 DEF CloseSession, failures
<1> HIDE DEF s
<1>4. sessions[s] \in Records /\ [sessions[s] EXCEPT !.state = "CLOSED"] \in Records
  BY <1>2, <1>3 DEF RecordInv, SoundInv, Records
<1>5. /\ sessions' \in [AllSids -> Records \cup {None}]
      /\ \A u \in AllSids : sessions'[u] = sessions[u] \/ Closes(u)
  BY <1>2, <1>3, <1>4 DEF RecordInv, SoundInv, Closes
<1>6. bonds' \in [Bonds -> Accounts \cup {None}] /\ BondsStay
  <2>1. CASE bonds' = bonds
    BY <2>1 DEF BondsStay, RecordInv, TokenInv
  <2>2. CASE bonds' # bonds
    <3> DEFINE b == sessions[s].body.bond
    <3>1. Sound(s, sessions[s], issued, bonds)
      BY <1>2 DEF RecordInv, SoundInv
    <3>2. Backed(sessions[s].body, bonds) /\ sessions[s].intent = sessions[s].body.intent
      BY <1>3, <3>1 DEF Sound, Settled
    <3>3. b \in Bonds /\ bonds[b] # None
      BY <1>3, <2>2, <3>2 DEF Backed
    <3>4. bonds[b] \in Accounts /\ bonds \in [Bonds -> Accounts \cup {None}]
      BY <3>3 DEF RecordInv, TokenInv
    <3>5. bonds' = [bonds EXCEPT ![b] = [bonds[b] EXCEPT !.open = FALSE]]
      BY <1>3, <2>2
    <3> HIDE DEF b
    <3>6. /\ [bonds[b] EXCEPT !.open = FALSE] \in Accounts
          /\ [bonds[b] EXCEPT !.open = FALSE].intent = bonds[b].intent
      BY <3>4 DEF Accounts
    <3> QED
      BY <3>3, <3>4, <3>5, <3>6 DEF BondsStay
  <2> QED
    BY <2>1, <2>2
<1>7. TokenInv' /\ Signs
  BY <1>3, <1>6 DEF RecordInv, TokenInv, Signs
<1> QED
  BY <1>3, <1>5, <1>6, <1>7, OutsideKeeps DEF Silent

LEMMA UnseenKeeps ==
  ASSUME RecordInv, UNCHANGED <<claims, answers, sessions, issued, bonds, handler, sends, faulted>>
  PROVE  RecordInv'
BY DEF RecordInv, OwnerInv, SoundInv, HalfInv, WorksInv, TokenInv, Works, AllTold,
       StoredAnswerOf, Owns, Stage, Body, Sid

LEMMA RecordStep ==
  ASSUME ClaimInv, LeaseInv, AnswerInv, RecordInv, [DemoNext]_allVars
  PROVE  RecordInv'
<1> DEFINE Unseen == UNCHANGED <<claims, answers, sessions, issued, bonds, handler, sends, faulted>>
<1>1. CASE Unseen
  BY <1>1, UnseenKeeps
<1>2. CASE \E h \in Slots, k \in Keys, b \in Bodies : Claim(h, k, b)
  BY <1>2, ClaimingKeeps
<1>3. CASE \E h \in Slots : Handle(h) \/ Fails(h)
  BY <1>3, ReadingKeeps, EndingKeeps, ThrowingKeeps, CompletingKeeps, CreatingKeeps, DeletingKeeps,
     TransitionKeeps, SavingKeeps DEF Handle, Fails
<1>4. CASE DemoCrash
  BY <1>4, CrashingKeeps DEF DemoCrash
<1>5. CASE Direct
  <2>1. CASE \E i \in Intents, s \in Sids \ Runs : CreateChallenge(i, s) \/ IssueCredential(i, s)
    BY <2>1, SigningKeeps
  <2>2. ASSUME NEW b \in Bonds, NEW i \in Bonded, OpenBond(b, i) PROVE RecordInv'
    <3>1. /\ i \in Intents /\ bonds[b] = None /\ issued' = issued
          /\ bonds' = [bonds EXCEPT ![b] = NewBond(i)]
          /\ UNCHANGED <<claims, answers, sessions, handler, sends, faulted>>
      BY <2>2 DEF OpenBond, failures
    <3> QED
      BY <3>1, OpeningKeeps DEF Signs
  <2> QED
    BY <1>2, <1>5, <2>1, <2>2, ReplayingKeeps DEF Direct
<1>6. CASE Gateway
  BY <1>3, <1>6, ClosingKeeps DEF Gateway
<1>7. ASSUME NEW h \in Slots, RunPrepares(h) PROVE RecordInv'
  <2> DEFINE r == runs[h].id
             tokens == {Token("challenge", r, Cap[Intent(r)]), Credential(r, Cap[Intent(r)])}
  <2>1. r \in Runs
    BY <1>7 DEF RunPrepares, Running, LeaseInv
  <2>2. r \in Bonds /\ Intent(r) \in Intents
    BY <2>1, DemoAssumption DEF Runs, Intent
  <2>3. \A t \in tokens : t = Token(t.kind, t.sid, t.amount)
    BY DEF Token, Credential
  <2>4. /\ bonds[r] = None /\ bonds' = [bonds EXCEPT ![r] = NewBond(Intent(r))]
        /\ issued' = issued \cup tokens
        /\ UNCHANGED <<claims, answers, sessions, handler, sends, faulted>>
    BY <1>7 DEF RunPrepares, failures
  <2> HIDE DEF tokens, r
  <2> QED
    BY <2>2, <2>3, <2>4, OpeningKeeps DEF Signs
<1>8. ASSUME NEW h \in Slots, RunRequestsSession(h)
      PROVE  \E k \in Keys, b \in Bodies : Claim(h, k, b)
  BY <1>8, RunClaims
<1>9. ASSUME NEW h \in Slots,
             \/ RunFails(h) \/ RunIsAnswered(h) \/ ReleaseLease(h) \/ AnnounceRun(h)
             \/ ClaimQuota(h)
      PROVE  Unseen
  BY <1>9 DEF RunFails, RunIsAnswered, ReleaseLease, AnnounceRun, ClaimQuota, vars, failures
<1>10. CASE LeaseRunsOut \/ UNCHANGED allVars
  BY <1>1, <1>10 DEF LeaseRunsOut, vars, failures, allVars
<1> HIDE DEF Unseen
<1> QED
  BY <1>1, <1>2, <1>4, <1>5, <1>6, <1>7, <1>8, <1>9, <1>10 DEF DemoNext, Run

LEMMA RecordInit == DemoInit => RecordInv
<1> SUFFICES ASSUME DemoInit PROVE RecordInv
  OBVIOUS
<1> USE DEF DemoInit, Init
<1>1. \A h \in Slots : Stage(h) \notin Stages /\ ~Owns(h)
  BY IdleIsNoStage DEF Stage, Owns, Owning
<1>2. OwnerInv
  BY <1>1 DEF OwnerInv
<1>3. SoundInv /\ HalfInv
  BY DEF SoundInv, Sound, HalfInv
<1>4. WorksInv
  BY DEF WorksInv, AllTold, StoredAnswerOf
<1>5. TokenInv
  BY DEF TokenInv
<1> QED
  BY <1>2, <1>3, <1>4, <1>5 DEF RecordInv

LEMMA RecordInvariance == DemoSpec => [](ClaimInv /\ LeaseInv /\ AnswerInv /\ RecordInv)
BY Invariance, RecordInit, RecordStep, PTL DEF DemoSpec

LEMMA WorksImplies == RecordInv => AnsweredTokenWorks
<1> SUFFICES ASSUME RecordInv, NEW a \in answers
             PROVE  LET record == sessions[a.session.sid]
                    IN /\ record # None /\ record.token = a.session.token
                       /\ record.state \in Settled /\ record.intent = a.body.intent
  BY DEF AnsweredTokenWorks, Settled
<1> DEFINE c == [body |-> a.body, answer |-> a.session]
<1>1. c \in AllTold
  BY DEF AllTold
<1>2. Works(c) /\ c.body = a.body /\ c.answer = a.session
  BY <1>1 DEF RecordInv, WorksInv
<1> HIDE DEF c
<1>3. LET record == sessions[a.session.sid]
      IN /\ record \in Records /\ record.token = a.session.token
         /\ record.state \in Settled /\ record.intent = a.body.intent
  BY <1>2 DEF Works
<1> QED
  BY <1>3

(* A token that was answered opens an active or settled session that was    *)
(* made for the intent its client named.                                    *)
THEOREM AnsweredAlwaysWorks == DemoSpec => []AnsweredTokenWorks
BY RecordInvariance, WorksImplies, PTL

LEMMA HalfImplies == RecordInv => HalfMadeOnlyByFault
<1> SUFFICES ASSUME RecordInv, NEW s \in AllSids, sessions[s] # None,
                    sessions[s].state \in Unfinished, NEW h \in Slots, Owns(h), Sid(h) = s
             PROVE  handler[h] # Idle /\ handler[h].n = sessions[s].maker
  BY DEF RecordInv, HalfInv, HalfMadeOnlyByFault
<1> QED
  BY IdleIsNoStage DEF RecordInv, OwnerInv, Mine, Owns, Owning, Stage

(* Only a fault leaves a half-made session behind.                          *)
THEOREM HalfMadeAlwaysByFault == DemoSpec => []HalfMadeOnlyByFault
BY RecordInvariance, HalfImplies, PTL

(* From the creation of a record to its answer no two requests work on one  *)
(* session, whatever ids clients ask for and whatever is rolled back: the   *)
(* handler reads and writes its record over many awaits without a lock.     *)
THEOREM OneMakerAlways ==
  DemoSpec => [](\A g, h \in Slots : g # h /\ Owns(g) /\ Owns(h) => Sid(g) # Sid(h))
<1>1. RecordInv => \A g, h \in Slots : g # h /\ Owns(g) /\ Owns(h) => Sid(g) # Sid(h)
  BY DEF RecordInv, OwnerInv
<1> QED
  BY <1>1, RecordInvariance, PTL

LEMMA PaidImplies == RecordInv => PaidAndBonded
<1> SUFFICES ASSUME RecordInv, NEW s \in AllSids, sessions[s] # None,
                    sessions[s].state \in Settled
             PROVE  LET record == sessions[s]
                    IN /\ Token("credential", s, record.body.credential.amount) \in issued
                       /\ record.body.credential.amount >= Cap[record.intent]
                       /\ record.intent \in Bonded => bonds[record.body.bond].intent = record.intent
  BY DEF PaidAndBonded, Settled
<1>1. Sound(s, sessions[s], issued, bonds)
  BY DEF RecordInv, SoundInv
<1> QED
  BY <1>1 DEF Sound, Paid, Backed

(* Every active session is paid for and, if its policy wants it, bonded.    *)
THEOREM AlwaysPaidAndBonded == DemoSpec => []PaidAndBonded
BY RecordInvariance, PaidImplies, PTL

(* The lease and the runs that outlived it.                                 *)
LeaseTyped == lease \in Runs \cup {None} /\ outlived \subseteq Runs

LEMMA LeaseTypedStep ==
  ASSUME LeaseInv, LeaseTyped, [DemoNext]_allVars
  PROVE  LeaseTyped'
<1>1. CASE UNCHANGED <<lease, outlived>>
  BY <1>1 DEF LeaseTyped
<1>2. ASSUME NEW h \in Slots, ClaimQuota(h) PROVE LeaseTyped'
  <2>1. drawn \in Nat /\ drawn < DailyLimit /\ lease' = RunIds[drawn + 1] /\ outlived' = outlived
    BY <1>2, DemoAssumption DEF ClaimQuota, LeaseInv
  <2>2. drawn + 1 \in DOMAIN RunIds
    BY <2>1, DemoAssumption
  <2> QED
    BY <2>1, <2>2 DEF LeaseTyped, Runs
<1>3. CASE LeaseRunsOut
  BY <1>3 DEF LeaseRunsOut, LeaseTyped
<1>4. ASSUME NEW h \in Slots, Run(h) PROVE LeaseTyped'
  BY <1>4 DEF Run, RunPrepares, RunRequestsSession, RunFails, RunIsAnswered, ReleaseLease,
              AnnounceRun, LeaseTyped
<1> QED
  BY <1>1, <1>2, <1>3, <1>4 DEF DemoNext, Direct, Gateway, DemoCrash, demoVars, allVars

LEMMA TypesImplied == ClaimInv /\ LeaseInv /\ RecordInv /\ LeaseTyped => DemoTypeOK
BY DEF ClaimInv, Holds, LeaseInv, RecordInv, SoundInv, TokenInv, LeaseTyped, DemoTypeOK,
       TypeOK, Stage, Sid

(* Claims, records, accounts, requests and runs keep their types.           *)
THEOREM TypesAlwaysRight == DemoSpec => []DemoTypeOK
<1>1. DemoInit => LeaseTyped
  BY DEF DemoInit, LeaseTyped
<1> QED
  BY <1>1, RecordInvariance, LeaseTypedStep, TypesImplied, PTL DEF DemoSpec

-----------------------------------------------------------------------------
(* The events of a session.                                                 *)

Events == {"INTENT_RECEIVED", "POLICY_COMPILED", "PAYMENT_VERIFIED", "BOND_OPENED",
           "SESSION_ACTIVATED"}
Begins(kept, told) == Len(kept) >= Len(told) /\ SubSeq(kept, 1, Len(told)) = told

(* The stages between one event of the making and the next, and what the    *)
(* log says in each of them.                                                *)
AfterPolicy == {"to_policy", "verify", "to_payment", "save_payment", "paid"}
AfterBond == {"to_active", "save_token", "activated"}
Prelude(i) ==
  IF i \in Bonded
  THEN <<"INTENT_RECEIVED", "POLICY_COMPILED", "PAYMENT_VERIFIED", "BOND_OPENED">>
  ELSE <<"INTENT_RECEIVED", "POLICY_COMPILED", "PAYMENT_VERIFIED">>
Tells(stage, i, kept) ==
  /\ stage = "received" => kept = <<>>
  /\ stage = "compiled" => kept = <<"INTENT_RECEIVED">>
  /\ stage \in AfterPolicy => kept = <<"INTENT_RECEIVED", "POLICY_COMPILED">>
  /\ stage \in ForBonded => kept = <<"INTENT_RECEIVED", "POLICY_COMPILED", "PAYMENT_VERIFIED">>
  /\ stage \in AfterBond => kept = Prelude(i)
  /\ stage \in {"complete", "answer"} => Begins(kept, Story(i))

(* A session id that the client named is the one it gets; a run asks for    *)
(* the session of its own name, and announces its bond once it has it.      *)
Named(b, s) == b.sid # None => s = b.sid
NameInv ==
  /\ \A h \in Slots : Stage(h) \in Stages => Named(Body(h), Sid(h))
  /\ \A k \in Keys : StoredAnswerOf(k) # None => Named(claims[k].body, claims[k].answer.sid)
  /\ \A r \in Runs : claims[r] # None => claims[r].body = RunBody[r]
  /\ \A h \in Slots : Running(h, "opened") => StoredAnswerOf(runs[h].id) # None

(* The log of a session in the making is its story so far; where there is   *)
(* no session there is no log; an answered session has the whole story.     *)
StoryInv ==
  /\ log \in [AllSids -> Seq(Events)]
  /\ \A h \in Slots : Owns(h) => Tells(Stage(h), Body(h).intent, log[Sid(h)])
  /\ \A s \in AllSids : sessions[s] = None => log[s] = <<>>
  /\ \A c \in AllTold : Begins(log[c.answer.sid], Story(c.body.intent))

LEMMA Appended ==
  ASSUME NEW a, NEW b, NEW c, NEW d
  PROVE  /\ Append(<<>>, a) = <<a>>
         /\ Append(<<a>>, b) = <<a, b>>
         /\ Append(<<a, b>>, c) = <<a, b, c>>
         /\ Append(<<a, b, c>>, d) = <<a, b, c, d>>
<1> DEFINE S == {a, b, c, d}
<1>1. Append(<<>>, a) = <<a>>
  OBVIOUS
<1>2. Append(<<a>>, b) = <<a, b>>
  <2>1. <<a>> \in Seq(S) /\ <<a, b>> \in Seq(S)
    OBVIOUS
  <2>2. /\ Append(<<a>>, b) \in Seq(S) /\ Len(Append(<<a>>, b)) = 2
        /\ Append(<<a>>, b)[1] = a /\ Append(<<a>>, b)[2] = b
    BY <2>1, AppendProperties
  <2>3. Len(<<a, b>>) = 2 /\ \A i \in 1..2 : Append(<<a>>, b)[i] = <<a, b>>[i]
    BY <2>2
  <2> QED
    BY <2>1, <2>2, <2>3, SeqEqual
<1>3. Append(<<a, b>>, c) = <<a, b, c>>
  <2>1. <<a, b>> \in Seq(S) /\ <<a, b, c>> \in Seq(S)
    OBVIOUS
  <2>2. /\ Append(<<a, b>>, c) \in Seq(S) /\ Len(Append(<<a, b>>, c)) = 3
        /\ Append(<<a, b>>, c)[1] = a /\ Append(<<a, b>>, c)[2] = b /\ Append(<<a, b>>, c)[3] = c
    BY <2>1, AppendProperties
  <2>3. Len(<<a, b, c>>) = 3 /\ \A i \in 1..3 : Append(<<a, b>>, c)[i] = <<a, b, c>>[i]
    BY <2>2
  <2> QED
    BY <2>1, <2>2, <2>3, SeqEqual
<1>4. Append(<<a, b, c>>, d) = <<a, b, c, d>>
  <2>1. <<a, b, c>> \in Seq(S) /\ <<a, b, c, d>> \in Seq(S)
    OBVIOUS
  <2>2. /\ Append(<<a, b, c>>, d) \in Seq(S) /\ Len(Append(<<a, b, c>>, d)) = 4
        /\ Append(<<a, b, c>>, d)[1] = a /\ Append(<<a, b, c>>, d)[2] = b /\ Append(<<a, b, c>>, d)[3] = c /\ Append(<<a, b, c>>, d)[4] = d
    BY <2>1, AppendProperties
  <2>3. Len(<<a, b, c, d>>) = 4 /\ \A i \in 1..4 : Append(<<a, b, c>>, d)[i] = <<a, b, c, d>>[i]
    BY <2>2
  <2> QED
    BY <2>1, <2>2, <2>3, SeqEqual
<1> QED
  BY <1>1, <1>2, <1>3, <1>4

LEMMA StoryEnds ==
  ASSUME NEW i
  PROVE  /\ Story(i) \in Seq(Events) /\ Prelude(i) \in Seq(Events)
         /\ Len(Story(i)) = Len(Prelude(i)) + 1
         /\ Story(i) = Append(Prelude(i), "SESSION_ACTIVATED")
<1> DEFINE paid == <<"INTENT_RECEIVED", "POLICY_COMPILED", "PAYMENT_VERIFIED">>
           last == <<"SESSION_ACTIVATED">>
<1>1. /\ paid \in Seq(Events) /\ last \in Seq(Events) /\ <<"BOND_OPENED">> \in Seq(Events)
      /\ <<>> \in Seq(Events) /\ "BOND_OPENED" \in Events /\ "SESSION_ACTIVATED" \in Events
  BY DEF Events
<1>2. Prelude(i) = paid \o (IF i \in Bonded THEN <<"BOND_OPENED">> ELSE <<>>)
  <2>1. paid \o <<"BOND_OPENED">> = Append(paid, "BOND_OPENED")
    BY <1>1, AppendIsConcat
  <2>2. paid \o <<>> = paid
    BY <1>1, ConcatEmptySeq
  <2>3. CASE i \in Bonded
    BY <2>1, <2>3, Appended DEF Prelude
  <2>4. CASE i \notin Bonded
    BY <2>2, <2>4 DEF Prelude
  <2> QED
    BY <2>3, <2>4
<1>3. Story(i) = Prelude(i) \o last
  BY <1>2 DEF Story
<1>4. Prelude(i) \in Seq(Events)
  <2>1. CASE i \in Bonded
    BY <2>1 DEF Prelude, Events
  <2>2. CASE i \notin Bonded
    BY <2>2 DEF Prelude, Events
  <2> QED
    BY <2>1, <2>2
<1>5. Story(i) = Append(Prelude(i), "SESSION_ACTIVATED")
  BY <1>1, <1>3, <1>4, AppendIsConcat
<1> QED
  BY <1>1, <1>4, <1>5

LEMMA BeginsItself ==
  ASSUME NEW told \in Seq(Events)
  PROVE  Begins(told, told)
BY DEF Begins

LEMMA BeginsMore ==
  ASSUME NEW kept \in Seq(Events), NEW told \in Seq(Events), Begins(kept, told), NEW e \in Events
  PROVE  Begins(Append(kept, e), told)
BY DEF Begins

(* Two stages with no event between them.                                   *)
SameChapter(t, u) ==
  \/ u = "delete"
  \/ t = u
  \/ \E chapter \in {AfterPolicy, ForBonded, AfterBond, {"complete", "answer"}} :
       t \in chapter /\ u \in chapter

LEMMA TellsOn ==
  ASSUME NEW t, NEW u, NEW i, NEW kept, Tells(t, i, kept), SameChapter(t, u)
  PROVE  Tells(u, i, kept)
BY DEF Tells, SameChapter, AfterPolicy, ForBonded, AfterBond

(* What a step of the request in slot h does to the slots.                  *)
Moves(h) ==
  /\ \A g \in Slots \ {h} : handler'[g] = handler[g]
  /\ \/ handler'[h] = Idle
     \/ Stage(h) \in Stages /\ Body(h)' = Body(h) /\ Sid(h)' = Sid(h)

LEMMA RequestMoves ==
  ASSUME ClaimInv, NEW h \in Slots, Handle(h) \/ Fails(h)
  PROVE  Moves(h)
<1>1. CASE handler' = [handler EXCEPT ![h] = Idle]
  BY <1>1 DEF ClaimInv, Moves
<1>2. ASSUME NEW t, Stage(h) \in Stages, Goto(h, t) PROVE Moves(h)
  <2>1. Holds(h)
    BY <1>2, IdleIsNoStage DEF ClaimInv, Stage
  <2> QED
    BY <1>2, <2>1 DEF Moves, ClaimInv, Goto, Holds, Fields, Body, Sid
<1>3. CASE Transition(h)
  <2>1. Stage(h) \in Stages
    BY <1>3 DEF Transition, Stages
  <2>2. Holds(h)
    BY <2>1, IdleIsNoStage DEF ClaimInv, Stage
  <2>3. (\E t : Goto(h, t)) \/ \E x, t : handler' = [handler EXCEPT ![h].copy = x, ![h].stage = t]
    BY <1>3 DEF Transition
  <2>4. CASE \E x, t : handler' = [handler EXCEPT ![h].copy = x, ![h].stage = t]
    BY <2>1, <2>2, <2>4 DEF Moves, ClaimInv, Holds, Fields, Body, Sid
  <2> QED
    BY <1>2, <2>1, <2>3, <2>4
<1>4. CASE \/ CheckSid(h) \/ CreateSession(h) \/ Emit(h) \/ SaveSession(h) \/ VerifyPayment(h)
           \/ VerifyBond(h) \/ DeleteSession(h) \/ Complete(h) \/ Throw(h) \/ AbortThrows(h)
  <2>1. Stage(h) \in Stages
    BY <1>4 DEF CheckSid, CreateSession, Emit, EventAt, SaveSession, VerifyPayment, VerifyBond,
                DeleteSession, Complete, Throw, AbortThrows, Stages
  <2>2. \E t : Goto(h, t)
    BY <1>4 DEF CheckSid, CreateSession, Emit, SaveSession, VerifyPayment, VerifyBond,
                DeleteSession, Complete, Throw, AbortThrows, Advance
  <2> QED
    BY <1>2, <2>1, <2>2
<1>5. CASE Release(h) \/ Answer(h) \/ CatchThrows(h)
  BY <1>1, <1>5 DEF Release, Answer, CatchThrows
<1> QED
  BY <1>3, <1>4, <1>5 DEF Handle, Fails

(* Names stay, whatever is answered, released, or asked for.                *)
LEMMA NamesKeep ==
  ASSUME ClaimInv, LeaseInv, NameInv, runs' = runs,
         \A h \in Slots : \/ handler'[h] = Idle \/ handler'[h] = handler[h]
                          \/ Stage(h) \in Stages /\ Body(h)' = Body(h) /\ Sid(h)' = Sid(h),
         \A k \in Keys : StoredAnswerOf(k) # None => StoredAnswerOf(k)' # None,
         \A k \in Keys : claims'[k] # None => claims[k] # None /\ claims'[k].body = claims[k].body,
         \A k \in Keys : StoredAnswerOf(k)' # None => Named(claims'[k].body, claims'[k].answer.sid)
  PROVE  NameInv'
<1>1. \A h \in Slots : Stage(h)' \in Stages => Named(Body(h)', Sid(h)')
  BY IdleIsNoStage DEF NameInv, Stage, Body, Sid
<1>2. \A r \in Runs : claims'[r] # None => claims'[r].body = RunBody[r]
  BY DemoAssumption DEF NameInv, Runs
<1>3. ASSUME NEW h \in Slots, Running(h, "opened"), runs[h].id \in Keys
      PROVE  StoredAnswerOf(runs[h].id)' # None
  BY <1>3 DEF NameInv
<1>4. \A h \in Slots : runs[h] # None => runs[h].id \in Keys
  BY DemoAssumption DEF LeaseInv, Runs
<1> QED
  BY <1>1, <1>2, <1>3, <1>4 DEF NameInv, Running

LEMMA HandlingNames ==
  ASSUME ClaimInv, LeaseInv, NameInv, NEW h \in Slots, Handle(h) \/ Fails(h), runs' = runs
  PROVE  NameInv'
<1>1. Moves(h)
  BY RequestMoves
<1>2. \A g \in Slots : \/ handler'[g] = Idle \/ handler'[g] = handler[g]
                       \/ Stage(g) \in Stages /\ Body(g)' = Body(g) /\ Sid(g)' = Sid(g)
  BY <1>1 DEF Moves
<1>3. CASE Complete(h) /\ claims' # claims
  <2> DEFINE key == handler[h].key
             answer == [sid |-> Sid(h), token |-> handler[h].n]
  <2>1. Stage(h) = "complete" /\ Holds(h)
    BY <1>3, IdleIsNoStage DEF Complete, ClaimInv, Stage, Stages
  <2>2. /\ key \in Keys /\ claims[key] \in Claims /\ claims[key].body = Body(h)
        /\ claims' = [claims EXCEPT ![key].answer = answer]
    BY <1>3, <2>1 DEF Holds, Complete, ClaimInv
  <2>3. answer.sid = Sid(h) /\ Named(Body(h), Sid(h)) /\ answer \in Answers
    BY <2>1 DEF NameInv, Holds, Answers
  <2> HIDE DEF answer
  <2>4. /\ claims[key] # None /\ claims'[key].answer = answer /\ claims'[key].body = Body(h)
        /\ \A k \in Keys \ {key} : claims'[k] = claims[k]
    BY <2>2 DEF ClaimInv, Claims
  <2>5. claims'[key] # None
    <3>1. [claims[key] EXCEPT !.answer = answer] \in Claims
      BY <2>2, <2>3 DEF Claims
    <3>2. claims' = [claims EXCEPT ![key] = [claims[key] EXCEPT !.answer = answer]]
      BY <2>2
    <3> QED
      BY <2>2, <3>1, <3>2 DEF ClaimInv
  <2>6. ASSUME NEW k \in Keys, StoredAnswerOf(k)' # None
        PROVE  Named(claims'[k].body, claims'[k].answer.sid)
    <3>1. CASE k = key
      BY <2>3, <2>4, <3>1
    <3>2. CASE k # key
      BY <2>4, <2>6, <3>2 DEF NameInv, StoredAnswerOf
    <3> QED
      BY <3>1, <3>2
  <2>7. \A k \in Keys : claims'[k] # None => claims[k] # None /\ claims'[k].body = claims[k].body
    BY <2>2, <2>4
  <2>8. ASSUME NEW k \in Keys, StoredAnswerOf(k) # None PROVE StoredAnswerOf(k)' # None
    <3>1. CASE k = key
      BY <2>3, <2>4, <2>5, <3>1 DEF StoredAnswerOf
    <3>2. CASE k # key
      BY <2>4, <2>8, <3>2 DEF StoredAnswerOf
    <3> QED
      BY <3>1, <3>2
  <2> HIDE DEF key
  <2> QED
    BY <1>2, <2>6, <2>7, <2>8, NamesKeep
<1>4. CASE ~Complete(h) \/ claims' = claims
  <2>1. /\ \A k \in Keys : claims'[k] # None => claims'[k] = claims[k]
        /\ \A k \in Keys : StoredAnswerOf(k) # None => StoredAnswerOf(k)' # None
    <3>1. claims' = claims \/ (claims' \in {claims, Released(h)} /\ Stage(h) \in Releasing)
      BY <1>4 DEF Handle, Fails, CheckSid, CreateSession, Emit, Transition, SaveSession,
         VerifyPayment, VerifyBond, DeleteSession, Answer, Throw, Release, AbortThrows, CatchThrows
    <3>2. CASE claims' \in {claims, Released(h)} /\ Stage(h) \in Releasing
      <4>1. Holds(h)
        BY <3>2, IdleIsNoStage DEF ClaimInv, Stage, Stages
      <4>2. \A k \in Keys : StoredAnswerOf(k)' = StoredAnswerOf(k)
        BY <3>2, <4>1, ReleasedOnlyInProgress
      <4>3. \A k \in Keys : claims'[k] # None => claims'[k] = claims[k]
        BY <3>2, <4>1, ReleasedOnlyInProgress
      <4> QED
        BY <4>2, <4>3
    <3> QED
      BY <3>1, <3>2 DEF StoredAnswerOf
  <2>2. ASSUME NEW k \in Keys, StoredAnswerOf(k)' # None
        PROVE  Named(claims'[k].body, claims'[k].answer.sid)
    BY <2>1, <2>2 DEF NameInv, StoredAnswerOf
  <2> QED
    BY <1>2, <2>1, <2>2, NamesKeep
<1> QED
  BY <1>3, <1>4

LEMMA ClaimingNames ==
  ASSUME ClaimInv, LeaseInv, NameInv, NEW h \in Slots, NEW k \in Keys, NEW b \in Bodies, Claim(h, k, b),
         k \in Runs => b = RunBody[k],
         \A g \in Slots : Running(g, "opened")' => Running(g, "opened") /\ runs'[g] = runs[g]
  PROVE  NameInv'
<1>1. /\ claims[k] = None /\ \A j \in Keys \ {k} : claims'[j] = claims[j]
      /\ claims'[k] = [body |-> b, answer |-> None]
  BY DEF Claim, ClaimKey, ClaimThrows, MakeClaim, ClaimInv
<1>2. /\ \A g \in Slots \ {h} : handler'[g] = handler[g]
      /\ handler' = handler \/ Named(Body(h)', Sid(h)')
  BY DEF Claim, ClaimKey, ClaimThrows, ClaimInv, Named, Body, Sid
<1>3. \A j \in Keys : StoredAnswerOf(j)' = StoredAnswerOf(j)
                      /\ (StoredAnswerOf(j)' # None => claims'[j] = claims[j])
  BY <1>1 DEF StoredAnswerOf
<1>4. \A g \in Slots : Stage(g)' \in Stages => Named(Body(g)', Sid(g)')
  BY <1>2 DEF NameInv, Stage, Body, Sid
<1>5. \A j \in Keys : StoredAnswerOf(j)' # None => Named(claims'[j].body, claims'[j].answer.sid)
  BY <1>3 DEF NameInv
<1>6. \A r \in Runs : claims'[r] # None => claims'[r].body = RunBody[r]
  BY <1>1, DemoAssumption DEF NameInv, Runs
<1>7. \A g \in Slots : Running(g, "opened")' => StoredAnswerOf(runs[g].id)' # None
  <2> SUFFICES ASSUME NEW g \in Slots, Running(g, "opened")'
               PROVE  StoredAnswerOf(runs[g].id)' # None
    OBVIOUS
  <2>1. Running(g, "opened") /\ runs'[g] = runs[g]
    OBVIOUS
  <2>2. StoredAnswerOf(runs[g].id) # None
    BY <2>1 DEF NameInv
  <2>3. runs[g].id # k
    BY <1>1, <2>2 DEF StoredAnswerOf
  <2>4. runs[g].id \in Keys
    BY <2>1, DemoAssumption DEF LeaseInv, Running, Runs
  <2>5. claims'[runs[g].id] = claims[runs[g].id]
    BY <1>1, <2>3, <2>4
  <2> QED
    BY <2>1, <2>2, <2>5 DEF StoredAnswerOf
<1> QED
  BY <1>4, <1>5, <1>6, <1>7 DEF NameInv

LEMMA NameStep ==
  ASSUME ClaimInv, LeaseInv, AnswerInv, NameInv, [DemoNext]_allVars
  PROVE  NameInv'
<1> DEFINE Unseen == UNCHANGED <<claims, handler>>
<1>1. ASSUME Unseen, \A h \in Slots : Running(h, "opened")' =>
                       StoredAnswerOf(runs'[h].id) # None
      PROVE  NameInv'
  BY <1>1 DEF NameInv, Stage, Body, Sid, StoredAnswerOf
<1>2. CASE Unseen /\ runs' = runs
  BY <1>2, <1>1 DEF NameInv, Running
<1>3. ASSUME NEW h \in Slots, Run(h) \/ ClaimQuota(h), ~RunRequestsSession(h) PROVE NameInv'
  <2>1. Unseen /\ \A g \in Slots \ {h} : runs'[g] = runs[g]
    BY <1>3 DEF Run, ClaimQuota, RunPrepares, RunFails, RunIsAnswered, ReleaseLease,
                AnnounceRun, At, vars, LeaseInv
  <2>2. runs'[h] # None /\ runs'[h].stage = "opened" =>
          runs'[h].id = runs[h].id /\ Answered(runs[h].id)
    BY <1>3 DEF Run, ClaimQuota, RunPrepares, RunFails, RunIsAnswered, ReleaseLease,
                AnnounceRun, At, LeaseInv, Running
  <2>3. ASSUME NEW g \in Slots, Running(g, "opened")' PROVE StoredAnswerOf(runs'[g].id) # None
    <3>1. CASE g = h
      BY <2>2, <2>3, <3>1 DEF Running, Answered, AnswerInv, Told
    <3>2. CASE g # h
      BY <2>1, <2>3, <3>2 DEF Running, NameInv
    <3> QED
      BY <3>1, <3>2
  <2> QED
    BY <1>1, <2>1, <2>3
<1>4. ASSUME NEW h \in Slots, RunRequestsSession(h) PROVE NameInv'
  <2> DEFINE r == runs[h].id
  <2>1. Claim(h, r, RunBody[r]) /\ r \in Runs /\ At(h, "session")
    BY <1>4 DEF RunRequestsSession, Running, LeaseInv
  <2>2. r \in Keys /\ RunBody[r] \in Bodies
    BY <2>1, DemoAssumption DEF Runs
  <2>3. \A g \in Slots : Running(g, "opened")' => Running(g, "opened") /\ runs'[g] = runs[g]
    BY <1>4, <2>1 DEF At, Running, RunRequestsSession, LeaseInv
  <2> HIDE DEF r
  <2> QED
    BY <2>1, <2>2, <2>3, ClaimingNames
<1>5. CASE Gateway
  <2>1. ASSUME NEW a, CloseSession(a) PROVE Unseen
    BY <2>1 DEF CloseSession
  <2> QED
    BY <1>2, <1>5, <2>1, HandlingNames DEF Gateway, demoVars
<1>6. CASE Direct
  <2>1. ASSUME NEW i, NEW s, CreateChallenge(i, s) \/ IssueCredential(i, s) \/ OpenBond(s, i)
        PROVE  Unseen
    BY <2>1 DEF CreateChallenge, SignChallenge, IssueCredential, OpenBond
  <2>2. ASSUME NEW h, NEW k, NEW b, Replay(h, k, b) PROVE Unseen
    BY <2>2 DEF Replay
  <2>3. runs' = runs
    BY <1>6 DEF Direct, demoVars
  <2>4. ASSUME NEW h \in Slots, NEW k \in Keys \ Runs, NEW b \in Bodies, Claim(h, k, b)
        PROVE  NameInv'
    BY <2>3, <2>4, ClaimingNames DEF Running
  <2> QED
    BY <1>2, <1>6, <2>1, <2>2, <2>3, <2>4 DEF Direct
<1>7. CASE DemoCrash
  <2>1. claims' = claims /\ \A h \in Slots : handler'[h] = Idle /\ runs'[h] = None
    BY <1>7 DEF DemoCrash, Crash
  <2> QED
    BY <2>1, IdleIsNoStage DEF NameInv, Stage, Running, StoredAnswerOf
<1>8. CASE LeaseRunsOut \/ UNCHANGED allVars
  BY <1>2, <1>8 DEF LeaseRunsOut, vars, demoVars, allVars
<1> HIDE DEF Unseen
<1> QED
  BY <1>3, <1>4, <1>5, <1>6, <1>7, <1>8 DEF DemoNext

(* A step that writes no event, and makes or deletes no record.             *)
LEMMA SilentKeeps ==
  ASSUME StoryInv, log' = log,
         \A s \in AllSids : sessions'[s] = None => sessions[s] = None,
         \A h \in Slots : Owns(h)' => /\ Owns(h) /\ Body(h)' = Body(h) /\ Sid(h)' = Sid(h)
                                      /\ SameChapter(Stage(h), Stage(h)'),
         \A c \in AllTold' : \/ c \in AllTold
                             \/ Begins(log[c.answer.sid], Story(c.body.intent))
  PROVE  StoryInv'
<1>1. ASSUME NEW h \in Slots, Owns(h)' PROVE Tells(Stage(h)', Body(h)'.intent, log'[Sid(h)'])
  <2>1. /\ Owns(h) /\ Body(h)' = Body(h) /\ Sid(h)' = Sid(h)
        /\ SameChapter(Stage(h), Stage(h)')
    BY <1>1
  <2>2. Tells(Stage(h), Body(h).intent, log[Sid(h)])
    BY <2>1 DEF StoryInv
  <2>3. Tells(Stage(h)', Body(h).intent, log[Sid(h)])
    BY <2>1, <2>2, TellsOn
  <2> QED
    BY <2>1, <2>3
<1>2. \A c \in AllTold' : Begins(log'[c.answer.sid], Story(c.body.intent))
  BY DEF StoryInv
<1> QED
  BY <1>1, <1>2 DEF StoryInv

LEMMA Turns ==
  ASSUME ClaimInv, NEW h \in Slots,
         \/ CheckSid(h) \/ Transition(h) \/ SaveSession(h) \/ VerifyPayment(h) \/ VerifyBond(h)
         \/ Complete(h) \/ Release(h) \/ Answer(h) \/ Fails(h)
  PROVE  Owns(h)' => Owns(h) /\ SameChapter(Stage(h), Stage(h)')
<1> USE DEF Owns, Owning, SameChapter, AfterPolicy, ForBonded, AfterBond
<1>1. CASE handler' = [handler EXCEPT ![h] = Idle]
  BY <1>1, IdleIsNoStage DEF ClaimInv, Stage
<1>2. ASSUME NEW t, Goto(h, t), Stage(h) \in Stages PROVE Stage(h)' = t
  <2>1. Holds(h)
    BY <1>2, IdleIsNoStage DEF ClaimInv, Stage
  <2> QED
    BY <1>2, <2>1 DEF Goto, Stage, ClaimInv, Holds, Fields
<1>3. CASE CheckSid(h)
  BY <1>2, <1>3, Order DEF CheckSid, Advance, Stages
<1>4. CASE VerifyPayment(h)
  BY <1>2, <1>4, Order DEF VerifyPayment, Advance, Stages
<1>5. CASE VerifyBond(h)
  BY <1>2, <1>5, Order DEF VerifyBond, Advance, Stages
<1>6. CASE Complete(h)
  BY <1>2, <1>6, Order DEF Complete, Advance, Stages
<1>7. CASE SaveSession(h)
  BY <1>2, <1>7, Order DEF SaveSession, Advance, Stages
<1>8. CASE Throw(h) \/ AbortThrows(h)
  BY <1>2, <1>8 DEF Throw, AbortThrows, Stages
<1>9. CASE Transition(h)
  <2> DEFINE t == After(Body(h).intent)[Stage(h)]
  <2>1. Stage(h) \in {"to_policy", "to_payment", "to_bonded", "to_active"}
    BY <1>9 DEF Transition
  <2>2. Holds(h) /\ Stage(h) \in Stages
    BY <2>1, IdleIsNoStage DEF ClaimInv, Stage, Stages
  <2>3. Stage(h)' \in {"catch", t}
    <3>1. Goto(h, "catch") \/ \E x : handler' = [handler EXCEPT ![h].copy = x, ![h].stage = t]
      BY <1>9 DEF Transition
    <3>2. CASE \E x : handler' = [handler EXCEPT ![h].copy = x, ![h].stage = t]
      BY <2>2, <3>2 DEF Stage, ClaimInv, Holds, Fields
    <3> QED
      BY <1>2, <2>2, <3>1, <3>2
  <2>4. /\ Stage(h) = "to_policy" => t = "verify"
        /\ Stage(h) = "to_payment" => t = "save_payment"
        /\ Stage(h) = "to_bonded" => t = "save_bond"
        /\ Stage(h) = "to_active" => t = "save_token"
    BY Order
  <2> HIDE DEF t
  <2> QED
    BY <2>1, <2>2, <2>3, <2>4
<1> QED
  BY <1>1, <1>3, <1>4, <1>5, <1>6, <1>7, <1>8, <1>9 DEF Release, Answer, Fails, CatchThrows

LEMMA OwnedIsThere ==
  ASSUME RecordInv, NEW h \in Slots, Owns(h)
  PROVE  sessions[Sid(h)] \in Records /\ sessions[Sid(h)] # None
BY DEF RecordInv, OwnerInv, Mine

(* The steps of a request that tell nothing.                                *)
LEMMA WorkingTells ==
  ASSUME ClaimInv, RecordInv, RecordInv', StoryInv, NEW h \in Slots,
         \/ CheckSid(h) \/ Transition(h) \/ SaveSession(h) \/ VerifyPayment(h) \/ VerifyBond(h)
         \/ Release(h) \/ Answer(h) \/ Fails(h)
  PROVE  StoryInv'
<1>1. Moves(h) /\ (Owns(h)' => Owns(h) /\ SameChapter(Stage(h), Stage(h)'))
  BY RequestMoves, Turns DEF Handle
<1>2. log' = log
  BY DEF CheckSid, Transition, SaveSession, VerifyPayment, VerifyBond, Release, Answer,
         Fails, Throw, AbortThrows, CatchThrows
<1>5. \A c \in AllTold' : c \in AllTold \/ Begins(log[c.answer.sid], Story(c.body.intent))
  <2>1. \A k \in Keys : StoredAnswerOf(k)' # None => claims'[k] = claims[k]
    <3>1. claims' = claims \/ (claims' \in {claims, Released(h)} /\ Stage(h) \in Releasing)
      BY DEF CheckSid, Transition, SaveSession, VerifyPayment, VerifyBond, Release, Answer,
             Fails, Throw, AbortThrows, CatchThrows
    <3>2. CASE claims' \in {claims, Released(h)} /\ Stage(h) \in Releasing
      <4>1. Holds(h)
        BY <3>2, IdleIsNoStage DEF ClaimInv, Stage, Stages
      <4> QED
        BY <3>2, <4>1, ReleasedOnlyInProgress DEF StoredAnswerOf
    <3> QED
      BY <3>1, <3>2
  <2>2. CASE ~Answer(h)
    <3>1. answers' = answers
      BY <2>2 DEF CheckSid, Transition, SaveSession, VerifyPayment, VerifyBond, Release,
         Fails, Throw, AbortThrows, CatchThrows
    <3> QED
      BY <2>1, <3>1, ToldStays
  <2>3. CASE Answer(h)
    <3> DEFINE answer == [sid |-> Sid(h), token |-> handler[h].n]
               d == [body |-> Body(h), answer |-> answer]
    <3>1. /\ claims' = claims /\ Stage(h) = "answer" /\ Owns(h)
          /\ answers' = answers \cup {[key |-> handler[h].key, body |-> Body(h), session |-> answer]}
      BY <2>3 DEF Answer, Owns, Owning, Stages
    <3>2. \A c \in AllTold' : c \in AllTold \/ c = d
      BY <3>1 DEF AllTold, StoredAnswerOf
    <3>3. Begins(log[Sid(h)], Story(Body(h).intent))
      BY <3>1 DEF StoryInv, Tells
    <3> QED
      BY <3>2, <3>3
  <2> QED
    BY <2>2, <2>3
<1>3. ASSUME NEW g \in Slots, Owns(g)'
      PROVE  /\ Owns(g) /\ Body(g)' = Body(g) /\ Sid(g)' = Sid(g)
             /\ SameChapter(Stage(g), Stage(g)')
  <2>1. CASE g = h
    <3>1. handler'[h] # Idle
      BY <1>3, <2>1, IdleIsNoStage DEF Owns, Owning, Stage
    <3> QED
      BY <1>1, <1>3, <2>1, <3>1 DEF Moves
  <2>2. CASE g # h
    BY <1>1, <1>3, <2>2 DEF Moves, Owns, Stage, Body, Sid, SameChapter
  <2> QED
    BY <2>1, <2>2
<1>4. ASSUME NEW s \in AllSids, sessions'[s] = None PROVE sessions[s] = None
  <2>1. CASE sessions' = sessions
    BY <1>4, <2>1
  <2>2. CASE sessions' # sessions
    <3>1. Transition(h) \/ SaveSession(h)
      BY <2>2 DEF CheckSid, VerifyPayment, VerifyBond, Release, Answer, Fails, Throw,
         AbortThrows, CatchThrows
    <3>2. Owns(h)'
      <4>1. Stage(h) \in {"to_policy", "to_payment", "to_bonded", "to_active"} \cup Saving
            /\ Holds(h)
        BY <3>1, IdleIsNoStage DEF Transition, SaveSession, Saving, ClaimInv, Stage, Stages
      <4>2. Stage(h)' = After(Body(h).intent)[Stage(h)]
        <5>0. DOMAIN handler = Slots /\ DOMAIN handler[h] = Fields
          BY <4>1 DEF ClaimInv, Holds
        <5>1. CASE Transition(h)
          <6>1. \E moved : handler' = [handler EXCEPT ![h].copy = moved,
                                     ![h].stage = After(Body(h).intent)[Stage(h)]]
            BY <2>2, <5>1 DEF Transition
          <6> QED
            BY <5>0, <6>1 DEF Stage, Fields
        <5>2. CASE SaveSession(h)
          <6>1. handler' = [handler EXCEPT ![h].stage = After(Body(h).intent)[Stage(h)]]
            BY <5>2 DEF SaveSession, Advance, Goto
          <6> QED
            BY <5>0, <6>1 DEF Stage, Fields
        <5> QED
          BY <3>1, <5>1, <5>2
      <4>3. After(Body(h).intent)[Stage(h)] \in Owning
        BY <4>1, Order DEF Saving, Owning, Stages
      <4> QED
        BY <4>2, <4>3 DEF Owns
    <3>3. sessions'[Sid(h)] # None
      BY <1>3, <3>2 DEF RecordInv, OwnerInv, Mine
    <3>4. s # Sid(h) => sessions'[s] = sessions[s]
      BY <3>1 DEF Transition, SaveSession, RecordInv, SoundInv
    <3> QED
      BY <1>4, <3>3, <3>4
  <2> QED
    BY <2>1, <2>2
<1> QED
  BY <1>2, <1>3, <1>4, <1>5, SilentKeeps

LEMMA CompletingTells ==
  ASSUME ClaimInv, RecordInv, StoryInv, NEW h \in Slots, Complete(h)
  PROVE  StoryInv'
<1> DEFINE key == handler[h].key
           answer == [sid |-> Sid(h), token |-> handler[h].n]
<1>1. Stage(h) = "complete" /\ Holds(h) /\ Owns(h)
  BY IdleIsNoStage DEF Complete, ClaimInv, Stage, Stages, Owns, Owning
<1>2. key \in Keys /\ log' = log /\ sessions' = sessions /\ answers' = answers
  BY <1>1 DEF Holds, Complete
<1>3. \A c \in AllTold' : \/ c \in AllTold
                          \/ c.answer.sid = Sid(h) /\ c.body = Body(h)
  <2>1. CASE claims' = claims
    BY <1>2, <2>1, ToldStays
  <2>2. CASE claims' # claims
    <3>1. /\ claims[key] \in Claims /\ claims[key].body = Body(h)
          /\ claims' = [claims EXCEPT ![key].answer = answer]
      BY <1>1, <1>2, <2>2 DEF Complete, ClaimInv
    <3>2. answer.sid = Sid(h)
      OBVIOUS
    <3> HIDE DEF answer
    <3>3. /\ claims'[key].answer = answer /\ claims'[key].body = Body(h)
          /\ \A k \in Keys \ {key} : claims'[k] = claims[k]
      BY <1>2, <3>1 DEF ClaimInv, Claims
    <3>4. \A c \in AllTold' : c \in AllTold \/ c = claims'[key]
      BY <1>2, <3>3 DEF AllTold, StoredAnswerOf
    <3> QED
      BY <3>2, <3>3, <3>4
  <2> QED
    BY <2>1, <2>2
<1>5. Moves(h) /\ (Owns(h)' => SameChapter(Stage(h), Stage(h)'))
  BY RequestMoves, Turns DEF Handle
<1>6. ASSUME NEW g \in Slots, Owns(g)' PROVE Tells(Stage(g)', Body(g)'.intent, log'[Sid(g)'])
  <2>1. handler'[g] # Idle
    BY <1>6, IdleIsNoStage DEF Owns, Owning, Stage
  <2>2. /\ Owns(g) /\ Body(g)' = Body(g) /\ Sid(g)' = Sid(g) /\ SameChapter(Stage(g), Stage(g)')
    BY <1>1, <1>5, <1>6, <2>1 DEF Moves, Owns, Stage, Body, Sid, SameChapter
  <2>3. Tells(Stage(g), Body(g).intent, log[Sid(g)])
    BY <2>2 DEF StoryInv
  <2>4. Tells(Stage(g)', Body(g).intent, log[Sid(g)])
    BY <2>2, <2>3, TellsOn
  <2> QED
    BY <1>2, <2>2, <2>4
<1>7. Begins(log[Sid(h)], Story(Body(h).intent))
  BY <1>1 DEF StoryInv, Tells
<1>8. \A c \in AllTold' : Begins(log'[c.answer.sid], Story(c.body.intent))
  BY <1>2, <1>3, <1>7 DEF StoryInv
<1> QED
  BY <1>2, <1>6, <1>8 DEF StoryInv

LEMMA CreatingTells ==
  ASSUME ClaimInv, RecordInv, RecordInv', StoryInv, NEW h \in Slots, CreateSession(h)
  PROVE  StoryInv'
<1>1. Stage(h) = "create" /\ Holds(h) /\ ~Owns(h) /\ Silent /\ log' = log
  BY IdleIsNoStage DEF CreateSession, Silent, ClaimInv, Stage, Stages, Owns, Owning
<1>2. Moves(h)
  BY RequestMoves DEF Handle
<1>3. Owns(h)' => Stage(h)' = "received" /\ sessions[Sid(h)] = None
  <2>1. \/ sessions[Sid(h)] = None /\ Goto(h, "received")
        \/ Goto(h, "release")
    BY <1>1, Order DEF CreateSession, Advance
  <2> QED
    BY <1>1, <2>1 DEF Goto, Owns, Owning, Stage, ClaimInv, Holds, Fields
<1>4. ASSUME NEW g \in Slots, Owns(g)' PROVE Tells(Stage(g)', Body(g)'.intent, log'[Sid(g)'])
  <2>1. CASE g = h
    <3>1. Sid(h)' = Sid(h) /\ log[Sid(h)] = <<>>
      BY <1>1, <1>2, <1>3, <1>4, <2>1, IdleIsNoStage DEF Moves, Owns, Owning, Stage, StoryInv, Holds
    <3> QED
      BY <1>1, <1>3, <1>4, <2>1, <3>1 DEF Tells, AfterPolicy, ForBonded, AfterBond
  <2>2. CASE g # h
    BY <1>1, <1>2, <1>4, <2>2 DEF Moves, Owns, Stage, Body, Sid, StoryInv
  <2> QED
    BY <2>1, <2>2
<1>5. ASSUME NEW s \in AllSids, sessions'[s] = None PROVE log[s] = <<>>
  <2>1. sessions[s] = None
    BY <1>5 DEF CreateSession, RecordInv, SoundInv
  <2> QED
    BY <2>1 DEF StoryInv
<1>6. \A c \in AllTold' : c \in AllTold
  BY <1>1, ToldStays DEF Silent
<1> QED
  BY <1>1, <1>4, <1>5, <1>6 DEF StoryInv

LEMMA NextEvent ==
  ASSUME NEW t \in DOMAIN EventAt, NEW i, NEW kept, Tells(t, i, kept), t \in ForBonded => i \in Bonded
  PROVE  EventAt[t] \in Events /\ Tells(After(i)[t], i, Append(kept, EventAt[t]))
<1> USE Order DEF Tells, AfterPolicy, ForBonded, AfterBond
<1>1. t \in {"received", "compiled", "paid", "opened", "activated"}
  BY DEF EventAt
<1>2. CASE t = "received"
  <2>1. kept = <<>> /\ EventAt[t] = "INTENT_RECEIVED"
    BY <1>2 DEF EventAt
  <2>2. Append(<<>>, "INTENT_RECEIVED") = <<"INTENT_RECEIVED">>
    BY Appended
  <2>3. After(i)[t] = "compiled" /\ Append(kept, EventAt[t]) = <<"INTENT_RECEIVED">>
    BY <1>2, <2>1, <2>2
  <2> QED
    BY <2>1, <2>3 DEF Events
<1>3. CASE t = "compiled"
  <2>1. kept = <<"INTENT_RECEIVED">> /\ EventAt[t] = "POLICY_COMPILED"
    BY <1>3 DEF EventAt
  <2>2. Append(<<"INTENT_RECEIVED">>, "POLICY_COMPILED") = <<"INTENT_RECEIVED", "POLICY_COMPILED">>
    BY Appended
  <2>3. /\ After(i)[t] = "to_policy"
        /\ Append(kept, EventAt[t]) = <<"INTENT_RECEIVED", "POLICY_COMPILED">>
    BY <1>3, <2>1, <2>2
  <2> QED
    BY <2>1, <2>3 DEF Events
<1>4. CASE t = "paid"
  <2>1. kept = <<"INTENT_RECEIVED", "POLICY_COMPILED">> /\ EventAt[t] = "PAYMENT_VERIFIED"
    BY <1>4 DEF EventAt
  <2>2. Append(kept, EventAt[t]) = <<"INTENT_RECEIVED", "POLICY_COMPILED", "PAYMENT_VERIFIED">>
    <3>1. Append(<<"INTENT_RECEIVED", "POLICY_COMPILED">>, "PAYMENT_VERIFIED") =
            <<"INTENT_RECEIVED", "POLICY_COMPILED", "PAYMENT_VERIFIED">>
      BY Appended
    <3> QED
      BY <2>1, <3>1
  <2>3. After(i)[t] = (IF i \in Bonded THEN "bond" ELSE "to_active")
    BY <1>4
  <2> QED
    BY <2>1, <2>2, <2>3 DEF Events, Prelude
<1>5. CASE t = "opened"
  <2>1. /\ kept = <<"INTENT_RECEIVED", "POLICY_COMPILED", "PAYMENT_VERIFIED">> /\ i \in Bonded
        /\ EventAt[t] = "BOND_OPENED"
    BY <1>5 DEF EventAt
  <2>2. Append(kept, EventAt[t]) =
          <<"INTENT_RECEIVED", "POLICY_COMPILED", "PAYMENT_VERIFIED", "BOND_OPENED">>
    <3>1. Append(<<"INTENT_RECEIVED", "POLICY_COMPILED", "PAYMENT_VERIFIED">>, "BOND_OPENED") =
            <<"INTENT_RECEIVED", "POLICY_COMPILED", "PAYMENT_VERIFIED", "BOND_OPENED">>
      BY Appended
    <3> QED
      BY <2>1, <3>1
  <2>3. Append(kept, EventAt[t]) = Prelude(i)
    BY <2>1, <2>2 DEF Prelude
  <2> QED
    BY <1>5, <2>1, <2>3 DEF Events
<1>6. CASE t = "activated"
  <2>1. kept = Prelude(i) /\ EventAt[t] = "SESSION_ACTIVATED"
    BY <1>6 DEF EventAt
  <2>2. Append(kept, EventAt[t]) = Story(i) /\ Story(i) \in Seq(Events)
    BY <2>1, StoryEnds
  <2>3. Begins(Append(kept, EventAt[t]), Story(i))
    BY <2>2, BeginsItself
  <2> QED
    BY <1>6, <2>1, <2>3 DEF Events
<1> QED
  BY <1>1, <1>2, <1>3, <1>4, <1>5, <1>6

(* An event is the next one of the session that its request is making.      *)
LEMMA EmittingTells ==
  ASSUME ClaimInv, RecordInv, StoryInv, NEW h \in Slots, Emit(h)
  PROVE  StoryInv'
<1> DEFINE e == EventAt[Stage(h)]
           t == After(Body(h).intent)[Stage(h)]
<1>1. /\ Stage(h) \in DOMAIN EventAt /\ Silent /\ sessions' = sessions
      /\ log' = [log EXCEPT ![Sid(h)] = Append(@, e)] /\ Goto(h, t)
  BY DEF Emit, Advance, Silent
<1>2. Owns(h) /\ Holds(h) /\ Sid(h) \in AllSids
  BY <1>1, IdleIsNoStage DEF EventAt, Owns, Owning, Stages, ClaimInv, Stage, Holds
<1>3. /\ e \in Events /\ Tells(t, Body(h).intent, Append(log[Sid(h)], e))
  <2>1. Tells(Stage(h), Body(h).intent, log[Sid(h)])
    BY <1>2 DEF StoryInv
  <2>2. Stage(h) \in ForBonded => Body(h).intent \in Bonded
    BY <1>2 DEF RecordInv, OwnerInv, Mine, Stage, Body
  <2> QED
    BY <1>1, <2>1, <2>2, NextEvent
<1> HIDE DEF e
<1>4. /\ log[Sid(h)] \in Seq(Events) /\ Append(log[Sid(h)], e) \in Seq(Events)
      /\ log' \in [AllSids -> Seq(Events)] /\ log'[Sid(h)] = Append(log[Sid(h)], e)
      /\ \A s \in AllSids \ {Sid(h)} : log'[s] = log[s]
  BY <1>1, <1>2, <1>3 DEF StoryInv
<1>5. /\ Stage(h)' = t /\ Body(h)' = Body(h) /\ Sid(h)' = Sid(h)
      /\ \A g \in Slots \ {h} : handler'[g] = handler[g]
  BY <1>1, <1>2 DEF Goto, ClaimInv, Holds, Fields, Stage, Body, Sid
<1> HIDE DEF t
<1>6. ASSUME NEW g \in Slots, Owns(g)' PROVE Tells(Stage(g)', Body(g)'.intent, log'[Sid(g)'])
  <2>1. CASE g = h
    BY <1>3, <1>4, <1>5, <2>1
  <2>2. CASE g # h
    <3>1. /\ Owns(g) /\ Stage(g)' = Stage(g) /\ Body(g)' = Body(g) /\ Sid(g)' = Sid(g)
      BY <1>5, <1>6, <2>2 DEF Owns, Stage, Body, Sid
    <3>2. Sid(g) # Sid(h) /\ Sid(g) \in AllSids
      BY <1>2, <2>2, <3>1, IdleIsNoStage DEF RecordInv, OwnerInv, ClaimInv, Holds, Owns, Owning, Stage
    <3>3. Tells(Stage(g), Body(g).intent, log[Sid(g)])
      BY <3>1 DEF StoryInv
    <3> QED
      BY <1>4, <3>1, <3>2, <3>3
  <2> QED
    BY <2>1, <2>2
<1>7. ASSUME NEW s \in AllSids, sessions'[s] = None PROVE log'[s] = <<>>
  <2>1. s # Sid(h)
    BY <1>1, <1>2, <1>7, OwnedIsThere
  <2> QED
    BY <1>1, <1>4, <1>7, <2>1 DEF StoryInv
<1>8. ASSUME NEW c \in AllTold'
      PROVE  Begins(log'[c.answer.sid], Story(c.body.intent))
  <2> DEFINE s == c.answer.sid
             told == Story(c.body.intent)
  <2>1. c \in AllTold
    BY <1>1, ToldStays DEF Silent
  <2>2. s \in AllSids /\ Begins(log[s], told) /\ told \in Seq(Events)
    BY <2>1, AnswerSid, StoryEnds DEF StoryInv, RecordInv, WorksInv
  <2> HIDE DEF s, told
  <2>3. Begins(log'[s], told)
    <3>1. CASE s = Sid(h)
      <4>1. Begins(Append(log[s], e), told)
        BY <1>3, <1>4, <2>2, <3>1, BeginsMore
      <4> QED
        BY <1>4, <3>1, <4>1
    <3>2. CASE s # Sid(h)
      BY <1>4, <2>2, <3>2
    <3> QED
      BY <3>1, <3>2
  <2> QED
    BY <2>3 DEF s, told
<1> QED
  BY <1>4, <1>6, <1>7, <1>8 DEF StoryInv

LEMMA DeletingTells ==
  ASSUME ClaimInv, RecordInv, StoryInv, NEW h \in Slots, DeleteSession(h)
  PROVE  StoryInv'
<1>1. Stage(h) = "delete" /\ Silent /\ Goto(h, "release")
  BY DEF DeleteSession, Silent
<1>2. Owns(h) /\ Holds(h) /\ Sid(h) \in AllSids
  BY <1>1, IdleIsNoStage DEF Owns, Owning, Stages, ClaimInv, Stage, Holds
<1>3. sessions[Sid(h)] # None /\ sessions[Sid(h)].state \in Unfinished
  <2>1. Mine(handler[h], sessions[Sid(h)], issued, bonds)
    BY <1>2 DEF RecordInv, OwnerInv
  <2> QED
    BY <1>1, <2>1 DEF Mine, StateAt, Stage
<1>4. /\ sessions' = [sessions EXCEPT ![Sid(h)] = None]
      /\ log' = [log EXCEPT ![Sid(h)] = <<>>]
  BY <1>3 DEF DeleteSession
<1>5. /\ log' \in [AllSids -> Seq(Events)] /\ log'[Sid(h)] = <<>>
      /\ \A s \in AllSids \ {Sid(h)} : log'[s] = log[s] /\ sessions'[s] = sessions[s]
  BY <1>2, <1>4 DEF StoryInv, RecordInv, SoundInv
<1>6. /\ ~Owns(h)' /\ \A g \in Slots \ {h} : handler'[g] = handler[g]
  BY <1>1, <1>2 DEF Goto, ClaimInv, Holds, Fields, Stage, Owns, Owning
<1>7. ASSUME NEW g \in Slots, Owns(g)' PROVE Tells(Stage(g)', Body(g)'.intent, log'[Sid(g)'])
  <2>1. g # h /\ Owns(g) /\ Stage(g)' = Stage(g) /\ Body(g)' = Body(g) /\ Sid(g)' = Sid(g)
    BY <1>6, <1>7 DEF Owns, Stage, Body, Sid
  <2>2. Sid(g) # Sid(h) /\ Sid(g) \in AllSids
    BY <1>2, <2>1, IdleIsNoStage DEF RecordInv, OwnerInv, ClaimInv, Holds, Owns, Owning, Stage
  <2>3. Tells(Stage(g), Body(g).intent, log[Sid(g)])
    BY <2>1 DEF StoryInv
  <2> QED
    BY <1>5, <2>1, <2>2, <2>3
<1>8. \A s \in AllSids : sessions'[s] = None => log'[s] = <<>>
  BY <1>5 DEF StoryInv
<1>9. ASSUME NEW c \in AllTold' PROVE Begins(log'[c.answer.sid], Story(c.body.intent))
  <2>1. c \in AllTold
    BY <1>1, ToldStays DEF Silent
  <2>2. c.answer.sid \in AllSids /\ c.answer.sid # Sid(h)
    BY <1>3, <2>1, AnswerSid DEF RecordInv, WorksInv, Works, Settled, Unfinished
  <2> QED
    BY <1>5, <2>1, <2>2 DEF StoryInv
<1> QED
  BY <1>5, <1>7, <1>8, <1>9 DEF StoryInv

(* The sponsor's announcement comes after the whole story.                  *)
LEMMA AnnouncingTells ==
  ASSUME ClaimInv, LeaseInv, RecordInv, NameInv, StoryInv, NEW h \in Slots, AnnounceRun(h)
  PROVE  StoryInv'
<1> DEFINE r == runs[h].id
<1>1. /\ Running(h, "opened") /\ UNCHANGED <<claims, answers, sessions, handler>>
      /\ log' = [log EXCEPT ![r] = Append(@, "BOND_OPENED")]
  BY DEF AnnounceRun
<1>2. r \in Runs /\ r \in Keys /\ r \in AllSids /\ r # None
  <2>1. r \in Runs
    BY <1>1 DEF Running, LeaseInv
  <2> QED
    BY <2>1, DemoAssumption DEF Runs, AllSids
<1>3. StoredAnswerOf(r) # None /\ claims[r].body = RunBody[r] /\ claims[r].answer.sid = r
  <2>1. StoredAnswerOf(r) # None /\ claims[r] # None
    BY <1>1 DEF NameInv, StoredAnswerOf
  <2>2. claims[r].body = RunBody[r] /\ Named(claims[r].body, claims[r].answer.sid)
    BY <1>2, <2>1 DEF NameInv
  <2> QED
    BY <1>2, <2>1, <2>2, DemoAssumption DEF Named
<1> HIDE DEF r
<1>4. /\ sessions[r] \in Records /\ sessions[r] # None /\ sessions[r].token # None
      /\ sessions[r].intent = claims[r].body.intent
      /\ Begins(log[r], Story(claims[r].body.intent))
  <2>1. Works(claims[r])
    BY <1>2, <1>3, StoredSid DEF RecordInv, WorksInv
  <2>2. claims[r] \in AllTold /\ claims[r].answer.token # None
    BY <1>2, <1>3, StoredSid
  <2> QED
    BY <1>2, <1>3, <2>1, <2>2 DEF Works, StoryInv
<1>5. /\ log[r] \in Seq(Events) /\ "BOND_OPENED" \in Events
      /\ log' \in [AllSids -> Seq(Events)] /\ log'[r] = Append(log[r], "BOND_OPENED")
      /\ \A s \in AllSids \ {r} : log'[s] = log[s]
  <2>1. log[r] \in Seq(Events) /\ "BOND_OPENED" \in Events
    BY <1>2 DEF StoryInv, Events
  <2>2. Append(log[r], "BOND_OPENED") \in Seq(Events)
    BY <2>1
  <2> QED
    BY <1>1, <1>2, <2>1, <2>2 DEF StoryInv
<1>6. ASSUME NEW g \in Slots, Owns(g) PROVE Tells(Stage(g), Body(g).intent, log'[Sid(g)])
  <2>1. Tells(Stage(g), Body(g).intent, log[Sid(g)]) /\ Sid(g) \in AllSids
    BY <1>6, IdleIsNoStage DEF StoryInv, ClaimInv, Holds, Owns, Owning, Stage
  <2>2. CASE Sid(g) # r
    BY <1>5, <2>1, <2>2
  <2>3. CASE Sid(g) = r
    <3>1. Mine(handler[g], sessions[r], issued, bonds)
      BY <1>6, <2>3 DEF RecordInv, OwnerInv
    <3>2. Stage(g) \in Tokened /\ Body(g).intent = claims[r].body.intent
      BY <1>4, <3>1 DEF Mine, Stage, Body
    <3>3. Stage(g) # "activated"
      <4> SUFFICES ASSUME Stage(g) = "activated" PROVE FALSE
        OBVIOUS
      <4>1. log[r] = Prelude(Body(g).intent)
        BY <2>1, <2>3 DEF Tells, AfterBond
      <4>2. Len(log[r]) >= Len(Story(Body(g).intent))
        BY <1>4, <3>2 DEF Begins
      <4> QED
        BY <4>1, <4>2, StoryEnds, LenProperties
    <3>4. Begins(log'[r], Story(Body(g).intent))
      BY <1>4, <1>5, <3>2, StoryEnds, BeginsMore
    <3> QED
      BY <2>3, <3>2, <3>3, <3>4 DEF Tells, Tokened, AfterPolicy, ForBonded, AfterBond
  <2> QED
    BY <2>2, <2>3
<1>7. ASSUME NEW c \in AllTold
      PROVE  Begins(log'[c.answer.sid], Story(c.body.intent))
  <2> DEFINE s == c.answer.sid
             told == Story(c.body.intent)
  <2>1. s \in AllSids /\ Begins(log[s], told) /\ told \in Seq(Events)
    BY AnswerSid, StoryEnds DEF StoryInv, RecordInv, WorksInv
  <2> HIDE DEF s, told
  <2>2. Begins(log'[s], told)
    <3>1. CASE s = r
      <4>1. Begins(Append(log[s], "BOND_OPENED"), told)
        BY <1>5, <2>1, <3>1, BeginsMore
      <4> QED
        BY <1>5, <3>1, <4>1
    <3>2. CASE s # r
      BY <1>5, <2>1, <3>2
    <3> QED
      BY <3>1, <3>2
  <2> QED
    BY <2>2 DEF s, told
<1>8. \A s \in AllSids : sessions[s] = None => log'[s] = <<>>
  BY <1>4, <1>5 DEF StoryInv
<1> QED
  BY <1>1, <1>5, <1>6, <1>7, <1>8 DEF StoryInv, Owns, Stage, Body, Sid, AllTold, StoredAnswerOf

LEMMA OutsideTells ==
  ASSUME StoryInv, UNCHANGED <<claims, answers, handler, log>>,
         \A s \in AllSids : sessions'[s] = None => sessions[s] = None
  PROVE  StoryInv'
<1>1. \A c \in AllTold' : c \in AllTold
  BY ToldStays
<1> QED
  BY <1>1, SilentKeeps DEF Owns, Stage, Body, Sid, SameChapter

LEMMA StoryStep ==
  ASSUME ClaimInv, LeaseInv, AnswerInv, RecordInv, RecordInv', NameInv, StoryInv,
         [DemoNext]_allVars
  PROVE  StoryInv'
<1> DEFINE Unseen == UNCHANGED <<claims, answers, handler, log, sessions>>
<1>1. CASE Unseen
  BY <1>1, OutsideTells
<1>2. CASE \E h \in Slots : Handle(h) \/ Fails(h)
  BY <1>2, WorkingTells, CompletingTells, CreatingTells, EmittingTells, DeletingTells DEF Handle
<1>3. ASSUME NEW h \in Slots, NEW k \in Keys, NEW b \in Bodies, Claim(h, k, b)
      PROVE  StoryInv'
  <2>1. /\ log' = log /\ sessions' = sessions /\ answers' = answers
        /\ handler' = handler \/ ~Owns(h)'
        /\ \A g \in Slots \ {h} : handler'[g] = handler[g]
    BY <1>3 DEF Claim, ClaimKey, ClaimThrows, ClaimInv, Owns, Owning, Stage
  <2>2. \A j \in Keys : StoredAnswerOf(j)' # None => claims'[j] = claims[j]
    BY <1>3 DEF Claim, ClaimKey, ClaimThrows, MakeClaim, ClaimInv, StoredAnswerOf
  <2>3. ASSUME NEW g \in Slots, Owns(g)'
        PROVE  /\ Owns(g) /\ Body(g)' = Body(g) /\ Sid(g)' = Sid(g)
               /\ SameChapter(Stage(g), Stage(g)')
    BY <2>1, <2>3 DEF Owns, Stage, Body, Sid, SameChapter
  <2>4. \A c \in AllTold' : c \in AllTold
    BY <2>1, <2>2, ToldStays
  <2> QED
    BY <2>1, <2>3, <2>4, SilentKeeps
<1>4. CASE Crash
  <2>1. /\ log' = log /\ sessions' = sessions /\ Silent
        /\ \A h \in Slots : handler'[h] = Idle
    BY <1>4 DEF Crash, Silent
  <2>2. \A h \in Slots : ~Owns(h)'
    BY <2>1, IdleIsNoStage DEF Owns, Owning, Stage
  <2>3. \A c \in AllTold' : c \in AllTold
    BY <2>1, ToldStays DEF Silent
  <2> QED
    BY <2>1, <2>2, <2>3, SilentKeeps
<1>5. CASE Gateway
  <2>1. ASSUME NEW a \in answers, CloseSession(a) PROVE StoryInv'
    <3>1. a.session.sid \in AllSids
      <4>1. [body |-> a.body, answer |-> a.session] \in AllTold
        BY DEF AllTold
      <4> QED
        BY <4>1, AnswerSid DEF RecordInv, WorksInv
    <3>2. UNCHANGED <<claims, answers, handler, log>>
      BY <2>1 DEF CloseSession
    <3>3. /\ sessions[a.session.sid] \in Records
          /\ sessions' = [sessions EXCEPT ![a.session.sid].state = "CLOSED"]
      BY <2>1, <3>1 DEF CloseSession, RecordInv, SoundInv
    <3>4. [sessions[a.session.sid] EXCEPT !.state = "CLOSED"] \in Records
      BY <3>3 DEF Records
    <3>5. \A s \in AllSids : sessions'[s] = None => sessions[s] = None
      BY <3>1, <3>3, <3>4 DEF RecordInv, SoundInv
    <3> QED
      BY <3>2, <3>5, OutsideTells
  <2> QED
    BY <1>2, <1>5, <2>1 DEF Gateway
<1>6. CASE Direct
  <2>1. ASSUME NEW i, NEW s, CreateChallenge(i, s) \/ IssueCredential(i, s) \/ OpenBond(s, i)
        PROVE  Unseen
    BY <2>1 DEF CreateChallenge, SignChallenge, IssueCredential, OpenBond
  <2>2. ASSUME NEW h, NEW k \in Keys, NEW b, Replay(h, k, b) PROVE StoryInv'
    <3>1. /\ UNCHANGED <<claims, handler, log, sessions>>
          /\ answers' = answers \cup {[key |-> k, body |-> b, session |-> claims[k].answer]}
      BY <2>2 DEF Replay
    <3>2. claims[k] = [body |-> b, answer |-> claims[k].answer] /\ StoredAnswerOf(k) # None
      BY <2>2 DEF Replay, StoredAnswer, StoredAnswerOf, ClaimInv, Claims
    <3>3. \A c \in AllTold' : c \in AllTold
      BY <3>1, <3>2 DEF AllTold, StoredAnswerOf
    <3> QED
      BY <3>1, <3>3, SilentKeeps DEF Owns, Stage, Body, Sid, SameChapter
  <2> HIDE DEF Unseen
  <2> QED
    BY <1>1, <1>3, <1>6, <2>1, <2>2 DEF Direct
<1>7. ASSUME NEW h \in Slots, RunRequestsSession(h) PROVE StoryInv'
  BY <1>3, <1>7, RunClaims
<1>8. ASSUME NEW h \in Slots,
             \/ RunPrepares(h) \/ RunFails(h) \/ RunIsAnswered(h) \/ ReleaseLease(h)
             \/ ClaimQuota(h)
      PROVE  Unseen
  BY <1>8 DEF RunPrepares, RunFails, RunIsAnswered, ReleaseLease, ClaimQuota, vars
<1>9. CASE LeaseRunsOut \/ UNCHANGED allVars
  BY <1>1, <1>9 DEF LeaseRunsOut, vars, allVars
<1> HIDE DEF Unseen
<1> QED
  BY <1>1, <1>4, <1>5, <1>6, <1>7, <1>8, <1>9, AnnouncingTells DEF DemoNext, DemoCrash, Run

LEMMA StoryInit == DemoInit => NameInv /\ StoryInv
<1> SUFFICES ASSUME DemoInit PROVE NameInv /\ StoryInv
  OBVIOUS
<1> USE DEF DemoInit, Init
<1>1. \A h \in Slots : Stage(h) \notin Stages /\ ~Owns(h)
  BY IdleIsNoStage DEF Stage, Owns, Owning
<1>2. \A k \in Keys : claims[k] = None /\ StoredAnswerOf(k) = None
  BY DEF StoredAnswerOf
<1>3. NameInv
  BY <1>1, <1>2, DemoAssumption DEF NameInv, Running, Runs
<1>4. StoryInv
  <2>1. AllTold = {}
    BY <1>2 DEF AllTold
  <2> QED
    BY <1>1, <2>1 DEF StoryInv
<1> QED
  BY <1>3, <1>4

LEMMA StoryImplies == StoryInv => StoryIsClean
<1> SUFFICES ASSUME StoryInv, NEW a \in answers
             PROVE  Begins(log[a.session.sid], Story(a.body.intent))
  BY DEF StoryIsClean, Begins
<1> DEFINE c == [body |-> a.body, answer |-> a.session]
<1>1. c \in AllTold
  BY DEF AllTold
<1>2. c.body = a.body /\ c.answer = a.session
  OBVIOUS
<1> HIDE DEF c
<1> QED
  BY <1>1, <1>2 DEF StoryInv

(* The log of an answered session begins with its own making, told once and *)
(* in order: nothing of a refused attempt on the same session id is left in *)
(* it, and what the sponsor announces comes after.                          *)
THEOREM StoryAlwaysClean == DemoSpec => []StoryIsClean
BY RecordInvariance, StoryInit, NameStep, StoryStep, StoryImplies, PTL DEF DemoSpec
=============================================================================
