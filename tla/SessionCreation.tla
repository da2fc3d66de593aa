-------------------------- MODULE SessionCreation --------------------------
(***************************************************************************)
(* How a session comes to be: POST /v1/sessions of the gateway             *)
(* (apps/gateway/src/app.ts), the repository calls it makes, the payment   *)
(* challenge and credential routes it depends on, and the bond it asks     *)
(* the chain about.  A slot is one request being handled; every await of   *)
(* the handler is a step of its own, so two requests interleave wherever   *)
(* the event loop, or two instances of the gateway, let them.              *)
(*                                                                         *)
(* A policy is known by its intent: the policy hash of intent i is i.  A   *)
(* signed payment token is the record of what it says; it verifies exactly *)
(* when it was issued.  A session token is the number of the request that  *)
(* drew it.                                                                *)
(***************************************************************************)
EXTENDS Naturals, FiniteSets, Sequences

CONSTANTS
  Slots,      \* requests the gateway handles at the same time
  Keys,       \* idempotency keys
  Sids,       \* session ids a client may name
  Intents,    \* stored intents, each with its compiled policy
  Bonds,      \* bond accounts on the chain
  Bodies,     \* the request bodies clients send
  Cap,        \* [Intents -> Nat]: usageCapAtomic of the policy
  Bonded,     \* the intents whose policy has bonded actions
  DemoMax,    \* the largest cap the devnet credential route signs for
  MaxSends,   \* bound: claims of an idempotency key
  MaxFaults,  \* bound: requests cut short before the last fault
  None

Ids == 1..MaxSends
\* A session id is named by the client or drawn at random by request n.
AllSids == Sids \cup Ids
\* The answer that gives a session token, and an idempotency record.
Answers == [sid : AllSids, token : Ids]
Claims == [body : Bodies, answer : Answers \cup {None}]
\* The states abortSessionCreation may delete.
Unfinished == {"CREATED", "POLICY_READY", "PAYMENT_READY", "BONDED"}
\* A session record, with the request that made it, and a bond account.
Records == [state : Unfinished \cup {"ACTIVE", "CLOSED"}, intent : Intents,
            token : Ids \cup {None}, body : Bodies, maker : Ids]
Accounts == [intent : Intents, open : BOOLEAN]
Token(kind, s, amount) == [kind |-> kind, sid |-> s, amount |-> amount]

ASSUME CreationAssumption ==
  /\ MaxSends \in Nat /\ MaxFaults \in Nat /\ DemoMax \in Nat
  /\ Cap \in [Intents -> Nat]
  /\ Bonded \subseteq Intents
  /\ \A b \in Bodies : b.sid \in Sids \cup {None}
  /\ None \notin AllSids /\ None \notin Answers /\ None \notin Claims
  /\ None \notin Records /\ None \notin Accounts

VARIABLES
  claims,    \* the idempotency records: None or [body, answer]
  sessions,  \* the session records: None or one of Records
  log,       \* the stored events of a session id, by type
  issued,    \* the payment tokens the gateway has signed
  cache,     \* the challenge cached for a session id by this process
  bonds,     \* None or one of Accounts
  handler,   \* what each slot is doing
  answers,   \* the answers that carried a session token
  sends,     \* the number of claims so far
  faulted,   \* the requests cut short by an exception or a crash
  left,      \* the keys whose claim was left behind
  twice,     \* the keys that were released, and are or were released again
  crashed    \* whether the process ever stopped

\* What became of requests that were cut short.
failures == <<faulted, left, twice, crashed>>

vars == <<claims, sessions, log, issued, cache, bonds, handler, answers,
          sends, failures>>

Idle == [stage |-> "idle"]

\* What the gateway does for a request, one await after the other.
After(i) ==
  [exists |-> "create", create |-> "received", received |-> "compiled",
   compiled |-> "to_policy", to_policy |-> "verify", verify |-> "to_payment",
   to_payment |-> "save_payment", save_payment |-> "paid",
   paid |-> IF i \in Bonded THEN "bond" ELSE "to_active",
   bond |-> "to_bonded", to_bonded |-> "save_bond", save_bond |-> "opened",
   opened |-> "to_active", to_active |-> "save_token",
   save_token |-> "activated", activated |-> "complete", complete |-> "answer"]
Stages == {"exists", "create", "received", "compiled", "to_policy", "verify",
           "to_payment", "save_payment", "paid", "bond", "to_bonded",
           "save_bond", "opened", "to_active", "save_token", "activated",
           "complete", "answer", "delete", "release", "catch"}
\* Releasing the claim, in abortSessionCreation and in the catch block.
Releasing == {"release", "catch"}
EventAt == [received |-> "INTENT_RECEIVED", compiled |-> "POLICY_COMPILED",
            paid |-> "PAYMENT_VERIFIED", opened |-> "BOND_OPENED",
            activated |-> "SESSION_ACTIVATED"]
Move(i) ==
  [to_policy  |-> <<"CREATED", "POLICY_READY">>,
   to_payment |-> <<"POLICY_READY", "PAYMENT_READY">>,
   to_bonded  |-> <<"PAYMENT_READY", "BONDED">>,
   to_active  |-> <<IF i \in Bonded THEN "BONDED" ELSE "PAYMENT_READY", "ACTIVE">>]

Init ==
  /\ claims = [k \in Keys |-> None]
  /\ sessions = [s \in AllSids |-> None]
  /\ log = [s \in AllSids |-> <<>>]
  /\ issued = {}
  /\ cache = [s \in AllSids |-> None]
  /\ bonds = [b \in Bonds |-> None]
  /\ handler = [h \in Slots |-> Idle]
  /\ answers = {}
  /\ sends = 0
  /\ faulted = {}
  /\ left = {}
  /\ twice = {}
  /\ crashed = FALSE

-----------------------------------------------------------------------------
(* Payment tokens and bonds.                                               *)

\* createChallenge of the adapter: one challenge per session id is signed and
\* cached; asked again, it gives the same one or, for another amount, none.
SignChallenge(s, amount) ==
  /\ cache[s] = None
  /\ cache' = [cache EXCEPT ![s] = amount]
  /\ issued' = issued \cup {Token("challenge", s, amount)}

\* The route, for the cap of a stored intent.
CreateChallenge(i, s) ==
  /\ sessions[s] = None
  /\ SignChallenge(s, Cap[i])
  /\ UNCHANGED <<claims, sessions, log, bonds, handler, answers, sends, failures>>

\* issueCredential of the adapter.
Credential(s, amount) == Token("credential", s, amount)

\* The devnet route signs a credential for the cap of a stored intent.
IssueCredential(i, s) ==
  /\ Cap[i] <= DemoMax
  /\ Credential(s, Cap[i]) \notin issued
  /\ issued' = issued \cup {Credential(s, Cap[i])}
  /\ UNCHANGED <<claims, sessions, log, cache, bonds, handler, answers, sends, failures>>

\* verifyToken: the adapter signed this token, of this kind, for this session.
VerifyToken(token, kind, s) == token \in issued /\ token.kind = kind /\ token.sid = s

\* verifyCredential of the adapter, on its own as a slip: the credential need not
\* cover the policy.  A body without a challenge is not asked for one.
VerifyCredential(b, s) ==
  /\ VerifyToken(b.credential, "credential", s)
  /\ b.challenge # None =>
       /\ VerifyToken(b.challenge, "challenge", s)
       /\ b.credential.amount >= b.challenge.amount

\* The gateway adds that what the credential is good for covers the policy.
CredentialCovers(b, s) ==
  /\ VerifyCredential(b, s)
  /\ b.credential.amount >= Cap[b.intent]

\* verifyOpenBond: an open bond account opened for this policy and amounts.
BondCovers(b) ==
  /\ b.bond \in Bonds
  /\ bonds[b.bond] # None
  /\ bonds[b.bond].open
  /\ bonds[b.bond].intent = b.intent

\* openBond of the client: the account is opened for a policy and its amounts.
NewBond(i) == [intent |-> i, open |-> TRUE]

OpenBond(a, i) ==
  /\ bonds[a] = None
  /\ bonds' = [bonds EXCEPT ![a] = NewBond(i)]
  /\ UNCHANGED <<claims, sessions, log, issued, cache, handler, answers, sends, failures>>

-----------------------------------------------------------------------------
(* The handler.                                                            *)

Goto(h, stage) == handler' = [handler EXCEPT ![h].stage = stage]
Stage(h) == handler[h].stage
Body(h) == handler[h].body
Sid(h) == handler[h].sid
Advance(h) == Goto(h, After(Body(h).intent)[Stage(h)])

\* claimIdempotent of a key that is free.
MakeClaim(h, k, b) ==
  /\ handler[h] = Idle
  /\ sends < MaxSends
  /\ claims[k] = None
  /\ sends' = sends + 1
  /\ claims' = [claims EXCEPT ![k] = [body |-> b, answer |-> None]]

\* It answers CLAIMED: the request goes on, or is refused at once for an unknown
\* intent or a policy hash that is not the intent's.
ClaimKey(h, k, b) ==
  /\ MakeClaim(h, k, b)
  /\ handler' = [handler EXCEPT ![h] =
       [stage |-> IF b.intent \in Intents /\ b.hash = b.intent
                  THEN "exists" ELSE "release",
        key |-> k, body |-> b, n |-> sends',
        sid |-> IF b.sid = None THEN sends' ELSE b.sid, copy |-> None]]
  /\ UNCHANGED <<sessions, log, issued, cache, bonds, answers, failures>>

\* It takes effect and throws all the same, before there is a try block.
ClaimThrows(h, k, b) ==
  /\ MakeClaim(h, k, b)
  /\ Cardinality(faulted) < MaxFaults
  /\ faulted' = faulted \cup {sends'}
  /\ left' = left \cup {k}
  /\ UNCHANGED <<sessions, log, issued, cache, bonds, handler, answers, twice, crashed>>

\* slip: the fingerprint of the request is not compared.
StoredAnswerOfKey(k, b) == claims[k] # None /\ claims[k].answer # None

\* claimIdempotent answers COMPLETED: same key, same fingerprint.  CONFLICT and
\* IN_PROGRESS are answered without a trace.
StoredAnswer(k, b) ==
  /\ claims[k] # None
  /\ claims[k].body = b
  /\ claims[k].answer # None

Replay(h, k, b) ==
  /\ handler[h] = Idle
  /\ StoredAnswer(k, b)
  /\ answers' = answers \cup {[key |-> k, body |-> b, session |-> claims[k].answer]}
  /\ UNCHANGED <<claims, sessions, log, issued, cache, bonds, handler, sends, failures>>

CheckSid(h) ==
  /\ Stage(h) = "exists"
  /\ IF sessions[Sid(h)] = None THEN Advance(h) ELSE Goto(h, "release")
  /\ UNCHANGED <<claims, sessions, log, issued, cache, bonds, answers, sends, failures>>

NewSession(h) ==
  [state |-> "CREATED", intent |-> Body(h).intent, token |-> None,
   body |-> Body(h), maker |-> handler[h].n]

\* slip: the record is written without looking whether one is there.
OverwriteSession(h) ==
  /\ Stage(h) = "create"
  /\ sessions' = [sessions EXCEPT ![Sid(h)] = NewSession(h)]
  /\ Advance(h)
  /\ UNCHANGED <<claims, log, issued, cache, bonds, answers, sends, failures>>

\* createSession creates or finds, in one transaction.
CreateSession(h) ==
  /\ Stage(h) = "create"
  /\ IF sessions[Sid(h)] = None
     THEN /\ sessions' = [sessions EXCEPT ![Sid(h)] = NewSession(h)]
          /\ Advance(h)
     ELSE /\ Goto(h, "release")
          /\ UNCHANGED sessions
  /\ UNCHANGED <<claims, log, issued, cache, bonds, answers, sends, failures>>

Emit(h) ==
  /\ Stage(h) \in DOMAIN EventAt
  /\ log' = [log EXCEPT ![Sid(h)] = Append(@, EventAt[Stage(h)])]
  /\ Advance(h)
  /\ UNCHANGED <<claims, sessions, issued, cache, bonds, answers, sends, failures>>

\* transitionSession: the state must be the expected one; the handler keeps the
\* stored record as its copy.  Any other state is an exception.
Transition(h) ==
  LET move == Move(Body(h).intent)[Stage(h)]
      record == sessions[Sid(h)]
  IN /\ Stage(h) \in {"to_policy", "to_payment", "to_bonded", "to_active"}
     /\ IF record # None /\ record.state = move[1]
        THEN LET moved == [record EXCEPT !.state = move[2]]
             IN /\ sessions' = [sessions EXCEPT ![Sid(h)] = moved]
                /\ handler' = [handler EXCEPT ![h].copy = moved,
                     ![h].stage = After(Body(h).intent)[Stage(h)]]
        ELSE /\ Goto(h, "catch")
             /\ UNCHANGED sessions
     /\ UNCHANGED <<claims, log, issued, cache, bonds, answers, sends, failures>>

\* saveSession writes the whole copy, with the token once it is drawn.
SaveSession(h) ==
  /\ Stage(h) \in {"save_payment", "save_bond", "save_token"}
  /\ sessions' = [sessions EXCEPT ![Sid(h)] =
       [handler[h].copy EXCEPT
          !.token = IF Stage(h) = "save_token" THEN handler[h].n ELSE @]]
  /\ Advance(h)
  /\ UNCHANGED <<claims, log, issued, cache, bonds, answers, sends, failures>>

\* An answer of the adapter that is not CONFIRMED aborts the creation.
VerifyPayment(h) ==
  /\ Stage(h) = "verify"
  /\ IF CredentialCovers(Body(h), Sid(h)) THEN Advance(h) ELSE Goto(h, "delete")
  /\ UNCHANGED <<claims, sessions, log, issued, cache, bonds, answers, sends, failures>>

\* slip: a refused bond aborts without naming the session to delete.
VerifyBondKeepSession(h) ==
  /\ Stage(h) = "bond"
  /\ \/ BondCovers(Body(h)) /\ Advance(h)
     \/ Goto(h, "release")
  /\ UNCHANGED <<claims, sessions, log, issued, cache, bonds, answers, sends, failures>>

\* Whatever the bond, the chain may be out of reach, or the permissionless
\* expiry may have emptied it.
VerifyBond(h) ==
  /\ Stage(h) = "bond"
  /\ \/ BondCovers(Body(h)) /\ Advance(h)
     \/ Goto(h, "delete")
  /\ UNCHANGED <<claims, sessions, log, issued, cache, bonds, answers, sends, failures>>

\* slip: the record goes, its events stay.
DeleteSessionOnly(h) ==
  /\ Stage(h) = "delete"
  /\ LET record == sessions[Sid(h)]
         deletes == record # None /\ record.state \in Unfinished
     IN sessions' = IF deletes THEN [sessions EXCEPT ![Sid(h)] = None] ELSE sessions
  /\ Goto(h, "release")
  /\ UNCHANGED <<log, claims, issued, cache, bonds, answers, sends, failures>>

\* deleteSessionIfState: the record and its events, unless the session is
\* already active.
DeleteSession(h) ==
  /\ Stage(h) = "delete"
  /\ LET record == sessions[Sid(h)]
         deletes == record # None /\ record.state \in Unfinished
     IN IF deletes
        THEN /\ sessions' = [sessions EXCEPT ![Sid(h)] = None]
             /\ log' = [log EXCEPT ![Sid(h)] = <<>>]
        ELSE UNCHANGED <<sessions, log>>
  /\ Goto(h, "release")
  /\ UNCHANGED <<claims, issued, cache, bonds, answers, sends, failures>>

InProgress(k, b) == claims[k] # None /\ claims[k].body = b /\ claims[k].answer = None

\* slip: a refused request leaves its claim behind.
AnswerError(h) ==
  /\ Stage(h) \in Releasing
  /\ handler' = [handler EXCEPT ![h] = Idle]
  /\ UNCHANGED <<claims, sessions, log, issued, cache, bonds, answers, sends, failures>>

\* slip: a claim is released whether or not it has been completed.
ReleaseAnyClaim(h) ==
  /\ Stage(h) \in Releasing
  /\ claims' = [claims EXCEPT ![handler[h].key] = None]
  /\ handler' = [handler EXCEPT ![h] = Idle]
  /\ UNCHANGED <<sessions, log, issued, cache, bonds, answers, sends, failures>>

\* releaseIdempotent: only a claim of the same fingerprint that is still in
\* progress.
Released(h) ==
  IF InProgress(handler[h].key, Body(h))
  THEN [claims EXCEPT ![handler[h].key] = None] ELSE claims

Release(h) ==
  /\ Stage(h) \in Releasing
  /\ claims' = Released(h)
  /\ handler' = [handler EXCEPT ![h] = Idle]
  /\ UNCHANGED <<sessions, log, issued, cache, bonds, answers, sends, failures>>

\* completeIdempotent stores the answer; a claim that is gone is an exception.
Complete(h) ==
  /\ Stage(h) = "complete"
  /\ IF claims[handler[h].key] # None /\ claims[handler[h].key].body = Body(h)
     THEN /\ claims' = [claims EXCEPT ![handler[h].key].answer =
                          [sid |-> Sid(h), token |-> handler[h].n]]
          /\ Advance(h)
     ELSE /\ Goto(h, "catch")
          /\ UNCHANGED claims
  /\ UNCHANGED <<sessions, log, issued, cache, bonds, answers, sends, failures>>

Answer(h) ==
  /\ Stage(h) = "answer"
  /\ answers' = answers \cup
       {[key |-> handler[h].key, body |-> Body(h),
         session |-> [sid |-> Sid(h), token |-> handler[h].n]]}
  /\ handler' = [handler EXCEPT ![h] = Idle]
  /\ UNCHANGED <<claims, sessions, log, issued, cache, bonds, sends, failures>>

\* The request of h is cut short; one request may be so more than once.
CutShort(h) ==
  /\ handler[h].n \in faulted \/ Cardinality(faulted) < MaxFaults
  /\ faulted' = faulted \cup {handler[h].n}

\* A call throws.  One that took effect before it threw is the same as the
\* next one throwing first, so "answer" stands for a completion that did.
Throw(h) ==
  /\ Stage(h) \in Stages \ Releasing
  /\ CutShort(h)
  /\ Goto(h, "catch")
  /\ UNCHANGED <<claims, sessions, log, issued, cache, bonds, answers, sends,
                 left, twice, crashed>>

\* The release of abortSessionCreation throws, and may have taken effect: the
\* catch block releases again, whoever has claimed the key since.
AbortThrows(h) ==
  /\ Stage(h) = "release"
  /\ CutShort(h)
  /\ claims' \in {claims, Released(h)}
  /\ twice' = IF claims' = claims THEN twice ELSE twice \cup {handler[h].key}
  /\ Goto(h, "catch")
  /\ UNCHANGED <<sessions, log, issued, cache, bonds, answers, sends, left, crashed>>

\* That of the catch block throws, and may have taken effect: if it has not, the
\* claim stays and the request ends.
CatchThrows(h) ==
  /\ Stage(h) = "catch"
  /\ CutShort(h)
  /\ claims' \in {claims, Released(h)}
  /\ left' = IF claims' = claims THEN left \cup {handler[h].key} ELSE left
  /\ handler' = [handler EXCEPT ![h] = Idle]
  /\ UNCHANGED <<sessions, log, issued, cache, bonds, answers, sends, twice, crashed>>

\* The process stops, once: requests and cached challenges are lost, what is
\* stored stays.
Crash ==
  /\ ~crashed /\ Cardinality(faulted) < MaxFaults
  /\ faulted' = faulted \cup {handler[h].n : h \in {g \in Slots : handler[g] # Idle}}
  /\ left' = left \cup {handler[h].key : h \in {g \in Slots : handler[g] # Idle}}
  /\ crashed' = TRUE
  /\ handler' = [h \in Slots |-> Idle]
  /\ cache' = [s \in AllSids |-> None]
  /\ UNCHANGED <<claims, sessions, log, issued, bonds, answers, sends, twice>>

\* Whoever holds an answered token closes the session; see Settlement for how.
CloseSession(a) ==
  LET s == a.session.sid
  IN /\ sessions[s] # None
     /\ sessions[s].state = "ACTIVE"
     /\ sessions[s].token = a.session.token
     /\ sessions' = [sessions EXCEPT ![s].state = "CLOSED"]
     /\ bonds' = IF sessions[s].intent \in Bonded
                 THEN [bonds EXCEPT ![sessions[s].body.bond].open = FALSE] ELSE bonds
     /\ UNCHANGED <<claims, log, issued, cache, handler, answers, sends, failures>>

Handle(h) ==
  \/ CheckSid(h) \/ CreateSession(h) \/ Emit(h) \/ Transition(h)
  \/ SaveSession(h) \/ VerifyPayment(h) \/ VerifyBond(h) \/ DeleteSession(h)
  \/ Release(h) \/ Complete(h) \/ Answer(h)

Fails(h) == Throw(h) \/ AbortThrows(h) \/ CatchThrows(h)

Claim(h, k, b) == ClaimKey(h, k, b) \/ ClaimThrows(h, k, b)

Receive(h) == \E k \in Keys, b \in Bodies : Claim(h, k, b) \/ Replay(h, k, b)

Around ==
  \/ \E i \in Intents, s \in Sids : CreateChallenge(i, s) \/ IssueCredential(i, s)
  \/ \E a \in Bonds, i \in Bonded : OpenBond(a, i)
  \/ \E a \in answers : CloseSession(a)
  \/ Crash

Next == Around \/ \E h \in Slots : Receive(h) \/ Handle(h) \/ Fails(h)

Spec == Init /\ [][Next]_vars

-----------------------------------------------------------------------------
TypeOK ==
  /\ claims \in [Keys -> Claims \cup {None}]
  /\ sessions \in [AllSids -> Records \cup {None}]
  /\ bonds \in [Bonds -> Accounts \cup {None}]
  /\ \A h \in Slots : handler[h] = Idle \/
       (Stage(h) \in Stages /\ handler[h].n \in Ids /\ Sid(h) \in AllSids)
  /\ sends \in 0..MaxSends
  /\ faulted \subseteq Ids
  /\ left \subseteq Keys /\ twice \subseteq Keys

\* The token a client was given is the token of a session that exists, is
\* active or settled, and was made for the intent the client named, whatever
\* other requests for the same session id were running.
AnsweredTokenWorks ==
  \A a \in answers :
    LET record == sessions[a.session.sid]
    IN /\ record # None
       /\ record.token = a.session.token
       /\ record.state \in {"ACTIVE", "CLOSED"}
       /\ record.intent = a.body.intent

\* One idempotency key has one request and one answer (app.ts:420-423), whatever
\* throws: only a release that took effect and threw (app.ts:428) is repeated, and
\* may end the claim of another request, whose answer the next one then replaces.
OneAnswerPerKey ==
  \A a, b \in answers : a.key = b.key => a = b \/ a.key \in twice

\* abortSessionCreation cleans up after every refusal: a session that never
\* became active is in the making, or its request was cut short.
HalfMadeOnlyByFault ==
  \A s \in AllSids :
    sessions[s] # None /\ sessions[s].state \in Unfinished =>
      \/ sessions[s].maker \in faulted
      \/ \E h \in Slots : handler[h] # Idle /\ handler[h].n = sessions[s].maker
                            /\ Sid(h) = s

Story(i) ==
  <<"INTENT_RECEIVED", "POLICY_COMPILED", "PAYMENT_VERIFIED">>
  \o (IF i \in Bonded THEN <<"BOND_OPENED">> ELSE <<>>) \o <<"SESSION_ACTIVATED">>

\* The event log of an answered session begins with its own making, once, with
\* nothing left over from an earlier attempt on the same session id.
StoryIsClean ==
  \A a \in answers :
    LET told == Story(a.body.intent)
        kept == log[a.session.sid]
    IN Len(kept) >= Len(told) /\ SubSeq(kept, 1, Len(told)) = told

\* An active session is paid for: its credential was signed for it and covers
\* the cap of its policy, and its bond was opened for the same policy.
PaidAndBonded ==
  \A s \in AllSids :
    sessions[s] # None /\ sessions[s].state \in {"ACTIVE", "CLOSED"} =>
      LET record == sessions[s]
      IN /\ Token("credential", s, record.body.credential.amount) \in issued
         /\ record.body.credential.amount >= Cap[record.intent]
         /\ record.intent \in Bonded => bonds[record.body.bond].intent = record.intent

\* The answer stored under a key is written once: it is never replaced, and the
\* release of a late exception does not forget it, unless that release had taken
\* effect before (see OneAnswerPerKey).
StoredAnswerOf(k) == IF claims[k] = None THEN None ELSE claims[k].answer
Stored(k) == INSTANCE WriteOnce WITH
  value <- StoredAnswerOf(k), Unset <- None, Values <- Answers
AnswerIsWrittenOnce ==
  [][\A k \in Keys \ twice : Stored(k)!Write \/ UNCHANGED StoredAnswerOf(k)]_claims

\* A claim in progress is held by the one request that made it, so that it will be
\* completed or released, whatever is refused and whatever throws. What leaves
\* one behind, which then refuses its key for good, is a process that stops, a
\* claim that is made and throws (app.ts:420, outside the try block), or a release
\* of the catch block that throws (app.ts:509); what breaks it, a repeated release.
ClaimHasHolder ==
  \A k \in Keys \ (left \cup twice) : claims[k] # None /\ claims[k].answer = None =>
    \E h \in Slots : handler[h] # Idle /\ handler[h].key = k
      /\ \A g \in Slots \ {h} : handler[g] # Idle => handler[g].key # k
=============================================================================
