------------------------------ MODULE LiveView ------------------------------
(***************************************************************************)
(* What the screen makes of the events it has been given, in the order it  *)
(* was given them: the reducer of apps/web/lib/reducer.ts, reduced to what *)
(* it says of the session, the bond and the reservation, and the stage of  *)
(* apps/web/app/BShopExperience.tsx.                                       *)
(***************************************************************************)
EXTENDS EventStream

emptyView ==
  [sessionState |-> "CREATED", bondPhase |-> "NONE", reservation |-> "NONE",
   task |-> FALSE, policy |-> FALSE]

Over == {"VIOLATED", "CLOSED"}

\* Intent, policy and payment come before the session is active.
Prepare(v, type) ==
  CASE type = "INTENT_RECEIVED"  -> [v EXCEPT !.task = TRUE]
    [] type = "POLICY_COMPILED"  -> [v EXCEPT !.policy = TRUE, !.sessionState = "POLICY_READY"]
    [] type = "PAYMENT_VERIFIED" -> [v EXCEPT !.sessionState = "PAYMENT_READY"]
    [] type = "SESSION_ACTIVATED" -> [v EXCEPT !.sessionState = "ACTIVE"]

\* slip: the second BOND_OPENED of a sponsored run is taken for the first.
BondOpenedAlways(v) == [v EXCEPT !.bondPhase = "LOCKED", !.sessionState = "BONDED"]

BondOpened(v) ==
  [v EXCEPT !.bondPhase = "LOCKED",
            !.sessionState = IF @ \in Over \cup {"ACTIVE", "EXPIRED"} THEN @ ELSE "BONDED"]

\* A reservation that is not known cannot be released or consumed.
Reservation(v, type) ==
  IF type = "RESERVATION_CREATED" THEN [v EXCEPT !.reservation = "HELD"]
  ELSE [v EXCEPT !.reservation = IF @ = "NONE" THEN @
          ELSE IF type = "RESERVATION_RELEASED" THEN "RELEASED" ELSE "CONSUMED"]

\* slip: the expiry is taken for the beginning of a settlement, even after it.
ReservationExpiredAlways(v) ==
  [v EXCEPT !.reservation = IF @ = "NONE" THEN @ ELSE "EXPIRED",
            !.sessionState = "EXPIRED", !.bondPhase = "SETTLING"]

ReservationExpired(v) ==
  [v EXCEPT !.reservation = IF @ = "NONE" THEN @ ELSE "EXPIRED",
            !.sessionState = "EXPIRED",
            !.bondPhase = IF @ = "RETURNED" THEN @ ELSE "SETTLING"]

\* A penalty comes with what was refunded, so both ways return the bond.
BondReturned(v) == [v EXCEPT !.bondPhase = "RETURNED"]

\* The gateway's own outcomes are CLOSED and EXPIRED.
SessionClosed(v) == [v EXCEPT !.sessionState = "CLOSED"]

\* REQUEST_ALLOWED, REQUEST_DENIED and USAGE_SETTLED change counters and trace.
applyEvent(v, type) ==
  CASE type \in {"INTENT_RECEIVED", "POLICY_COMPILED", "PAYMENT_VERIFIED",
                 "SESSION_ACTIVATED"} -> Prepare(v, type)
    [] type = "BOND_OPENED" -> BondOpened(v)
    [] type \in {"RESERVATION_CREATED", "RESERVATION_RELEASED",
                 "RESERVATION_CONSUMED"} -> Reservation(v, type)
    [] type = "RESERVATION_EXPIRED" -> ReservationExpired(v)
    [] type \in {"PENALTY_SETTLED", "BOND_REFUNDED"} -> BondReturned(v)
    [] type = "SESSION_CLOSED" -> SessionClosed(v)
    [] OTHER -> v

\* replay: the events shown so far, folded in the order they came.
Replayed(s, ts) ==
  LET view[k \in 0..Len(s)] ==
        IF k = 0 THEN emptyView ELSE applyEvent(view[k - 1], ts[s[k]])
  IN view[Len(s)]

View == Replayed(shown, types)

stageFor(v) ==
  IF v.bondPhase = "RETURNED" \/ v.sessionState \in Over THEN 5
  ELSE IF v.sessionState \in {"ACTIVE", "EXPIRED"} THEN 4
  ELSE IF v.policy THEN 3
  ELSE IF v.task THEN 2 ELSE 1

-----------------------------------------------------------------------------
\* What the emitters of a session can say.  The session is created, then bonded
\* and active before the client has its token; a sponsored run only adds a
\* second BOND_OPENED.  Whoever closes the session first says that the bond was
\* refunded or a penalty settled.
Opening == {"INTENT_RECEIVED", "POLICY_COMPILED", "PAYMENT_VERIFIED"}
Starting == {"BOND_OPENED", "SESSION_ACTIVATED"}
Returns == {"PENALTY_SETTLED", "BOND_REFUNDED"}

EndsReturned(s) ==
  \A k \in 1..Len(s) : s[k] = "SESSION_CLOSED" => \E j \in 1..(k - 1) : s[j] \in Returns

ASSUME StoryAssumption ==
  /\ \A i, j \in 1..Len(Before) :
       i < j => /\ Before[j] \in Opening => Before[i] \in Opening
                /\ Before[j] \in Starting => Before[i] \in Opening \cup Starting
  /\ EndsReturned(Before)
  /\ \A s \in Scripts : \A m \in Emitters :
       /\ EndsReturned(s[m])
       /\ \A k \in 1..Len(s[m]) : s[m][k] \notin Opening \cup Starting

Shows(type) == \E n \in Seen : types[n] = type

\* Once everything of a closed session is on the screen, it shows the end and
\* a bond that was returned, in whatever order stream, polls and reconnects
\* brought the events.
EndIsShown ==
  CaughtUp /\ Shows("SESSION_CLOSED") =>
    stageFor(View) = 5 /\ View.bondPhase = "RETURNED"

\* The screen never goes back to an earlier stage: neither the second
\* BOND_OPENED of a sponsored run nor an event that comes late does that.  The
\* one exception is an expiry that comes after the end of the session.
ScreenGoesForward ==
  [][Seen' # Seen =>
       \/ stageFor(View') >= stageFor(View)
       \/ Shows("SESSION_CLOSED")'
            /\ \E n \in Range(shown') \ Seen : types[n] = "RESERVATION_EXPIRED"]_shown
=============================================================================
