---------------------------- MODULE EventStream ----------------------------
(***************************************************************************)
(* How the events of one session reach a screen: the emitters stamp, store *)
(* and publish (emit in apps/gateway/src/app.ts), the events route replays *)
(* the log, catches up and goes live (app.ts and event-stream.ts), and the *)
(* web client reads one stream, polls beside it and reconnects             *)
(* (apps/web/lib/usePlayer.ts).                                            *)
(*                                                                         *)
(* An event is the number of its stamp.  The log is read in the order of   *)
(* stamps, which is the order of numbers: two stamps of the same           *)
(* millisecond are ordered by random ids, here by who stamped first, so a  *)
(* write is taken to last a millisecond.                                   *)
(***************************************************************************)
EXTENDS Naturals, Sequences, Functions

CONSTANTS
  Emitters,    \* the handlers that emit, each one event after the other
  Gateways,    \* the processes that serve streams
  Home,        \* [Emitters -> process]: the worker's is no gateway
  Scripts,     \* the scenarios: [Emitters -> sequence of event types]
  Before,      \* the types of the events stored before the client came
  MaxConnects, \* bound: streams the client opens
  None

VARIABLES
  script,    \* the scenario of this behaviour
  types,     \* the type of each event, in the order of the stamps
  stored,    \* the events in the log
  emitting,  \* what each emitter is about: the event and how far it got
  published, \* the events given to the hub of their process
  conn,      \* the stream the client has open, as the gateway sees it
  read,      \* how many events of the stream the client has read
  connects,  \* the number of streams opened so far
  shown,     \* liveEvents: what the client shows, in the order it came
  last,      \* lastEventId, or 0
  poll,      \* None, or the log as the poll in flight read it
  expired    \* whether the session's token has expired

vars == <<script, types, stored, emitting, published, conn, read, connects,
          shown, last, poll, expired>>

Resting == [event |-> 0, stage |-> "rest", left |-> 0]
Closed == [stage |-> "closed"]
Streaming == conn.stage # "closed"
Subscribed == conn.stage \in {"replayed", "caught", "live"}

\* A set of events in the order of the log.
Sorted(S) ==
  LET upto[n \in 0..Len(types)] ==
        IF n = 0 THEN <<>>
        ELSE IF n \in S THEN Append(upto[n - 1], n) ELSE upto[n - 1]
  IN upto[Len(types)]

EventTypes ==
  {"INTENT_RECEIVED", "POLICY_COMPILED", "PAYMENT_VERIFIED", "BOND_OPENED",
   "SESSION_ACTIVATED", "REQUEST_ALLOWED", "REQUEST_DENIED", "RESERVATION_CREATED",
   "RESERVATION_RELEASED", "RESERVATION_CONSUMED", "RESERVATION_EXPIRED",
   "USAGE_SETTLED", "BOND_REFUNDED", "PENALTY_SETTLED", "SESSION_CLOSED"}

ASSUME StreamAssumption ==
  /\ MaxConnects \in Nat
  /\ Before \in Seq(EventTypes) /\ Before # <<>>
  /\ Scripts \subseteq [Emitters -> Seq(EventTypes)]

Init ==
  /\ script \in Scripts
  /\ types = Before
  /\ stored = 1..Len(Before)
  /\ emitting = [m \in Emitters |-> [Resting EXCEPT !.left = Len(script[m])]]
  /\ published = {}
  /\ conn = Closed
  /\ read = 0
  /\ connects = 0
  /\ shown = <<>>
  /\ last = 0
  /\ poll = None
  /\ expired = FALSE

-----------------------------------------------------------------------------
(* emit: stamp, append to the log, publish to the hub of the process.      *)

Stamp(m) ==
  LET left == emitting[m].left
  IN /\ emitting[m].stage = "rest" /\ left > 0
     /\ types' = Append(types, script[m][Len(script[m]) + 1 - left])
     /\ emitting' = [emitting EXCEPT ![m] =
          [event |-> Len(types'), stage |-> "append", left |-> left - 1]]
     /\ UNCHANGED <<script, stored, published, conn, read, connects, shown, last, poll, expired>>

\* The worker has no hub to publish to.
Store(m) ==
  /\ emitting[m].stage = "append"
  /\ stored' = stored \cup {emitting[m].event}
  /\ emitting' = [emitting EXCEPT ![m].stage =
       IF Home[m] \in Gateways THEN "publish" ELSE "rest"]
  /\ UNCHANGED <<script, types, published, conn, read, connects, shown, last, poll, expired>>

\* write: an event is written to the stream once.
Write(c, S) ==
  [c EXCEPT !.written = @ \o Sorted(S \ c.sent), !.sent = @ \cup S]

\* slip: a live event is written without asking whether it has been sent.
HearAlways(c, n) ==
  IF c.stage = "live" THEN [c EXCEPT !.written = Append(@, n), !.sent = @ \cup {n}]
  ELSE [c EXCEPT !.buffered = @ \cup {n}]

\* The subscriber: buffer while replaying, write when live.
Hear(c, n) ==
  IF c.stage = "live" THEN Write(c, {n}) ELSE [c EXCEPT !.buffered = @ \cup {n}]

Publish(m) ==
  LET n == emitting[m].event
  IN /\ emitting[m].stage = "publish"
     /\ published' = published \cup {[event |-> n, home |-> Home[m]]}
     /\ emitting' = [emitting EXCEPT ![m].stage = "rest"]
     /\ conn' = IF Subscribed /\ conn.home = Home[m] THEN Hear(conn, n) ELSE conn
     /\ UNCHANGED <<script, types, stored, read, connects, shown, last, poll, expired>>

-----------------------------------------------------------------------------
(* GET /v1/sessions/:sessionId/events, as a stream.                        *)

\* The clock reaches session.expiresAt: from now on requireActiveToken answers
\* 401.  Whether a request is let in is taken together with its reading of the
\* log, so one let in just before is taken to have read before the expiry too.
Expire ==
  /\ ~expired
  /\ expired' = TRUE
  /\ UNCHANGED <<script, types, stored, emitting, published, conn, read, connects,
                 shown, last, poll>>

\* eventsAfterLastId: an id that is not in the log replays everything.
EventsAfter(S, id) == {n \in S : id \in S => n > id}

\* The client connects with the id it has, and the log is read once.  Refused
\* with 401 it gives the stream up for good; one that is open goes on.
Connect(g) ==
  /\ ~Streaming /\ connects < MaxConnects
  /\ ~expired
  /\ connects' = connects + 1
  /\ conn' = [stage |-> "listed", home |-> g, after |-> last, sent |-> {},
              list |-> EventsAfter(stored, last), buffered |-> {}, written |-> <<>>]
  /\ read' = 0
  /\ UNCHANGED <<script, types, stored, emitting, published, shown, last, poll, expired>>

\* Subscribe and replay, without an await in between.
Replay ==
  /\ conn.stage = "listed"
  /\ conn' = [Write(conn, conn.list) EXCEPT !.stage = "replayed"]
  /\ UNCHANGED <<script, types, stored, emitting, published, read, connects,
                 shown, last, poll, expired>>

\* slip: the log is not read again.
CatchUpFromFirstList ==
  /\ conn.stage = "replayed"
  /\ conn' = [conn EXCEPT !.stage = "caught"]
  /\ UNCHANGED <<script, types, stored, emitting, published, read, connects,
                 shown, last, poll, expired>>

\* The log is read a second time.
CatchUp ==
  /\ conn.stage = "replayed"
  /\ conn' = [conn EXCEPT !.stage = "caught", !.list = EventsAfter(stored, conn.after)]
  /\ UNCHANGED <<script, types, stored, emitting, published, read, connects,
                 shown, last, poll, expired>>

\* What was missed, then what was buffered meanwhile, then live.
GoLive ==
  /\ conn.stage = "caught"
  /\ conn' = [Write(Write(conn, conn.list), conn.buffered)
                EXCEPT !.stage = "live", !.list = {}, !.buffered = {}]
  /\ UNCHANGED <<script, types, stored, emitting, published, read, connects,
                 shown, last, poll, expired>>

-----------------------------------------------------------------------------
(* usePlayer: one stream and a poll beside it.                             *)

Seen == Range(shown)

\* append, for a batch: an event that is shown already is not shown again.
AddedAll(s, events) ==
  LET seen(k) == Range(s) \cup {events[j] : j \in 1..(k - 1)}
      after[k \in 0..Len(events)] ==
        IF k = 0 THEN s
        ELSE IF events[k] \in seen(k) THEN after[k - 1] ELSE Append(after[k - 1], events[k])
  IN after[Len(events)]

\* The last id moves even for an event that is known already.
Show(events) ==
  /\ shown' = AddedAll(shown, events)
  /\ last' = IF events = <<>> THEN last ELSE events[Len(events)]

\* The client reads what was written.  Bound: all of it, once the stream is
\* live; a stream that breaks earlier has been read up to any event.
Receive ==
  /\ conn.stage = "live"
  /\ read < Len(conn.written)
  /\ read' = Len(conn.written)
  /\ Show(SubSeq(conn.written, read + 1, read'))
  /\ UNCHANGED <<script, types, stored, emitting, published, conn, connects, poll, expired>>

\* The stream breaks somewhere in what is in flight, and the rest is lost.  The
\* last id stays what polls and stream made it.
Break ==
  /\ Streaming
  /\ \E n \in read..Len(conn.written) : Show(SubSeq(conn.written, read + 1, n))
  /\ conn' = Closed
  /\ read' = 0
  /\ UNCHANGED <<script, types, stored, emitting, published, connects, poll, expired>>

\* After a proper end the last id is that of the stream.
Finish ==
  /\ Streaming
  /\ read = Len(conn.written)
  /\ conn' = Closed
  /\ read' = 0
  /\ last' = IF read = 0 THEN conn.after ELSE conn.written[read]
  /\ UNCHANGED <<script, types, stored, emitting, published, connects, shown, poll, expired>>

\* slip: the poll resumes like the stream.
AskAfterLast ==
  /\ poll = None
  /\ ~expired
  /\ poll' = EventsAfter(stored, last)
  /\ UNCHANGED <<script, types, stored, emitting, published, conn, read, connects,
                 shown, last, expired>>

\* Every second the client asks for the whole log, as JSON.  Refused with 401 it
\* does nothing, and asks again.
Ask ==
  /\ poll = None
  /\ ~expired
  /\ poll' = stored
  /\ UNCHANGED <<script, types, stored, emitting, published, conn, read, connects,
                 shown, last, expired>>

Answer ==
  /\ poll # None /\ poll' = None
  /\ Show(Sorted(poll))
  /\ UNCHANGED <<script, types, stored, emitting, published, conn, read, connects, expired>>

LosePoll ==
  /\ poll # None
  /\ poll' = None
  /\ UNCHANGED <<script, types, stored, emitting, published, conn, read, connects,
                 shown, last, expired>>

Next ==
  \/ \E m \in Emitters : Stamp(m) \/ Store(m) \/ Publish(m)
  \/ \E g \in Gateways : Connect(g)
  \/ Replay \/ CatchUp \/ GoLive
  \/ Receive \/ Break \/ Finish \/ Ask \/ Answer \/ LosePoll \/ Expire

\* The browser asks every second for as long as the page is open, and while the
\* token lasts a poll gets through again and again.  Nothing else is assumed: the
\* stream may stay broken, or be served by a process that publishes nothing, and
\* the token may expire at any moment or, in the finite story of a session, not.
Fairness == WF_vars(Ask) /\ SF_vars(Answer)

Spec == Init /\ [][Next]_vars /\ Fairness

-----------------------------------------------------------------------------
\* However replay, catch-up, buffer and live delivery overlap, a stream carries
\* an event once (docs/08-role-a-integration-handoff.md:79).
SentOncePerConnection ==
  Streaming => IsInjective(conn.written)

\* A live stream misses no event of its own process: whatever the hub published
\* has been sent, unless it is stamped before the id the client resumed from.
LiveMissesNothing ==
  conn.stage = "live" =>
    \A p \in published :
      p.home = conn.home /\ p.event > conn.after => p.event \in conn.sent

\* The screen shows nothing that is not in the log: an event that a hub brings has
\* been stored before, so a reload shows it too (app.ts:186-190).
ShowsOnlyStored == Seen \subseteq stored

\* Until the token expires the screen catches up with the log again and again,
\* whichever process emitted the events and whatever became of the stream.
\* Nothing is promised of what is stored later: every poll is refused then.
CaughtUp == stored \subseteq Seen
EveryEventShown == []<>(CaughtUp \/ expired)
=============================================================================
