--------------------------- MODULE LiveViewProofs ---------------------------
(***************************************************************************)
(* For any emitters, gateways, scripts and reconnects: a live stream       *)
(* misses nothing of its process and carries an event once, the screen has *)
(* the events of the creation first, shows the end of what it has, and     *)
(* goes forward only.                                                      *)
(***************************************************************************)
EXTENDS LiveView, InductionLemmas

-----------------------------------------------------------------------------
(* The recursive functions of the model, unfolded.                         *)

LEMMA SortedSteps ==
  ASSUME types \in Seq(EventTypes), NEW T
  PROVE  \E f \in [0..Len(types) -> Seq(Nat)] :
           /\ f[0] = <<>>
           /\ \A k \in 1..Len(types) :
                f[k] = IF k \in T THEN Append(f[k - 1], k) ELSE f[k - 1]
           /\ Sorted(T) = f[Len(types)]
<1>. DEFINE N == Len(types)
            step == [k \in 1..N |-> [s \in Seq(Nat) |-> IF k \in T THEN Append(s, k) ELSE s]]
<1>1. N \in Nat
  OBVIOUS
<1>2. step \in [1..N -> [Seq(Nat) -> Seq(Nat)]]
  BY <1>1
<1>3. PICK f \in [0..N -> Seq(Nat)] : f[0] = <<>> /\ \A k \in 1..N : f[k] = step[k][f[k - 1]]
  <2>1. <<>> \in Seq(Nat)
    OBVIOUS
  <2>. HIDE DEF step, N
  <2>2. \E f \in [0..N -> Seq(Nat)] : Follows(f, N, <<>>, step)
    BY <1>1, <1>2, <2>1, Recursion
  <2>. QED BY <2>2 DEF Follows
<1>4. \A k \in 1..N : f[k] = IF k \in T THEN Append(f[k - 1], k) ELSE f[k - 1]
  <2>. TAKE k \in 1..N
  <2>1. k - 1 \in 0..N
    BY <1>1
  <2>2. f[k - 1] \in Seq(Nat)
    BY <1>3, <2>1
  <2>3. step[k][f[k - 1]] = IF k \in T THEN Append(f[k - 1], k) ELSE f[k - 1]
    BY <2>2
  <2>. QED BY <1>3, <2>3
<1>5. f = [n \in 0..N |-> IF n = 0 THEN <<>>
                          ELSE IF n \in T THEN Append(f[n - 1], n) ELSE f[n - 1]]
  <2>1. \A n \in 0..N : n = 0 \/ n \in 1..N
    BY <1>1
  <2>2. \A n \in 0..N : f[n] = IF n = 0 THEN <<>>
                               ELSE IF n \in T THEN Append(f[n - 1], n) ELSE f[n - 1]
    BY <1>3, <1>4, <2>1
  <2>. HIDE DEF N
  <2>. QED BY <1>3, <2>2
<1>. DEFINE upto[n \in 0..Len(types)] ==
              IF n = 0 THEN <<>>
              ELSE IF n \in T THEN Append(upto[n - 1], n) ELSE upto[n - 1]
<1>6. upto = [n \in 0..N |-> IF n = 0 THEN <<>>
                             ELSE IF n \in T THEN Append(upto[n - 1], n) ELSE upto[n - 1]]
  BY <1>5, Zenon
<1>7. Sorted(T) = upto[N]
  BY Zenon DEF Sorted
<1>. HIDE DEF upto
<1>8. \A n \in 1..N : upto[n - 1] = f[n - 1] => upto[n] = f[n]
  <2>. TAKE n \in 1..N
  <2>1. n \in 0..N /\ n # 0
    BY <1>1
  <2>. QED BY <1>4, <1>6, <2>1
<1>9. upto[N] = f[N]
  <2>1. upto[0] = f[0] /\ N \in 0..N
    BY <1>1, <1>3, <1>6
  <2>. HIDE DEF N
  <2>2. Tracks(upto, f, N)
    BY <1>8, <2>1 DEF Tracks
  <2>. QED BY <1>1, <2>1, <2>2, Agreement
<1>. QED BY <1>3, <1>4, <1>7, <1>9

\* The log in its order: the events of the set, each once, rising.
LEMMA SortedRight ==
  ASSUME types \in Seq(EventTypes), NEW T
  PROVE  LET s == Sorted(T)
         IN /\ s \in Seq(Nat)
            /\ Range(s) = T \cap (1..Len(types))
            /\ \A i, j \in 1..Len(s) : i < j => s[i] < s[j]
<1>1. PICK f \in [0..Len(types) -> Seq(Nat)] :
        /\ f[0] = <<>>
        /\ \A k \in 1..Len(types) : f[k] = IF k \in T THEN Append(f[k - 1], k) ELSE f[k - 1]
        /\ Sorted(T) = f[Len(types)]
  BY SortedSteps
<1>. DEFINE N == Len(types)
            Holds(n) == /\ \A i \in 1..Len(f[n]) : f[n][i] \in T /\ f[n][i] \in 1..n
                        /\ \A x \in 1..n : x \in T => \E i \in 1..Len(f[n]) : f[n][i] = x
                        /\ \A i, j \in 1..Len(f[n]) : i < j => f[n][i] < f[n][j]
            S == {n \in Nat : n <= N => Holds(n)}
<1>2. N \in Nat
  OBVIOUS
<1>3. 0 \in S
  BY <1>1
<1>4. ASSUME NEW n \in Nat, n \in S PROVE n + 1 \in S
  <2>. SUFFICES ASSUME n + 1 <= N PROVE Holds(n + 1)
    OBVIOUS
  <2>1. Holds(n) /\ f[n] \in Seq(Nat) /\ f[n + 1] \in Seq(Nat)
    <3>1. n \in 0..N /\ n + 1 \in 0..N
      BY <1>2
    <3>. QED BY <1>1, <1>4, <3>1
  <2>2. f[n + 1] = IF n + 1 \in T THEN Append(f[n], n + 1) ELSE f[n]
    BY <1>1, <1>2
  <2>3. CASE n + 1 \notin T
    <3>1. f[n + 1] = f[n]
      BY <2>2, <2>3
    <3>. HIDE DEF N
    <3>. QED BY <3>1, <2>1, <2>3
  <2>4. CASE n + 1 \in T
    <3>. DEFINE s == f[n]  t == f[n + 1]
    <3>1. t = Append(s, n + 1) /\ s \in Seq(Nat)
      BY <2>1, <2>2, <2>4
    <3>2. /\ Len(t) = Len(s) + 1 /\ Len(s) \in Nat
          /\ t[Len(t)] = n + 1
          /\ \A i \in 1..Len(s) : t[i] = s[i]
      BY <3>1
    <3>3. Holds(n)
      BY <2>1
    <3>. HIDE DEF s, t, N
    <3>4. \A i \in 1..Len(s) : s[i] \in T /\ s[i] \in 1..n
      BY <3>3 DEF s
    <3>5. \A x \in 1..n : x \in T => \E i \in 1..Len(s) : s[i] = x
      BY <3>3 DEF s
    <3>6. \A i, j \in 1..Len(s) : i < j => s[i] < s[j]
      BY <3>3 DEF s
    <3>7. \A i \in 1..Len(t) : t[i] \in T /\ t[i] \in 1..(n + 1)
      BY <3>2, <3>4, <2>4
    <3>8. \A x \in 1..(n + 1) : x \in T => \E i \in 1..Len(t) : t[i] = x
      <4>. TAKE x \in 1..(n + 1)
      <4>1. CASE x = n + 1
        BY <3>2, <4>1
      <4>2. CASE x # n + 1
        <5>1. x \in 1..n
          BY <4>2
        <5>. QED BY <3>2, <3>5, <5>1
      <4>. QED BY <4>1, <4>2
    <3>9. \A i, j \in 1..Len(t) : i < j => t[i] < t[j]
      <4>. TAKE i, j \in 1..Len(t)
      <4>. HAVE i < j
      <4>1. i \in 1..Len(s)
        BY <3>2
      <4>2. CASE j = Len(t)
        <5>1. t[i] \in 1..n /\ t[j] = n + 1
          BY <3>2, <3>4, <4>1, <4>2
        <5>. QED BY <5>1
      <4>3. CASE j # Len(t)
        <5>1. j \in 1..Len(s)
          <6>1. Len(t) = Len(s) + 1 /\ Len(s) \in Nat
            BY <3>2
          <6>. QED BY <6>1, <4>3
        <5>. QED BY <3>2, <3>6, <4>1, <5>1
      <4>. QED BY <4>2, <4>3
    <3>. QED BY <3>7, <3>8, <3>9 DEF t
  <2>. QED BY <2>3, <2>4
<1>. HIDE DEF Holds
<1>5. N \in S
  BY <1>2, <1>3, <1>4, SetInduction
<1>6. Holds(N)
  BY <1>5
<1>7. Sorted(T) = f[N] /\ Sorted(T) \in Seq(Nat)
  BY <1>1
<1>. DEFINE s == Sorted(T)
<1>8. /\ \A i \in 1..Len(s) : s[i] \in T /\ s[i] \in 1..N
      /\ \A x \in 1..N : x \in T => \E i \in 1..Len(s) : s[i] = x
      /\ \A i, j \in 1..Len(s) : i < j => s[i] < s[j]
  BY <1>6, <1>7 DEF Holds
<1>. HIDE DEF s
<1>9. Range(s) = T \cap (1..Len(types))
  BY <1>7, <1>8 DEF Range, s
<1>. QED BY <1>7, <1>8, <1>9 DEF s

LEMMA RangeAppend ==
  ASSUME NEW V, NEW s \in Seq(V), NEW x
  PROVE  Range(Append(s, x)) = Range(s) \cup {x}
<1>1. /\ DOMAIN s = 1..Len(s) /\ Len(s) \in Nat
      /\ DOMAIN Append(s, x) = 1..(Len(s) + 1)
      /\ \A i \in 1..Len(s) : Append(s, x)[i] = s[i]
      /\ Append(s, x)[Len(s) + 1] = x
  <2>1. s \in Seq(V \cup {x}) /\ x \in V \cup {x}
    OBVIOUS
  <2>. QED BY <2>1
<1>2. Range(Append(s, x)) \subseteq Range(s) \cup {x}
  BY <1>1 DEF Range
<1>3. Range(s) \subseteq Range(Append(s, x))
  <2>. SUFFICES ASSUME NEW y \in Range(s) PROVE y \in Range(Append(s, x))
    OBVIOUS
  <2>1. PICK i \in 1..Len(s) : y = s[i]
    BY <1>1 DEF Range
  <2>2. i \in DOMAIN Append(s, x) /\ Append(s, x)[i] = y
    BY <1>1, <2>1
  <2>. QED BY <2>2 DEF Range
<1>4. x \in Range(Append(s, x))
  <2>1. Len(s) + 1 \in DOMAIN Append(s, x)
    BY <1>1
  <2>. QED BY <1>1, <2>1 DEF Range
<1>. QED BY <1>2, <1>3, <1>4

\* append of the web client, for one event.
Added(s, n) == IF n \in Range(s) THEN s ELSE Append(s, n)

LEMMA RangeAdded ==
  ASSUME NEW s \in Seq(Nat), NEW n \in Nat
  PROVE  Added(s, n) \in Seq(Nat) /\ Range(Added(s, n)) = Range(s) \cup {n}
BY RangeAppend DEF Added

\* A batch is shown one event after the other.
LEMMA BatchSteps ==
  ASSUME NEW s \in Seq(Nat), NEW events \in Seq(Nat)
  PROVE  \E f \in [0..Len(events) -> Seq(Nat)] :
           /\ f[0] = s
           /\ \A k \in 1..Len(events) : f[k] = Added(f[k - 1], events[k])
           /\ AddedAll(s, events) = f[Len(events)]
<1>. DEFINE N == Len(events)
            seen(k) == Range(s) \cup {events[j] : j \in 1..(k - 1)}
            step == [k \in 1..N |-> [t \in Seq(Nat) |->
                       IF events[k] \in seen(k) THEN t ELSE Append(t, events[k])]]
<1>1. N \in Nat /\ \A k \in 1..N : events[k] \in Nat
  OBVIOUS
<1>2. step \in [1..N -> [Seq(Nat) -> Seq(Nat)]]
  BY <1>1
<1>3. PICK f \in [0..N -> Seq(Nat)] : Follows(f, N, s, step)
  <2>. HIDE DEF step, N
  <2>. QED BY <1>1, <1>2, Recursion
<1>4. \A k \in 1..N : f[k] = IF events[k] \in seen(k) THEN f[k - 1]
                             ELSE Append(f[k - 1], events[k])
  <2>. TAKE k \in 1..N
  <2>1. k - 1 \in 0..N
    BY <1>1
  <2>2. f[k - 1] \in Seq(Nat)
    BY <1>3, <2>1
  <2>. HIDE DEF seen
  <2>3. step[k][f[k - 1]] = IF events[k] \in seen(k) THEN f[k - 1]
                            ELSE Append(f[k - 1], events[k])
    BY <2>2
  <2>. QED BY <1>3, <2>3 DEF Follows
<1>5. f[0] = s
  BY <1>3 DEF Follows
<1>6. AddedAll(s, events) = f[N]
  <2>. DEFINE After(g, k) == IF k = 0 THEN s
                             ELSE IF events[k] \in seen(k) THEN g[k - 1]
                             ELSE Append(g[k - 1], events[k])
  <2>1. f = [k \in 0..N |-> After(f, k)]
    <3>. HIDE DEF seen
    <3>1. \A k \in 0..N : k = 0 \/ k \in 1..N
      BY <1>1
    <3>2. \A k \in 0..N : f[k] = After(f, k)
      BY <1>4, <1>5, <3>1
    <3>. HIDE DEF N, After
    <3>. QED BY <1>3, <3>2
  <2>. DEFINE after[k \in 0..Len(events)] ==
                IF k = 0 THEN s
                ELSE IF events[k] \in seen(k) THEN after[k - 1]
                ELSE Append(after[k - 1], events[k])
  <2>2. after = [k \in 0..N |-> After(after, k)]
    BY <2>1, Zenon
  <2>3. AddedAll(s, events) = after[N]
    BY Zenon DEF AddedAll
  <2>. HIDE DEF after, seen
  <2>4. \A k \in 1..N : f[k - 1] = after[k - 1] => f[k] = after[k]
    <3>. TAKE k \in 1..N
    <3>1. k \in 0..N /\ k # 0
      BY <1>1
    <3>. QED BY <1>4, <2>2, <3>1
  <2>5. f[0] = after[0] /\ N \in 0..N
    BY <1>1, <1>5, <2>2
  <2>6. \A k \in 0..N : f[k] = after[k]
    <3>. HIDE DEF N, After
    <3>1. Tracks(f, after, N)
      BY <2>4, <2>5 DEF Tracks
    <3>. QED BY <1>1, <3>1, Agreement
  <2>. QED BY <2>3, <2>5, <2>6
<1>7. \A k \in 0..N : Range(f[k]) = Range(s) \cup {events[j] : j \in 1..k}
  <2>. DEFINE R == [k \in 0..N |-> Range(f[k])]
              Q == [k \in 0..N |-> Range(s) \cup {events[j] : j \in 1..k}]
  <2>1. R[0] = Q[0] /\ 0 \in 0..N
    BY <1>1, <1>5
  <2>2. \A k \in 1..N : R[k - 1] = Q[k - 1] => R[k] = Q[k]
    <3>. TAKE k \in 1..N
    <3>. HAVE R[k - 1] = Q[k - 1]
    <3>1. k \in 0..N /\ k - 1 \in 0..N /\ f[k - 1] \in Seq(Nat) /\ events[k] \in Nat
      BY <1>1, <1>3
    <3>2. Range(f[k - 1]) = seen(k)
      BY <3>1
    <3>3. Range(f[k]) = Range(f[k - 1]) \cup {events[k]}
      BY <1>4, <3>1, <3>2, RangeAppend
    <3>4. 1..k = 1..(k - 1) \cup {k}
      BY <3>1
    <3>5. Q[k] = seen(k) \cup {events[k]}
      BY <3>1, <3>4
    <3>. QED BY <3>1, <3>2, <3>3, <3>5
  <2>. HIDE DEF R, Q, N
  <2>3. \A k \in 0..N : R[k] = Q[k]
    <3>1. Tracks(R, Q, N)
      BY <2>1, <2>2 DEF Tracks
    <3>. QED BY <1>1, <3>1, Agreement
  <2>. QED BY <2>3 DEF R, Q
<1>8. \A k \in 1..N : f[k] = Added(f[k - 1], events[k])
  <2>. TAKE k \in 1..N
  <2>1. k - 1 \in 0..N
    BY <1>1
  <2>2. Range(f[k - 1]) = seen(k)
    BY <1>7, <2>1
  <2>. QED BY <1>4, <2>2 DEF Added
<1>. QED BY <1>3, <1>5, <1>6, <1>8

Views ==
  [sessionState : {"CREATED", "POLICY_READY", "PAYMENT_READY", "BONDED", "ACTIVE",
                   "CLOSED", "EXPIRED"},
   bondPhase : {"NONE", "LOCKED", "SETTLING", "RETURNED"},
   reservation : {"NONE", "HELD", "RELEASED", "CONSUMED", "EXPIRED"},
   task : BOOLEAN, policy : BOOLEAN]

LEMMA ApplyEventType ==
  ASSUME NEW v \in Views, NEW type
  PROVE  applyEvent(v, type) \in Views
BY DEF Views, applyEvent, Prepare, BondOpened, Reservation, ReservationExpired,
       BondReturned, SessionClosed

\* The view of a log is built one event after the other.
LEMMA ReplaySteps ==
  ASSUME NEW s \in Seq(Nat), NEW ts
  PROVE  \E f \in [0..Len(s) -> Views] :
           /\ f[0] = emptyView
           /\ \A k \in 1..Len(s) : f[k] = applyEvent(f[k - 1], ts[s[k]])
           /\ Replayed(s, ts) = f[Len(s)]
<1>. DEFINE N == Len(s)
            step == [k \in 1..N |-> [v \in Views |-> applyEvent(v, ts[s[k]])]]
<1>1. N \in Nat
  OBVIOUS
<1>2. step \in [1..N -> [Views -> Views]]
  BY ApplyEventType
<1>3. emptyView \in Views
  BY DEF emptyView, Views
<1>4. PICK f \in [0..N -> Views] : Follows(f, N, emptyView, step)
  <2>. HIDE DEF step, N
  <2>. QED BY <1>1, <1>2, <1>3, Recursion
<1>5. \A k \in 1..N : f[k] = applyEvent(f[k - 1], ts[s[k]])
  <2>. TAKE k \in 1..N
  <2>1. k - 1 \in 0..N
    BY <1>1
  <2>2. step[k][f[k - 1]] = applyEvent(f[k - 1], ts[s[k]])
    BY <1>4, <2>1
  <2>. QED BY <1>4, <2>2 DEF Follows
<1>6. f[0] = emptyView
  BY <1>4 DEF Follows
<1>. DEFINE Then(g, k) == IF k = 0 THEN emptyView ELSE applyEvent(g[k - 1], ts[s[k]])
<1>7. f = [k \in 0..N |-> Then(f, k)]
  <2>1. \A k \in 0..N : k = 0 \/ k \in 1..N
    BY <1>1
  <2>2. \A k \in 0..N : f[k] = Then(f, k)
    BY <1>5, <1>6, <2>1
  <2>. HIDE DEF N, Then
  <2>. QED BY <1>4, <2>2
<1>. DEFINE view[k \in 0..Len(s)] ==
              IF k = 0 THEN emptyView ELSE applyEvent(view[k - 1], ts[s[k]])
<1>8. view = [k \in 0..N |-> Then(view, k)]
  BY <1>7, Zenon
<1>9. Replayed(s, ts) = view[N]
  BY Zenon DEF Replayed
<1>. HIDE DEF view
<1>10. \A k \in 1..N : f[k - 1] = view[k - 1] => f[k] = view[k]
  <2>. TAKE k \in 1..N
  <2>1. k \in 0..N /\ k # 0
    BY <1>1
  <2>. QED BY <1>5, <1>8, <2>1
<1>11. f[0] = view[0] /\ N \in 0..N
  BY <1>1, <1>6, <1>8
<1>12. \A k \in 0..N : f[k] = view[k]
  <2>1. Tracks(f, view, N)
    BY <1>10, <1>11 DEF Tracks
  <2>. HIDE DEF N
  <2>. QED BY <1>1, <2>1, Agreement
<1>. QED BY <1>4, <1>5, <1>6, <1>9, <1>11, <1>12

LEMMA ReplayedType ==
  ASSUME NEW s \in Seq(Nat), NEW ts
  PROVE  Replayed(s, ts) \in Views
<1>1. PICK f \in [0..Len(s) -> Views] : Replayed(s, ts) = f[Len(s)]
  BY ReplaySteps
<1>. QED BY <1>1

\* Two logs that begin alike have the same view up to there.
Alike(s, ts, r, us) == Len(s) <= Len(r) /\ \A k \in 1..Len(s) : ts[s[k]] = us[r[k]]
Builds(f, r, us) ==
  f[0] = emptyView /\ \A k \in 1..Len(r) : f[k] = applyEvent(f[k - 1], us[r[k]])

LEMMA ReplayedAlike ==
  ASSUME NEW s \in Seq(Nat), NEW r \in Seq(Nat), NEW ts, NEW us,
         Alike(s, ts, r, us), NEW f \in [0..Len(r) -> Views], Builds(f, r, us)
  PROVE  Replayed(s, ts) = f[Len(s)]
<1>1. PICK g \in [0..Len(s) -> Views] :
        /\ g[0] = emptyView
        /\ \A k \in 1..Len(s) : g[k] = applyEvent(g[k - 1], ts[s[k]])
        /\ Replayed(s, ts) = g[Len(s)]
  BY ReplaySteps
<1>. USE DEF Alike, Builds
<1>. DEFINE N == Len(s)
<1>2. N \in Nat /\ N \in 0..N
  OBVIOUS
<1>3. Tracks(g, f, N)
  <2>. SUFFICES ASSUME NEW k \in 1..N, g[k - 1] = f[k - 1] PROVE g[k] = f[k]
    BY <1>1 DEF Tracks
  <2>1. k \in 1..Len(r)
    OBVIOUS
  <2>2. ts[s[k]] = us[r[k]]
    OBVIOUS
  <2>3. g[k] = applyEvent(g[k - 1], ts[s[k]])
    BY <1>1
  <2>4. f[k] = applyEvent(f[k - 1], us[r[k]])
    BY <2>1
  <2>. QED BY <2>2, <2>3, <2>4
<1>4. \A k \in 0..N : g[k] = f[k]
  <2>. HIDE DEF N
  <2>. QED BY ONLY <1>2, <1>3, Agreement
<1>. QED BY <1>1, <1>2, <1>4

\* What is shown next is applied to what is on the screen.
LEMMA ReplayedAppend ==
  ASSUME NEW s \in Seq(Nat), NEW n \in Nat, NEW ts
  PROVE  Replayed(Append(s, n), ts) = applyEvent(Replayed(s, ts), ts[n])
<1>. DEFINE r == Append(s, n)
<1>1. /\ r \in Seq(Nat) /\ Len(r) = Len(s) + 1 /\ Len(s) \in Nat
      /\ r[Len(r)] = n /\ \A k \in 1..Len(s) : r[k] = s[k]
  OBVIOUS
<1>. HIDE DEF r
<1>2. PICK f \in [0..Len(r) -> Views] :
        /\ f[0] = emptyView
        /\ \A k \in 1..Len(r) : f[k] = applyEvent(f[k - 1], ts[r[k]])
        /\ Replayed(r, ts) = f[Len(r)]
  BY <1>1, ReplaySteps
<1>3. Replayed(s, ts) = f[Len(s)]
  <2>1. Alike(s, ts, r, ts) /\ Builds(f, r, ts)
    BY <1>1, <1>2 DEF Alike, Builds
  <2>. QED BY <1>1, <2>1, ReplayedAlike
<1>4. Len(r) \in 1..Len(r) /\ Len(r) - 1 = Len(s)
  BY <1>1
<1>5. f[Len(r)] = applyEvent(f[Len(s)], ts[n])
  BY <1>1, <1>2, <1>4
<1>. QED BY <1>2, <1>3, <1>5 DEF r

\* A stamp changes nothing of what is on the screen.
LEMMA ReplayedSame ==
  ASSUME NEW s \in Seq(Nat), NEW ts, NEW us,
         \A k \in 1..Len(s) : ts[s[k]] = us[s[k]]
  PROVE  Replayed(s, ts) = Replayed(s, us)
<1>. DEFINE r == s
<1>1. /\ r \in Seq(Nat) /\ Len(s) <= Len(r) /\ Len(s) = Len(r)
      /\ \A k \in 1..Len(s) : ts[s[k]] = us[r[k]]
  OBVIOUS
<1>. HIDE DEF r
<1>2. PICK f \in [0..Len(r) -> Views] :
        /\ f[0] = emptyView
        /\ \A k \in 1..Len(r) : f[k] = applyEvent(f[k - 1], us[r[k]])
        /\ Replayed(r, us) = f[Len(r)]
  BY <1>1, ReplaySteps
<1>3. Replayed(s, ts) = f[Len(s)]
  <2>1. Alike(s, ts, r, us) /\ Builds(f, r, us)
    BY <1>1, <1>2 DEF Alike, Builds
  <2>. QED BY <1>1, <2>1, ReplayedAlike
<1>. QED BY <1>1, <1>2, <1>3 DEF r

LEMMA ReplayedNothing == \A ts : Replayed(<<>>, ts) = emptyView
<1>. TAKE ts
<1>1. <<>> \in Seq(Nat) /\ Len(<<>>) = 0
  OBVIOUS
<1>. QED BY <1>1, ReplaySteps

-----------------------------------------------------------------------------
Stream(c) ==
  [stage |-> c.stage, home |-> c.home, after |-> c.after, sent |-> c.sent,
   list |-> c.list, buffered |-> c.buffered, written |-> c.written]

\* An emitter and a stream have their fields, and an event is stored before it
\* is published.
Shape ==
  /\ emitting = [m \in Emitters |-> [event |-> emitting[m].event,
                                     stage |-> emitting[m].stage,
                                     left |-> emitting[m].left]]
  /\ conn = Closed \/ (conn = Stream(conn) /\ Streaming)
StoredFirst ==
  /\ \A m \in Emitters : emitting[m].stage = "publish" => emitting[m].event \in stored
  /\ \A p \in published : p.event \in stored

\* What the hub published is sent, or will be when the stream goes live.
NothingMissed ==
  conn.stage \in {"caught", "live"} =>
    \A p \in published :
      p.home = conn.home /\ p.event > conn.after =>
        p.event \in conn.sent \cup (IF conn.stage = "live" THEN {}
                                    ELSE conn.list \cup conn.buffered)

IInv == Shape /\ StoredFirst /\ NothingMissed

LEMMA InitInv == Init => IInv
BY DEF Init, IInv, Shape, StoredFirst, NothingMissed, Closed, Resting

\* The emitters: storing and publishing.
LEMMA EmitInv ==
  ASSUME IInv, NEW m \in Emitters, Stamp(m) \/ Store(m) \/ Publish(m)
  PROVE  IInv'
<1>. USE DEF IInv, Shape, StoredFirst, NothingMissed, Closed, Streaming
<1>1. CASE Stamp(m)
  <2>1. UNCHANGED <<stored, published, conn>>
    BY <1>1 DEF Stamp
  <2>2. /\ \E e : emitting' = [emitting EXCEPT ![m] = [event |-> e, stage |-> "append",
                                                     left |-> emitting[m].left - 1]]
        /\ emitting'[m].stage = "append"
    BY <1>1 DEF Stamp
  <2>3. Shape'
    BY <2>1, <2>2
  <2>4. StoredFirst'
    BY <2>1, <2>2
  <2>5. NothingMissed'
    BY <2>1
  <2>. QED BY <2>3, <2>4, <2>5
<1>2. CASE Store(m)
  <2>1. UNCHANGED <<published, conn>>
    BY <1>2 DEF Store
  <2>2. /\ stored' = stored \cup {emitting[m].event}
        /\ \E st : emitting' = [emitting EXCEPT ![m].stage = st]
    BY <1>2 DEF Store
  <2>3. Shape'
    BY <2>1, <2>2
  <2>4. StoredFirst'
    BY <2>1, <2>2
  <2>5. NothingMissed'
    BY <2>1
  <2>. QED BY <2>3, <2>4, <2>5
<1>3. CASE Publish(m)
  <2>. DEFINE n == emitting[m].event
  <2>0. /\ emitting' = [m2 \in Emitters |-> [event |-> emitting'[m2].event,
                                             stage |-> emitting'[m2].stage,
                                             left |-> emitting'[m2].left]]
        /\ conn' = IF Subscribed /\ conn.home = Home[m] THEN Hear(conn, n) ELSE conn
    <3>1. /\ emitting' = [emitting EXCEPT ![m].stage = "rest"]
          /\ conn' = IF Subscribed /\ conn.home = Home[m] THEN Hear(conn, n) ELSE conn
      BY <1>3 DEF Publish
    <3>. QED BY <3>1
  <2>1. Shape'
    <3>1. CASE Subscribed /\ conn.home = Home[m]
      <4>1. conn = Stream(conn) /\ conn' = Hear(conn, n)
        BY <2>0, <3>1 DEF Subscribed
      <4>2. conn' = Stream(conn') /\ conn'.stage = conn.stage
        BY <4>1 DEF Hear, Write, Stream
      <4>. QED BY <2>0, <4>2, <3>1 DEF Subscribed
    <3>2. CASE ~(Subscribed /\ conn.home = Home[m])
      BY <2>0, <3>2 DEF Stream
    <3>. QED BY <3>1, <3>2
  <2>2. StoredFirst'
    BY <1>3 DEF Publish
  <2>3. CASE ~(Subscribed /\ conn.home = Home[m])
    <3>1. conn' = conn /\ (conn.stage \in {"caught", "live"} => conn.home # Home[m])
      BY <2>0, <2>3 DEF Subscribed
    <3>2. published' = published \cup {[event |-> n, home |-> Home[m]]}
      BY <1>3 DEF Publish
    <3>3. NothingMissed'
      BY <3>1, <3>2
    <3>. QED BY <2>1, <2>2, <3>3
  <2>4. CASE Subscribed /\ conn.home = Home[m]
    <3>1. conn' = Hear(conn, n) /\ conn = Stream(conn)
      BY <1>3, <2>4 DEF Publish, Subscribed
    <3>2. conn'.stage = conn.stage /\ conn'.home = conn.home /\ conn'.after = conn.after
            /\ conn'.list = conn.list
      BY <3>1 DEF Hear, Write, Stream
    <3>3. conn.stage = "live" => conn'.sent = conn.sent \cup {n}
      <4>1. conn.stage = "live" => conn' = Write(conn, {n})
        BY <3>1 DEF Hear
      <4>. QED BY <3>1, <4>1 DEF Write, Stream
    <3>4. conn.stage # "live" => conn'.sent = conn.sent /\ conn'.buffered = conn.buffered \cup {n}
      BY <3>1 DEF Hear, Write, Stream
    <3>5. published' = published \cup {[event |-> n, home |-> Home[m]]}
      BY <1>3 DEF Publish
    <3>. QED BY <3>2, <3>3, <3>4, <3>5, <2>1, <2>2
  <2>. QED BY <2>1, <2>2, <2>3, <2>4
<1>. QED BY <1>1, <1>2, <1>3

\* The stream: listing, replaying, catching up, going live.
LEMMA StreamInv ==
  ASSUME IInv, Replay \/ CatchUp \/ GoLive \/ \E g \in Gateways : Connect(g)
  PROVE  IInv'
<1>. USE DEF IInv, Shape, StoredFirst, NothingMissed, Closed, Streaming
<1>1. ASSUME NEW g \in Gateways, Connect(g) PROVE IInv'
  BY <1>1 DEF Connect, Stream
<1>2. CASE Replay
  <2>1. conn = Stream(conn) /\ conn' = [Write(conn, conn.list) EXCEPT !.stage = "replayed"]
    BY <1>2 DEF Replay
  <2>2. conn' = Stream(conn') /\ conn'.stage = "replayed"
    BY <2>1 DEF Write, Stream
  <2>. QED BY <1>2, <2>2 DEF Replay
<1>3. CASE CatchUp
  <2>1. conn = Stream(conn)
    BY <1>3 DEF CatchUp
  <2>2. conn' = Stream(conn') /\ conn'.stage = "caught" /\ conn'.home = conn.home
          /\ conn'.after = conn.after /\ conn'.list = EventsAfter(stored, conn.after)
    BY <1>3, <2>1 DEF CatchUp, Stream
  <2>3. \A p \in published : p.event > conn.after => p.event \in conn'.list
    BY <2>2 DEF EventsAfter
  <2>. QED BY <1>3, <2>2, <2>3 DEF CatchUp
<1>4. CASE GoLive
  <2>1. conn = Stream(conn) /\ conn.stage = "caught"
    BY <1>4 DEF GoLive
  <2>2. conn' = Stream(conn') /\ conn'.stage = "live" /\ conn'.home = conn.home
          /\ conn'.after = conn.after
          /\ conn'.sent = conn.sent \cup conn.list \cup conn.buffered
    BY <1>4, <2>1 DEF GoLive, Write, Stream
  <2>. QED BY <1>4, <2>1, <2>2 DEF GoLive
<1>. QED BY <1>1, <1>2, <1>3, <1>4

\* The client only closes the stream.
LEMMA ClientInv ==
  ASSUME IInv, Receive \/ Break \/ Finish \/ Ask \/ Answer \/ LosePoll \/ Expire \/ UNCHANGED vars
  PROVE  IInv'
<1>. USE DEF IInv, Shape, StoredFirst, NothingMissed, Closed, Streaming
<1>1. CASE Receive \/ Ask \/ Answer \/ LosePoll \/ Expire \/ UNCHANGED vars
  BY <1>1 DEF Receive, Ask, Answer, LosePoll, Expire, vars, Stream
<1>2. CASE Break \/ Finish
  BY <1>2 DEF Break, Finish
<1>. QED BY <1>1, <1>2

\* The gateway sends what its hub published, for any number of emitters and
\* streams: replay, catch-up, buffer and live delivery leave no gap.
THEOREM NothingIsMissed == Spec => []LiveMissesNothing
<1>1. IInv /\ [Next]_vars => IInv'
  BY EmitInv, StreamInv, ClientInv DEF Next
<1>2. IInv => LiveMissesNothing
  BY DEF IInv, NothingMissed, LiveMissesNothing
<1>. QED BY InitInv, <1>1, <1>2, PTL DEF Spec

-----------------------------------------------------------------------------
(* The order of what is on the screen: the events from before the client   *)
(* come first and in their order, whatever stream, polls and reconnects do *)
(* with the later ones.                                                    *)

B == Len(Before)

\* What must be on the screen before n: the event before it, as far as those
\* that were stored before the client came.
Pred(n) == IF n <= B THEN n - 1 ELSE B

\* A batch in an order in which the screen can take it, over what it has.
InOrder(R, events) ==
  \A k \in 1..Len(events) :
    \/ Pred(events[k]) \in R \cup {0}
    \/ \E j \in 1..(k - 1) : events[j] = Pred(events[k])

BeforeFirst(s) ==
  \A i \in 1..Len(s) : (i <= B => s[i] = i) /\ (i > B => s[i] > B)

\* A stream has written what it sent, each event once, and in an order for a
\* screen that has what was before the id the client resumed from.
OnceInOrder(c) ==
  /\ c.written \in Seq(Nat) /\ IsInjective(c.written)
  /\ Range(c.written) = c.sent
  /\ \A k \in 1..Len(c.written) :
       \/ Pred(c.written[k]) <= c.after
       \/ \E j \in 1..(k - 1) : c.written[j] = Pred(c.written[k])

\* The events and what has become of them.
EventsKnown ==
  /\ script \in Scripts
  /\ types \in Seq(EventTypes) /\ B <= Len(types)
  /\ 1..B \subseteq stored /\ stored \subseteq 1..Len(types)
  /\ \A m \in Emitters :
       /\ emitting[m].left \in 0..Len(script[m])
       /\ emitting[m].stage # "rest" => emitting[m].event \in 1..Len(types)
  /\ poll # None => 1..B \subseteq poll /\ poll \subseteq 1..Len(types)

\* A stream that goes out carries all that came before the client.
Written ==
  Streaming =>
    /\ OnceInOrder(conn)
    /\ conn.list \cup conn.buffered \cup conn.sent \subseteq 1..Len(types)
    /\ conn.after \in Seen \cup {0}
    /\ read \in 0..Len(conn.written)
    /\ \A k \in 1..read : conn.written[k] \in Seen
    /\ \A n \in 1..B :
         n > conn.after =>
           n \in conn.sent \/ (conn.stage = "listed" /\ n \in conn.list)

OnScreen ==
  /\ shown \in Seq(Nat) /\ BeforeFirst(shown)
  /\ Seen \subseteq 1..Len(types)
  /\ last \in Seen \cup {0}

\* What was told before the client came stays, and no session starts later.
Story ==
  /\ \A n \in 1..B : types[n] = Before[n]
  /\ \A n \in (B + 1)..Len(types) : types[n] \notin Opening \cup Starting

\* Whoever closes the session has stored that the bond was returned.
ReturnStored == \E r \in stored : types[r] \in Returns
ClosedAfterReturn ==
  /\ \A m \in Emitters : \A j \in 1..(Len(script[m]) - emitting[m].left) :
       script[m][j] \in Returns =>
         ReturnStored \/ (emitting[m].stage = "append" /\ types[emitting[m].event] \in Returns)
  /\ \A n \in 1..Len(types) : types[n] = "SESSION_CLOSED" => ReturnStored

SInv == IInv /\ EventsKnown /\ Written /\ OnScreen /\ Story /\ ClosedAfterReturn

LEMMA Concatenation ==
  ASSUME NEW s \in Seq(Nat), NEW t \in Seq(Nat), IsInjective(s), IsInjective(t),
         Range(s) \cap Range(t) = {}
  PROVE  /\ s \o t \in Seq(Nat) /\ IsInjective(s \o t)
         /\ Range(s \o t) = Range(s) \cup Range(t)
<1>. DEFINE u == s \o t
<1>1. /\ u \in Seq(Nat) /\ Len(u) = Len(s) + Len(t) /\ Len(s) \in Nat /\ Len(t) \in Nat
      /\ DOMAIN s = 1..Len(s) /\ DOMAIN t = 1..Len(t) /\ DOMAIN u = 1..Len(u)
      /\ \A i \in 1..Len(s) : u[i] = s[i]
      /\ \A i \in 1..Len(t) : u[Len(s) + i] = t[i]
  OBVIOUS
<1>. HIDE DEF u
<1>2. \A i \in 1..Len(u) : \/ i \in 1..Len(s) /\ u[i] = s[i]
                           \/ i - Len(s) \in 1..Len(t) /\ u[i] = t[i - Len(s)]
  <2>. SUFFICES ASSUME NEW i \in 1..Len(u), i \notin 1..Len(s)
                PROVE  i - Len(s) \in 1..Len(t) /\ u[i] = t[i - Len(s)]
    BY <1>1
  <2>1. i - Len(s) \in 1..Len(t) /\ Len(s) + (i - Len(s)) = i
    BY <1>1
  <2>. QED BY <1>1, <2>1
<1>3. Range(u) = Range(s) \cup Range(t)
  <2>1. Range(u) \subseteq Range(s) \cup Range(t)
    BY <1>1, <1>2 DEF Range
  <2>2. Range(s) \subseteq Range(u)
    <3>1. \A i \in 1..Len(s) : i \in 1..Len(u)
      BY <1>1
    <3>. QED BY <1>1, <3>1 DEF Range
  <2>3. Range(t) \subseteq Range(u)
    <3>1. \A i \in 1..Len(t) : Len(s) + i \in DOMAIN u /\ u[Len(s) + i] = t[i]
      BY <1>1
    <3>2. DOMAIN t = 1..Len(t)
      OBVIOUS
    <3>. QED BY <3>1, <3>2 DEF Range
  <2>. QED BY <2>1, <2>2, <2>3
<1>4. IsInjective(u)
  <2>. SUFFICES ASSUME NEW i \in 1..Len(u), NEW j \in 1..Len(u), u[i] = u[j] PROVE i = j
    BY <1>1 DEF IsInjective
  <2>1. ASSUME NEW a \in 1..Len(s), NEW b \in 1..Len(t) PROVE s[a] # t[b]
    BY <1>1 DEF Range
  <2>2. CASE i \in 1..Len(s) /\ j \in 1..Len(s)
    BY <1>1, <2>2 DEF IsInjective
  <2>3. CASE i \in 1..Len(s) /\ j \notin 1..Len(s)
    BY <1>1, <1>2, <2>1, <2>3
  <2>4. CASE i \notin 1..Len(s) /\ j \in 1..Len(s)
    BY <1>1, <1>2, <2>1, <2>4
  <2>5. CASE i \notin 1..Len(s) /\ j \notin 1..Len(s)
    <3>1. /\ i - Len(s) \in 1..Len(t) /\ u[i] = t[i - Len(s)]
          /\ j - Len(s) \in 1..Len(t) /\ u[j] = t[j - Len(s)]
      BY <1>2, <2>5
    <3>2. i - Len(s) = j - Len(s)
      BY <1>1, <3>1 DEF IsInjective
    <3>. QED BY <1>1, <3>2
  <2>. QED BY <2>2, <2>3, <2>4, <2>5
<1>. QED BY <1>1, <1>3, <1>4 DEF u

\* Writing what has not been sent keeps a stream as it should be.
LEMMA WriteRight ==
  ASSUME types \in Seq(EventTypes), NEW c, c = Stream(c), c.after \in Nat, OnceInOrder(c),
         NEW S \in SUBSET (1..Len(types)),
         \A x \in S : Pred(x) <= c.after \/ Pred(x) \in c.sent \cup S
  PROVE  LET w == Write(c, S)
         IN /\ w = Stream(w) /\ w.stage = c.stage /\ w.home = c.home /\ w.after = c.after
            /\ w.list = c.list /\ w.buffered = c.buffered /\ w.sent = c.sent \cup S
            /\ OnceInOrder(w)
            /\ Len(c.written) <= Len(w.written)
            /\ \A k \in 1..Len(c.written) : w.written[k] = c.written[k]
<1>. DEFINE w == Write(c, S)
            s == c.written
            t == Sorted(S \ c.sent)
<1>1. /\ w = Stream(w) /\ w.stage = c.stage /\ w.home = c.home /\ w.after = c.after
      /\ w.list = c.list /\ w.buffered = c.buffered /\ w.sent = c.sent \cup S
      /\ w.written = s \o t
  <2>1. w = [c EXCEPT !.written = @ \o t, !.sent = @ \cup S]
    BY DEF Write
  <2>. HIDE DEF t, w
  <2>2. w = [Stream(c) EXCEPT !.written = @ \o t, !.sent = @ \cup S]
    BY <2>1
  <2>. QED BY <2>2 DEF Stream
<1>2. /\ t \in Seq(Nat) /\ Range(t) = S \ c.sent
      /\ \A i, j \in 1..Len(t) : i < j => t[i] < t[j]
  <2>1. (S \ c.sent) \cap (1..Len(types)) = S \ c.sent
    OBVIOUS
  <2>. QED BY <2>1, SortedRight
<1>3. s \in Seq(Nat) /\ IsInjective(s) /\ Range(s) = c.sent
  BY DEF OnceInOrder
<1>4. /\ \A k \in 1..Len(s) : \/ Pred(s[k]) <= c.after
                              \/ \E j \in 1..(k - 1) : s[j] = Pred(s[k])
  BY DEF OnceInOrder
<1>. HIDE DEF w, s, t
<1>5. /\ Len(s) \in Nat /\ Len(t) \in Nat /\ DOMAIN s = 1..Len(s) /\ DOMAIN t = 1..Len(t)
      /\ \A i \in 1..Len(s) : s[i] \in Nat
      /\ \A i \in 1..Len(t) : t[i] \in Nat
      /\ Len(s \o t) = Len(s) + Len(t)
      /\ \A i \in 1..Len(s) : (s \o t)[i] = s[i]
      /\ \A i \in 1..Len(t) : (s \o t)[Len(s) + i] = t[i]
  BY <1>2, <1>3
<1>6. IsInjective(t)
  <2>. SUFFICES ASSUME NEW i \in 1..Len(t), NEW j \in 1..Len(t), t[i] = t[j], i < j
                PROVE  FALSE
    BY <1>5 DEF IsInjective
  <2>. QED BY <1>2, <1>5
<1>7. s \o t \in Seq(Nat) /\ IsInjective(s \o t) /\ Range(s \o t) = c.sent \cup S
  BY <1>2, <1>3, <1>6, Concatenation
<1>8. ASSUME NEW k \in 1..Len(s \o t)
      PROVE  \/ Pred((s \o t)[k]) <= c.after
             \/ \E j \in 1..(k - 1) : (s \o t)[j] = Pred((s \o t)[k])
  <2>1. CASE k \in 1..Len(s)
    <3>1. \A j \in 1..(k - 1) : j \in 1..Len(s)
      BY <1>5, <2>1
    <3>. QED BY <1>4, <1>5, <2>1, <3>1
  <2>2. CASE k \notin 1..Len(s)
    <3>. DEFINE i == k - Len(s)  x == t[i]  p == Pred(x)
    <3>1. i \in 1..Len(t) /\ Len(s) + i = k /\ (s \o t)[k] = x
      BY <1>5, <2>2
    <3>2. x \in S \ c.sent /\ x \in 1..Len(types) /\ x \in Nat
      BY <1>2, <1>5, <3>1 DEF Range
    <3>3. p < x /\ p \in Int
      BY <3>2 DEF Pred, B
    <3>4. CASE p <= c.after
      BY <3>1, <3>4
    <3>5. CASE p \in c.sent
      <4>1. PICK j \in 1..Len(s) : s[j] = p
        BY <1>3, <1>5, <3>5 DEF Range
      <4>2. j \in 1..(k - 1) /\ (s \o t)[j] = p
        BY <1>5, <3>1, <4>1
      <4>. QED BY <3>1, <4>2
    <3>6. CASE p \in S \ c.sent
      <4>1. PICK j \in 1..Len(t) : t[j] = p
        BY <1>2, <1>5, <3>6 DEF Range
      <4>2. j < i
        <5>1. CASE j = i
          BY <3>3, <4>1, <5>1
        <5>2. CASE i < j
          <6>1. t[i] < t[j]
            BY <1>2, <3>1, <5>2
          <6>. QED BY <3>2, <3>3, <4>1, <6>1
        <5>. QED BY <3>1, <5>1, <5>2
      <4>3. Len(s) + j \in 1..(k - 1) /\ (s \o t)[Len(s) + j] = p
        BY <1>5, <3>1, <4>1, <4>2
      <4>. QED BY <3>1, <4>3
    <3>. QED BY <3>2, <3>4, <3>5, <3>6
  <2>. QED BY <2>1, <2>2
<1>9. OnceInOrder(w)
  BY <1>1, <1>7, <1>8 DEF OnceInOrder
<1>. QED BY <1>1, <1>5, <1>9 DEF w, s

-----------------------------------------------------------------------------
(* A batch on the screen.                                                  *)

LEMMA PredFacts ==
  /\ B \in Nat /\ B > 0
  /\ \A n \in Nat \ {0} : Pred(n) \in Nat /\ Pred(n) <= B /\ Pred(n) < n
BY StreamAssumption DEF Pred, B

\* An event whose predecessor is on the screen comes in its place.
LEMMA AddedInOrder ==
  ASSUME NEW s \in Seq(Nat), BeforeFirst(s), NEW n \in Nat \ {0},
         Pred(n) \in Range(s) \cup {0}
  PROVE  BeforeFirst(Added(s, n))
<1>1. CASE n \in Range(s)
  BY <1>1 DEF Added
<1>2. CASE n \notin Range(s)
  <2>. DEFINE t == Append(s, n)  L == Len(s)
  <2>1. /\ L \in Nat /\ DOMAIN s = 1..L /\ Len(t) = L + 1 /\ t[L + 1] = n
        /\ \A i \in 1..L : t[i] = s[i] /\ s[i] \in Nat
    OBVIOUS
  <2>2. Added(s, n) = t
    BY <1>2 DEF Added
  <2>3. \A i \in 1..L : (i <= B => s[i] = i) /\ (i > B => s[i] > B)
    BY DEF BeforeFirst
  <2>. HIDE DEF t, L
  <2>4. ASSUME NEW p \in Range(s), p <= B PROVE p \in 1..L
    <3>1. PICK i \in 1..L : s[i] = p
      BY <2>1, <2>4 DEF Range
    <3>2. i <= B
      BY <2>1, <2>3, <2>4, <3>1, PredFacts
    <3>. QED BY <2>3, <3>1, <3>2
  <2>5. (L + 1 <= B => n = L + 1) /\ (L + 1 > B => n > B)
    <3>1. CASE n <= B
      <4>1. n - 1 \in 0..L
        <5>1. Pred(n) = n - 1
          BY <3>1 DEF Pred
        <5>2. CASE n - 1 = 0
          BY <2>1, <5>2
        <5>3. CASE n - 1 # 0
          <6>1. n - 1 \in Range(s) /\ n - 1 <= B
            BY <3>1, <5>1, <5>3, PredFacts
          <6>2. n - 1 \in 1..L
            BY <2>4, <6>1
          <6>. QED BY <2>1, <6>2
        <5>. QED BY <5>2, <5>3
      <4>2. n \notin 1..L
        <5>. SUFFICES ASSUME n \in 1..L PROVE FALSE
          OBVIOUS
        <5>1. s[n] = n
          BY <2>3, <3>1
        <5>. QED BY <1>2, <2>1, <5>1 DEF Range
      <4>3. n = L + 1
        BY <2>1, <4>1, <4>2
      <4>. QED BY <3>1, <4>3
    <3>2. CASE n > B
      <4>1. Pred(n) = B /\ B \in Range(s) /\ B <= B
        BY <3>2, PredFacts DEF Pred
      <4>2. B \in 1..L
        BY <2>4, <4>1
      <4>. QED BY <2>1, <3>2, <4>2, PredFacts
    <3>. QED BY <3>1, <3>2, PredFacts
  <2>6. \A i \in 1..Len(t) : (i <= B => t[i] = i) /\ (i > B => t[i] > B)
    <3>. TAKE i \in 1..Len(t)
    <3>1. CASE i = L + 1
      BY <2>1, <2>5, <3>1
    <3>2. CASE i # L + 1
      <4>1. i \in 1..L
        BY <2>1, <3>2
      <4>. QED BY <2>1, <2>3, <4>1
    <3>. QED BY <3>1, <3>2
  <2>. QED BY <2>2, <2>6 DEF BeforeFirst
<1>. QED BY <1>1, <1>2

\* The states of the screen while a batch is shown.
Batch(f, s, events) ==
  f[0] = s /\ \A k \in 1..Len(events) : f[k] = Added(f[k - 1], events[k])

LEMMA BatchInOrder ==
  ASSUME NEW s \in Seq(Nat), BeforeFirst(s), NEW events \in Seq(Nat \ {0}),
         InOrder(Range(s), events),
         NEW f \in [0..Len(events) -> Seq(Nat)], Batch(f, s, events)
  PROVE  \A k \in 0..Len(events) :
           BeforeFirst(f[k]) /\ Range(f[k]) = Range(s) \cup {events[j] : j \in 1..k}
<1>. DEFINE N == Len(events)
            Holds(k) == /\ BeforeFirst(f[k])
                        /\ Range(f[k]) = Range(s) \cup {events[j] : j \in 1..k}
            S == {k \in Nat : k <= N => Holds(k)}
<1>1. N \in Nat /\ \A k \in 1..N : events[k] \in Nat \ {0}
  OBVIOUS
<1>2. 0 \in S
  <2>1. f[0] = s /\ {events[j] : j \in 1..0} = {}
    BY DEF Batch
  <2>. QED BY <2>1
<1>3. ASSUME NEW n \in Nat, n \in S PROVE n + 1 \in S
  <2>. SUFFICES ASSUME n + 1 <= N PROVE Holds(n + 1)
    OBVIOUS
  <2>1. Holds(n) /\ n \in 0..N /\ n + 1 \in 1..N /\ (n + 1) - 1 = n
    BY <1>1, <1>3
  <2>2. f[n] \in Seq(Nat) /\ events[n + 1] \in Nat \ {0} /\ f[n + 1] = Added(f[n], events[n + 1])
    BY <1>1, <2>1 DEF Batch
  <2>3. Pred(events[n + 1]) \in Range(f[n]) \cup {0}
    <3>1. \/ Pred(events[n + 1]) \in Range(s) \cup {0}
          \/ \E j \in 1..n : events[j] = Pred(events[n + 1])
      BY <2>1 DEF InOrder
    <3>. QED BY <2>1, <3>1
  <2>4. BeforeFirst(f[n + 1])
    BY <2>1, <2>2, <2>3, AddedInOrder
  <2>5. Range(f[n + 1]) = Range(f[n]) \cup {events[n + 1]}
    BY <2>2, RangeAdded
  <2>6. 1..(n + 1) = (1..n) \cup {n + 1}
    OBVIOUS
  <2>7. {events[j] : j \in 1..(n + 1)} = {events[j] : j \in 1..n} \cup {events[n + 1]}
    BY <2>6
  <2>8. Range(f[n]) = Range(s) \cup {events[j] : j \in 1..n}
    BY <2>1
  <2>. QED BY <2>4, <2>5, <2>7, <2>8
<1>. HIDE DEF Holds, S
<1>4. Nat \subseteq S
  BY <1>2, <1>3, SetInduction
<1>5. \A k \in 0..N : Holds(k)
  BY <1>1, <1>4 DEF S
<1>. QED BY <1>5 DEF Holds

LEMMA BatchExists ==
  ASSUME NEW s \in Seq(Nat), NEW events \in Seq(Nat \ {0})
  PROVE  \E f \in [0..Len(events) -> Seq(Nat)] :
           Batch(f, s, events) /\ AddedAll(s, events) = f[Len(events)]
<1>1. events \in Seq(Nat)
  OBVIOUS
<1>. QED BY <1>1, BatchSteps DEF Batch

\* What a batch does to the screen.
LEMMA ShowRight ==
  ASSUME OnScreen, types \in Seq(EventTypes), NEW events \in Seq(1..Len(types)),
         InOrder(Seen, events), Show(events), types' = types
  PROVE  /\ OnScreen'
         /\ Seen' = Seen \cup Range(events)
<1>1. events \in Seq(Nat \ {0}) /\ Len(events) \in Nat /\ DOMAIN events = 1..Len(events)
  OBVIOUS
<1>2. PICK f \in [0..Len(events) -> Seq(Nat)] :
        Batch(f, shown, events) /\ shown' = f[Len(events)]
  BY <1>1, BatchExists DEF Show, OnScreen
<1>3. BeforeFirst(shown') /\ Range(shown') = Range(shown) \cup {events[j] : j \in 1..Len(events)}
  <2>1. \A k \in 0..Len(events) :
          BeforeFirst(f[k]) /\ Range(f[k]) = Range(shown) \cup {events[j] : j \in 1..k}
    BY <1>1, <1>2, BatchInOrder DEF OnScreen, Seen
  <2>. QED BY <1>1, <1>2, <2>1
<1>4. Seen' = Seen \cup Range(events)
  BY <1>1, <1>3 DEF Seen, Range
<1>5. Range(events) \subseteq 1..Len(types)
  BY <1>1 DEF Range
<1>6. last' \in Seen' \cup {0}
  <2>1. CASE events = <<>>
    BY <1>4, <2>1 DEF Show, OnScreen
  <2>2. CASE events # <<>>
    <3>1. Len(events) \in 1..Len(events)
      BY <1>1, <2>2
    <3>2. last' = events[Len(events)] /\ last' \in Range(events)
      BY <1>1, <2>2, <3>1 DEF Show, Range
    <3>. QED BY <1>4, <3>2
  <2>. QED BY <2>1, <2>2
<1>7. shown' \in Seq(Nat)
  BY <1>1, <1>2
<1>8. OnScreen'
  BY <1>3, <1>4, <1>5, <1>6, <1>7 DEF OnScreen
<1>. QED BY <1>4, <1>8

\* What precedes an event of the screen among the first is there too.
LEMMA BeforeShown ==
  ASSUME OnScreen, NEW a \in Seen \cup {0}, NEW p \in Nat, p <= a, p <= B
  PROVE  p \in Seen \cup {0}
<1>. SUFFICES ASSUME p # 0 PROVE p \in Seen
  OBVIOUS
<1>1. /\ shown \in Seq(Nat) /\ DOMAIN shown = 1..Len(shown) /\ Len(shown) \in Nat
      /\ \A i \in 1..Len(shown) : (i <= B => shown[i] = i) /\ (i > B => shown[i] > B)
  BY DEF OnScreen, BeforeFirst
<1>2. PICK i \in 1..Len(shown) : shown[i] = a
  <2>1. a # 0
    <3>. SUFFICES ASSUME a = 0 PROVE FALSE
      OBVIOUS
    <3>. QED OBVIOUS
  <2>. QED BY <1>1, <2>1 DEF Seen, Range
<1>3. p \in 1..Len(shown)
  BY <1>1, <1>2, PredFacts
<1>4. shown[p] = p
  BY <1>1, <1>3
<1>. QED BY <1>1, <1>3, <1>4 DEF Seen, Range

\* What is in flight can be shown, up to any event.
LEMMA StreamBatch ==
  ASSUME EventsKnown, Written, OnScreen, Streaming,
         NEW n \in read..Len(conn.written)
  PROVE  LET e == SubSeq(conn.written, read + 1, n)
         IN /\ e \in Seq(1..Len(types)) /\ InOrder(Seen, e)
            /\ \A k \in 1..n : conn.written[k] \in Seen \cup Range(e)
<1>. DEFINE w == conn.written
            e == SubSeq(w, read + 1, n)
<1>1. /\ w \in Seq(Nat) /\ Len(w) \in Nat /\ DOMAIN w = 1..Len(w)
      /\ read \in 0..Len(w) /\ n \in 0..Len(w) /\ read <= n
      /\ Range(w) = conn.sent /\ conn.sent \subseteq 1..Len(types)
      /\ \A k \in 1..read : w[k] \in Seen
  BY DEF Written, OnceInOrder
<1>2. \A k \in 1..Len(w) : w[k] \in 1..Len(types)
  <2>. HIDE DEF w
  <2>. QED BY <1>1 DEF Range
<1>3. \A k \in 1..Len(w) : \/ Pred(w[k]) <= conn.after
                           \/ \E j \in 1..(k - 1) : w[j] = Pred(w[k])
  BY DEF Written, OnceInOrder
<1>4. conn.after \in Seen \cup {0}
  BY DEF Written
<1>. HIDE DEF w
<1>5. /\ e \in Seq(Nat) /\ Len(e) = n - read /\ DOMAIN e = 1..(n - read)
      /\ \A k \in 1..(n - read) : e[k] = w[read + k] /\ read + k \in 1..Len(w)
  BY <1>1
<1>. HIDE DEF e
<1>6. e \in Seq(1..Len(types))
  <2>1. \A k \in 1..Len(e) : e[k] \in 1..Len(types)
    BY <1>2, <1>5
  <2>. QED BY <1>5, <2>1
<1>7. InOrder(Seen, e)
  <2>. SUFFICES ASSUME NEW k \in 1..Len(e)
                PROVE  \/ Pred(e[k]) \in Seen \cup {0}
                       \/ \E j \in 1..(k - 1) : e[j] = Pred(e[k])
    BY DEF InOrder
  <2>1. /\ read + k \in 1..Len(w) /\ e[k] = w[read + k] /\ e[k] \in Nat \ {0}
    BY <1>2, <1>5
  <2>. DEFINE p == Pred(e[k])
  <2>2. p \in Nat /\ p <= B
    BY <2>1, PredFacts
  <2>3. CASE p <= conn.after
    BY <1>4, <2>2, <2>3, BeforeShown
  <2>4. CASE ~(p <= conn.after)
    <3>. DEFINE i == read + k
    <3>0. i \in 1..Len(w) /\ p = Pred(w[i])
      BY <2>1
    <3>1. PICK j \in 1..(i - 1) : w[j] = p
      <4>. HIDE DEF i
      <4>1. ~(Pred(w[i]) <= conn.after)
        BY <2>4, <3>0
      <4>. QED BY <1>3, <3>0, <4>1
    <3>2. CASE j <= read
      BY <1>1, <3>1, <3>2
    <3>3. CASE j > read
      <4>1. j - read \in 1..(k - 1) /\ j - read \in 1..(n - read) /\ read + (j - read) = j
        BY <1>1, <1>5, <3>3
      <4>. QED BY <1>5, <3>1, <4>1
    <3>. QED BY <1>1, <3>2, <3>3
  <2>. QED BY <2>3, <2>4
<1>8. \A k \in 1..n : w[k] \in Seen \cup Range(e)
  <2>. TAKE k \in 1..n
  <2>1. CASE k <= read
    BY <1>1, <2>1
  <2>2. CASE k > read
    <3>1. k - read \in 1..(n - read) /\ read + (k - read) = k
      BY <1>1, <2>2
    <3>2. e[k - read] = w[k] /\ k - read \in DOMAIN e
      BY <1>5, <3>1
    <3>. QED BY <3>2 DEF Range
  <2>. QED BY <1>1, <2>1, <2>2
<1>. QED BY <1>6, <1>7, <1>8 DEF e, w

\* The log as a poll read it can be shown.
LEMMA PollBatch ==
  ASSUME EventsKnown, poll # None
  PROVE  /\ Sorted(poll) \in Seq(1..Len(types)) /\ InOrder(Seen, Sorted(poll))
         /\ Range(Sorted(poll)) = poll
<1>. DEFINE e == Sorted(poll)
<1>1. 1..B \subseteq poll /\ poll \subseteq 1..Len(types) /\ types \in Seq(EventTypes)
  BY DEF EventsKnown
<1>2. /\ e \in Seq(Nat) /\ Range(e) = poll
      /\ \A i, j \in 1..Len(e) : i < j => e[i] < e[j]
  <2>1. poll \cap (1..Len(types)) = poll
    BY <1>1
  <2>. QED BY <1>1, <2>1, SortedRight
<1>. HIDE DEF e
<1>3. DOMAIN e = 1..Len(e) /\ Len(e) \in Nat
  BY <1>2
<1>4. \A k \in 1..Len(e) : e[k] \in 1..Len(types) /\ e[k] \in Nat \ {0}
  BY <1>1, <1>2, <1>3 DEF Range
<1>5. e \in Seq(1..Len(types))
  BY <1>2, <1>4
<1>6. InOrder(Seen, e)
  <2>. SUFFICES ASSUME NEW k \in 1..Len(e), Pred(e[k]) # 0
                PROVE  \E j \in 1..(k - 1) : e[j] = Pred(e[k])
    BY DEF InOrder
  <2>. DEFINE p == Pred(e[k])
  <2>1. p \in 1..B /\ p < e[k] /\ e[k] \in Nat
    BY <1>4, PredFacts
  <2>2. PICK j \in 1..Len(e) : e[j] = p
    BY <1>1, <1>2, <1>3, <2>1 DEF Range
  <2>3. j < k
    <3>1. CASE j = k
      BY <2>1, <2>2, <3>1
    <3>2. CASE k < j
      <4>1. e[k] < e[j]
        BY <1>2, <3>2
      <4>. QED BY <2>1, <2>2, <4>1
    <3>. QED BY <1>3, <3>1, <3>2
  <2>4. j \in 1..(k - 1)
    BY <1>3, <2>3
  <2>. QED BY <2>2, <2>4
<1>. QED BY <1>2, <1>5, <1>6 DEF e

-----------------------------------------------------------------------------
(* The order and the story are kept by every step.                         *)

LEMMA BeforeFacts ==
  /\ B \in Nat /\ B > 0 /\ Before \in Seq(EventTypes)
  /\ \A s \in Scripts : \A m \in Emitters :
       s[m] \in Seq(EventTypes) /\ Len(s[m]) \in Nat
BY StreamAssumption DEF B

LEMMA InitS == Init => SInv
<1>. SUFFICES ASSUME Init PROVE SInv
  OBVIOUS
<1>. USE BeforeFacts
<1>1. IInv
  BY InitInv
<1>2. EventsKnown
  <2>1. script \in Scripts /\ types \in Seq(EventTypes) /\ B = Len(types) /\ stored = 1..B
    BY DEF Init, B
  <2>2. \A m \in Emitters : emitting[m].left = Len(script[m]) /\ emitting[m].stage = "rest"
    BY DEF Init, Resting
  <2>3. poll = None
    BY DEF Init
  <2>. QED BY <2>1, <2>2, <2>3 DEF EventsKnown
<1>3. Written
  BY DEF Init, Written, Streaming, Closed
<1>4. OnScreen
  <2>1. shown = <<>> /\ last = 0
    BY DEF Init
  <2>. QED BY <2>1 DEF OnScreen, BeforeFirst, Seen, Range
<1>5. Story
  BY DEF Init, Story, B
<1>6. ClosedAfterReturn
  <2>1. \A m \in Emitters : Len(script[m]) - emitting[m].left = 0
    BY DEF Init, Resting
  <2>2. ASSUME NEW n \in 1..Len(types), types[n] = "SESSION_CLOSED" PROVE ReturnStored
    <3>1. types = Before /\ stored = 1..Len(Before)
      BY DEF Init
    <3>2. PICK j \in 1..(n - 1) : Before[j] \in Returns
      BY <2>2, <3>1, StoryAssumption DEF EndsReturned
    <3>3. j \in stored
      BY <3>1, <3>2
    <3>. QED BY <3>1, <3>2, <3>3 DEF ReturnStored
  <2>. QED BY <2>1, <2>2 DEF ClosedAfterReturn
<1>. QED BY <1>1, <1>2, <1>3, <1>4, <1>5, <1>6 DEF SInv

Tale == EventsKnown /\ Story /\ ClosedAfterReturn

\* A stamp: the next event of the script of a handler that rests.
LEMMA StampTale ==
  ASSUME Shape, Tale, NEW m \in Emitters, Stamp(m)
  PROVE  Tale'
<1>. USE BeforeFacts DEF Tale
<1>. DEFINE left == emitting[m].left
            done == Len(script[m]) - left
            type == script[m][done + 1]
            L == Len(types)
<1>1. /\ emitting[m].stage = "rest" /\ left > 0 /\ left \in 0..Len(script[m])
      /\ script \in Scripts /\ Len(script[m]) \in Nat
      /\ types \in Seq(EventTypes) /\ B <= L /\ L \in Nat
      /\ 1..B \subseteq stored /\ stored \subseteq 1..L
      /\ poll # None => 1..B \subseteq poll /\ poll \subseteq 1..L
  BY DEF Stamp, EventsKnown
<1>2. /\ done \in Nat /\ done + 1 \in 1..Len(script[m]) /\ type \in EventTypes
      /\ done + 1 = Len(script[m]) + 1 - left
  BY <1>1
<1>3. /\ types' = Append(types, type)
      /\ emitting' = [emitting EXCEPT ![m] =
           [event |-> Len(types'), stage |-> "append", left |-> left - 1]]
      /\ script' = script /\ stored' = stored /\ poll' = poll
  BY <1>2 DEF Stamp
<1>. HIDE DEF type
<1>4. /\ types' \in Seq(EventTypes) /\ Len(types') = L + 1 /\ types'[L + 1] = type
      /\ \A n \in 1..L : types'[n] = types[n]
  BY <1>1, <1>2, <1>3
<1>. HIDE DEF L, done
<1>5. /\ emitting'[m].event = L + 1 /\ emitting'[m].stage = "append"
      /\ emitting'[m].left = left - 1
      /\ \A k \in Emitters \ {m} : emitting'[k] = emitting[k]
  BY <1>3, <1>4 DEF Shape
<1>6. EventsKnown'
  <2>1. \A k \in Emitters : emitting'[k].left \in 0..Len(script'[k])
    <3>1. left - 1 \in 0..Len(script[m])
      BY <1>1
    <3>. QED BY <1>3, <1>5, <3>1 DEF EventsKnown
  <2>2. \A k \in Emitters : emitting'[k].stage # "rest" => emitting'[k].event \in 1..Len(types')
    <3>. TAKE k \in Emitters
    <3>1. CASE k = m
      BY <1>1, <1>4, <1>5, <3>1
    <3>2. CASE k # m
      <4>1. emitting[k].stage # "rest" => emitting[k].event \in 1..L
        BY DEF EventsKnown, L
      <4>. QED BY <1>1, <1>4, <1>5, <3>2, <4>1
    <3>. QED BY <3>1, <3>2
  <2>3. stored' \subseteq 1..Len(types') /\ (poll' # None => poll' \subseteq 1..Len(types'))
    BY <1>1, <1>3, <1>4
  <2>. QED BY <1>1, <1>3, <1>4, <2>1, <2>2, <2>3 DEF EventsKnown
<1>7. Story'
  <2>1. type \notin Opening \cup Starting
    BY <1>1, <1>2, StoryAssumption DEF type
  <2>2. \A n \in (B + 1)..L : types[n] \notin Opening \cup Starting
    BY DEF Story, L
  <2>3. \A n \in (B + 1)..(L + 1) : n = L + 1 \/ (n \in (B + 1)..L /\ n \in 1..L)
    BY <1>1
  <2>4. \A n \in 1..B : types'[n] = Before[n]
    BY <1>1, <1>4 DEF Story
  <2>5. \A n \in (B + 1)..(L + 1) : types'[n] \notin Opening \cup Starting
    BY <1>4, <2>1, <2>2, <2>3
  <2>. QED BY <1>4, <2>4, <2>5 DEF Story
<1>8. ReturnStored => ReturnStored'
  BY <1>1, <1>3, <1>4 DEF ReturnStored
<1>9. \A j \in 1..done : script[m][j] \in Returns => ReturnStored
  BY <1>1 DEF ClosedAfterReturn, done
<1>10. ASSUME NEW k \in Emitters, NEW j \in 1..(Len(script'[k]) - emitting'[k].left),
              script'[k][j] \in Returns
       PROVE  \/ ReturnStored'
              \/ emitting'[k].stage = "append" /\ types'[emitting'[k].event] \in Returns
  <2>1. CASE k = m
    <3>1. j \in 1..done \/ j = done + 1
      <4>1. Len(script[m]) - (left - 1) = done + 1
        BY <1>1 DEF done
      <4>2. j \in 1..(done + 1)
        BY <1>3, <1>5, <2>1, <4>1
      <4>. QED BY <1>2, <4>2
    <3>2. CASE j \in 1..done
      BY <1>3, <1>8, <1>9, <1>10, <2>1, <3>2
    <3>3. CASE j = done + 1
      BY <1>3, <1>4, <1>5, <1>10, <2>1, <3>3 DEF type
    <3>. QED BY <3>1, <3>2, <3>3
  <2>2. CASE k # m
    <3>1. \/ ReturnStored
          \/ emitting[k].stage = "append" /\ types[emitting[k].event] \in Returns
      BY <1>3, <1>5, <1>10, <2>2 DEF ClosedAfterReturn
    <3>2. emitting[k].stage = "append" => emitting[k].event \in 1..L
      BY DEF EventsKnown, L
    <3>. QED BY <1>4, <1>5, <1>8, <2>2, <3>1, <3>2
  <2>. QED BY <2>1, <2>2
<1>11. ASSUME NEW n \in 1..Len(types'), types'[n] = "SESSION_CLOSED" PROVE ReturnStored'
  <2>1. CASE n \in 1..L
    BY <1>4, <1>8, <1>11, <2>1 DEF ClosedAfterReturn, L
  <2>2. CASE n \notin 1..L
    <3>1. n = L + 1 /\ type = "SESSION_CLOSED"
      BY <1>1, <1>4, <1>11, <2>2
    <3>2. PICK j \in 1..((done + 1) - 1) : script[m][j] \in Returns
      BY <1>1, <1>2, <3>1, StoryAssumption DEF EndsReturned, type
    <3>. QED BY <1>2, <1>8, <1>9, <3>2
  <2>. QED BY <2>1, <2>2
<1>12. ClosedAfterReturn'
  BY <1>10, <1>11 DEF ClosedAfterReturn
<1>. QED BY <1>6, <1>7, <1>12

LEMMA StoreTale ==
  ASSUME Shape, Tale, NEW m \in Emitters, Store(m)
  PROVE  Tale'
<1>. USE BeforeFacts DEF Tale
<1>1. /\ emitting[m].stage = "append" /\ emitting[m].event \in 1..Len(types)
      /\ stored' = stored \cup {emitting[m].event}
      /\ emitting' = [emitting EXCEPT ![m].stage =
           IF Home[m] \in Gateways THEN "publish" ELSE "rest"]
      /\ UNCHANGED <<script, types, poll>>
  BY DEF Store, EventsKnown
<1>2. /\ emitting'[m].stage # "append"
      /\ emitting'[m].event = emitting[m].event /\ emitting'[m].left = emitting[m].left
      /\ \A k \in Emitters \ {m} : emitting'[k] = emitting[k]
  BY <1>1 DEF Shape
<1>3. \A k \in Emitters : /\ emitting'[k].event = emitting[k].event
                          /\ emitting'[k].left = emitting[k].left
                          /\ emitting'[k].stage # "rest" => emitting[k].stage # "rest"
  BY <1>1, <1>2
<1>4. EventsKnown'
  BY <1>1, <1>3 DEF EventsKnown
<1>5. Story'
  BY <1>1 DEF Story
<1>6. ReturnStored => ReturnStored'
  BY <1>1 DEF ReturnStored
<1>7. ASSUME NEW k \in Emitters, NEW j \in 1..(Len(script'[k]) - emitting'[k].left),
             script'[k][j] \in Returns
      PROVE  \/ ReturnStored'
             \/ emitting'[k].stage = "append" /\ types'[emitting'[k].event] \in Returns
  <2>1. \/ ReturnStored
        \/ emitting[k].stage = "append" /\ types[emitting[k].event] \in Returns
    BY <1>1, <1>3, <1>7 DEF ClosedAfterReturn
  <2>2. CASE k = m /\ types[emitting[k].event] \in Returns
    BY <1>1, <2>2 DEF ReturnStored
  <2>. QED BY <1>1, <1>2, <1>6, <2>1, <2>2
<1>8. \A n \in 1..Len(types') : types'[n] = "SESSION_CLOSED" => ReturnStored'
  BY <1>1, <1>6 DEF ClosedAfterReturn
<1>9. ClosedAfterReturn'
  BY <1>7, <1>8 DEF ClosedAfterReturn
<1>. QED BY <1>4, <1>5, <1>9

LEMMA OtherTale ==
  ASSUME Shape, Tale,
         \/ \E m \in Emitters : Publish(m)
         \/ \E g \in Gateways : Connect(g)
         \/ Replay \/ CatchUp \/ GoLive
         \/ Receive \/ Break \/ Finish \/ Ask \/ Answer \/ LosePoll \/ Expire
         \/ UNCHANGED vars
  PROVE  Tale'
<1>. USE BeforeFacts DEF Tale
<1>1. /\ UNCHANGED <<script, types, stored>>
      /\ poll' \in {poll, stored, None}
  BY DEF Publish, Connect, Replay, CatchUp, GoLive, Receive, Break, Finish, Ask, Answer,
         LosePoll, Expire, vars
<1>2. \A k \in Emitters : /\ emitting'[k].event = emitting[k].event
                          /\ emitting'[k].left = emitting[k].left
                          /\ emitting'[k].stage # "rest" => emitting[k].stage # "rest"
                          /\ emitting[k].stage = "append" => emitting'[k].stage = "append"
  <2>1. CASE emitting' = emitting
    BY <2>1
  <2>2. ASSUME NEW m \in Emitters, Publish(m)
        PROVE  \A k \in Emitters :
                 /\ emitting'[k].event = emitting[k].event
                 /\ emitting'[k].left = emitting[k].left
                 /\ emitting'[k].stage # "rest" => emitting[k].stage # "rest"
                 /\ emitting[k].stage = "append" => emitting'[k].stage = "append"
    <3>1. emitting[m].stage = "publish" /\ emitting' = [emitting EXCEPT ![m].stage = "rest"]
      BY <2>2 DEF Publish
    <3>. QED BY <3>1 DEF Shape
  <2>. QED BY <2>1, <2>2 DEF Connect, Replay, CatchUp, GoLive, Receive, Break, Finish,
             Ask, Answer, LosePoll, Expire, vars
<1>3. EventsKnown'
  BY <1>1, <1>2 DEF EventsKnown
<1>4. Story'
  BY <1>1 DEF Story
<1>5. ReturnStored' = ReturnStored
  BY <1>1 DEF ReturnStored
<1>6. ClosedAfterReturn'
  BY <1>1, <1>2, <1>5 DEF ClosedAfterReturn
<1>. QED BY <1>3, <1>4, <1>6

Screen == Written /\ OnScreen

\* What must come before an event has been sent, or is about to be replayed.
LEMMA SentBefore ==
  ASSUME Tale, Screen, Streaming, NEW x \in Nat \ {0}
  PROVE  /\ conn.after \in Nat
         /\ \/ Pred(x) <= conn.after \/ Pred(x) \in conn.sent
            \/ conn.stage = "listed" /\ Pred(x) \in conn.list
<1>1. Pred(x) \in Nat /\ Pred(x) <= B
  BY PredFacts
<1>2. conn.after \in Nat
  <2>1. conn.after \in Seen \cup {0}
    BY DEF Screen, Written
  <2>2. \A a \in Seen : a \in Nat
    BY DEF Screen, OnScreen
  <2>. QED BY <2>1, <2>2
<1>3. ASSUME ~(Pred(x) <= conn.after) PROVE Pred(x) \in 1..B /\ Pred(x) > conn.after
  BY <1>1, <1>2, <1>3, PredFacts
<1>. QED BY <1>2, <1>3 DEF Screen, Written

\* The log grows, and the screen stays.
LEMMA LogScreen ==
  ASSUME Tale, Screen, NEW m \in Emitters, Stamp(m) \/ Store(m)
  PROVE  Screen'
<1>1. Len(types) <= Len(types') /\ Len(types) \in Nat /\ Len(types') \in Nat
  <2>1. types \in Seq(EventTypes)
    BY DEF Tale, EventsKnown
  <2>2. CASE Store(m)
    BY <2>1, <2>2 DEF Store
  <2>3. CASE Stamp(m)
    <3>. DEFINE type == script[m][Len(script[m]) + 1 - emitting[m].left]
    <3>1. types' = Append(types, type)
      BY <2>3 DEF Stamp
    <3>. HIDE DEF type
    <3>. QED BY <2>1, <3>1
  <2>. QED BY <2>2, <2>3
<1>2. UNCHANGED <<conn, read, shown, last>>
  BY DEF Stamp, Store
<1>3. Seen' = Seen /\ Streaming' = Streaming
  BY <1>2 DEF Seen, Streaming
<1>4. 1..Len(types) \subseteq 1..Len(types')
  BY <1>1
<1>5. Written'
  BY <1>2, <1>3, <1>4 DEF Screen, Written, OnceInOrder
<1>6. OnScreen'
  BY <1>2, <1>3, <1>4 DEF Screen, OnScreen, BeforeFirst
<1>. QED BY <1>5, <1>6 DEF Screen

\* The stream changes, in what it sent or is to send, and the screen stays.
LEMMA StreamScreen ==
  ASSUME Tale, Screen, Streaming, Streaming', types' = types,
         UNCHANGED <<read, shown, last>>, conn'.after = conn.after,
         OnceInOrder(conn'), conn.sent \subseteq conn'.sent,
         conn'.list \cup conn'.buffered \cup conn'.sent \subseteq 1..Len(types),
         conn.stage = "listed" => conn.list \subseteq conn'.sent,
         Len(conn.written) <= Len(conn'.written),
         \A k \in 1..Len(conn.written) : conn'.written[k] = conn.written[k]
  PROVE  Screen'
<1>1. Seen' = Seen
  BY DEF Seen
<1>2. OnScreen'
  BY <1>1 DEF Screen, OnScreen, BeforeFirst
<1>3. conn.written \in Seq(Nat) /\ conn'.written \in Seq(Nat) /\ read \in 0..Len(conn.written)
  BY DEF Screen, Written, OnceInOrder
<1>4. read' \in 0..Len(conn'.written) /\ \A k \in 1..read' : conn'.written[k] \in Seen'
  <2>1. \A k \in 1..read : conn.written[k] \in Seen
    BY DEF Screen, Written
  <2>2. Len(conn.written) \in Nat /\ Len(conn'.written) \in Nat /\ read' = read
    BY <1>3
  <2>3. \A k \in 1..read : k \in 1..Len(conn.written)
    BY <1>3, <2>2
  <2>4. read' \in 0..Len(conn'.written)
    <3>. DEFINE a == Len(conn.written)  b == Len(conn'.written)
    <3>1. a \in Nat /\ b \in Nat /\ a <= b /\ read \in 0..a /\ read' = read
      BY <1>3, <2>2
    <3>. HIDE DEF a, b
    <3>2. read' \in 0..b
      BY <3>1
    <3>. QED BY <3>2 DEF b
  <2>. QED BY <1>1, <2>1, <2>2, <2>3, <2>4
<1>5. \A n \in 1..B :
        n > conn'.after =>
          n \in conn'.sent \/ (conn'.stage = "listed" /\ n \in conn'.list)
  BY DEF Screen, Written
<1>6. Written'
  BY <1>1, <1>4, <1>5 DEF Screen, Written
<1>. QED BY <1>2, <1>6 DEF Screen

LEMMA StillScreen ==
  ASSUME Screen, UNCHANGED <<types, conn, read, shown, last>>
  PROVE  Screen'
<1>1. Seen' = Seen /\ Streaming' = Streaming
  BY DEF Seen, Streaming
<1>2. Written'
  BY <1>1 DEF Screen, Written, OnceInOrder
<1>3. OnScreen'
  BY <1>1 DEF Screen, OnScreen, BeforeFirst
<1>. QED BY <1>2, <1>3 DEF Screen

\* Writing to the stream what it may carry.
LEMMA WriteStream ==
  ASSUME Shape, Tale, Screen, Streaming, NEW S \in SUBSET (1..Len(types)),
         conn.stage # "listed" \/ conn.list \subseteq S
  PROVE  LET w == Write(conn, S)
         IN /\ w = Stream(w) /\ w.stage = conn.stage /\ w.home = conn.home
            /\ w.after = conn.after /\ w.list = conn.list /\ w.buffered = conn.buffered
            /\ w.sent = conn.sent \cup S /\ OnceInOrder(w)
            /\ Len(conn.written) <= Len(w.written)
            /\ \A k \in 1..Len(conn.written) : w.written[k] = conn.written[k]
<1>1. types \in Seq(EventTypes)
  BY DEF Tale, EventsKnown
<1>2. conn = Stream(conn)
  BY DEF Shape, Streaming, Closed
<1>3. OnceInOrder(conn) /\ conn.after \in Nat
  <2>1. 1 \in Nat \ {0}
    OBVIOUS
  <2>. QED BY <2>1, SentBefore DEF Screen, Written
<1>4. ASSUME NEW x \in S PROVE Pred(x) <= conn.after \/ Pred(x) \in conn.sent \cup S
  <2>1. x \in Nat \ {0}
    BY <1>1
  <2>2. \/ Pred(x) <= conn.after \/ Pred(x) \in conn.sent
        \/ conn.stage = "listed" /\ Pred(x) \in conn.list
    BY <2>1, SentBefore
  <2>. QED BY <2>2
<1>. DEFINE c == conn
<1>5. c = Stream(c) /\ c.after \in Nat /\ OnceInOrder(c)
        /\ \A x \in S : Pred(x) <= c.after \/ Pred(x) \in c.sent \cup S
  BY <1>2, <1>3, <1>4
<1>. QED BY <1>1, <1>5, WriteRight

LEMMA PublishScreen ==
  ASSUME Shape, Tale, Screen, NEW m \in Emitters, Publish(m)
  PROVE  Screen'
<1>. DEFINE n == emitting[m].event
<1>1. CASE ~(Subscribed /\ conn.home = Home[m])
  <2>1. UNCHANGED <<types, conn, read, shown, last>>
    BY <1>1 DEF Publish
  <2>. QED BY <2>1, StillScreen
<1>2. CASE Subscribed /\ conn.home = Home[m]
  <2>1. /\ conn' = Hear(conn, n) /\ UNCHANGED <<types, read, shown, last>>
        /\ Streaming /\ conn.stage # "listed" /\ n \in 1..Len(types)
    BY <1>2 DEF Publish, Subscribed, Streaming, Tale, EventsKnown
  <2>2. /\ conn = Stream(conn) /\ OnceInOrder(conn) /\ conn.written \in Seq(Nat)
        /\ conn.list \cup conn.buffered \cup conn.sent \subseteq 1..Len(types)
    BY <2>1 DEF Shape, Streaming, Closed, Screen, Written, OnceInOrder
  <2>. HIDE DEF n
  <2>3. CASE conn.stage = "live"
    <3>. DEFINE w == Write(conn, {n})
    <3>1. conn' = w
      BY <2>1, <2>3 DEF Hear
    <3>2. {n} \in SUBSET (1..Len(types))
      BY <2>1
    <3>3. /\ w.stage = conn.stage /\ w.after = conn.after /\ w.list = conn.list
          /\ w.buffered = conn.buffered /\ w.sent = conn.sent \cup {n} /\ OnceInOrder(w)
          /\ Len(conn.written) <= Len(w.written)
          /\ \A k \in 1..Len(conn.written) : w.written[k] = conn.written[k]
      BY <2>1, <3>2, WriteStream
    <3>. HIDE DEF w
    <3>4. Streaming'
      BY <2>3, <3>1, <3>3 DEF Streaming
    <3>. QED BY <2>1, <2>2, <3>1, <3>2, <3>3, <3>4, StreamScreen
  <2>4. CASE conn.stage # "live"
    <3>1. conn' = [conn EXCEPT !.buffered = @ \cup {n}]
      BY <2>1, <2>4 DEF Hear
    <3>2. /\ conn'.stage = conn.stage /\ conn'.after = conn.after /\ conn'.list = conn.list
          /\ conn'.buffered = conn.buffered \cup {n} /\ conn'.sent = conn.sent
          /\ conn'.written = conn.written
      BY <2>2, <3>1 DEF Stream
    <3>3. Streaming' /\ OnceInOrder(conn')
      BY <2>1, <2>2, <3>2 DEF Streaming, OnceInOrder
    <3>4. conn'.list \cup conn'.buffered \cup conn'.sent \subseteq 1..Len(types)
      BY <2>1, <2>2, <3>2
    <3>5. Len(conn.written) <= Len(conn'.written)
      BY <2>2, <3>2
    <3>. QED BY <2>1, <3>2, <3>3, <3>4, <3>5, StreamScreen
  <2>. QED BY <2>3, <2>4
<1>. QED BY <1>1, <1>2

LEMMA ReplayScreen ==
  ASSUME Shape, Tale, Screen, Replay
  PROVE  Screen'
<1>. DEFINE w == Write(conn, conn.list)
<1>1. /\ conn' = [w EXCEPT !.stage = "replayed"] /\ UNCHANGED <<types, read, shown, last>>
      /\ Streaming /\ conn.stage = "listed"
  BY DEF Replay, Streaming
<1>2. conn.list \cup conn.buffered \cup conn.sent \subseteq 1..Len(types)
  BY <1>1 DEF Screen, Written
<1>3. /\ w = Stream(w) /\ w.after = conn.after /\ w.list = conn.list
      /\ w.buffered = conn.buffered /\ w.sent = conn.sent \cup conn.list /\ OnceInOrder(w)
      /\ Len(conn.written) <= Len(w.written)
      /\ \A k \in 1..Len(conn.written) : w.written[k] = conn.written[k]
  <2>1. conn.list \in SUBSET (1..Len(types)) /\ conn.list \subseteq conn.list
    BY <1>2
  <2>. QED BY <1>1, <2>1, WriteStream
<1>. HIDE DEF w
<1>4. /\ conn'.stage = "replayed" /\ conn'.after = w.after /\ conn'.list = w.list
      /\ conn'.buffered = w.buffered /\ conn'.sent = w.sent /\ conn'.written = w.written
  BY <1>1, <1>3 DEF Stream
<1>5. Streaming' /\ OnceInOrder(conn')
  BY <1>3, <1>4 DEF Streaming, OnceInOrder
<1>. QED BY <1>1, <1>2, <1>3, <1>4, <1>5, StreamScreen

LEMMA CatchUpScreen ==
  ASSUME Shape, Tale, Screen, CatchUp
  PROVE  Screen'
<1>1. /\ conn' = [conn EXCEPT !.stage = "caught", !.list = EventsAfter(stored, conn.after)]
      /\ UNCHANGED <<types, read, shown, last>>
      /\ Streaming /\ conn.stage = "replayed"
  BY DEF CatchUp, Streaming
<1>2. /\ conn = Stream(conn) /\ OnceInOrder(conn) /\ conn.written \in Seq(Nat)
      /\ conn.list \cup conn.buffered \cup conn.sent \subseteq 1..Len(types)
  BY <1>1 DEF Shape, Streaming, Closed, Screen, Written, OnceInOrder
<1>3. /\ conn'.stage = "caught" /\ conn'.after = conn.after
      /\ conn'.list = EventsAfter(stored, conn.after)
      /\ conn'.buffered = conn.buffered /\ conn'.sent = conn.sent
      /\ conn'.written = conn.written
  BY <1>1, <1>2 DEF Stream
<1>4. conn'.list \subseteq 1..Len(types)
  BY <1>3 DEF EventsAfter, Tale, EventsKnown
<1>5. Streaming' /\ OnceInOrder(conn') /\ Len(conn.written) <= Len(conn'.written)
  <2>1. OnceInOrder(conn')
    BY <1>2, <1>3, Zenon DEF OnceInOrder
  <2>2. Len(conn.written) \in Nat
    BY <1>2
  <2>. QED BY <1>3, <2>1, <2>2 DEF Streaming
<1>. QED BY <1>1, <1>2, <1>3, <1>4, <1>5, StreamScreen

LEMMA GoLiveScreen ==
  ASSUME Shape, Tale, Screen, GoLive
  PROVE  Screen'
<1>. DEFINE v == Write(conn, conn.list)
            w == Write(v, conn.buffered)
<1>1. /\ conn' = [w EXCEPT !.stage = "live", !.list = {}, !.buffered = {}]
      /\ UNCHANGED <<types, read, shown, last>>
      /\ Streaming /\ conn.stage = "caught"
  BY DEF GoLive, Streaming
<1>2. /\ conn.list \cup conn.buffered \cup conn.sent \subseteq 1..Len(types)
      /\ types \in Seq(EventTypes) /\ conn.written \in Seq(Nat)
  BY <1>1 DEF Screen, Written, OnceInOrder, Tale, EventsKnown
<1>3. /\ v = Stream(v) /\ v.after = conn.after /\ v.sent = conn.sent \cup conn.list
      /\ OnceInOrder(v) /\ Len(conn.written) <= Len(v.written)
      /\ \A k \in 1..Len(conn.written) : v.written[k] = conn.written[k]
  <2>1. conn.list \in SUBSET (1..Len(types)) /\ conn.list \subseteq conn.list
    BY <1>2
  <2>. QED BY <1>1, <2>1, WriteStream
<1>. HIDE DEF v
<1>4. /\ w = Stream(w) /\ w.after = v.after /\ w.sent = v.sent \cup conn.buffered
      /\ OnceInOrder(w) /\ Len(v.written) <= Len(w.written)
      /\ \A k \in 1..Len(v.written) : w.written[k] = v.written[k]
  <2>1. conn.buffered \in SUBSET (1..Len(types)) /\ v.after \in Nat
    <3>1. 1 \in Nat \ {0}
      OBVIOUS
    <3>. QED BY <1>1, <1>2, <1>3, <3>1, SentBefore
  <2>2. ASSUME NEW x \in conn.buffered PROVE Pred(x) <= v.after \/ Pred(x) \in v.sent
    <3>1. x \in Nat \ {0}
      BY <1>2
    <3>2. Pred(x) <= conn.after \/ Pred(x) \in conn.sent
      BY <1>1, <3>1, SentBefore
    <3>. QED BY <1>3, <3>2
  <2>. QED BY <1>2, <1>3, <2>1, <2>2, WriteRight
<1>. HIDE DEF w
<1>5. /\ conn'.stage = "live" /\ conn'.after = w.after /\ conn'.list = {}
      /\ conn'.buffered = {} /\ conn'.sent = w.sent /\ conn'.written = w.written
  BY <1>1, <1>4 DEF Stream
<1>6. Streaming' /\ OnceInOrder(conn')
  BY <1>4, <1>5 DEF Streaming, OnceInOrder
<1>7. /\ Len(conn.written) <= Len(conn'.written)
      /\ \A k \in 1..Len(conn.written) : conn'.written[k] = conn.written[k]
  <2>1. /\ Len(conn.written) \in Nat /\ Len(v.written) \in Nat /\ Len(w.written) \in Nat
    BY <1>2, <1>3, <1>4 DEF OnceInOrder
  <2>2. \A k \in 1..Len(conn.written) : k \in 1..Len(v.written)
    BY <1>3, <2>1
  <2>. QED BY <1>3, <1>4, <1>5, <2>1, <2>2
<1>8. conn'.list \cup conn'.buffered \cup conn'.sent \subseteq 1..Len(types)
  BY <1>2, <1>3, <1>4, <1>5
<1>9. conn'.after = conn.after /\ conn.sent \subseteq conn'.sent
  BY <1>3, <1>4, <1>5
<1>. QED BY <1>1, <1>6, <1>7, <1>8, <1>9, StreamScreen

LEMMA ConnectScreen ==
  ASSUME Tale, Screen, NEW g \in Gateways, Connect(g)
  PROVE  Screen'
<1>1. /\ conn' = [stage |-> "listed", home |-> g, after |-> last, sent |-> {},
                  list |-> EventsAfter(stored, last), buffered |-> {}, written |-> <<>>]
      /\ read' = 0 /\ UNCHANGED <<types, shown, last>>
  BY DEF Connect
<1>2. Seen' = Seen
  BY <1>1 DEF Seen
<1>3. OnScreen'
  BY <1>1, <1>2 DEF Screen, OnScreen, BeforeFirst
<1>4. OnceInOrder(conn')
  BY <1>1 DEF OnceInOrder, IsInjective, Range
<1>5. /\ conn'.list \cup conn'.buffered \cup conn'.sent \subseteq 1..Len(types)
      /\ \A n \in 1..B : n > conn'.after => n \in conn'.list
  BY <1>1 DEF EventsAfter, Tale, EventsKnown
<1>6. Written'
  BY <1>1, <1>2, <1>4, <1>5 DEF Written, Screen, OnScreen
<1>. QED BY <1>3, <1>6 DEF Screen

\* What the client does: it shows a batch, or closes the stream.
LEMMA ClientScreen ==
  ASSUME Tale, Screen, Receive \/ Break \/ Finish \/ Answer
  PROVE  Screen'
<1>. USE DEF Screen
<1>0. types \in Seq(EventTypes) /\ EventsKnown
  BY DEF Tale, EventsKnown
<1>1. CASE Receive
  <2>. DEFINE e == SubSeq(conn.written, read + 1, Len(conn.written))
  <2>1. /\ Streaming /\ read' = Len(conn.written) /\ Show(e)
        /\ UNCHANGED <<types, conn>>
    BY <1>1 DEF Receive, Streaming
  <2>2. Len(conn.written) \in read..Len(conn.written) /\ conn.written \in Seq(Nat)
    BY <2>1 DEF Written, OnceInOrder
  <2>3. /\ e \in Seq(1..Len(types)) /\ InOrder(Seen, e)
        /\ \A k \in 1..Len(conn.written) : conn.written[k] \in Seen \cup Range(e)
    BY <1>0, <2>1, <2>2, StreamBatch
  <2>. HIDE DEF e
  <2>4. OnScreen' /\ Seen' = Seen \cup Range(e)
    BY <1>0, <2>1, <2>3, ShowRight
  <2>5. read' \in 0..Len(conn'.written) /\ \A k \in 1..read' : conn'.written[k] \in Seen'
    <3>1. conn' = conn /\ read' = Len(conn.written) /\ Len(conn.written) \in Nat
      BY <2>1, <2>2
    <3>2. \A k \in 1..Len(conn.written) : conn.written[k] \in Seen'
      BY <2>3, <2>4
    <3>3. read' \in 0..Len(conn'.written)
      BY <3>1
    <3>. QED BY <3>1, <3>2, <3>3
  <2>6. Written'
    BY <2>1, <2>4, <2>5 DEF Written, OnceInOrder
  <2>. QED BY <2>4, <2>6
<1>2. CASE Break
  <2>1. PICK n \in read..Len(conn.written) : Show(SubSeq(conn.written, read + 1, n))
    BY <1>2 DEF Break
  <2>. DEFINE e == SubSeq(conn.written, read + 1, n)
  <2>2. Streaming /\ conn' = Closed /\ types' = types /\ Show(e)
    BY <1>2, <2>1 DEF Break
  <2>3. e \in Seq(1..Len(types)) /\ InOrder(Seen, e)
    BY <1>0, <2>2, StreamBatch
  <2>. HIDE DEF e
  <2>4. OnScreen'
    BY <1>0, <2>2, <2>3, ShowRight
  <2>. QED BY <2>2, <2>4 DEF Written, Streaming, Closed
<1>3. CASE Finish
  <2>1. /\ Streaming /\ read = Len(conn.written) /\ conn' = Closed
        /\ last' = (IF read = 0 THEN conn.after ELSE conn.written[read])
        /\ UNCHANGED <<types, shown>>
    BY <1>3 DEF Finish
  <2>2. last' \in Seen \cup {0}
    BY <2>1 DEF Written
  <2>3. Seen' = Seen
    BY <2>1 DEF Seen
  <2>4. OnScreen'
    BY <2>1, <2>2, <2>3 DEF OnScreen, BeforeFirst
  <2>. QED BY <2>1, <2>4 DEF Written, Streaming, Closed
<1>4. CASE Answer
  <2>. DEFINE e == Sorted(poll)
  <2>1. poll # None /\ Show(e) /\ UNCHANGED <<types, conn, read>>
    BY <1>4 DEF Answer
  <2>2. e \in Seq(1..Len(types)) /\ InOrder(Seen, e)
    BY <1>0, <2>1, PollBatch
  <2>. HIDE DEF e
  <2>3. OnScreen' /\ Seen' = Seen \cup Range(e)
    BY <1>0, <2>1, <2>2, ShowRight
  <2>4. Written'
    BY <2>1, <2>3 DEF Written, OnceInOrder, Streaming
  <2>. QED BY <2>3, <2>4
<1>. QED BY <1>1, <1>2, <1>3, <1>4

LEMMA NextS == SInv /\ [Next]_vars => SInv'
<1>. SUFFICES ASSUME SInv, [Next]_vars PROVE SInv'
  OBVIOUS
<1>1. IInv /\ Shape /\ Tale /\ Screen
  BY DEF SInv, IInv, Tale, Screen
<1>2. IInv'
  BY <1>1, EmitInv, StreamInv, ClientInv DEF Next
<1>3. Tale'
  BY <1>1, StampTale, StoreTale, OtherTale DEF Next
<1>4. Screen'
  <2>1. CASE Ask \/ LosePoll \/ Expire \/ UNCHANGED vars
    <3>1. UNCHANGED <<types, conn, read, shown, last>>
      BY <2>1 DEF Ask, LosePoll, Expire, vars
    <3>. QED BY <1>1, <3>1, StillScreen
  <2>. QED BY <1>1, <2>1, LogScreen, PublishScreen, ReplayScreen, CatchUpScreen,
             GoLiveScreen, ConnectScreen, ClientScreen DEF Next
<1>. QED BY <1>2, <1>3, <1>4 DEF SInv, Tale, Screen

\* However replay, catch-up, buffer and live delivery overlap, and whatever was
\* read, polled or lost: a stream carries an event once (app.ts:874-902).
THEOREM SentOnce == Spec => []SentOncePerConnection
<1>1. SInv => SentOncePerConnection
  BY DEF SInv, Written, OnceInOrder, SentOncePerConnection
<1>. QED BY InitS, NextS, <1>1, PTL DEF Spec

-----------------------------------------------------------------------------
(* Where the events on the screen come from.                               *)

\* What a stream has sent or will send, and what a poll brings, is in the log.
Source(c) == IF c.stage = "closed" THEN {} ELSE c.list \cup c.buffered \cup c.sent
FromTheLog ==
  /\ Source(conn) \subseteq stored
  /\ poll # None => poll \subseteq stored
  /\ ShowsOnlyStored

\* What a step adds to the screen was sent by the stream or brought by the poll.
LEMMA ShownWas ==
  ASSUME SInv, [Next]_vars
  PROVE  \/ Seen' = Seen
         \/ Streaming /\ Seen' \subseteq Seen \cup conn.sent
         \/ poll # None /\ Seen' \subseteq Seen \cup poll
<1>1. EventsKnown /\ Written /\ OnScreen /\ types \in Seq(EventTypes)
  BY DEF SInv, EventsKnown
<1>2. ASSUME Streaming, types' = types, NEW n \in read..Len(conn.written),
             Show(SubSeq(conn.written, read + 1, n))
      PROVE  Seen' \subseteq Seen \cup conn.sent
  <2>. DEFINE e == SubSeq(conn.written, read + 1, n)
  <2>1. Seen' = Seen \cup Range(e)
    BY <1>1, <1>2, StreamBatch, ShowRight
  <2>2. /\ conn.written \in Seq(Nat) /\ Range(conn.written) = conn.sent
        /\ read \in 0..Len(conn.written)
    BY <1>1, <1>2 DEF Written, OnceInOrder
  <2>3. Range(e) \subseteq conn.sent
    <3>1. DOMAIN e = 1..(n - read) /\ \A k \in 1..(n - read) :
            e[k] = conn.written[read + k] /\ read + k \in DOMAIN conn.written
      BY <1>2, <2>2
    <3>. HIDE DEF e
    <3>. QED BY <2>2, <3>1 DEF Range
  <2>. QED BY <2>1, <2>3
<1>3. CASE Receive
  <2>1. Streaming /\ types' = types
        /\ Show(SubSeq(conn.written, read + 1, Len(conn.written)))
    BY <1>3 DEF Receive, Streaming
  <2>2. Len(conn.written) \in read..Len(conn.written)
    BY <1>1, <2>1 DEF Written, OnceInOrder
  <2>. QED BY <1>2, <2>1, <2>2
<1>4. CASE Break
  <2>1. PICK n \in read..Len(conn.written) : Show(SubSeq(conn.written, read + 1, n))
    BY <1>4 DEF Break
  <2>2. Streaming /\ types' = types
    BY <1>4 DEF Break
  <2>. QED BY <1>2, <2>1, <2>2
<1>5. CASE Answer
  <2>1. poll # None /\ types' = types /\ Show(Sorted(poll))
    BY <1>5 DEF Answer
  <2>2. Seen' = Seen \cup Range(Sorted(poll)) /\ Range(Sorted(poll)) = poll
    BY <1>1, <2>1, PollBatch, ShowRight
  <2>. QED BY <2>1, <2>2
<1>6. CASE UNCHANGED shown
  BY <1>6 DEF Seen
<1>. QED BY <1>3, <1>4, <1>5, <1>6 DEF Next, Stamp, Store, Publish, Connect, Replay,
           CatchUp, GoLive, Finish, Ask, LosePoll, Expire, vars

\* A stream takes from the log, or from a hub to which only stored events come.
LEMMA SourceStored ==
  ASSUME SInv, FromTheLog, [Next]_vars
  PROVE  Source(conn') \subseteq stored'
<1>1. IInv /\ Source(conn) \subseteq stored
  BY DEF SInv, FromTheLog
<1>2. stored \subseteq stored'
  BY DEF Next, Stamp, Store, Publish, Connect, Replay, CatchUp, GoLive, Receive, Break,
         Finish, Ask, Answer, LosePoll, Expire, vars
<1>3. ASSUME NEW c, c = Stream(c), NEW S
      PROVE  LET w == Write(c, S)
             IN /\ w = Stream(w) /\ w.list = c.list /\ w.buffered = c.buffered
                /\ w.stage = c.stage /\ w.sent = c.sent \cup S
  <2>. DEFINE t == c.written \o Sorted(S \ c.sent)  w == Write(c, S)
  <2>1. w = [c EXCEPT !.written = t, !.sent = @ \cup S]
    BY DEF Write
  <2>. HIDE DEF t, w
  <2>2. w = [stage |-> c.stage, home |-> c.home, after |-> c.after, sent |-> c.sent \cup S,
             list |-> c.list, buffered |-> c.buffered, written |-> t]
    BY <1>3, <2>1 DEF Stream
  <2>3. w = Stream(w) /\ w.list = c.list /\ w.buffered = c.buffered
        /\ w.stage = c.stage /\ w.sent = c.sent \cup S
    BY <2>2 DEF Stream
  <2>. QED BY <2>3 DEF w
<1>4. ASSUME NEW m \in Emitters, Publish(m) PROVE Source(conn') \subseteq stored
  <2>. DEFINE n == emitting[m].event
  <2>1. n \in stored /\ (conn' = conn \/ (Subscribed /\ conn' = Hear(conn, n)))
    BY <1>1, <1>4 DEF Publish, IInv, StoredFirst
  <2>2. CASE conn' = conn
    BY <1>1, <2>2
  <2>3. CASE Subscribed /\ conn' = Hear(conn, n)
    <3>1. conn = Stream(conn) /\ conn.stage # "closed"
      BY <1>1, <2>3 DEF IInv, Shape, Subscribed, Closed
    <3>2. conn.list \subseteq stored /\ conn.buffered \subseteq stored /\ conn.sent \subseteq stored
      BY <1>1, <3>1 DEF Source
    <3>3. CASE conn.stage = "live"
      <4>1. conn' = Write(conn, {n})
        BY <2>3, <3>3 DEF Hear
      <4>2. /\ conn'.list = conn.list /\ conn'.buffered = conn.buffered
            /\ conn'.sent = conn.sent \cup {n}
        BY <1>3, <3>1, <4>1
      <4>. QED BY <2>1, <3>2, <4>2 DEF Source
    <3>4. CASE conn.stage # "live"
      <4>1. conn' = [conn EXCEPT !.buffered = @ \cup {n}]
        BY <2>3, <3>4 DEF Hear
      <4>2. /\ conn'.list = conn.list /\ conn'.buffered = conn.buffered \cup {n}
            /\ conn'.sent = conn.sent
        BY <3>1, <4>1 DEF Stream
      <4>. QED BY <2>1, <3>2, <4>2 DEF Source
    <3>. QED BY <3>3, <3>4
  <2>. QED BY <2>1, <2>2, <2>3
<1>5. ASSUME NEW g \in Gateways, Connect(g) PROVE Source(conn') \subseteq stored
  <2>1. conn'.list \subseteq stored /\ conn'.buffered = {} /\ conn'.sent = {}
    BY <1>5 DEF Connect, EventsAfter
  <2>. QED BY <2>1 DEF Source
<1>6. ASSUME conn.stage \in {"listed", "replayed", "caught"}
      PROVE  /\ conn = Stream(conn) /\ conn.list \subseteq stored
             /\ conn.buffered \subseteq stored /\ conn.sent \subseteq stored
  BY <1>1, <1>6 DEF IInv, Shape, Closed, Source
<1>7. CASE Replay
  <2>1. conn.stage = "listed" /\ conn' = [Write(conn, conn.list) EXCEPT !.stage = "replayed"]
    BY <1>7 DEF Replay
  <2>2. /\ conn'.list = conn.list /\ conn'.buffered = conn.buffered
        /\ conn'.sent = conn.sent \cup conn.list
    BY <1>3, <1>6, <2>1 DEF Stream
  <2>. QED BY <1>2, <1>6, <2>1, <2>2 DEF Source
<1>8. CASE CatchUp
  <2>1. conn.stage = "replayed"
        /\ conn' = [conn EXCEPT !.stage = "caught", !.list = EventsAfter(stored, conn.after)]
    BY <1>8 DEF CatchUp
  <2>2. /\ conn'.list = EventsAfter(stored, conn.after) /\ conn'.buffered = conn.buffered
        /\ conn'.sent = conn.sent
    BY <1>6, <2>1 DEF Stream
  <2>3. conn'.list \subseteq stored
    BY <2>2 DEF EventsAfter
  <2>. QED BY <1>2, <1>6, <2>1, <2>2, <2>3 DEF Source
<1>9. CASE GoLive
  <2>. DEFINE v == Write(conn, conn.list)  w == Write(v, conn.buffered)
  <2>1. conn.stage = "caught"
        /\ conn' = [w EXCEPT !.stage = "live", !.list = {}, !.buffered = {}]
    BY <1>9 DEF GoLive
  <2>2. v = Stream(v) /\ v.sent = conn.sent \cup conn.list
    BY <1>3, <1>6, <2>1
  <2>3. w = Stream(w) /\ w.sent = v.sent \cup conn.buffered
    <3>. HIDE DEF v
    <3>. QED BY <1>3, <2>2
  <2>. HIDE DEF v, w
  <2>4. conn'.list = {} /\ conn'.buffered = {} /\ conn'.sent = w.sent
    BY <2>1, <2>3 DEF Stream
  <2>. QED BY <1>2, <1>6, <2>1, <2>2, <2>3, <2>4 DEF Source
<1>10. CASE Break \/ Finish
  BY <1>10 DEF Break, Finish, Closed, Source
<1>11. CASE UNCHANGED conn
  BY <1>1, <1>2, <1>11
<1>. QED BY <1>2, <1>4, <1>5, <1>7, <1>8, <1>9, <1>10, <1>11
  DEF Next, Stamp, Store, Receive, Ask, Answer, LosePoll, Expire, vars

LEMMA NextFromTheLog == SInv /\ FromTheLog /\ [Next]_vars => FromTheLog'
<1>. SUFFICES ASSUME SInv, FromTheLog, [Next]_vars PROVE FromTheLog'
  OBVIOUS
<1>1. stored \subseteq stored'
  BY DEF Next, Stamp, Store, Publish, Connect, Replay, CatchUp, GoLive, Receive, Break,
         Finish, Ask, Answer, LosePoll, Expire, vars
<1>2. poll' # None => poll' \subseteq stored \/ poll' = poll
  BY DEF Next, Stamp, Store, Publish, Connect, Replay, CatchUp, GoLive, Receive, Break,
         Finish, Ask, Answer, LosePoll, Expire, vars
<1>3. Streaming => conn.sent \subseteq stored
  BY DEF FromTheLog, Source, Streaming
<1>4. Seen' \subseteq stored
  BY <1>3, ShownWas DEF FromTheLog, ShowsOnlyStored
<1>. QED BY <1>1, <1>2, <1>4, SourceStored DEF FromTheLog, ShowsOnlyStored

\* The screen shows only what is in the log, and shows the making of the session
\* first and in its order: a stream that starts late, breaks or resumes and polls
\* that overtake it bring nothing that a reload would not show (app.ts:186-190, 874-902).
THEOREM ShownIsStored == Spec => [](ShowsOnlyStored /\ BeforeFirst(shown))
<1>1. Init => FromTheLog
  BY DEF Init, FromTheLog, ShowsOnlyStored, Source, Closed, Seen, Range
<1>2. SInv /\ FromTheLog => ShowsOnlyStored /\ BeforeFirst(shown)
  BY DEF SInv, OnScreen, FromTheLog
<1>. QED BY InitS, NextS, <1>1, NextFromTheLog, <1>2, PTL DEF Spec

-----------------------------------------------------------------------------
(* What the screen says of the events it has been given.                   *)

TypesOf(s, ts) == {ts[n] : n \in Range(s)}

\* Nothing of a bond or an end before they were told, a returned bond from
\* then on, and no closed session that was not told.
ViewTells(s, ts) ==
  LET v == Replayed(s, ts)
      T == TypesOf(s, ts)
  IN /\ T \subseteq Opening =>
          v.sessionState \in {"CREATED", "POLICY_READY", "PAYMENT_READY"} /\ v.bondPhase = "NONE"
     /\ T \subseteq Opening \cup Starting =>
          /\ v.sessionState \in {"CREATED", "POLICY_READY", "PAYMENT_READY", "BONDED", "ACTIVE"}
          /\ v.bondPhase \in {"NONE", "LOCKED"}
     /\ T \cap Returns # {} => v.bondPhase = "RETURNED"
     /\ v.sessionState = "CLOSED" => "SESSION_CLOSED" \in T

\* The next event comes in its turn: what opens a session comes before what
\* starts it, and both before all else.
InTurn(s, n, ts) ==
  /\ ts[n] \in Opening => TypesOf(s, ts) \subseteq Opening
  /\ ts[n] \in Starting => TypesOf(s, ts) \subseteq Opening \cup Starting

LEMMA AppendInTurn ==
  ASSUME Tale, NEW s \in Seq(Nat), NEW n \in 1..Len(types), BeforeFirst(Append(s, n))
  PROVE  InTurn(s, n, types)
<1>. DEFINE t == Append(s, n)  L == Len(s)
<1>1. /\ L \in Nat /\ DOMAIN s = 1..L /\ Len(t) = L + 1 /\ t[L + 1] = n
      /\ \A i \in 1..L : t[i] = s[i]
  OBVIOUS
<1>2. \A i \in 1..Len(t) : (i <= B => t[i] = i) /\ (i > B => t[i] > B)
  BY DEF BeforeFirst
<1>. HIDE DEF t, L
<1>3. ASSUME types[n] \in Opening \cup Starting
      PROVE  n \in 1..B /\ \A i \in 1..L : s[i] = i /\ i \in 1..B /\ i < n
  <2>1. n <= B
    <3>. SUFFICES ASSUME n > B PROVE FALSE
      BY BeforeFacts
    <3>1. types[n] \notin Opening \cup Starting
      BY BeforeFacts DEF Tale, Story
    <3>. QED BY <1>3, <3>1
  <2>2. L + 1 <= B /\ n = L + 1
    BY <1>1, <1>2, <2>1, BeforeFacts
  <2>. QED BY <1>1, <1>2, <2>1, <2>2, BeforeFacts
<1>4. ASSUME types[n] \in Opening \cup Starting, NEW x \in TypesOf(s, types)
      PROVE  \E i \in 1..B : i < n /\ n \in 1..B /\ x = Before[i] /\ types[n] = Before[n]
  <2>1. PICK i \in 1..L : x = types[s[i]]
    BY <1>1 DEF TypesOf, Range
  <2>2. s[i] = i /\ i \in 1..B /\ i < n /\ n \in 1..B
    BY <1>3, <1>4
  <2>3. types[i] = Before[i] /\ types[n] = Before[n]
    BY <2>2 DEF Tale, Story
  <2>. QED BY <2>1, <2>2, <2>3
<1>5. \A i, j \in 1..B :
        i < j => /\ Before[j] \in Opening => Before[i] \in Opening
                 /\ Before[j] \in Starting => Before[i] \in Opening \cup Starting
  BY StoryAssumption DEF B
<1>. QED BY <1>4, <1>5 DEF InTurn

\* One more event: the view tells what it should, and its stage falls only if
\* an expiry comes after the end.
LEMMA StepTells ==
  ASSUME NEW s \in Seq(Nat), NEW n \in Nat, NEW ts, ViewTells(s, ts), InTurn(s, n, ts)
  PROVE  /\ ViewTells(Append(s, n), ts)
         /\ \/ stageFor(Replayed(Append(s, n), ts)) >= stageFor(Replayed(s, ts))
            \/ "SESSION_CLOSED" \in TypesOf(s, ts) /\ ts[n] = "RESERVATION_EXPIRED"
<1>. DEFINE v == Replayed(s, ts)
            type == ts[n]
            w == Replayed(Append(s, n), ts)
            T == TypesOf(s, ts)
            U == TypesOf(Append(s, n), ts)
<1>1. v \in Views /\ w = applyEvent(v, type)
  BY ReplayedType, ReplayedAppend
<1>2. U = T \cup {type}
  BY RangeAppend DEF TypesOf
<1>3. /\ T \subseteq Opening =>
           v.sessionState \in {"CREATED", "POLICY_READY", "PAYMENT_READY"} /\ v.bondPhase = "NONE"
      /\ T \subseteq Opening \cup Starting =>
           /\ v.sessionState \in {"CREATED", "POLICY_READY", "PAYMENT_READY", "BONDED", "ACTIVE"}
           /\ v.bondPhase \in {"NONE", "LOCKED"}
      /\ T \cap Returns # {} => v.bondPhase = "RETURNED"
      /\ v.sessionState = "CLOSED" => "SESSION_CLOSED" \in T
  BY DEF ViewTells
<1>4. /\ type \in Opening => T \subseteq Opening
      /\ type \in Starting => T \subseteq Opening \cup Starting
  BY DEF InTurn
<1>. HIDE DEF v, w, T, U, type
<1>. USE DEF Opening, Starting, Returns
<1>. DEFINE Tells ==
              /\ U \subseteq Opening =>
                   /\ w.sessionState \in {"CREATED", "POLICY_READY", "PAYMENT_READY"}
                   /\ w.bondPhase = "NONE"
              /\ U \subseteq Opening \cup Starting =>
                   /\ w.sessionState \in {"CREATED", "POLICY_READY", "PAYMENT_READY", "BONDED",
                                          "ACTIVE"}
                   /\ w.bondPhase \in {"NONE", "LOCKED"}
              /\ U \cap Returns # {} => w.bondPhase = "RETURNED"
              /\ w.sessionState = "CLOSED" => "SESSION_CLOSED" \in U
            Steps == \/ stageFor(w) >= stageFor(v)
                     \/ "SESSION_CLOSED" \in T /\ type = "RESERVATION_EXPIRED"
<1>5. CASE type \in Opening
  <2>1. /\ v.sessionState \in {"CREATED", "POLICY_READY", "PAYMENT_READY"} /\ v.bondPhase = "NONE"
        /\ T \cap Returns = {}
    BY <1>3, <1>4, <1>5
  <2>2. w = Prepare(v, type)
    BY <1>1, <1>5 DEF applyEvent
  <2>3. /\ w.sessionState \in {"CREATED", "POLICY_READY", "PAYMENT_READY"} /\ w.bondPhase = "NONE"
        /\ v.policy => w.policy
        /\ v.task => w.task
    BY <1>1, <1>5, <2>1, <2>2 DEF Prepare, Views
  <2>4. Tells
    BY <1>2, <1>5, <2>1, <2>3
  <2>5. Steps
    BY <2>1, <2>3 DEF stageFor, Over
  <2>. QED BY <2>4, <2>5 DEF ViewTells, v, w, T, U, type
<1>6. CASE type \in Starting
  <2>1. /\ v.sessionState \in {"CREATED", "POLICY_READY", "PAYMENT_READY", "BONDED", "ACTIVE"}
        /\ v.bondPhase \in {"NONE", "LOCKED"}
        /\ T \cap Returns = {}
    BY <1>3, <1>4, <1>6
  <2>2. w = IF type = "BOND_OPENED" THEN BondOpened(v) ELSE Prepare(v, type)
    BY <1>1, <1>6 DEF applyEvent
  <2>3. /\ w.sessionState \in {"BONDED", "ACTIVE"} /\ w.bondPhase \in {"NONE", "LOCKED"}
        /\ w.policy = v.policy /\ w.task = v.task
        /\ v.sessionState = "ACTIVE" => w.sessionState = "ACTIVE"
    <3>1. CASE type = "BOND_OPENED"
      BY <1>1, <2>1, <2>2, <3>1 DEF BondOpened, Views, Over
    <3>2. CASE type = "SESSION_ACTIVATED"
      BY <1>1, <2>1, <2>2, <3>2 DEF Prepare, Views
    <3>. QED BY <1>6, <3>1, <3>2
  <2>4. Tells
    BY <1>2, <1>6, <2>1, <2>3
  <2>5. Steps
    BY <2>1, <2>3 DEF stageFor, Over
  <2>. QED BY <2>4, <2>5 DEF ViewTells, v, w, T, U, type
<1>7. CASE type \in Returns
  <2>1. w = BondReturned(v)
    BY <1>1, <1>7 DEF applyEvent
  <2>2. w.bondPhase = "RETURNED" /\ w.sessionState = v.sessionState
    BY <1>1, <2>1 DEF BondReturned, Views
  <2>3. Tells
    BY <1>2, <1>3, <1>7, <2>2
  <2>4. Steps
    BY <2>2 DEF stageFor
  <2>. QED BY <2>3, <2>4 DEF ViewTells, v, w, T, U, type
<1>8. CASE type = "SESSION_CLOSED"
  <2>1. w = SessionClosed(v)
    BY <1>1, <1>8 DEF applyEvent
  <2>2. w.bondPhase = v.bondPhase /\ w.sessionState = "CLOSED"
    BY <1>1, <2>1 DEF SessionClosed, Views
  <2>3. Tells
    BY <1>2, <1>3, <1>8, <2>2
  <2>4. Steps
    BY <2>2 DEF stageFor, Over
  <2>. QED BY <2>3, <2>4 DEF ViewTells, v, w, T, U, type
<1>9. CASE type = "RESERVATION_EXPIRED"
  <2>1. w = ReservationExpired(v)
    BY <1>1, <1>9 DEF applyEvent
  <2>2. /\ w.sessionState = "EXPIRED"
        /\ w.bondPhase = IF v.bondPhase = "RETURNED" THEN "RETURNED" ELSE "SETTLING"
    BY <1>1, <2>1 DEF ReservationExpired, Views
  <2>3. Tells
    BY <1>2, <1>3, <1>9, <2>2
  <2>4. Steps
    BY <1>1, <1>3, <1>9, <2>2 DEF stageFor, Over, Views
  <2>. QED BY <2>3, <2>4 DEF ViewTells, v, w, T, U, type
<1>10. CASE type \notin Opening \cup Starting \cup Returns
                         \cup {"SESSION_CLOSED", "RESERVATION_EXPIRED"}
  <2>1. w = v \/ w = Reservation(v, type)
    BY <1>1, <1>10 DEF applyEvent
  <2>2. /\ w.sessionState = v.sessionState /\ w.bondPhase = v.bondPhase
        /\ w.task = v.task /\ w.policy = v.policy
    BY <1>1, <2>1 DEF Reservation, Views
  <2>3. Tells
    BY <1>2, <1>3, <1>10, <2>2
  <2>4. Steps
    BY <2>2 DEF stageFor
  <2>. QED BY <2>3, <2>4 DEF ViewTells, v, w, T, U, type
<1>. QED BY <1>5, <1>6, <1>7, <1>8, <1>9, <1>10

\* A screen over another one: no earlier stage, but for an expiry after the end.
Forward(s) ==
  \/ stageFor(Replayed(s, types)) >= stageFor(View)
  \/ /\ "SESSION_CLOSED" \in TypesOf(s, types)
     /\ \E n \in Range(s) \ Seen : types[n] = "RESERVATION_EXPIRED"

LEMMA AddedTells ==
  ASSUME Tale, NEW s \in Seq(Nat), NEW n \in 1..Len(types), BeforeFirst(Added(s, n)),
         Seen \subseteq Range(s), ViewTells(s, types), Forward(s)
  PROVE  /\ ViewTells(Added(s, n), types) /\ Forward(Added(s, n))
         /\ Seen \subseteq Range(Added(s, n))
<1>1. CASE n \in Range(s)
  BY <1>1 DEF Added
<1>2. CASE n \notin Range(s)
  <2>. DEFINE t == Append(s, n)
  <2>1. Added(s, n) = t
    BY <1>2 DEF Added
  <2>2. InTurn(s, n, types)
    BY <2>1, AppendInTurn
  <2>3. /\ ViewTells(t, types)
        /\ \/ stageFor(Replayed(t, types)) >= stageFor(Replayed(s, types))
           \/ "SESSION_CLOSED" \in TypesOf(s, types) /\ types[n] = "RESERVATION_EXPIRED"
    BY <2>2, StepTells
  <2>4. Range(t) = Range(s) \cup {n}
    BY RangeAppend
  <2>. HIDE DEF t
  <2>5. TypesOf(s, types) \subseteq TypesOf(t, types)
    BY <2>4 DEF TypesOf
  <2>6. \A v : stageFor(v) \in Nat
    BY DEF stageFor
  <2>7. Forward(t)
    <3>1. CASE "SESSION_CLOSED" \in TypesOf(s, types) /\ types[n] = "RESERVATION_EXPIRED"
      BY <1>2, <2>4, <2>5, <3>1 DEF Forward
    <3>2. CASE /\ "SESSION_CLOSED" \in TypesOf(s, types)
               /\ \E k \in Range(s) \ Seen : types[k] = "RESERVATION_EXPIRED"
      BY <2>4, <2>5, <3>2 DEF Forward
    <3>3. CASE /\ stageFor(Replayed(t, types)) >= stageFor(Replayed(s, types))
               /\ stageFor(Replayed(s, types)) >= stageFor(View)
      <4>. DEFINE a == stageFor(Replayed(t, types))  b == stageFor(Replayed(s, types))
                  c == stageFor(View)
      <4>1. a \in Nat /\ b \in Nat /\ c \in Nat /\ a >= b /\ b >= c
        BY <2>6, <3>3
      <4>2. a >= c
        <5>. HIDE DEF a, b, c
        <5>. QED BY <4>1
      <4>. QED BY <4>2 DEF Forward
    <3>. QED BY <2>3, <3>1, <3>2, <3>3 DEF Forward
  <2>. QED BY <2>1, <2>3, <2>4, <2>7
<1>. QED BY <1>1, <1>2

LEMMA BatchTells ==
  ASSUME Tale, OnScreen, ViewTells(shown, types), NEW events \in Seq(1..Len(types)),
         InOrder(Seen, events), Show(events), types' = types
  PROVE  ViewTells(shown', types) /\ Forward(shown')
<1>. DEFINE N == Len(events)
<1>1. /\ events \in Seq(Nat \ {0}) /\ N \in Nat /\ shown \in Seq(Nat)
      /\ \A k \in 1..N : events[k] \in 1..Len(types)
  <2>1. shown \in Seq(Nat)
    BY DEF OnScreen
  <2>2. events \in Seq(Nat \ {0}) /\ N \in Nat /\ \A k \in 1..N : events[k] \in 1..Len(types)
    OBVIOUS
  <2>. QED BY <2>1, <2>2
<1>2. PICK f \in [0..N -> Seq(Nat)] : Batch(f, shown, events) /\ shown' = f[N]
  BY <1>1, BatchExists DEF Show
<1>3. \A k \in 0..N : BeforeFirst(f[k])
  BY <1>1, <1>2, BatchInOrder DEF OnScreen, Seen
<1>. DEFINE T == {s \in Seq(Nat) : Seen \subseteq Range(s) /\ ViewTells(s, types) /\ Forward(s)}
<1>4. f[0] \in T
  <2>1. f[0] = shown
    BY <1>2 DEF Batch
  <2>2. stageFor(View) \in Nat
    BY DEF stageFor
  <2>3. Forward(shown)
    <3>. HIDE DEF T, N
    <3>1. View = Replayed(shown, types)
      BY DEF View
    <3>. QED BY <2>2, <3>1 DEF Forward
  <2>. QED BY <1>1, <2>1, <2>3 DEF Seen
<1>5. ASSUME NEW k \in 1..N, f[k - 1] \in T PROVE f[k] \in T
  <2>1. f[k] = Added(f[k - 1], events[k]) /\ k \in 0..N /\ events[k] \in 1..Len(types)
    BY <1>1, <1>2 DEF Batch
  <2>2. f[k] \in Seq(Nat) /\ BeforeFirst(f[k])
    BY <1>2, <1>3, <2>1
  <2>3. ViewTells(f[k], types) /\ Forward(f[k]) /\ Seen \subseteq Range(f[k])
    BY <1>5, <2>1, <2>2, AddedTells
  <2>. QED BY <2>2, <2>3
<1>6. f[N] \in T
  <2>1. Stays(f, T, N)
    BY <1>4, <1>5 DEF Stays
  <2>. HIDE DEF T, N
  <2>2. \A k \in 0..N : f[k] \in T
    BY <1>1, <2>1, Staying
  <2>. QED BY <1>1, <2>2
<1>. QED BY <1>2, <1>6

\* Every step shows nothing, or a batch.
LEMMA StepShows ==
  ASSUME SInv, [Next]_vars
  PROVE  \/ UNCHANGED shown
         \/ types' = types /\ \E events \in Seq(1..Len(types)) :
              InOrder(Seen, events) /\ Show(events)
<1>1. Tale /\ Screen /\ EventsKnown /\ Written /\ OnScreen
  BY DEF SInv, Tale, Screen
<1>2. CASE Receive
  <2>1. Streaming /\ types' = types
        /\ Show(SubSeq(conn.written, read + 1, Len(conn.written)))
    BY <1>2 DEF Receive, Streaming
  <2>2. Len(conn.written) \in read..Len(conn.written)
    BY <1>1, <2>1 DEF Written, OnceInOrder
  <2>. QED BY <1>1, <2>1, <2>2, StreamBatch
<1>3. CASE Break
  <2>1. PICK n \in read..Len(conn.written) : Show(SubSeq(conn.written, read + 1, n))
    BY <1>3 DEF Break
  <2>2. Streaming /\ types' = types
    BY <1>3 DEF Break
  <2>. QED BY <1>1, <2>1, <2>2, StreamBatch
<1>4. CASE Answer
  <2>1. poll # None /\ types' = types /\ Show(Sorted(poll))
    BY <1>4 DEF Answer
  <2>. QED BY <1>1, <2>1, PollBatch
<1>. QED BY <1>2, <1>3, <1>4 DEF Next, Stamp, Store, Publish, Connect, Replay, CatchUp,
           GoLive, Finish, Ask, LosePoll, Expire, vars

\* Stamping changes nothing of the view.
LEMMA SameView ==
  ASSUME SInv, [Next]_vars, UNCHANGED shown
  PROVE  View' = View /\ TypesOf(shown, types') = TypesOf(shown, types)
<1>1. shown \in Seq(Nat) /\ Range(shown) \subseteq 1..Len(types) /\ types \in Seq(EventTypes)
  BY DEF SInv, OnScreen, Seen, EventsKnown
<1>2. \A n \in 1..Len(types) : types'[n] = types[n]
  <2>1. CASE types' = types
    BY <2>1
  <2>2. ASSUME NEW m \in Emitters, Stamp(m)
        PROVE  \A n \in 1..Len(types) : types'[n] = types[n]
    <3>. DEFINE type == script[m][Len(script[m]) + 1 - emitting[m].left]
    <3>1. types' = Append(types, type)
      BY <2>2 DEF Stamp
    <3>. HIDE DEF type
    <3>. QED BY <1>1, <3>1
  <2>. QED BY <2>1, <2>2 DEF Next, Store, Publish, Connect, Replay, CatchUp, GoLive,
             Receive, Break, Finish, Ask, Answer, LosePoll, Expire, vars
<1>3. \A k \in 1..Len(shown) : types'[shown[k]] = types[shown[k]]
  <2>1. \A k \in 1..Len(shown) : shown[k] \in Range(shown)
    BY <1>1 DEF Range
  <2>. QED BY <1>1, <1>2, <2>1
<1>4. Replayed(shown, types') = Replayed(shown, types)
  BY <1>1, <1>3, ReplayedSame
<1>5. TypesOf(shown, types') = TypesOf(shown, types)
  BY <1>1, <1>2 DEF TypesOf
<1>. QED BY <1>4, <1>5 DEF View

Told == ViewTells(shown, types)

LEMMA InitTold == Init => Told
<1>. SUFFICES ASSUME Init PROVE Told
  OBVIOUS
<1>1. shown = <<>>
  BY DEF Init
<1>2. Replayed(shown, types) = emptyView
  BY <1>1, ReplayedNothing
<1>3. TypesOf(shown, types) = {}
  BY <1>1 DEF TypesOf, Range
<1>. QED BY <1>2, <1>3 DEF Told, ViewTells, emptyView

LEMMA NextTold == SInv /\ Told /\ [Next]_vars => Told'
<1>. SUFFICES ASSUME SInv, Told, [Next]_vars PROVE Told'
  OBVIOUS
<1>1. CASE UNCHANGED shown
  <2>1. View' = View /\ TypesOf(shown, types') = TypesOf(shown, types)
    BY <1>1, SameView
  <2>2. Replayed(shown, types') = Replayed(shown, types)
    BY <1>1, <2>1 DEF View
  <2>3. ViewTells(shown, types')
    BY <2>1, <2>2 DEF Told, ViewTells
  <2>. QED BY <1>1, <2>3 DEF Told
<1>2. CASE ~UNCHANGED shown
  <2>1. types' = types /\ \E events \in Seq(1..Len(types)) :
              InOrder(Seen, events) /\ Show(events)
    BY <1>2, StepShows
  <2>2. ViewTells(shown', types)
    BY <2>1, BatchTells DEF SInv, Tale, Told
  <2>. QED BY <2>1, <2>2 DEF Told
<1>. QED BY <1>1, <1>2

\* Once all of a closed session is on the screen, it shows the end and a bond
\* that was returned, in whatever order stream, polls and reconnects brought the
\* events (reducer.ts:290-383, BShopExperience.tsx:82-88).
THEOREM EndIsOnScreen == Spec => []EndIsShown
<1>1. SInv /\ Told => EndIsShown
  <2>. SUFFICES ASSUME SInv, Told, CaughtUp, Shows("SESSION_CLOSED")
                PROVE  stageFor(View) = 5 /\ View.bondPhase = "RETURNED"
    BY DEF EndIsShown
  <2>1. PICK n \in Seen : types[n] = "SESSION_CLOSED"
    BY DEF Shows
  <2>2. ReturnStored
    BY <2>1 DEF SInv, OnScreen, ClosedAfterReturn
  <2>3. PICK r \in stored : types[r] \in Returns
    BY <2>2 DEF ReturnStored
  <2>4. r \in Seen
    BY DEF CaughtUp
  <2>5. types[r] \in TypesOf(shown, types) \cap Returns
    BY <2>3, <2>4 DEF TypesOf, Seen
  <2>6. View.bondPhase = "RETURNED"
    BY <2>5 DEF Told, ViewTells, View
  <2>. QED BY <2>6 DEF stageFor
<1>. QED BY InitS, NextS, InitTold, NextTold, <1>1, PTL DEF Spec

\* The screen never goes back to an earlier stage, for any scripts, reconnects
\* and polls, but for an expiry that comes after the end of the session.
THEOREM ForwardOnly == Spec => ScreenGoesForward
<1>1. SInv /\ Told /\ [Next]_vars =>
        [Seen' # Seen =>
           \/ stageFor(View') >= stageFor(View)
           \/ Shows("SESSION_CLOSED")'
                /\ \E n \in Range(shown') \ Seen : types[n] = "RESERVATION_EXPIRED"]_shown
  <2>. SUFFICES ASSUME SInv, Told, [Next]_vars, ~UNCHANGED shown
                PROVE  \/ stageFor(View') >= stageFor(View)
                       \/ Shows("SESSION_CLOSED")'
                            /\ \E n \in Range(shown') \ Seen : types[n] = "RESERVATION_EXPIRED"
    OBVIOUS
  <2>1. types' = types /\ \E events \in Seq(1..Len(types)) :
              InOrder(Seen, events) /\ Show(events)
    BY StepShows
  <2>2. Forward(shown')
    BY <2>1, BatchTells DEF SInv, Tale, Told
  <2>3. View' = Replayed(shown', types)
    BY <2>1 DEF View
  <2>4. "SESSION_CLOSED" \in TypesOf(shown', types) => Shows("SESSION_CLOSED")'
    BY <2>1 DEF TypesOf, Shows, Seen
  <2>. QED BY <2>2, <2>3, <2>4 DEF Forward
<1>. QED BY InitS, NextS, InitTold, NextTold, <1>1, PTL DEF Spec, ScreenGoesForward

-----------------------------------------------------------------------------
\* The reducer: after the bond was returned no event but a new BOND_OPENED
\* shows anything else, whatever comes late (reducer.ts:290-375).
THEOREM ReturnedStays ==
  ASSUME NEW v \in [sessionState : STRING, bondPhase : STRING, reservation : STRING,
                    task : BOOLEAN, policy : BOOLEAN],
         NEW type \in STRING,
         v.bondPhase = "RETURNED", type # "BOND_OPENED"
  PROVE  applyEvent(v, type).bondPhase = "RETURNED"
BY DEF applyEvent, Prepare, BondOpened, Reservation, ReservationExpired,
       BondReturned, SessionClosed
=============================================================================
