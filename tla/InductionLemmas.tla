-------------------------- MODULE InductionLemmas --------------------------
(***************************************************************************)
(* Induction over the naturals as facts about sets: what the other proofs  *)
(* need of the recursive functions of the models, and of sums over finite  *)
(* sets.  The statements have no operator as a parameter, and rest on the  *)
(* well-foundedness of < on Nat.                                           *)
(***************************************************************************)
EXTENDS Integers, FiniteSetsExt, WellFoundedInduction, FiniteSetTheorems, TLAPS

(* A set of naturals that is not empty has a least element.                *)
LEMMA LeastNatural ==
  ASSUME NEW T \in SUBSET Nat, T # {}
  PROVE  \E x \in T : \A y \in T : x <= y
<1> DEFINE R == OpToRel(<, Nat)
<1>1. IsWellFoundedOn(R, Nat)
  BY NatLessThanWellFounded
<1> HIDE DEF R
<1>2. PICK x \in T : \A y \in T : ~ (<<y, x>> \in R)
  BY <1>1, WFMin
<1>3. \A y \in T : ~ (y < x)
  BY <1>2 DEF R, OpToRel
<1> QED
  BY <1>3

(* A set that holds 0 and every successor of its naturals holds them all.  *)
LEMMA SetInduction ==
  ASSUME NEW S, 0 \in S, \A n \in Nat : n \in S => n + 1 \in S
  PROVE  Nat \subseteq S
<1> SUFFICES ASSUME Nat \ S # {} PROVE FALSE
  OBVIOUS
<1>1. PICK x \in Nat \ S : \A y \in Nat \ S : x <= y
  BY LeastNatural
<1>2. x # 0 /\ x - 1 \in Nat
  BY <1>1
<1>3. x - 1 \in S
  BY <1>1, <1>2
<1> QED
  BY <1>1, <1>2, <1>3

(* Two functions that agree at 0, and at n whenever they do before, agree. *)
Tracks(f, g, N) == f[0] = g[0] /\ \A n \in 1..N : f[n - 1] = g[n - 1] => f[n] = g[n]

LEMMA Agreement ==
  ASSUME NEW N \in Nat, NEW f, NEW g, Tracks(f, g, N)
  PROVE  \A n \in 0..N : f[n] = g[n]
<1> DEFINE S == {n \in Nat : n <= N => f[n] = g[n]}
<1> USE DEF Tracks
<1>1. 0 \in S
  OBVIOUS
<1>2. ASSUME NEW n \in Nat, n \in S PROVE n + 1 \in S
  <2> SUFFICES ASSUME n + 1 <= N PROVE f[n + 1] = g[n + 1]
    OBVIOUS
  <2>1. n + 1 \in 1..N /\ (n + 1) - 1 = n
    OBVIOUS
  <2>2. f[n] = g[n]
    BY <1>2
  <2> QED
    BY <2>1, <2>2
<1> HIDE DEF S
<1>3. Nat \subseteq S
  BY <1>1, <1>2, SetInduction
<1> QED
  BY <1>3 DEF S

(* What holds at 0, and at n whenever it does before, holds up to N.       *)
Stays(f, T, N) == f[0] \in T /\ \A n \in 1..N : f[n - 1] \in T => f[n] \in T

LEMMA Staying ==
  ASSUME NEW N \in Nat, NEW f, NEW T, Stays(f, T, N)
  PROVE  \A n \in 0..N : f[n] \in T
<1> DEFINE S == {n \in Nat : n <= N => f[n] \in T}
<1> USE DEF Stays
<1>1. 0 \in S
  OBVIOUS
<1>2. ASSUME NEW n \in Nat, n \in S PROVE n + 1 \in S
  <2> SUFFICES ASSUME n + 1 <= N PROVE f[n + 1] \in T
    OBVIOUS
  <2>1. n + 1 \in 1..N /\ (n + 1) - 1 = n
    OBVIOUS
  <2> QED
    BY <1>2, <2>1
<1> HIDE DEF S
<1>3. Nat \subseteq S
  BY <1>1, <1>2, SetInduction
<1> QED
  BY <1>3 DEF S

(* A function on 0..N can be defined by its value at 0 and a step.         *)
Follows(f, N, base, step) == f[0] = base /\ \A n \in 1..N : f[n] = step[n][f[n - 1]]

LEMMA Recursion ==
  ASSUME NEW N \in Nat, NEW V, NEW base \in V, NEW step \in [1..N -> [V -> V]]
  PROVE  \E f \in [0..N -> V] : Follows(f, N, base, step)
<1> DEFINE Upto(n, f) == f[0] = base /\ \A k \in 1..n : f[k] = step[k][f[k - 1]]
           S == {n \in Nat : n <= N => \E f \in [0..n -> V] : Upto(n, f)}
<1>1. 0 \in S
  <2> DEFINE f == [k \in 0..0 |-> base]
  <2>1. f \in [0..0 -> V] /\ Upto(0, f)
    OBVIOUS
  <2> QED
    BY <2>1
<1>2. ASSUME NEW n \in Nat, n \in S PROVE n + 1 \in S
  <2> SUFFICES ASSUME n + 1 <= N PROVE \E f \in [0..(n + 1) -> V] : Upto(n + 1, f)
    OBVIOUS
  <2>1. PICK f \in [0..n -> V] : Upto(n, f)
    BY <1>2
  <2> DEFINE h == [k \in 0..(n + 1) |-> IF k = n + 1 THEN step[n + 1][f[n]] ELSE f[k]]
  <2>2. step[n + 1][f[n]] \in V
    BY <2>1
  <2>3. h \in [0..(n + 1) -> V]
    BY <2>1, <2>2
  <2>4. Upto(n + 1, h)
    BY <2>1
  <2> HIDE DEF h
  <2> QED
    BY <2>3, <2>4
<1>3. N \in S
  BY <1>1, <1>2, SetInduction
<1> QED
  BY <1>3 DEF Follows

-----------------------------------------------------------------------------
(* Sums over finite sets.                                                  *)

SumOf(f, S) == MapThenSumSet(LAMBDA x : f[x], S)

\* g[s] is the sum of f over s, for s of at most k elements.
Adds(f, S, g, k) ==
  \A s \in SUBSET S : Cardinality(s) <= k =>
    g[s] = IF s = {} THEN 0
           ELSE LET x == CHOOSE x \in s : TRUE IN f[x] + g[s \ {x}]

Solves(f, S, g) == g \in [SUBSET S -> Nat] /\ \A k \in Nat : Adds(f, S, g, k)

(* Removing the element that the sum takes next leaves one element fewer.  *)
LEMMA TakeOne ==
  ASSUME NEW S, IsFiniteSet(S), NEW s \in SUBSET S, NEW x \in s
  PROVE  /\ s \ {x} \in SUBSET S
         /\ Cardinality(s) \in Nat /\ Cardinality(s \ {x}) \in Nat
         /\ Cardinality(s \ {x}) = Cardinality(s) - 1
         /\ IsFiniteSet(s)
<1>1. IsFiniteSet(s)
  BY FS_Subset
<1>2. IsFiniteSet(s \ {x}) /\ Cardinality(s \ {x}) = Cardinality(s) - 1
  BY <1>1, FS_RemoveElement
<1> QED
  BY <1>1, <1>2, FS_CardinalityType

(* The recursion of a sum of naturals has a solution on a finite set.      *)
LEMMA SumExists ==
  ASSUME NEW S, IsFiniteSet(S), NEW f \in [S -> Nat]
  PROVE  \E g : Solves(f, S, g)
<1> DEFINE T == {k \in Nat : \E g \in [SUBSET S -> Nat] : Adds(f, S, g, k)}
<1>1. 0 \in T
  <2> DEFINE g == [s \in SUBSET S |-> 0]
  <2>1. ASSUME NEW s \in SUBSET S, Cardinality(s) <= 0 PROVE s = {}
    BY <2>1, FS_Subset, FS_CardinalityType, FS_EmptySet
  <2>2. Adds(f, S, g, 0)
    BY <2>1 DEF Adds
  <2> QED
    BY <2>2
<1>2. ASSUME NEW k \in Nat, k \in T PROVE k + 1 \in T
  <2>1. PICK g \in [SUBSET S -> Nat] : Adds(f, S, g, k)
    BY <1>2
  <2> DEFINE next(s) == CHOOSE x \in s : TRUE
             h == [s \in SUBSET S |-> IF s = {} THEN 0 ELSE f[next(s)] + g[s \ {next(s)}]]
  <2>2. ASSUME NEW s \in SUBSET S, s # {} PROVE next(s) \in s
    BY <2>2
  <2> HIDE DEF next
  <2>3. h \in [SUBSET S -> Nat]
    BY <2>2
  <2>4. ASSUME NEW s \in SUBSET S, Cardinality(s) <= k PROVE h[s] = g[s]
    BY <2>1, <2>4 DEF Adds, next
  <2>5. ASSUME NEW s \in SUBSET S, Cardinality(s) <= k + 1, s # {}
        PROVE  h[s] = f[next(s)] + h[s \ {next(s)}]
    <3>1. next(s) \in s
      BY <2>2, <2>5
    <3>2. s \ {next(s)} \in SUBSET S /\ Cardinality(s \ {next(s)}) <= k
      BY <2>5, <3>1, TakeOne
    <3>3. h[s \ {next(s)}] = g[s \ {next(s)}]
      BY <2>4, <3>2
    <3> QED
      BY <2>5, <3>3
  <2>6. h[{}] = 0
    OBVIOUS
  <2> HIDE DEF h
  <2>7. Adds(f, S, h, k + 1)
    BY <2>5, <2>6 DEF Adds, next
  <2> QED
    BY <2>3, <2>7
<1>3. Cardinality(S) \in T
  <2> HIDE DEF T
  <2> QED
    BY <1>1, <1>2, SetInduction, FS_CardinalityType
<1>4. PICK g \in [SUBSET S -> Nat] : Adds(f, S, g, Cardinality(S))
  BY <1>3
<1>5. ASSUME NEW s \in SUBSET S PROVE Cardinality(s) <= Cardinality(S)
  BY FS_Subset
<1>6. \A k \in Nat : Adds(f, S, g, k)
  BY <1>4, <1>5 DEF Adds
<1> QED
  BY <1>6 DEF Solves

(* SumOf is that solution.                                                 *)
LEMMA SumIs ==
  ASSUME NEW S, IsFiniteSet(S), NEW f \in [S -> Nat]
  PROVE  \E g : g[S] = SumOf(f, S) /\ Solves(f, S, g)
<1> DEFINE iter == CHOOSE g : g = [s \in SUBSET S |->
                     IF s = {} THEN 0
                     ELSE LET x == CHOOSE x \in s : TRUE IN f[x] + g[s \ {x}]]
<1>1. \E g : g = [s \in SUBSET S |->
                     IF s = {} THEN 0
                     ELSE LET x == CHOOSE x \in s : TRUE IN f[x] + g[s \ {x}]]
  <2>1. PICK g : Solves(f, S, g)
    BY SumExists
  <2>2. ASSUME NEW s \in SUBSET S
        PROVE  g[s] = IF s = {} THEN 0
                      ELSE LET x == CHOOSE x \in s : TRUE IN f[x] + g[s \ {x}]
    <3>1. Cardinality(s) \in Nat
      BY FS_Subset, FS_CardinalityType
    <3> QED
      BY <2>1, <3>1 DEF Adds, Solves
  <2>3. g = [s \in SUBSET S |-> g[s]]
    BY <2>1 DEF Solves
  <2>4. [s \in SUBSET S |-> g[s]] =
          [s \in SUBSET S |->
             IF s = {} THEN 0 ELSE LET x == CHOOSE x \in s : TRUE IN f[x] + g[s \ {x}]]
    BY <2>2, Zenon
  <2>5. g = [s \in SUBSET S |->
               IF s = {} THEN 0 ELSE LET x == CHOOSE x \in s : TRUE IN f[x] + g[s \ {x}]]
    BY <2>3, <2>4, Zenon
  <2> QED
    BY <2>5, Zenon
<1>2. iter = [s \in SUBSET S |->
                     IF s = {} THEN 0
                     ELSE LET x == CHOOSE x \in s : TRUE IN f[x] + iter[s \ {x}]]
  BY <1>1, Zenon
<1>3. SumOf(f, S) = iter[S]
  BY Zenon DEF SumOf, MapThenSumSet, MapThenFoldSet
<1> HIDE DEF iter
<1>4. ASSUME NEW s \in SUBSET S
      PROVE  iter[s] = IF s = {} THEN 0
                       ELSE LET x == CHOOSE x \in s : TRUE IN f[x] + iter[s \ {x}]
  BY <1>2
<1> DEFINE T == {k \in Nat : \A s \in SUBSET S : Cardinality(s) = k => iter[s] \in Nat}
<1>5. 0 \in T
  <2>1. ASSUME NEW s \in SUBSET S, Cardinality(s) = 0 PROVE iter[s] \in Nat
    <3>1. s = {}
      BY <2>1, FS_Subset, FS_EmptySet
    <3>2. iter[s] = 0
      BY <1>4, <3>1, Zenon
    <3> QED
      BY <3>2
  <2> QED
    BY <2>1
<1>6. ASSUME NEW k \in Nat, k \in T PROVE k + 1 \in T
  <2>1. ASSUME NEW s \in SUBSET S, Cardinality(s) = k + 1 PROVE iter[s] \in Nat
    <3>1. CASE s = {}
      BY <1>4, <3>1
    <3>2. CASE s # {}
      <4>1. PICK x \in s : iter[s] = f[x] + iter[s \ {x}]
        BY <1>4, <3>2
      <4>2. s \ {x} \in SUBSET S /\ Cardinality(s \ {x}) = k
        BY <2>1, <4>1, TakeOne
      <4>3. iter[s \ {x}] \in Nat
        BY <1>6, <4>2
      <4> QED
        BY <4>1, <4>3
    <3> QED
      BY <3>1, <3>2
  <2> QED
    BY <2>1
<1>7. ASSUME NEW s \in SUBSET S PROVE iter[s] \in Nat
  <2> HIDE DEF T
  <2>1. Cardinality(s) \in T
    BY <1>5, <1>6, SetInduction, FS_Subset, FS_CardinalityType
  <2> QED
    BY <2>1 DEF T
<1>8. iter \in [SUBSET S -> Nat]
  BY <1>2, <1>7
<1>9. \A k \in Nat : Adds(f, S, iter, k)
  BY <1>4 DEF Adds
<1> QED
  BY <1>3, <1>8, <1>9 DEF Solves

(* In such a sum any element can be taken first.                           *)
Takes(f, S, g) == g[{}] = 0 /\ \A s \in SUBSET S : \A a \in s : g[s] = f[a] + g[s \ {a}]

LEMMA SumTakes ==
  ASSUME NEW S, IsFiniteSet(S), NEW f \in [S -> Nat], NEW g, Solves(f, S, g)
  PROVE  Takes(f, S, g)
<1>1. ASSUME NEW s \in SUBSET S
      PROVE  g[s] = IF s = {} THEN 0
                    ELSE LET x == CHOOSE x \in s : TRUE IN f[x] + g[s \ {x}]
  <2>1. Cardinality(s) \in Nat
    BY FS_Subset, FS_CardinalityType
  <2> QED
    BY <2>1 DEF Adds, Solves
<1> DEFINE T == {k \in Nat : \A s \in SUBSET S : Cardinality(s) = k =>
                   \A a \in s : g[s] = f[a] + g[s \ {a}]}
<1>2. 0 \in T
  <2>1. ASSUME NEW s \in SUBSET S, Cardinality(s) = 0 PROVE s = {}
    BY <2>1, FS_Subset, FS_EmptySet
  <2> QED
    BY <2>1
<1>3. ASSUME NEW k \in Nat, k \in T PROVE k + 1 \in T
  <2>1. ASSUME NEW s \in SUBSET S, Cardinality(s) = k + 1, NEW a \in s
        PROVE  g[s] = f[a] + g[s \ {a}]
    <3>1. PICK x \in s : g[s] = f[x] + g[s \ {x}]
      BY <1>1
    <3>2. CASE x = a
      BY <3>1, <3>2
    <3>3. CASE x # a
      <4>1. /\ s \ {x} \in SUBSET S /\ Cardinality(s \ {x}) = k /\ a \in s \ {x}
            /\ s \ {a} \in SUBSET S /\ Cardinality(s \ {a}) = k /\ x \in s \ {a}
        BY <2>1, <3>1, <3>3, TakeOne
      <4>2. g[s \ {x}] = f[a] + g[(s \ {x}) \ {a}]
        BY <1>3, <4>1
      <4>3. g[s \ {a}] = f[x] + g[(s \ {a}) \ {x}]
        BY <1>3, <4>1
      <4>4. (s \ {x}) \ {a} = (s \ {a}) \ {x} /\ (s \ {x}) \ {a} \in SUBSET S
        OBVIOUS
      <4>5. f[a] \in Nat /\ f[x] \in Nat /\ g[(s \ {x}) \ {a}] \in Nat
        BY <4>4 DEF Solves
      <4>6. g[(s \ {a}) \ {x}] = g[(s \ {x}) \ {a}]
        BY <4>4
      <4> DEFINE rest == g[(s \ {x}) \ {a}]
      <4>7. g[s] = f[x] + (f[a] + rest) /\ g[s \ {a}] = f[x] + rest
        BY <3>1, <4>2, <4>3, <4>6
      <4> HIDE DEF rest
      <4> QED
        BY <4>5, <4>7 DEF rest
    <3> QED
      BY <3>2, <3>3
  <2> QED
    BY <2>1
<1>4. ASSUME NEW s \in SUBSET S, NEW a \in s PROVE g[s] = f[a] + g[s \ {a}]
  <2> HIDE DEF T
  <2>1. Cardinality(s) \in T
    BY <1>2, <1>3, SetInduction, FS_Subset, FS_CardinalityType
  <2> QED
    BY <2>1 DEF T
<1> QED
  BY <1>1, <1>4 DEF Takes

(* Two sums of functions that agree on a set are the same on it.           *)
LEMMA SumsAgree ==
  ASSUME NEW S, IsFiniteSet(S), NEW f \in [S -> Nat], NEW h \in [S -> Nat],
         NEW g, NEW e, Solves(f, S, g), Solves(h, S, e),
         NEW A \in SUBSET S, \A x \in A : f[x] = h[x]
  PROVE  g[A] = e[A]
<1>0. Takes(f, S, g) /\ Takes(h, S, e)
  BY SumTakes
<1>1. /\ g[{}] = 0 /\ e[{}] = 0
      /\ \A s \in SUBSET S : \A a \in s : g[s] = f[a] + g[s \ {a}] /\ e[s] = h[a] + e[s \ {a}]
  BY <1>0 DEF Takes
<1> DEFINE T == {k \in Nat : \A s \in SUBSET A : Cardinality(s) = k => g[s] = e[s]}
<1>2. 0 \in T
  <2>1. ASSUME NEW s \in SUBSET A, Cardinality(s) = 0 PROVE s = {}
    BY <2>1, FS_Subset, FS_EmptySet
  <2> QED
    BY <1>1, <2>1
<1>3. ASSUME NEW k \in Nat, k \in T PROVE k + 1 \in T
  <2>1. ASSUME NEW s \in SUBSET A, Cardinality(s) = k + 1 PROVE g[s] = e[s]
    <3>1. s # {}
      BY <2>1, FS_EmptySet
    <3>2. PICK x \in s : TRUE
      BY <3>1
    <3>3. s \in SUBSET S /\ s \ {x} \in SUBSET A /\ Cardinality(s \ {x}) = k
      BY <2>1, <3>2, TakeOne
    <3>4. g[s \ {x}] = e[s \ {x}]
      BY <1>3, <3>3
    <3>5. f[x] = h[x]
      BY <3>2
    <3>6. g[s] = f[x] + g[s \ {x}] /\ e[s] = h[x] + e[s \ {x}]
      BY <1>1, <3>2, <3>3
    <3> QED
      BY <3>4, <3>5, <3>6
  <2> QED
    BY <2>1
<1>4. Cardinality(A) \in T
  <2> HIDE DEF T
  <2> QED
    BY <1>2, <1>3, SetInduction, FS_Subset, FS_CardinalityType
<1> QED
  BY <1>4

(* A sum of naturals is a natural, and no term of it is larger.            *)
LEMMA SumBounds ==
  ASSUME NEW S, IsFiniteSet(S), NEW f \in [S -> Nat]
  PROVE  SumOf(f, S) \in Nat /\ \A a \in S : f[a] <= SumOf(f, S)
<1>1. PICK g : g[S] = SumOf(f, S) /\ Solves(f, S, g)
  BY SumIs
<1>2. g[{}] = 0 /\ \A s \in SUBSET S : \A a \in s : g[s] = f[a] + g[s \ {a}]
  <2>1. Takes(f, S, g)
    BY <1>1, SumTakes
  <2> QED
    BY <2>1 DEF Takes
<1>3. g \in [SUBSET S -> Nat]
  BY <1>1 DEF Solves
<1>4. ASSUME NEW a \in S PROVE f[a] <= g[S]
  <2>1. g[S] = f[a] + g[S \ {a}]
    BY <1>2
  <2>2. g[S \ {a}] \in Nat /\ f[a] \in Nat
    BY <1>3
  <2> QED
    BY <2>1, <2>2
<1>5. g[S] \in Nat
  BY <1>3
<1> QED
  BY <1>1, <1>4, <1>5

(* Changing one term changes the sum by as much.                           *)
Changes(f, h, S, a) ==
  f \in [S -> Nat] /\ h \in [S -> Nat] /\ a \in S /\ \A x \in S \ {a} : f[x] = h[x]

LEMMA SumChange ==
  ASSUME NEW S, IsFiniteSet(S), NEW f, NEW h, NEW a, Changes(f, h, S, a)
  PROVE  SumOf(h, S) + f[a] = SumOf(f, S) + h[a]
<1>0. f \in [S -> Nat] /\ h \in [S -> Nat] /\ a \in S /\ \A x \in S \ {a} : f[x] = h[x]
  BY DEF Changes
<1>1. PICK g : g[S] = SumOf(f, S) /\ Solves(f, S, g)
  BY <1>0, SumIs
<1>2. PICK e : e[S] = SumOf(h, S) /\ Solves(h, S, e)
  BY <1>0, SumIs
<1>3. g[S \ {a}] = e[S \ {a}] /\ g[S \ {a}] \in Nat
  BY <1>0, <1>1, <1>2, SumsAgree DEF Solves
<1>4. g[S] = f[a] + g[S \ {a}]
  <2>1. Takes(f, S, g)
    BY <1>0, <1>1, SumTakes
  <2> QED
    BY <1>0, <2>1 DEF Takes
<1>5. e[S] = h[a] + e[S \ {a}]
  <2>1. Takes(h, S, e)
    BY <1>0, <1>2, SumTakes
  <2> QED
    BY <1>0, <2>1 DEF Takes
<1>6. f[a] \in Nat /\ h[a] \in Nat
  BY <1>0
<1> QED
  BY <1>1, <1>2, <1>3, <1>4, <1>5, <1>6
=============================================================================
