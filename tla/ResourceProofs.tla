--------------------------- MODULE ResourceProofs ---------------------------
(***************************************************************************)
(* Proofs about Resource, for any number of threads, kinds, units, claims  *)
(* and input files, and for both builds.                                   *)
(*                                                                         *)
(* The first part is about Banker alone, for any tables: what `bankers'    *)
(* answers is the textbook definition of a safe state.  Both the loop of   *)
(* `bankers' and an order of the threads are compared with a third form,   *)
(* Enough, that speaks of sets of threads only.                            *)
(***************************************************************************)
EXTENDS Resource, FiniteSetTheorems, SequenceTheorems, TLAPS

-----------------------------------------------------------------------------
(* Induction over the naturals, and functions defined by it.               *)

\* Every set of naturals has a least element.
LEMMA LeastElement ==
  ASSUME NEW T, T \subseteq Nat, T # {}
  PROVE  \E n \in T : \A k \in T : n <= k
<1>1. PICK R : IsWellFoundedOn(R, Nat) /\ \A i, j \in Nat : i < j => <<i, j>> \in R
  <2>1. \A i, j \in Nat : i < j => <<i, j>> \in OpToRel(<, Nat)
    BY DEF OpToRel
  <2>2. QED
    BY <2>1, NatLessThanWellFounded, Zenon
<1>2. IsWellFoundedOn(R, Nat)
  BY <1>1
<1>3. PICK n \in T : \A k \in T : ~(<<k, n>> \in R)
  BY <1>2, WFMin, Zenon
<1>4. ASSUME NEW k \in T PROVE n <= k
  <2>1. ~(k < n)
    BY <1>1, <1>3
  <2>2. QED
    BY <2>1
<1>5. QED
  BY <1>4

\* A set that has 0 and, below n, the successor of each of its members has
\* all the numbers up to n.
LEMMA InductionUpTo ==
  ASSUME NEW n \in Nat, NEW S, 0 \in S, \A k \in 0 .. n - 1 : k \in S => k + 1 \in S
  PROVE  0 .. n \subseteq S
<1> DEFINE T == (0 .. n) \ S
<1>1. SUFFICES ASSUME T # {} PROVE FALSE
  OBVIOUS
<1>2. PICK m \in T : \A k \in T : m <= k
  <2>1. T \subseteq Nat
    OBVIOUS
  <2> HIDE DEF T
  <2>2. QED
    BY <1>1, <2>1, LeastElement
<1>3. m - 1 \in 0 .. n - 1 /\ m - 1 \in S
  BY <1>2
<1>4. (m - 1) + 1 \in S
  BY <1>3
<1>5. QED
  BY <1>2, <1>4

\* Steps G[1], ..., G[n] taken one after another from x0.
LEMMA Iterates ==
  ASSUME NEW X, NEW x0 \in X, NEW n \in Nat, NEW G \in [1 .. n -> [X -> X]]
  PROVE  \E f \in [0 .. n -> X] : f[0] = x0 /\ \A j \in 1 .. n : f[j] = G[j][f[j - 1]]
<1> DEFINE Goes(f, k) == f \in [0 .. k -> X] /\ f[0] = x0
                         /\ \A j \in 1 .. k : f[j] = G[j][f[j - 1]]
           S == {k \in 0 .. n : \E f : Goes(f, k)}
<1>1. 0 \in S
  <2>1. Goes([j \in 0 .. 0 |-> x0], 0)
    OBVIOUS
  <2> HIDE DEF Goes
  <2>2. QED
    BY <2>1
<1>2. ASSUME NEW k \in 0 .. n - 1, k \in S PROVE k + 1 \in S
  <2>1. PICK f : Goes(f, k)
    BY <1>2
  <2> DEFINE g == [j \in 0 .. k + 1 |-> IF j = k + 1 THEN G[k + 1][f[k]] ELSE f[j]]
  <2>2. G[k + 1][f[k]] \in X
    BY <2>1
  <2>3. g \in [0 .. k + 1 -> X]
    BY <2>1, <2>2
  <2>4. ASSUME NEW j \in 1 .. k + 1 PROVE g[j] = G[j][g[j - 1]]
    <3>1. CASE j = k + 1
      BY <3>1
    <3>2. CASE j \in 1 .. k
      BY <2>1, <3>2
    <3>3. QED
      BY <3>1, <3>2
  <2>5. g[0] = x0
    BY <2>1
  <2> HIDE DEF g
  <2>6. Goes(g, k + 1)
    BY <2>3, <2>4, <2>5
  <2>7. QED
    BY <2>6
<1> HIDE DEF S
<1>3. 0 .. n \subseteq S
  BY <1>1, <1>2, InductionUpTo
<1>4. QED
  BY <1>3 DEF S

-----------------------------------------------------------------------------
(* What a set of threads holds together.                                   *)

\* Entry i counts the threads below i that are in F.
Counted(given, F) ==
  LET sum[i \in 0 .. N] ==
        IF i = 0 THEN Nothing
        ELSE IF i - 1 \in F THEN Plus(sum[i - 1], given[i - 1]) ELSE sum[i - 1]
  IN  sum

HeldBy(given, F) == Counted(given, F)[N]

\* Vectors.
LEMMA Vectors ==
  /\ Nothing \in Vector /\ \A k \in Kinds : Nothing[k] = 0
  /\ \A a, b \in Vector :
       /\ Plus(a, b) \in Vector /\ Minus(a, b) \in Vector
       /\ \A k \in Kinds : Plus(a, b)[k] = a[k] + b[k] /\ Minus(a, b)[k] = a[k] - b[k]
       /\ (\A k \in Kinds : a[k] = b[k]) => a = b
BY DEF Nothing, Vector, Plus, Minus

LEMMA VectorIterates ==
  ASSUME NEW v \in Vector, NEW n \in Nat, NEW G \in [1 .. n -> [Vector -> Vector]]
  PROVE  \E f \in [0 .. n -> Vector] : f[0] = v /\ \A j \in 1 .. n : f[j] = G[j][f[j - 1]]
BY Iterates

LEMMA CountedDef ==
  ASSUME NEW given \in [Threads -> Vector], NEW F
  PROVE  /\ Counted(given, F) \in [0 .. N -> Vector]
         /\ Counted(given, F)[0] = Nothing
         /\ \A t \in Threads :
              Counted(given, F)[t + 1] = IF t \in F THEN Plus(Counted(given, F)[t], given[t])
                                                    ELSE Counted(given, F)[t]
<1> DEFINE G == [i \in 1 .. N |-> [v \in Vector |->
                   IF i - 1 \in F THEN Plus(v, given[i - 1]) ELSE v]]
           Def(f) == [i \in 0 .. N |->
                        IF i = 0 THEN Nothing
                        ELSE IF i - 1 \in F THEN Plus(f[i - 1], given[i - 1]) ELSE f[i - 1]]
<1>1. N \in Nat /\ Nothing \in Vector
  BY NMAssumption, Vectors
<1>2. \A i \in 1 .. N : i - 1 \in Threads /\ given[i - 1] \in Vector
  BY <1>1 DEF Threads
<1>3. G \in [1 .. N -> [Vector -> Vector]]
  BY <1>2, Vectors
<1>4. PICK f \in [0 .. N -> Vector] :
        f[0] = Nothing /\ \A j \in 1 .. N : f[j] = G[j][f[j - 1]]
  <2> HIDE DEF G
  <2>1. QED
    BY <1>1, <1>3, VectorIterates
<1>5. f = Def(f)
  <2>1. \A j \in 1 .. N : f[j - 1] \in Vector
    BY <1>1, <1>4
  <2>2. \A j \in 1 .. N : f[j] = IF j - 1 \in F THEN Plus(f[j - 1], given[j - 1]) ELSE f[j - 1]
    BY <1>4, <2>1
  <2>3. QED
    BY <1>1, <1>4, <2>2
<1> HIDE DEF G
<1>6. Counted(given, F) = Def(Counted(given, F))
  <2>1. Counted(given, F) = CHOOSE g : g = Def(g)
    BY DEF Counted
  <2> HIDE DEF Def
  <2>2. QED
    BY <1>5, <2>1
<1> DEFINE c == Counted(given, F)
<1>7. c[0] = Nothing
  BY <1>1, <1>6
<1>8. ASSUME NEW i \in 1 .. N
      PROVE  c[i] = IF i - 1 \in F THEN Plus(c[i - 1], given[i - 1]) ELSE c[i - 1]
  BY <1>1, <1>6
<1>9. c \in [0 .. N -> Vector]
  <2> DEFINE S == {i \in 0 .. N : c[i] \in Vector}
  <2> HIDE DEF c
  <2>1. 0 \in S
    BY <1>1, <1>7
  <2>2. ASSUME NEW i \in 0 .. N - 1, i \in S PROVE i + 1 \in S
    <3>1. i + 1 \in 1 .. N /\ (i + 1) - 1 = i /\ i + 1 \in 0 .. N /\ c[i] \in Vector
      BY <1>1, <2>2
    <3>2. c[i + 1] = IF i \in F THEN Plus(c[i], given[i]) ELSE c[i]
      BY <1>8, <3>1
    <3>3. i \in F => Plus(c[i], given[i]) \in Vector
      BY <1>1, <1>2, <3>1, Vectors
    <3>. QED BY <3>1, <3>2, <3>3
  <2>3. 0 .. N \subseteq S
    <3> HIDE DEF S
    <3>1. QED
      BY <1>1, <2>1, <2>2, InductionUpTo
  <2>4. c = [i \in 0 .. N |-> c[i]]
    BY <1>6 DEF c
  <2>5. QED
    BY <2>3, <2>4
<1>10. QED
  BY <1>7, <1>8, <1>9, <1>1 DEF Threads

LEMMA HeldByIsVector ==
  ASSUME NEW given \in [Threads -> Vector], NEW F
  PROVE  HeldBy(given, F) \in Vector
BY CountedDef, NMAssumption DEF HeldBy

\* It depends on the threads of the set, and on what they hold, only.
LEMMA HeldBySame ==
  ASSUME NEW a \in [Threads -> Vector], NEW b \in [Threads -> Vector], NEW F, NEW G,
         \A t \in Threads : t \in F <=> t \in G,
         \A t \in Threads : t \in F => a[t] = b[t]
  PROVE  HeldBy(a, F) = HeldBy(b, G)
<1> DEFINE x == Counted(a, F)
           y == Counted(b, G)
           S == {i \in 0 .. N : x[i] = y[i]}
<1>1. /\ x[0] = Nothing
      /\ \A t \in Threads : x[t + 1] = IF t \in F THEN Plus(x[t], a[t]) ELSE x[t]
  BY CountedDef
<1>2. /\ y[0] = Nothing
      /\ \A t \in Threads : y[t + 1] = IF t \in G THEN Plus(y[t], b[t]) ELSE y[t]
  BY CountedDef
<1> HIDE DEF x, y
<1>3. N \in Nat /\ 0 \in S
  BY <1>1, <1>2, NMAssumption
<1>4. ASSUME NEW i \in 0 .. N - 1, i \in S PROVE i + 1 \in S
  <2>1. i \in Threads /\ x[i] = y[i]
    BY <1>3, <1>4 DEF Threads
  <2>2. x[i + 1] = y[i + 1]
    <3>1. CASE i \in F
      <4>1. a[i] = b[i] /\ i \in G
        BY <2>1, <3>1
      <4>2. QED
        BY <1>1, <1>2, <2>1, <3>1, <4>1
    <3>2. CASE i \notin F
      <4>1. i \notin G
        BY <2>1, <3>2
      <4>2. QED
        BY <1>1, <1>2, <2>1, <3>2, <4>1
    <3>3. QED
      BY <3>1, <3>2
  <2>3. QED
    BY <1>3, <2>2
<1>5. 0 .. N \subseteq S
  <2> HIDE DEF S
  <2>1. QED
    BY <1>3, <1>4, InductionUpTo
<1>6. QED
  BY <1>3, <1>5 DEF HeldBy, x, y

\* One thread more.
LEMMA HeldByAdd ==
  ASSUME NEW given \in [Threads -> Vector], NEW F, NEW t \in Threads, t \notin F
  PROVE  HeldBy(given, F \cup {t}) = Plus(HeldBy(given, F), given[t])
<1> DEFINE x == Counted(given, F)
           y == Counted(given, F \cup {t})
           S == {i \in 0 .. N : y[i] = IF t < i THEN Plus(x[i], given[t]) ELSE x[i]}
<1>1. /\ x \in [0 .. N -> Vector] /\ x[0] = Nothing
      /\ \A u \in Threads : x[u + 1] = IF u \in F THEN Plus(x[u], given[u]) ELSE x[u]
  BY CountedDef
<1>2. /\ y \in [0 .. N -> Vector] /\ y[0] = Nothing
      /\ \A u \in Threads :
           y[u + 1] = IF u \in F \cup {t} THEN Plus(y[u], given[u]) ELSE y[u]
  BY CountedDef
<1> HIDE DEF x, y
<1>3. N \in Nat /\ 0 \in S /\ t \in Int /\ 0 <= t /\ t < N
  BY <1>1, <1>2, NMAssumption DEF Threads
<1>4. ASSUME NEW i \in 0 .. N - 1, i \in S PROVE i + 1 \in S
  <2>1. i \in Threads /\ x[i] \in Vector /\ given[i] \in Vector /\ given[t] \in Vector
    BY <1>1, <1>3 DEF Threads
  <2>2. Plus(Plus(x[i], given[t]), given[i]) = Plus(Plus(x[i], given[i]), given[t])
    BY <2>1 DEF Plus, Vector
  <2>3. CASE i = t
    <3>1. y[i + 1] = Plus(y[i], given[t]) /\ x[i + 1] = x[i] /\ y[i] = x[i] /\ t < i + 1
      BY <1>1, <1>2, <1>3, <1>4, <2>1, <2>3
    <3>2. QED
      BY <1>3, <3>1
  <2>4. CASE i < t
    <3>1. y[i] = x[i] /\ ~(t < i + 1)
      BY <1>3, <1>4, <2>4
    <3>2. y[i + 1] = x[i + 1]
      BY <1>1, <1>2, <1>3, <2>1, <2>4, <3>1
    <3>3. QED
      BY <1>3, <3>1, <3>2
  <2>5. CASE t < i
    <3>1. y[i] = Plus(x[i], given[t]) /\ t < i + 1
      BY <1>3, <1>4, <2>5
    <3>2. y[i + 1] = Plus(x[i + 1], given[t])
      BY <1>1, <1>2, <1>3, <2>1, <2>2, <2>5, <3>1
    <3>3. QED
      BY <1>3, <3>1, <3>2
  <2>6. QED
    BY <1>3, <2>3, <2>4, <2>5
<1>5. 0 .. N \subseteq S
  <2> HIDE DEF S
  <2>1. QED
    BY <1>3, <1>4, InductionUpTo
<1>6. QED
  BY <1>3, <1>5 DEF HeldBy, x, y

\* No thread holds less than nothing.
NonNegative(given) == \A t \in Threads, k \in Kinds : given[t][k] >= 0

\* More threads hold no less.
LEMMA HeldByMonotone ==
  ASSUME NEW given \in [Threads -> Vector], NonNegative(given), NEW F, NEW G, F \subseteq G
  PROVE  Fits(HeldBy(given, F), HeldBy(given, G))
<1> DEFINE x == Counted(given, F)
           y == Counted(given, G)
           S == {i \in 0 .. N : Fits(x[i], y[i])}
<1>1. /\ x \in [0 .. N -> Vector] /\ x[0] = Nothing
      /\ \A u \in Threads : x[u + 1] = IF u \in F THEN Plus(x[u], given[u]) ELSE x[u]
  BY CountedDef
<1>2. /\ y \in [0 .. N -> Vector] /\ y[0] = Nothing
      /\ \A u \in Threads : y[u + 1] = IF u \in G THEN Plus(y[u], given[u]) ELSE y[u]
  BY CountedDef
<1> HIDE DEF x, y
<1>3. N \in Nat /\ 0 \in S
  BY <1>1, <1>2, NMAssumption, Vectors DEF Fits
<1>4. ASSUME NEW i \in 0 .. N - 1, i \in S PROVE i + 1 \in S
  <2>1. i \in Threads /\ x[i] \in Vector /\ y[i] \in Vector /\ given[i] \in Vector
    BY <1>1, <1>2, <1>3 DEF Threads
  <2>2. \A k \in Kinds : x[i][k] <= y[i][k] /\ given[i][k] >= 0
    BY <1>4, <2>1 DEF Fits, NonNegative
  <2>3. /\ Fits(Plus(x[i], given[i]), Plus(y[i], given[i]))
        /\ Fits(x[i], Plus(y[i], given[i])) /\ Fits(x[i], y[i])
    BY <2>1, <2>2 DEF Fits, Plus, Vector
  <2>4. Fits(x[i + 1], y[i + 1])
    BY <1>1, <1>2, <2>1, <2>3
  <2>5. QED
    BY <1>3, <2>4
<1>5. 0 .. N \subseteq S
  <2> HIDE DEF S
  <2>1. QED
    BY <1>3, <1>4, InductionUpTo
<1>6. QED
  BY <1>3, <1>5 DEF HeldBy, x, y

\* No threads at all.
LEMMA HeldByNone ==
  ASSUME NEW given \in [Threads -> Vector]
  PROVE  HeldBy(given, {}) = Nothing
<1> DEFINE x == Counted(given, {})
           S == {i \in 0 .. N : x[i] = Nothing}
<1>1. x[0] = Nothing /\ \A u \in Threads : x[u + 1] = x[u]
  BY CountedDef
<1> HIDE DEF x
<1>2. N \in Nat /\ 0 \in S
  BY <1>1, NMAssumption
<1>3. ASSUME NEW i \in 0 .. N - 1, i \in S PROVE i + 1 \in S
  BY <1>1, <1>2, <1>3 DEF Threads
<1>4. 0 .. N \subseteq S
  <2> HIDE DEF S
  <2>1. QED
    BY <1>2, <1>3, InductionUpTo
<1>5. QED
  BY <1>2, <1>4 DEF HeldBy, x

-----------------------------------------------------------------------------
(* What the loop of `bankers' finds.                                       *)

\* The threads outside any set of alive threads leave enough for one of it.
Enough(spare, need, has, alive) ==
  \A S \in SUBSET alive : S # {} =>
    \E t \in S : Fits(need[t], Plus(spare, HeldBy(has, alive \ S)))

State == [finish : SUBSET Threads, work : Vector]

\* The loop has come to state s: work is what is available and what the alive
\* threads that are finished gave back, and each finished at a moment when
\* its need fitted.
Reached(s, spare, need, has, alive) ==
  /\ s \in State
  /\ s.work = Plus(spare, HeldBy(has, s.finish \cap alive))
  /\ Threads \ alive \subseteq s.finish
  /\ \A S \in SUBSET alive : S \cap s.finish # {} =>
       \E t \in S : Fits(need[t], Plus(spare, HeldBy(has, alive \ S)))

\* s2 is s or a later state.
NotBefore(s, s2) == s.finish \subseteq s2.finish /\ Fits(s.work, s2.work)

LEMMA FitsOrder ==
  ASSUME NEW a \in Vector, NEW b \in Vector, NEW c \in Vector
  PROVE  /\ Fits(a, a)
         /\ Fits(a, b) /\ Fits(b, c) => Fits(a, c)
         /\ Fits(a, b) => Fits(Plus(c, a), Plus(c, b))
         /\ (\A k \in Kinds : b[k] >= 0) => Fits(a, Plus(a, b))
BY DEF Fits, Plus, Vector

LEMMA LookKeeps ==
  ASSUME NEW spare \in Vector, NEW need \in [Threads -> Vector],
         NEW has \in [Threads -> Vector], NonNegative(has), NEW alive \in SUBSET Threads,
         NEW s, Reached(s, spare, need, has, alive), NEW i \in Threads
  PROVE  LET s2 == Look(s, i, need, has)
         IN  /\ Reached(s2, spare, need, has, alive)
             /\ NotBefore(s, s2)
             /\ Fits(need[i], s.work) => i \in s2.finish
<1> DEFINE s2 == Look(s, i, need, has)
<1>0. /\ s \in State /\ s.finish \subseteq Threads /\ s.work \in Vector
      /\ s.work = Plus(spare, HeldBy(has, s.finish \cap alive))
      /\ Threads \ alive \subseteq s.finish
      /\ has[i] \in Vector /\ need[i] \in Vector
  BY DEF Reached, State
<1>1. CASE ~(i \notin s.finish /\ Fits(need[i], s.work))
  <2>1. s2 = s
    BY <1>1 DEF Look
  <2>2. NotBefore(s, s)
    BY <1>0, FitsOrder DEF NotBefore
  <2>3. QED
    BY <1>1, <2>1, <2>2
<1>2. CASE i \notin s.finish /\ Fits(need[i], s.work)
  <2>1. s2 = [finish |-> s.finish \cup {i}, work |-> Plus(s.work, has[i])]
    BY <1>2 DEF Look
  <2>2. s2 \in State /\ s2.finish = s.finish \cup {i} /\ s2.work = Plus(s.work, has[i])
    BY <1>0, <2>1, Vectors DEF State
  <2> HIDE DEF s2
  <2>3. i \in alive /\ s2.finish \cap alive = (s.finish \cap alive) \cup {i}
        /\ i \notin s.finish \cap alive
    BY <1>0, <1>2, <2>2
  <2>4. HeldBy(has, s2.finish \cap alive) = Plus(HeldBy(has, s.finish \cap alive), has[i])
    BY <2>3, HeldByAdd
  <2>5. HeldBy(has, s.finish \cap alive) \in Vector
    BY HeldByIsVector
  <2>6. s2.work = Plus(spare, HeldBy(has, s2.finish \cap alive))
    <3>1. \A v \in Vector : Plus(Plus(spare, v), has[i]) = Plus(spare, Plus(v, has[i]))
      BY <1>0 DEF Plus, Vector
    <3>2. QED
      BY <1>0, <2>2, <2>4, <2>5, <3>1
  <2>7. NotBefore(s, s2)
    <3>1. \A k \in Kinds : has[i][k] >= 0
      BY DEF NonNegative
    <3>2. Fits(s.work, Plus(s.work, has[i]))
      BY <1>0, <3>1, FitsOrder
    <3>3. QED
      BY <2>2, <3>2 DEF NotBefore
  <2>8. ASSUME NEW S \in SUBSET alive, S \cap s2.finish # {}
        PROVE  \E t \in S : Fits(need[t], Plus(spare, HeldBy(has, alive \ S)))
    <3>1. CASE S \cap s.finish # {}
      BY <3>1 DEF Reached
    <3>2. CASE S \cap s.finish = {}
      <4>1. i \in S /\ s.finish \cap alive \subseteq alive \ S
        BY <2>2, <2>8, <3>2
      <4>2. Fits(HeldBy(has, s.finish \cap alive), HeldBy(has, alive \ S))
        BY <4>1, HeldByMonotone
      <4>3. HeldBy(has, alive \ S) \in Vector
        BY HeldByIsVector
      <4>4. Fits(s.work, Plus(spare, HeldBy(has, alive \ S)))
        BY <1>0, <2>5, <4>2, <4>3, FitsOrder
      <4>5. Plus(spare, HeldBy(has, alive \ S)) \in Vector
        BY <4>3, Vectors
      <4>6. Fits(need[i], Plus(spare, HeldBy(has, alive \ S)))
        BY <1>0, <1>2, <4>4, <4>5, FitsOrder
      <4>7. QED
        BY <4>1, <4>6
    <3>3. QED
      BY <3>1, <3>2
  <2>9. Reached(s2, spare, need, has, alive)
    BY <1>0, <2>2, <2>6, <2>8 DEF Reached
  <2>10. QED
    BY <2>2, <2>7, <2>9 DEF s2
<1>3. QED
  BY <1>1, <1>2

LEMMA StateIterates ==
  ASSUME NEW s \in State, NEW n \in Nat, NEW G \in [1 .. n -> [State -> State]]
  PROVE  \E f \in [0 .. n -> State] : f[0] = s /\ \A j \in 1 .. n : f[j] = G[j][f[j - 1]]
BY Iterates

LEMMA LookIsState ==
  ASSUME NEW s \in State, NEW i \in Threads, NEW need, NEW has \in [Threads -> Vector]
  PROVE  Look(s, i, need, has) \in State
<1>1. Plus(s.work, has[i]) \in Vector /\ s.finish \cup {i} \in SUBSET Threads
  BY Vectors DEF State
<1>2. QED
  BY <1>1 DEF Look, State

\* A pass looks at each thread in turn.
LEMMA PassDef ==
  ASSUME NEW s \in State, NEW need, NEW has \in [Threads -> Vector]
  PROVE  \E look : /\ look[0] = s /\ Pass(s, need, has) = look[N]
                  /\ \A i \in Threads : look[i + 1] = Look(look[i], i, need, has)
<1> DEFINE G == [i \in 1 .. N |-> [x \in State |-> Look(x, i - 1, need, has)]]
           Def(f) == [i \in 0 .. N |->
                        IF i = 0 THEN s ELSE Look(f[i - 1], i - 1, need, has)]
           look == CHOOSE g : g = Def(g)
<1>1. N \in Nat /\ \A i \in 1 .. N : i - 1 \in Threads
  BY NMAssumption DEF Threads
<1>2. G \in [1 .. N -> [State -> State]]
  BY <1>1, LookIsState
<1>3. PICK f \in [0 .. N -> State] :
        f[0] = s /\ \A j \in 1 .. N : f[j] = G[j][f[j - 1]]
  <2> HIDE DEF G
  <2>1. QED
    BY <1>1, <1>2, StateIterates
<1>4. f = Def(f)
  <2>1. \A j \in 1 .. N : f[j - 1] \in State
    BY <1>1, <1>3
  <2>2. \A j \in 1 .. N : f[j] = Look(f[j - 1], j - 1, need, has)
    BY <1>3, <2>1
  <2>3. QED
    BY <1>1, <1>3, <2>2
<1>5. look = Def(look)
  <2> HIDE DEF Def
  <2>1. QED
    BY <1>4
<1>6. Pass(s, need, has) = look[N]
  BY DEF Pass
<1> HIDE DEF look
<1>7. look[0] = s /\ \A i \in 1 .. N : look[i] = Look(look[i - 1], i - 1, need, has)
  BY <1>1, <1>5
<1>8. \A i \in Threads : look[i + 1] = Look(look[i], i, need, has)
  <2>1. \A i \in Threads : i + 1 \in 1 .. N /\ (i + 1) - 1 = i
    BY <1>1 DEF Threads
  <2>2. QED
    BY <1>7, <2>1
<1>9. QED
  BY <1>6, <1>7, <1>8

LEMMA PassKeeps ==
  ASSUME NEW spare \in Vector, NEW need \in [Threads -> Vector],
         NEW has \in [Threads -> Vector], NonNegative(has), NEW alive \in SUBSET Threads,
         NEW s, Reached(s, spare, need, has, alive)
  PROVE  LET s2 == Pass(s, need, has)
         IN  /\ Reached(s2, spare, need, has, alive)
             /\ NotBefore(s, s2)
             /\ \A i \in Threads : Fits(need[i], s.work) => i \in s2.finish
<1>0. s \in State /\ s.work \in Vector
  BY DEF Reached, State
<1>1. PICK look : /\ look[0] = s /\ Pass(s, need, has) = look[N]
                  /\ \A i \in Threads : look[i + 1] = Look(look[i], i, need, has)
  BY <1>0, PassDef
<1> DEFINE Good(i) == /\ Reached(look[i], spare, need, has, alive)
                      /\ NotBefore(s, look[i])
                      /\ \A j \in 0 .. i - 1 : Fits(need[j], s.work) => j \in look[i].finish
           S == {i \in 0 .. N : Good(i)}
<1>2. N \in Nat /\ 0 \in S
  <2>1. NotBefore(s, s)
    BY <1>0, FitsOrder DEF NotBefore
  <2>2. QED
    BY <1>1, <2>1, NMAssumption
<1>3. ASSUME NEW i \in 0 .. N - 1, i \in S PROVE i + 1 \in S
  <2>1. i \in Threads /\ i + 1 \in 0 .. N
    BY <1>2 DEF Threads
  <2>2. Reached(look[i], spare, need, has, alive) /\ NotBefore(s, look[i])
    BY <1>3
  <2>3. /\ Reached(look[i + 1], spare, need, has, alive)
        /\ NotBefore(look[i], look[i + 1])
        /\ Fits(need[i], look[i].work) => i \in look[i + 1].finish
    BY <1>1, <2>1, <2>2, LookKeeps
  <2>4. look[i].work \in Vector /\ look[i + 1].work \in Vector
    BY <2>2, <2>3 DEF Reached, State
  <2>5. NotBefore(s, look[i + 1])
    BY <1>0, <2>2, <2>3, <2>4, FitsOrder DEF NotBefore
  <2>6. ASSUME NEW j \in 0 .. (i + 1) - 1, Fits(need[j], s.work)
        PROVE  j \in look[i + 1].finish
    <3>1. CASE j = i
      <4>1. Fits(need[i], look[i].work)
        BY <1>0, <2>1, <2>2, <2>4, <2>6, <3>1, FitsOrder DEF NotBefore
      <4>2. QED
        BY <2>3, <3>1, <4>1
    <3>2. CASE j # i
      <4>1. j \in 0 .. i - 1
        BY <3>2
      <4>2. j \in look[i].finish
        BY <1>3, <2>6, <4>1
      <4>3. QED
        BY <2>3, <4>2 DEF NotBefore
    <3>3. QED
      BY <3>1, <3>2
  <2>7. Good(i + 1)
    BY <2>3, <2>5, <2>6
  <2>8. QED
    BY <2>1, <2>7
<1>4. 0 .. N \subseteq S
  <2> HIDE DEF S
  <2>1. QED
    BY <1>2, <1>3, InductionUpTo
<1>5. Good(N)
  BY <1>2, <1>4
<1>6. QED
  BY <1>1, <1>5 DEF Threads

\* Nothing that a look could change is left.
Closed(s, need) == \A i \in Threads : Fits(need[i], s.work) => i \in s.finish

LEMMA PassIsState ==
  ASSUME NEW s \in State, NEW need, NEW has \in [Threads -> Vector]
  PROVE  /\ Pass(s, need, has) \in State
         /\ Closed(s, need) => Pass(s, need, has) = s
<1>1. PICK look : /\ look[0] = s /\ Pass(s, need, has) = look[N]
                  /\ \A i \in Threads : look[i + 1] = Look(look[i], i, need, has)
  BY PassDef
<1> DEFINE S == {i \in 0 .. N : look[i] \in State /\ (Closed(s, need) => look[i] = s)}
<1>2. N \in Nat /\ 0 \in S
  BY <1>1, NMAssumption
<1>3. ASSUME NEW i \in 0 .. N - 1, i \in S PROVE i + 1 \in S
  <2>1. i \in Threads /\ i + 1 \in 0 .. N
    BY <1>2 DEF Threads
  <2>2. look[i + 1] \in State
    BY <1>1, <1>3, <2>1, LookIsState
  <2>3. ASSUME Closed(s, need) PROVE look[i + 1] = s
    <3>1. look[i] = s /\ (Fits(need[i], s.work) => i \in s.finish)
      BY <1>3, <2>1, <2>3 DEF Closed
    <3>2. QED
      BY <1>1, <2>1, <3>1 DEF Look
  <2>4. QED
    BY <2>1, <2>2, <2>3
<1>4. 0 .. N \subseteq S
  <2> HIDE DEF S
  <2>1. QED
    BY <1>2, <1>3, InductionUpTo
<1>5. QED
  BY <1>1, <1>2, <1>4

\* The loop is N passes.
LEMMA FinishedDef ==
  ASSUME NEW spare \in Vector, NEW need, NEW has \in [Threads -> Vector],
         NEW alive \in SUBSET Threads
  PROVE  \E after : /\ after[0] = [finish |-> Threads \ alive, work |-> spare]
                   /\ Finished(spare, need, has, alive) = after[N].finish
                   /\ \A p \in 0 .. N - 1 : after[p + 1] = Pass(after[p], need, has)
<1> DEFINE start == [finish |-> Threads \ alive, work |-> spare]
           G == [p \in 1 .. N |-> [x \in State |-> Pass(x, need, has)]]
           Def(f) == [p \in 0 .. N |-> IF p = 0 THEN start ELSE Pass(f[p - 1], need, has)]
           after == CHOOSE g : g = Def(g)
<1>1. N \in Nat /\ start \in State
  BY NMAssumption DEF State
<1>2. G \in [1 .. N -> [State -> State]]
  BY PassIsState
<1>3. Finished(spare, need, has, alive) = after[N].finish
  BY DEF Finished
<1> HIDE DEF start
<1>4. PICK f \in [0 .. N -> State] :
        f[0] = start /\ \A j \in 1 .. N : f[j] = G[j][f[j - 1]]
  <2> HIDE DEF G
  <2>1. QED
    BY <1>1, <1>2, StateIterates
<1>5. f = Def(f)
  <2>1. \A j \in 1 .. N : f[j - 1] \in State
    BY <1>1, <1>4
  <2>2. \A j \in 1 .. N : f[j] = Pass(f[j - 1], need, has)
    BY <1>4, <2>1
  <2>3. QED
    BY <1>1, <1>4, <2>2
<1>6. after = Def(after)
  <2> HIDE DEF Def
  <2>1. QED
    BY <1>5
<1> HIDE DEF after
<1>7. after[0] = start /\ \A p \in 1 .. N : after[p] = Pass(after[p - 1], need, has)
  BY <1>1, <1>6
<1>8. \A p \in 0 .. N - 1 : after[p + 1] = Pass(after[p], need, has)
  <2>1. \A p \in 0 .. N - 1 : p + 1 \in 1 .. N /\ (p + 1) - 1 = p
    BY <1>1
  <2>2. QED
    BY <1>7, <2>1
<1>9. QED
  BY <1>3, <1>7, <1>8 DEF start

\* When the loop stops no look could change anything, and its state is one it
\* has come to by looks.
LEMMA LoopStops ==
  ASSUME NEW spare \in Vector, NEW need \in [Threads -> Vector],
         NEW has \in [Threads -> Vector], NonNegative(has), NEW alive \in SUBSET Threads
  PROVE  \E s : /\ s.finish = Finished(spare, need, has, alive)
               /\ Reached(s, spare, need, has, alive)
               /\ Closed(s, need)
<1>1. PICK after : /\ after[0] = [finish |-> Threads \ alive, work |-> spare]
                   /\ Finished(spare, need, has, alive) = after[N].finish
                   /\ \A p \in 0 .. N - 1 : after[p + 1] = Pass(after[p], need, has)
  BY FinishedDef
<1>2. N \in Nat /\ IsFiniteSet(Threads) /\ Cardinality(Threads) = N
  BY NMAssumption, FS_Interval DEF Threads
<1> DEFINE R(s) == Reached(s, spare, need, has, alive)
           S == {p \in 0 .. N : /\ R(after[p])
                                /\ \/ Closed(after[p], need)
                                   \/ Cardinality(after[p].finish) >= p}
<1>3. ASSUME NEW s, R(s)
      PROVE  /\ s \in State /\ s.finish \subseteq Threads /\ IsFiniteSet(s.finish)
             /\ Cardinality(s.finish) \in Nat /\ Cardinality(s.finish) <= N
             /\ Cardinality(s.finish) = N => s.finish = Threads
  <2>1. s \in State /\ s.finish \subseteq Threads
    BY <1>3 DEF Reached, State
  <2>2. QED
    BY <1>2, <2>1, FS_Subset, FS_CardinalityType
<1>4. 0 \in S
  <2> DEFINE s == after[0]
  <2>1. s.finish = Threads \ alive /\ s.work = spare /\ s \in State
    BY <1>1 DEF State
  <2>2. s.finish \cap alive = {}
    BY <2>1
  <2>3. HeldBy(has, s.finish \cap alive) = Nothing
    BY <2>2, HeldByNone
  <2>4. Plus(spare, Nothing) = spare
    BY DEF Plus, Nothing, Vector
  <2>5. s.work = Plus(spare, HeldBy(has, s.finish \cap alive))
    BY <2>1, <2>3, <2>4
  <2>6. R(s)
    BY <2>1, <2>2, <2>5 DEF Reached
  <2>7. Cardinality(s.finish) >= 0
    BY <1>3, <2>6
  <2>8. QED
    BY <1>2, <2>6, <2>7
<1>5. ASSUME NEW p \in 0 .. N - 1, p \in S PROVE p + 1 \in S
  <2> DEFINE s == after[p]
             s2 == after[p + 1]
  <2>1. /\ s2 = Pass(s, need, has) /\ R(s)
        /\ Closed(s, need) \/ Cardinality(s.finish) >= p
    BY <1>1, <1>5
  <2> HIDE DEF s, s2
  <2>2. /\ R(s2) /\ NotBefore(s, s2)
        /\ \A i \in Threads : Fits(need[i], s.work) => i \in s2.finish
    BY <2>1, PassKeeps
  <2>3. CASE Closed(s, need)
    <3>1. s2 = s
      BY <1>3, <2>1, <2>3, PassIsState
    <3>2. QED
      BY <1>2, <2>2, <2>3, <3>1 DEF s2
  <2>4. CASE ~Closed(s, need)
    <3>1. PICK i \in Threads : i \notin s.finish /\ i \in s2.finish
      BY <2>2, <2>4 DEF Closed
    <3>2. Cardinality(s.finish) < Cardinality(s2.finish)
      <4>1. s.finish \subseteq s2.finish /\ s.finish # s2.finish
        BY <2>2, <3>1 DEF NotBefore
      <4>2. IsFiniteSet(s2.finish)
        BY <1>3, <2>2
      <4>3. /\ Cardinality(s.finish) <= Cardinality(s2.finish)
            /\ Cardinality(s.finish) # Cardinality(s2.finish)
        BY <4>1, <4>2, FS_Subset
      <4>4. Cardinality(s.finish) \in Nat /\ Cardinality(s2.finish) \in Nat
        BY <1>3, <2>1, <2>2
      <4>5. QED
        BY <4>3, <4>4
    <3>3. Cardinality(s.finish) \in Nat /\ Cardinality(s2.finish) \in Nat
      BY <1>3, <2>1, <2>2
    <3>4. Cardinality(s2.finish) >= p + 1
      BY <2>1, <2>4, <3>2, <3>3
    <3>5. QED
      BY <1>2, <2>2, <3>4 DEF s2
  <2>5. QED
    BY <2>3, <2>4
<1>6. 0 .. N \subseteq S
  <2> HIDE DEF S
  <2>1. QED
    BY <1>2, <1>4, <1>5, InductionUpTo
<1>7. R(after[N]) /\ Closed(after[N], need)
  <2>1. R(after[N]) /\ (Closed(after[N], need) \/ Cardinality(after[N].finish) >= N)
    BY <1>2, <1>6
  <2>2. CASE Cardinality(after[N].finish) >= N
    <3>1. after[N].finish = Threads
      BY <1>2, <1>3, <2>1, <2>2
    <3>2. QED
      BY <2>1, <3>1 DEF Closed
  <2>3. QED
    BY <2>1, <2>2
<1>8. QED
  BY <1>1, <1>7

(***************************************************************************)
(* The loop of `bankers' finishes every alive thread exactly when every set *)
(* of alive threads has one whose need the others leave enough for:         *)
(* neither the order in which the loop looks at the threads nor the number *)
(* of its passes matters.                                                  *)
(***************************************************************************)
THEOREM FinishedIsEnough ==
  ASSUME NEW spare \in Vector, NEW need \in [Threads -> Vector],
         NEW has \in [Threads -> Vector], NonNegative(has), NEW alive \in SUBSET Threads
  PROVE  alive \subseteq Finished(spare, need, has, alive) <=> Enough(spare, need, has, alive)
<1>1. PICK s : /\ s.finish = Finished(spare, need, has, alive)
               /\ Reached(s, spare, need, has, alive)
               /\ Closed(s, need)
  BY LoopStops
<1>2. /\ s.work = Plus(spare, HeldBy(has, s.finish \cap alive))
      /\ \A S \in SUBSET alive : S \cap s.finish # {} =>
           \E t \in S : Fits(need[t], Plus(spare, HeldBy(has, alive \ S)))
  BY <1>1 DEF Reached
<1>3. ASSUME alive \subseteq s.finish PROVE Enough(spare, need, has, alive)
  <2>1. \A S \in SUBSET alive : S # {} => S \cap s.finish # {}
    BY <1>3
  <2>2. QED
    BY <1>2, <2>1 DEF Enough
<1>4. ASSUME Enough(spare, need, has, alive) PROVE alive \subseteq s.finish
  <2> DEFINE S == alive \ s.finish
  <2>1. SUFFICES ASSUME S # {} PROVE FALSE
    OBVIOUS
  <2>2. alive \ S = s.finish \cap alive /\ S \in SUBSET alive
    OBVIOUS
  <2>3. PICK t \in S : Fits(need[t], Plus(spare, HeldBy(has, alive \ S)))
    BY <1>4, <2>1, <2>2 DEF Enough
  <2>4. Fits(need[t], s.work)
    BY <1>2, <2>2, <2>3
  <2>5. QED
    BY <1>1, <2>3, <2>4 DEF Closed
<1>5. QED
  BY <1>1, <1>3, <1>4

-----------------------------------------------------------------------------
(* What the textbook definition says.                                      *)

\* What the threads of an order leave is what they hold together.
LEMMA AvailableAfterIs ==
  ASSUME NEW spare \in Vector, NEW given \in [Threads -> Vector], NEW n \in Nat,
         NEW ord, \A i \in 1 .. n : ord[i] \in Threads,
         \A i, j \in 1 .. n : ord[i] = ord[j] => i = j
  PROVE  AvailableAfter(spare, given, ord, n) = Plus(spare, HeldBy(given, {ord[j] : j \in 1 .. n}))
<1> DEFINE G == [j \in 1 .. n |-> [v \in Vector |-> Plus(v, given[ord[j]])]]
           Def(f) == [j \in 0 .. n |-> IF j = 0 THEN spare ELSE Plus(f[j - 1], given[ord[j]])]
           after == CHOOSE g : g = Def(g)
           Of(i) == {ord[j] : j \in 1 .. i}
<1>1. G \in [1 .. n -> [Vector -> Vector]]
  BY Vectors
<1>2. PICK f \in [0 .. n -> Vector] :
        f[0] = spare /\ \A j \in 1 .. n : f[j] = G[j][f[j - 1]]
  <2>1. \A H \in [1 .. n -> [Vector -> Vector]] :
          \E f \in [0 .. n -> Vector] : f[0] = spare /\ \A j \in 1 .. n : f[j] = H[j][f[j - 1]]
    BY VectorIterates
  <2> HIDE DEF G
  <2>2. QED
    BY <1>1, <2>1
<1>3. f = Def(f)
  <2>1. \A j \in 1 .. n : f[j - 1] \in Vector
    BY <1>2
  <2>2. \A j \in 1 .. n : f[j] = Plus(f[j - 1], given[ord[j]])
    BY <1>2, <2>1
  <2>3. QED
    BY <1>2, <2>2
<1>4. after = Def(after)
  <2> HIDE DEF Def
  <2>1. QED
    BY <1>3
<1>5. AvailableAfter(spare, given, ord, n) = after[n]
  BY DEF AvailableAfter
<1> HIDE DEF after, G
<1>6. after[0] = spare /\ \A j \in 1 .. n : after[j] = Plus(after[j - 1], given[ord[j]])
  BY <1>4
<1> DEFINE S == {i \in 0 .. n : after[i] = Plus(spare, HeldBy(given, Of(i)))}
<1>7. 0 \in S
  <2>1. Of(0) = {}
    OBVIOUS
  <2>2. HeldBy(given, Of(0)) = Nothing
    BY <2>1, HeldByNone
  <2>3. Plus(spare, Nothing) = spare
    BY DEF Plus, Nothing, Vector
  <2>4. QED
    BY <1>6, <2>2, <2>3
<1>8. ASSUME NEW i \in 0 .. n - 1, i \in S PROVE i + 1 \in S
  <2>1. i + 1 \in 1 .. n /\ ord[i + 1] \in Threads /\ (i + 1) - 1 = i
    OBVIOUS
  <2>2. Of(i + 1) = Of(i) \cup {ord[i + 1]}
    <3>1. 1 .. i + 1 = (1 .. i) \cup {i + 1}
      OBVIOUS
    <3>2. QED
      BY <3>1
  <2>3. ord[i + 1] \notin Of(i)
    <3>1. ASSUME NEW j \in 1 .. i PROVE ord[j] # ord[i + 1]
      <4>1. j \in 1 .. n /\ j # i + 1
        OBVIOUS
      <4>2. QED
        BY <2>1, <4>1
    <3>2. QED
      BY <3>1
  <2>4. after[i + 1] = Plus(after[i], given[ord[i + 1]])
    BY <1>6, <2>1
  <2>5. after[i] = Plus(spare, HeldBy(given, Of(i)))
    BY <1>8
  <2> HIDE DEF Of
  <2>6. HeldBy(given, Of(i + 1)) = Plus(HeldBy(given, Of(i)), given[ord[i + 1]])
    BY <2>1, <2>2, <2>3, HeldByAdd
  <2>7. HeldBy(given, Of(i)) \in Vector /\ given[ord[i + 1]] \in Vector
    BY <2>1, HeldByIsVector
  <2>8. \A a, b \in Vector : Plus(Plus(spare, a), b) = Plus(spare, Plus(a, b))
    BY DEF Plus, Vector
  <2>9. after[i + 1] = Plus(spare, HeldBy(given, Of(i + 1)))
    BY <2>4, <2>5, <2>6, <2>7, <2>8
  <2>10. QED
    BY <2>1, <2>9
<1>9. 0 .. n \subseteq S
  <2> HIDE DEF S
  <2>1. QED
    BY <1>7, <1>8, InductionUpTo
<1>10. QED
  BY <1>5, <1>9

\* The orders of a set of threads.
LEMMA Orders ==
  ASSUME NEW alive \in SUBSET Threads
  PROVE  /\ IsFiniteSet(alive) /\ Cardinality(alive) \in Nat
         /\ \A ord \in SetToSeqs(alive) :
              /\ ord \in [1 .. Cardinality(alive) -> alive] /\ Len(ord) = Cardinality(alive)
              /\ \A i, j \in 1 .. Cardinality(alive) : ord[i] = ord[j] => i = j
              /\ \A t \in alive : \E i \in 1 .. Cardinality(alive) : ord[i] = t
<1>1. IsFiniteSet(Threads)
  BY NMAssumption, FS_Interval DEF Threads
<1>2. IsFiniteSet(alive)
  BY <1>1, FS_Subset
<1> DEFINE n == Cardinality(alive)
<1>3. n \in Nat
  BY <1>2, FS_CardinalityType
<1>4. ASSUME NEW ord \in SetToSeqs(alive)
      PROVE  /\ ord \in [1 .. n -> alive] /\ Len(ord) = n
             /\ \A i, j \in 1 .. n : ord[i] = ord[j] => i = j
             /\ \A t \in alive : \E i \in 1 .. n : ord[i] = t
  <2>1. /\ ord \in [1 .. n -> alive]
        /\ \A i, j \in 1 .. n : ord[i] = ord[j] => i = j
    BY DEF SetToSeqs
  <2> HIDE DEF n
  <2>2. ord \in Seq(alive)
    BY <1>3, <2>1, SeqDef
  <2>3. Len(ord) = n
    BY <1>3, <2>1, <2>2, LenProperties
  <2>4. ord \in Injection(1 .. n, alive)
    BY <2>1 DEF Injection, IsInjective
  <2>5. IsFiniteSet(1 .. n) /\ Cardinality(1 .. n) = n
    BY <1>3, FS_Interval
  <2>6. ord \in Surjection(1 .. n, alive)
    BY <1>2, <2>4, <2>5, FS_Injection DEF n
  <2>7. QED
    BY <2>1, <2>3, <2>6 DEF Surjection
<1>5. QED
  BY <1>2, <1>3, <1>4

\* What a thread may still ask for.
Needs(max_need, given) == [t \in Threads |-> Minus(max_need[t], given[t])]

LEMMA SafeIsEnough ==
  ASSUME NEW spare \in Vector, NEW max_need \in [Threads -> Vector],
         NEW given \in [Threads -> Vector], NonNegative(given), NEW alive \in SUBSET Threads,
         Safe(spare, max_need, given, alive)
  PROVE  Enough(spare, Needs(max_need, given), given, alive)
<1> DEFINE n == Cardinality(alive)
<1>1. n \in Nat
  BY Orders
<1>2. PICK ord \in SetToSeqs(alive) :
        \A i \in 1 .. Len(ord) :
          Fits(Minus(max_need[ord[i]], given[ord[i]]), AvailableAfter(spare, given, ord, i - 1))
  BY DEF Safe
<1>3. /\ ord \in [1 .. n -> alive] /\ Len(ord) = n
      /\ \A i, j \in 1 .. n : ord[i] = ord[j] => i = j
      /\ \A t \in alive : \E i \in 1 .. n : ord[i] = t
  BY Orders
<1>4. SUFFICES ASSUME NEW S \in SUBSET alive, S # {}
               PROVE  \E t \in S : Fits(Needs(max_need, given)[t],
                                       Plus(spare, HeldBy(given, alive \ S)))
  BY DEF Enough
<1> HIDE DEF n
<1>5. PICK i \in 1 .. n : ord[i] \in S /\ \A j \in 1 .. i - 1 : ord[j] \notin S
  <2> DEFINE T == {j \in 1 .. n : ord[j] \in S}
  <2>1. T \subseteq Nat /\ T # {}
    BY <1>1, <1>3, <1>4
  <2>2. PICK i \in T : \A j \in T : i <= j
    <3> HIDE DEF T
    <3>1. QED
      BY <2>1, LeastElement
  <2>3. \A j \in 1 .. i - 1 : j \notin T /\ j \in 1 .. n
    BY <1>1, <2>2
  <2>4. QED
    BY <2>2, <2>3
<1>6. i \in 1 .. Len(ord) /\ i - 1 \in Nat
  BY <1>1, <1>3
<1>7. Fits(Minus(max_need[ord[i]], given[ord[i]]), AvailableAfter(spare, given, ord, i - 1))
  BY <1>2, <1>6
<1> DEFINE B == {ord[j] : j \in 1 .. i - 1}
<1>8. AvailableAfter(spare, given, ord, i - 1) = Plus(spare, HeldBy(given, B))
  <2>1. \A j \in 1 .. i - 1 : j \in 1 .. n
    BY <1>1
  <2>2. \A j \in 1 .. i - 1 : ord[j] \in Threads
    BY <1>3, <2>1
  <2>3. \A j, l \in 1 .. i - 1 : ord[j] = ord[l] => j = l
    BY <1>3, <2>1
  <2>4. QED
    BY <1>6, <2>2, <2>3, AvailableAfterIs
<1>9. B \subseteq alive \ S
  <2>1. \A j \in 1 .. i - 1 : j \in 1 .. n
    BY <1>1
  <2>2. QED
    BY <1>3, <1>5, <2>1
<1> HIDE DEF B
<1>10. Fits(HeldBy(given, B), HeldBy(given, alive \ S))
  BY <1>9, HeldByMonotone
<1>11. /\ HeldBy(given, B) \in Vector /\ HeldBy(given, alive \ S) \in Vector
       /\ Plus(spare, HeldBy(given, B)) \in Vector
       /\ Plus(spare, HeldBy(given, alive \ S)) \in Vector
  BY HeldByIsVector, Vectors
<1>12. ord[i] \in Threads /\ Minus(max_need[ord[i]], given[ord[i]]) \in Vector
  BY <1>3, Vectors
<1>13. Fits(Minus(max_need[ord[i]], given[ord[i]]), Plus(spare, HeldBy(given, alive \ S)))
  BY <1>7, <1>8, <1>10, <1>11, <1>12, FitsOrder
<1>14. QED
  BY <1>5, <1>12, <1>13 DEF Needs

\* An order is made by taking again and again a thread for which the threads
\* that are not taken yet leave enough.
LEMMA EnoughIsSafe ==
  ASSUME NEW spare \in Vector, NEW max_need \in [Threads -> Vector],
         NEW given \in [Threads -> Vector], NEW alive \in SUBSET Threads,
         Enough(spare, Needs(max_need, given), given, alive)
  PROVE  Safe(spare, max_need, given, alive)
<1> DEFINE n == Cardinality(alive)
           FirstOf(ord, k) == {ord[j] : j \in 1 .. k}
           Good(ord, k) ==
             /\ ord \in [1 .. k -> alive]
             /\ \A i, j \in 1 .. k : ord[i] = ord[j] => i = j
             /\ \A i \in 1 .. k : Fits(Minus(max_need[ord[i]], given[ord[i]]),
                                     Plus(spare, HeldBy(given, FirstOf(ord, i - 1))))
           S == {k \in 0 .. n : \E ord : Good(ord, k)}
<1>1. IsFiniteSet(alive) /\ n \in Nat
  BY Orders
<1>2. 0 \in S
  <2>1. Good([j \in 1 .. 0 |-> 0], 0)
    OBVIOUS
  <2> HIDE DEF Good
  <2>2. QED
    BY <1>1, <2>1
<1>3. ASSUME NEW k \in 0 .. n - 1, k \in S PROVE k + 1 \in S
  <2>1. PICK ord : Good(ord, k)
    BY <1>3
  <2>2. k \in Nat /\ k < n /\ k + 1 \in 0 .. n
    BY <1>1
  <2> DEFINE rest == alive \ FirstOf(ord, k)
  <2>3. rest # {}
    <3>1. SUFFICES ASSUME alive \subseteq FirstOf(ord, k) PROVE FALSE
      OBVIOUS
    <3>2. ord \in Surjection(1 .. k, alive)
      BY <2>1, <3>1 DEF Surjection
    <3>3. IsFiniteSet(1 .. k) /\ Cardinality(1 .. k) = k
      BY <2>2, FS_Interval
    <3>4. n <= k
      BY <3>2, <3>3, FS_Surjection
    <3>5. QED
      BY <1>1, <2>2, <3>4
  <2>4. alive \ rest = FirstOf(ord, k) /\ rest \in SUBSET alive
    BY <2>1
  <2>5. PICK t \in rest : Fits(Needs(max_need, given)[t], Plus(spare, HeldBy(given, alive \ rest)))
    <3> HIDE DEF rest
    <3>1. QED
      BY <2>3, <2>4 DEF Enough
  <2>6. /\ t \in alive /\ t \notin FirstOf(ord, k)
        /\ Fits(Minus(max_need[t], given[t]), Plus(spare, HeldBy(given, FirstOf(ord, k))))
    BY <2>4, <2>5 DEF Needs
  <2> DEFINE more == [j \in 1 .. k + 1 |-> IF j = k + 1 THEN t ELSE ord[j]]
  <2>7. more \in [1 .. k + 1 -> alive]
    BY <2>1, <2>6
  <2>8. /\ more[k + 1] = t /\ \A j \in 1 .. k : more[j] = ord[j]
        /\ \A i \in 1 .. k + 1 : i = k + 1 \/ i \in 1 .. k
    BY <2>2
  <2>9. \A i \in 1 .. k + 1 : FirstOf(more, i - 1) = FirstOf(ord, i - 1)
    <3>1. \A i \in 1 .. k + 1 : \A j \in 1 .. i - 1 : more[j] = ord[j]
      BY <2>2, <2>8
    <3>2. QED
      BY <3>1
  <2> HIDE DEF more
  <2>10. \A i, j \in 1 .. k + 1 : more[i] = more[j] => i = j
    <3>1. \A j \in 1 .. k : ord[j] # t
      BY <2>6
    <3>2. \A i, j \in 1 .. k : ord[i] = ord[j] => i = j
      BY <2>1
    <3>3. QED
      BY <2>8, <3>1, <3>2
  <2>11. ASSUME NEW i \in 1 .. k + 1
         PROVE  Fits(Minus(max_need[more[i]], given[more[i]]),
                     Plus(spare, HeldBy(given, FirstOf(more, i - 1))))
    <3> DEFINE r1 == FirstOf(more, i - 1)
               r2 == FirstOf(ord, i - 1)
    <3>1. r1 = r2
      BY <2>9
    <3>2. CASE i = k + 1
      <4>1. r2 = FirstOf(ord, k) /\ more[i] = t
        BY <2>2, <2>8, <3>2
      <4>2. QED
        BY <2>6, <3>1, <4>1
    <3>3. CASE i \in 1 .. k
      <4>1. Fits(Minus(max_need[ord[i]], given[ord[i]]), Plus(spare, HeldBy(given, r2)))
        BY <2>1, <3>3
      <4> HIDE DEF r1, r2
      <4>2. Fits(Minus(max_need[ord[i]], given[ord[i]]), Plus(spare, HeldBy(given, r1)))
        BY <3>1, <4>1
      <4>3. more[i] = ord[i]
        BY <2>8, <3>3
      <4>4. QED
        BY <4>2, <4>3 DEF r1
    <3>4. QED
      BY <2>8, <3>2, <3>3
  <2>12. Good(more, k + 1)
    BY <2>7, <2>10, <2>11
  <2> HIDE DEF Good
  <2>13. QED
    BY <2>2, <2>12
<1>4. 0 .. n \subseteq S
  <2> HIDE DEF S
  <2>1. QED
    BY <1>1, <1>2, <1>3, InductionUpTo
<1>5. PICK ord : Good(ord, n)
  <2>1. n \in S
    <3>1. n \in 0 .. n
      BY <1>1
    <3> HIDE DEF S
    <3>2. QED
      BY <1>4, <3>1
  <2> HIDE DEF Good
  <2>2. QED
    BY <2>1
<1>6. ord \in SetToSeqs(alive)
  BY <1>5 DEF SetToSeqs
<1>7. Len(ord) = n
  BY <1>6, Orders
<1>8. ASSUME NEW i \in 1 .. n
      PROVE  AvailableAfter(spare, given, ord, i - 1)
               = Plus(spare, HeldBy(given, FirstOf(ord, i - 1)))
  <2>1. i - 1 \in Nat /\ \A j \in 1 .. i - 1 : j \in 1 .. n
    BY <1>1
  <2>2. \A j \in 1 .. i - 1 : ord[j] \in Threads
    BY <1>5, <2>1
  <2>3. \A j, l \in 1 .. i - 1 : ord[j] = ord[l] => j = l
    BY <1>5, <2>1
  <2> HIDE DEF Good, n
  <2>4. QED
    BY <2>1, <2>2, <2>3, AvailableAfterIs
<1>9. ASSUME NEW i \in 1 .. n
      PROVE  Fits(Minus(max_need[ord[i]], given[ord[i]]),
                  AvailableAfter(spare, given, ord, i - 1))
  BY <1>5, <1>8
<1>10. QED
  BY <1>6, <1>7, <1>9 DEF Safe

-----------------------------------------------------------------------------
(* What the allocation tables may rely on.                                 *)

LEMMA NeedsAreVectors ==
  ASSUME NEW max_need \in [Threads -> Vector], NEW given \in [Threads -> Vector]
  PROVE  Needs(max_need, given) \in [Threads -> Vector]
BY Vectors DEF Needs

LEMMA SafeIffEnough ==
  ASSUME NEW spare \in Vector, NEW max_need \in [Threads -> Vector],
         NEW given \in [Threads -> Vector], NonNegative(given), NEW alive \in SUBSET Threads
  PROVE  Safe(spare, max_need, given, alive)
           <=> Enough(spare, Needs(max_need, given), given, alive)
BY SafeIsEnough, EnoughIsSafe

(***************************************************************************)
(* `bankers' decides exactly, for every table in which nobody holds less   *)
(* than nothing and every request that gives nothing back: -1 when the     *)
(* resources are not there, and otherwise 1 when the state after the grant *)
(* is safe, or safety does not matter, and 0 when it is not.               *)
(***************************************************************************)
THEOREM BankersDecides ==
  ASSUME NEW avoid \in BOOLEAN, NEW spare \in Vector, NEW max_need \in [Threads -> Vector],
         NEW given \in [Threads -> Vector], NonNegative(given), NEW alive \in SUBSET Threads,
         NEW t \in Threads, NEW req \in Vector, \A k \in Kinds : req[k] >= 0
  PROVE  Bankers(avoid, spare, max_need, given, alive, t, req) =
           IF ~Fits(req, spare) THEN -1
           ELSE IF avoid => SafeAfter(spare, max_need, given, alive, t, req) THEN 1 ELSE 0
<1> DEFINE has == [given EXCEPT ![t] = Plus(given[t], req)]
           need == Needs(max_need, has)
           left == Minus(spare, req)
<1>1. has \in [Threads -> Vector] /\ left \in Vector
  BY Vectors
<1>2. NonNegative(has)
  <2>1. ASSUME NEW u \in Threads, NEW k \in Kinds PROVE has[u][k] >= 0
    <3>1. CASE u = t
      <4>1. has[u] = Plus(given[t], req) /\ given[t][k] >= 0 /\ req[k] >= 0
        BY <3>1 DEF NonNegative
      <4>2. Plus(given[t], req)[k] = given[t][k] + req[k] /\ given[t][k] \in Int /\ req[k] \in Int
        BY Vectors DEF Vector
      <4>3. QED
        BY <4>1, <4>2
    <3>2. CASE u # t
      BY <3>2 DEF NonNegative
    <3>3. QED
      BY <3>1, <3>2
  <2>2. QED
    BY <2>1 DEF NonNegative
<1>3. need \in [Threads -> Vector]
  BY <1>1, NeedsAreVectors
<1>4. Bankers(avoid, spare, max_need, given, alive, t, req) =
        IF ~Fits(req, spare) THEN -1
        ELSE IF ~avoid THEN 1
        ELSE IF alive \subseteq Finished(left, need, has, alive) THEN 1 ELSE 0
  BY DEF Bankers, Needs
<1>5. SafeAfter(spare, max_need, given, alive, t, req) <=> Safe(left, max_need, has, alive)
  BY DEF SafeAfter
<1> HIDE DEF has, need, left
<1>6. alive \subseteq Finished(left, need, has, alive) <=> Enough(left, need, has, alive)
  BY <1>1, <1>2, <1>3, FinishedIsEnough
<1>7. Safe(left, max_need, has, alive) <=> Enough(left, need, has, alive)
  BY <1>1, <1>2, SafeIffEnough DEF need
<1>8. QED
  BY <1>4, <1>5, <1>6, <1>7

\* One thread's share changes.
LEMMA HeldByChange ==
  ASSUME NEW given \in [Threads -> Vector], NEW b \in [Threads -> Vector],
         NEW t \in Threads, \A u \in Threads : u # t => b[u] = given[u], NEW F, t \in F
  PROVE  HeldBy(b, F) = Plus(HeldBy(given, F \ {t}), b[t])
<1>1. \A u \in Threads : u \in F \ {t} => b[u] = given[u]
  OBVIOUS
<1>2. F = (F \ {t}) \cup {t} /\ t \notin F \ {t}
  OBVIOUS
<1>3. HeldBy(b, F \ {t}) = HeldBy(given, F \ {t})
  BY <1>1, HeldBySame
<1>4. HeldBy(b, (F \ {t}) \cup {t}) = Plus(HeldBy(b, F \ {t}), b[t])
  BY <1>2, HeldByAdd
<1>5. QED
  BY <1>2, <1>3, <1>4

\* A alive thread that gives units back leaves enough.
LEMMA GiveBackLeavesEnough ==
  ASSUME NEW spare \in Vector, NEW max_need \in [Threads -> Vector],
         NEW given \in [Threads -> Vector], NEW alive \in SUBSET Threads,
         Enough(spare, Needs(max_need, given), given, alive),
         NEW t \in alive, NEW units \in Vector, \A k \in Kinds : units[k] >= 0
  PROVE  LET less == [given EXCEPT ![t] = Minus(given[t], units)]
         IN  Enough(Plus(spare, units), Needs(max_need, less), less, alive)
<1> DEFINE less == [given EXCEPT ![t] = Minus(given[t], units)]
<1>1. /\ t \in Threads /\ given[t] \in Vector /\ Minus(given[t], units) \in Vector
      /\ less \in [Threads -> Vector] /\ less[t] = Minus(given[t], units)
      /\ \A u \in Threads : u # t => less[u] = given[u]
  BY Vectors
<1>2. SUFFICES ASSUME NEW S \in SUBSET alive, S # {}
               PROVE  \E u \in S : Fits(Needs(max_need, less)[u],
                                       Plus(Plus(spare, units), HeldBy(less, alive \ S)))
  BY DEF Enough
<1>3. PICK u \in S : Fits(Needs(max_need, given)[u], Plus(spare, HeldBy(given, alive \ S)))
  BY <1>2 DEF Enough
<1> DEFINE h == HeldBy(given, alive \ S)
           hl == HeldBy(less, alive \ S)
<1>4. h \in Vector /\ hl \in Vector
  BY <1>1, HeldByIsVector
<1>5. u \in Threads /\ given[u] \in Vector /\ less[u] \in Vector /\ max_need[u] \in Vector
  BY <1>1
<1>6. \A k \in Kinds : max_need[u][k] - given[u][k] <= spare[k] + h[k]
  BY <1>3, <1>4, <1>5 DEF Fits, Needs, Plus, Minus, Vector
<1>7. \A k \in Kinds : max_need[u][k] - less[u][k] <= spare[k] + units[k] + hl[k]
  <2>1. CASE t \in S
    <3>1. h = hl
      <4>1. \A v \in Threads : v \in alive \ S => given[v] = less[v]
        BY <1>1, <2>1
      <4> HIDE DEF less
      <4>2. QED
        BY <1>1, <4>1, HeldBySame
    <3>2. ASSUME NEW k \in Kinds PROVE max_need[u][k] - less[u][k] <= spare[k] + units[k] + hl[k]
      <4>1. less[u][k] = given[u][k] \/ less[u][k] = given[u][k] - units[k]
        BY <1>1, <1>5, Vectors
      <4>2. /\ max_need[u][k] \in Int /\ given[u][k] \in Int /\ units[k] \in Int
            /\ spare[k] \in Int /\ h[k] \in Int /\ units[k] >= 0
        BY <1>4, <1>5 DEF Vector
      <4> HIDE DEF h, hl, less
      <4>3. QED
        BY <1>6, <3>1, <4>1, <4>2
    <3>3. QED
      BY <3>2
  <2>2. CASE t \notin S
    <3>1. t \in alive \ S /\ u # t
      BY <2>2
    <3> DEFINE w == HeldBy(given, (alive \ S) \ {t})
    <3>2. w \in Vector
      BY HeldByIsVector
    <3>3. hl = Plus(w, Minus(given[t], units))
      <4> HIDE DEF less
      <4>1. HeldBy(less, alive \ S) = Plus(w, less[t])
        BY <1>1, <3>1, HeldByChange
      <4>2. QED
        BY <1>1, <4>1
    <3>4. h = Plus(w, given[t])
      <4>1. (alive \ S) = ((alive \ S) \ {t}) \cup {t}
        BY <3>1
      <4>2. HeldBy(given, ((alive \ S) \ {t}) \cup {t}) = Plus(w, given[t])
        BY <1>1, HeldByAdd
      <4>3. QED
        BY <4>1, <4>2
    <3> HIDE DEF w, h, hl, less
    <3>5. \A k \in Kinds : hl[k] + units[k] = h[k]
      BY <1>1, <3>2, <3>3, <3>4 DEF Plus, Minus, Vector
    <3>6. less[u] = given[u]
      BY <1>1, <1>5, <3>1
    <3>7. ASSUME NEW k \in Kinds PROVE max_need[u][k] - less[u][k] <= spare[k] + units[k] + hl[k]
      <4>1. /\ max_need[u][k] \in Int /\ given[u][k] \in Int /\ units[k] \in Int
            /\ spare[k] \in Int /\ h[k] \in Int /\ hl[k] \in Int
        BY <1>4, <1>5 DEF Vector
      <4>2. QED
        BY <1>6, <3>5, <3>6, <4>1
    <3>8. QED
      BY <3>7
  <2>3. QED
    BY <2>1, <2>2
<1> HIDE DEF less, h, hl
<1>8. Fits(Needs(max_need, less)[u], Plus(Plus(spare, units), hl))
  <2>1. Needs(max_need, less)[u] = Minus(max_need[u], less[u])
    BY <1>5 DEF Needs
  <2>2. ASSUME NEW k \in Kinds
        PROVE  Minus(max_need[u], less[u])[k] <= Plus(Plus(spare, units), hl)[k]
    BY <1>4, <1>5, <1>7 DEF Plus, Minus, Vector
  <2>3. QED
    BY <2>1, <2>2 DEF Fits
<1>9. QED
  BY <1>8 DEF hl, less

\* A alive thread that leaves gives back all it has.
LEMMA ExitLeavesEnough ==
  ASSUME NEW spare \in Vector, NEW max_need \in [Threads -> Vector],
         NEW given \in [Threads -> Vector], NEW alive \in SUBSET Threads,
         Enough(spare, Needs(max_need, given), given, alive), NEW t \in alive
  PROVE  LET less == [given EXCEPT ![t] = Nothing]
         IN  Enough(Plus(spare, given[t]), Needs(max_need, less), less, alive \ {t})
<1> DEFINE less == [given EXCEPT ![t] = Nothing]
<1>1. /\ t \in Threads /\ given[t] \in Vector /\ less \in [Threads -> Vector]
      /\ \A u \in Threads : u # t => less[u] = given[u]
  BY Vectors
<1>2. SUFFICES ASSUME NEW S \in SUBSET (alive \ {t}), S # {}
               PROVE  \E u \in S : Fits(Needs(max_need, less)[u],
                                       Plus(Plus(spare, given[t]), HeldBy(less, (alive \ {t}) \ S)))
  BY DEF Enough
<1>3. PICK u \in S : Fits(Needs(max_need, given)[u], Plus(spare, HeldBy(given, alive \ S)))
  BY <1>2 DEF Enough
<1> DEFINE w == HeldBy(given, (alive \ {t}) \ S)
<1>4. HeldBy(less, (alive \ {t}) \ S) = w /\ w \in Vector
  <2>1. \A v \in Threads : v \in (alive \ {t}) \ S => less[v] = given[v]
    BY <1>1
  <2> HIDE DEF less
  <2>2. QED
    BY <1>1, <2>1, HeldBySame, HeldByIsVector
<1>5. HeldBy(given, alive \ S) = Plus(w, given[t])
  <2>1. alive \ S = ((alive \ {t}) \ S) \cup {t} /\ t \notin (alive \ {t}) \ S
    BY <1>2
  <2>2. QED
    BY <1>1, <2>1, HeldByAdd
<1>6. u \in Threads /\ less[u] = given[u]
  BY <1>1, <1>2
<1>7. Needs(max_need, less)[u] = Needs(max_need, given)[u]
  BY <1>6 DEF Needs
<1>8. Plus(spare, Plus(w, given[t])) = Plus(Plus(spare, given[t]), w)
  <2>1. \A a, b \in Vector : Plus(spare, Plus(a, b)) = Plus(Plus(spare, b), a)
    BY DEF Plus, Vector
  <2> HIDE DEF w
  <2>2. QED
    BY <1>1, <1>4, <2>1
<1> HIDE DEF less, w
<1>9. QED
  BY <1>3, <1>4, <1>5, <1>7, <1>8 DEF less

-----------------------------------------------------------------------------
\* What the sets of parties are.
LEMMA Numbers ==
  /\ MASTER \in Parties /\ MASTER \notin Threads /\ Threads \subseteq Parties
  /\ NONE \notin Threads
  /\ \A p \in Parties : p \in Threads \/ p = MASTER
  /\ \A t \in Threads : t \in Int
BY NMAssumption DEF MASTER, Parties, Threads, NONE

\* Arithmetic on vectors stays within vectors.
LEMMA VectorArithmetic ==
  /\ Nothing \in Vector
  /\ \A a, b \in Vector : Plus(a, b) \in Vector /\ Minus(a, b) \in Vector
  /\ \A a \in Vector : Given(a) \in Vector /\ Asked(a) \in Vector
BY DEF Nothing, Vector, Plus, Minus, Given, Asked

\* What a thread may hold next is a vector.
LEMMA HoldingsAreVectors ==
  ASSUME NEW t \in Threads
  PROVE  Holdings(t) \subseteq Vector
<1>1. \A k \in Kinds : MaxNeed[t][k] \in Nat
  BY ResourceAssumption
<1>2. UNION {0 .. MaxNeed[t][k] : k \in Kinds} \subseteq Int
  BY <1>1
<1>3. QED
  BY <1>2 DEF Holdings, Vector

\* RemoveAt takes out one element and closes the gap.
LEMMA RemoveAtProperties ==
  ASSUME NEW S, NEW s \in Seq(S), NEW i \in 1 .. Len(s)
  PROVE  /\ RemoveAt(s, i) \in Seq(S)
         /\ Len(RemoveAt(s, i)) = Len(s) - 1
         /\ \A j \in 1 .. Len(s) - 1 :
              RemoveAt(s, i)[j] = IF j < i THEN s[j] ELSE s[j + 1]
<1> DEFINE a == SubSeq(s, 1, i - 1)
           b == SubSeq(s, i + 1, Len(s))
<1>0. Len(s) \in Nat /\ i \in Nat /\ 1 <= i /\ i <= Len(s)
  OBVIOUS
<1>1. /\ a \in Seq(S) /\ Len(a) = i - 1
      /\ \A j \in 1 .. i - 1 : a[j] = s[j]
  BY <1>0, SubSeqProperties
<1>2. /\ b \in Seq(S) /\ Len(b) = Len(s) - i
      /\ \A j \in 1 .. Len(s) - i : b[j] = s[i + j]
  BY <1>0, SubSeqProperties
<1>3. /\ a \o b \in Seq(S) /\ Len(a \o b) = Len(a) + Len(b)
      /\ \A j \in 1 .. Len(a) + Len(b) :
           (a \o b)[j] = IF j <= Len(a) THEN a[j] ELSE b[j - Len(a)]
  BY <1>1, <1>2, ConcatProperties
<1> HIDE DEF a, b
<1>4. Len(a \o b) = Len(s) - 1
  BY <1>0, <1>1, <1>2, <1>3
<1>5. ASSUME NEW j \in 1 .. Len(s) - 1
      PROVE  (a \o b)[j] = IF j < i THEN s[j] ELSE s[j + 1]
  BY <1>0, <1>1, <1>2, <1>3
<1>6. QED
  BY <1>3, <1>4, <1>5 DEF RemoveAt, a, b

-----------------------------------------------------------------------------
(* The initial state, and steps that change none of the variables.         *)

LEMMA HandoverInit == Init => HandoverInv
<1> SUFFICES ASSUME Init PROVE HandoverInv
  OBVIOUS
<1>1. TypeOK
  <2>1. /\ pc \in [Parties -> UserPlaces \cup MasterPlaces]
        /\ pc[MASTER] \in MasterPlaces /\ \A t \in Threads : pc[t] \in UserPlaces
    BY Numbers DEF Init, UserPlaces, MasterPlaces
  <2>2. reqc \in Request /\ local_req \in Request
    BY VectorArithmetic, NMAssumption DEF Init, Request, RequestTypes, Threads
  <2>3. /\ avail \in Vector /\ alloc \in [Threads -> Vector]
        /\ req_res \in [Threads -> Vector] /\ held \in [Threads -> Vector]
    BY VectorArithmetic, ResourceAssumption DEF Init, Vector
  <2>4. /\ rmtx \in Threads \cup {NONE} /\ BOS \subseteq Parties /\ REQB \subseteq Parties
        /\ ACK \in [Threads -> SUBSET Parties] /\ ready_reqs \in [Threads -> BOOLEAN]
        /\ rtype \in [Threads -> RequestTypes] /\ todo \in [Threads -> Nat]
        /\ live \subseteq Threads /\ thread_cnt \in Int
        /\ queue \in Seq([thread_id : Threads, req : Vector]) /\ curr \in Nat \ {0}
    BY ResourceAssumption, NMAssumption DEF Init, RequestTypes
  <2>5. QED
    BY <2>1, <2>2, <2>3, <2>4 DEF TypeOK
<1>2. LockInv /\ BarrierInv /\ MailboxInv
  BY Numbers DEF Init, LockInv, BarrierInv, BosInv, ReqbInv, AckInv, MailboxInv, Posting, Copying
<1>3. RequestHasOneHome
  BY Numbers DEF Init, RequestHasOneHome, Awaiting, InHand, InQueue
<1>4. QED
  BY <1>1, <1>2, <1>3 DEF HandoverInv

LEMMA HandoverStutter == HandoverInv /\ UNCHANGED vars => HandoverInv'
BY DEF HandoverInv, TypeOK, LockInv, BarrierInv, MailboxInv, RequestHasOneHome,
       Posting, Copying, Awaiting, InHand, InQueue,
       BosInv, ReqbInv, AckInv, vars, mailbox, barriers, user, tables, master

-----------------------------------------------------------------------------
(* What a step must leave alone for each part of the invariant to survive. *)

Waits == {"unlock", "cond", "asleep"}

\* Places where a thread, and the master, take no part in a hand-over.
UserAside   == {"boot", "in_bos", "run", "post", "cond", "asleep", "done"}
MasterAside == {"boot", "in_bos", "reqb", "serve", "grant", "done"}

LEMMA HomeFrame ==
  ASSUME RequestHasOneHome,
         queue' = queue, ready_reqs' = ready_reqs,
         pc'[MASTER] = "serve" <=> pc[MASTER] = "serve",
         pc[MASTER] = "serve" => local_req' = local_req,
         \A t \in Threads :
           /\ pc'[t] \in Waits <=> pc[t] \in Waits
           /\ pc'[t] = "asleep" => pc[t] = "asleep"
           /\ pc[t] \in Waits => rtype'[t] = rtype[t]
  PROVE  RequestHasOneHome'
BY DEF RequestHasOneHome, Awaiting, InHand, InQueue, Waits

LEMMA HandFrame ==
  ASSUME LockInv, BarrierInv, MailboxInv,
         UNCHANGED <<reqc, rmtx, REQB, ACK>>,
         \A p \in BOS' : pc'[p] = "in_bos",
         \A t \in Threads :
           \/ pc[t] \in UserAside /\ pc'[t] \in UserAside
           \/ pc'[t] = pc[t] /\ rtype'[t] = rtype[t] /\ req_res'[t] = req_res[t],
         \/ pc[MASTER] \in MasterAside /\ pc'[MASTER] \in MasterAside
         \/ pc'[MASTER] = pc[MASTER] /\ local_req' = local_req
  PROVE  LockInv' /\ BarrierInv' /\ MailboxInv'
<1>1. LockInv'
  BY DEF LockInv, Posting, UserAside
<1>2. BarrierInv'
  BY Numbers DEF BarrierInv, BosInv, ReqbInv, AckInv, UserAside, MasterAside
<1>3. MailboxInv'
  <2>1. Copying' <=> Copying
    BY DEF Copying, MasterAside
  <2>2. \A t \in Threads : Posting(t)' <=> Posting(t)
    BY DEF Posting, UserAside
  <2>3. \A t \in Threads : pc'[t] \in {"ack", "in_ack"} <=> pc[t] \in {"ack", "in_ack"}
    BY DEF UserAside
  <2>4. \A t \in Threads : Posting(t) => rtype'[t] = rtype[t] /\ req_res'[t] = req_res[t]
    BY DEF Posting, UserAside
  <2>5. pc'[MASTER] \in {"ack", "in_ack"} =>
          pc[MASTER] \in {"ack", "in_ack"} /\ local_req' = local_req
    BY DEF MasterAside
  <2>6. QED
    BY <2>1, <2>2, <2>3, <2>4, <2>5 DEF MailboxInv
<1>4. QED
  BY <1>1, <1>2, <1>3

-----------------------------------------------------------------------------
(* One lemma per action.                                                   *)

LEMMA BeginStep ==
  ASSUME HandoverInv, NEW p \in Parties, Begin(p)
  PROVE  HandoverInv'
<1> USE Numbers DEF HandoverInv, Begin, mailbox, user, master, tables
<1>1. TypeOK'
  BY DEF TypeOK, UserPlaces, MasterPlaces
<1>2. /\ \A q \in Parties :
           \/ pc'[q] = pc[q]
           \/ pc[q] \in {"boot", "in_bos"} /\ pc'[q] = "in_bos"
           \/ /\ pc[q] \in {"boot", "in_bos"}
              /\ pc'[q] = IF q = MASTER THEN "reqb" ELSE "run"
      /\ \A q \in BOS' : pc'[q] = "in_bos"
  BY DEF TypeOK, BarrierInv, BosInv
<1>3. LockInv' /\ BarrierInv' /\ MailboxInv'
  BY <1>2, HandFrame DEF UserAside, MasterAside
<1>4. RequestHasOneHome'
  BY <1>2, HomeFrame DEF Waits
<1>5. QED
  BY <1>1, <1>3, <1>4

LEMMA ReadRequestStep ==
  ASSUME HandoverInv, NEW t \in Threads, ReadRequest(t)
  PROVE  HandoverInv'
<1> USE Numbers DEF HandoverInv, ReadRequest, mailbox, barriers, master, tables
<1>1. TypeOK'
  <2>1. req_res' \in [Threads -> Vector] /\ held' \in [Threads -> Vector]
    BY HoldingsAreVectors, VectorArithmetic DEF TypeOK
  <2>2. rtype' \in [Threads -> RequestTypes]
    BY DEF TypeOK, RequestTypes
  <2>3. todo' \in [Threads -> Nat]
    BY DEF TypeOK
  <2>4. QED
    BY <2>1, <2>2, <2>3 DEF TypeOK, UserPlaces, MasterPlaces
<1>2. /\ pc[t] = "run" /\ pc'[t] = "post" /\ pc'[MASTER] = pc[MASTER]
      /\ \A u \in Threads \ {t} :
           pc'[u] = pc[u] /\ rtype'[u] = rtype[u] /\ req_res'[u] = req_res[u]
      /\ \A q \in Parties : pc[q] = "in_bos" => pc'[q] = "in_bos"
  BY DEF TypeOK
<1>3. LockInv' /\ BarrierInv' /\ MailboxInv'
  <2>1. \A p \in BOS' : pc'[p] = "in_bos"
    BY <1>2 DEF TypeOK, BarrierInv, BosInv, ReqbInv, AckInv
  <2>2. QED
    BY <1>2, <2>1, HandFrame DEF UserAside, MasterAside
<1>4. RequestHasOneHome'
  BY <1>2, HomeFrame DEF Waits
<1>5. QED
  BY <1>1, <1>3, <1>4

LEMMA ReadQuitStep ==
  ASSUME HandoverInv, NEW t \in Threads, ReadQuit(t)
  PROVE  HandoverInv'
<1> USE Numbers DEF HandoverInv, ReadQuit, mailbox, barriers, master, tables
<1>1. TypeOK'
  BY DEF TypeOK, UserPlaces, MasterPlaces, RequestTypes
<1>2. /\ pc[t] = "run" /\ pc'[t] = "post" /\ pc'[MASTER] = pc[MASTER]
      /\ \A u \in Threads \ {t} : pc'[u] = pc[u] /\ rtype'[u] = rtype[u]
      /\ \A q \in Parties : pc[q] = "in_bos" => pc'[q] = "in_bos"
  BY DEF TypeOK
<1>3. LockInv' /\ BarrierInv' /\ MailboxInv'
  <2>1. \A p \in BOS' : pc'[p] = "in_bos"
    BY <1>2 DEF TypeOK, BarrierInv, BosInv, ReqbInv, AckInv
  <2>2. QED
    BY <1>2, <2>1, HandFrame DEF UserAside, MasterAside
<1>4. RequestHasOneHome'
  BY <1>2, HomeFrame DEF Waits
<1>5. QED
  BY <1>1, <1>3, <1>4

\* rmtx was free: nobody is handing a request over, so no barrier is in use by
\* a thread and the mailbox may be filled.
LEMMA PostStep ==
  ASSUME HandoverInv, NEW t \in Threads, Post(t)
  PROVE  HandoverInv'
<1> USE Numbers DEF HandoverInv, Post, barriers, user, master, tables
<1>1. TypeOK'
  BY VectorArithmetic DEF TypeOK, UserPlaces, MasterPlaces, Request
<1>2. /\ pc[t] = "post" /\ pc'[t] = "reqb"
      /\ \A q \in Parties \ {t} : pc'[q] = pc[q]
      /\ \A u \in Threads : ~Posting(u) /\ pc[u] # "unlock"
  BY DEF TypeOK, LockInv
<1>3. LockInv'
  BY <1>2 DEF LockInv, Posting
<1>4. BarrierInv'
  BY <1>2 DEF TypeOK, BarrierInv, BosInv, ReqbInv, AckInv
<1>5. ~Copying
  BY DEF MailboxInv
<1>6. MailboxInv'
  BY <1>2, <1>5 DEF TypeOK, MailboxInv, Posting, Copying
<1>7. RequestHasOneHome'
  BY <1>2, HomeFrame DEF Waits
<1>8. QED
  BY <1>1, <1>3, <1>4, <1>6, <1>7

LEMMA CopyRequestStep ==
  ASSUME HandoverInv, CopyRequest
  PROVE  HandoverInv'
<1> USE Numbers DEF HandoverInv, CopyRequest, mailbox, barriers, user, tables
<1>1. TypeOK'
  BY DEF TypeOK, UserPlaces, MasterPlaces
<1>2. /\ pc[MASTER] = "copy" /\ pc'[MASTER] = "ack"
      /\ \A t \in Threads : pc'[t] = pc[t]
  BY DEF TypeOK
<1>3. LockInv'
  BY <1>2 DEF LockInv, Posting
<1>4. BarrierInv'
  BY <1>2 DEF TypeOK, BarrierInv, BosInv, ReqbInv, AckInv
<1>5. MailboxInv'
  BY <1>2 DEF MailboxInv, Posting, Copying
<1>6. RequestHasOneHome'
  BY <1>2, HomeFrame DEF Waits
<1>7. QED
  BY <1>1, <1>3, <1>4, <1>5, <1>6

\* The second party to come to REQB finds the first there; if a thread meets
\* the master, it is the holder of rmtx.
LEMMA MeetREQBStep ==
  ASSUME HandoverInv, NEW p \in Parties, MeetREQB(p)
  PROVE  HandoverInv'
<1>0. /\ TypeOK /\ LockInv /\ BosInv /\ ReqbInv /\ AckInv /\ MailboxInv
      /\ RequestHasOneHome
  BY DEF HandoverInv, BarrierInv
<1>1. /\ pc[p] = "reqb" /\ REQB' = Waiting(p, REQB)
      /\ UNCHANGED <<reqc, rmtx, BOS, ACK, ready_reqs, rtype, req_res, local_req, queue>>
  BY DEF MeetREQB, mailbox, user, master
<1>2. TypeOK'
  BY <1>0, Numbers DEF TypeOK, UserPlaces, MasterPlaces, MeetREQB, Meet, Waiting,
                       mailbox, user, master, tables
<1>3. \A t, u \in Threads : Posting(t) /\ Posting(u) => t = u
  BY <1>0 DEF LockInv
<1>4. \A t \in Threads : pc[t] \in {"reqb", "in_reqb"} => Posting(t)
  BY DEF Posting
<1>5. CASE REQB = {}
  <2>1. /\ REQB' = {p} /\ pc'[p] = "in_reqb"
        /\ \A q \in Parties \ {p} : pc'[q] = pc[q]
        /\ \A q \in Parties : pc[q] # "in_reqb"
    BY <1>0, <1>1, <1>5, Numbers DEF MeetREQB, Meet, Waiting, ReqbInv, TypeOK
  <2>2. \A t \in Threads : Posting(t)' <=> Posting(t)
    BY <1>1, <2>1, Numbers DEF Posting
  <2>3. LockInv'
    BY <1>0, <1>1, <2>1, <2>2, Numbers DEF LockInv
  <2>4. BosInv' /\ ReqbInv' /\ AckInv'
    BY <1>0, <1>1, <2>1, Numbers DEF BosInv, ReqbInv, AckInv, TypeOK
  <2>5. MailboxInv'
    BY <1>0, <1>1, <2>1, <2>2, Numbers DEF MailboxInv, Copying, TypeOK
  <2>6. RequestHasOneHome'
    BY <1>0, <1>1, <2>1, HomeFrame, Numbers DEF Waits
  <2>7. QED
    BY <1>2, <2>3, <2>4, <2>5, <2>6 DEF HandoverInv, BarrierInv
<1>6. CASE REQB # {}
  <2>1. /\ \A q \in REQB : q \in Parties /\ pc[q] = "in_reqb" /\ q # p
        /\ pc[MASTER] = "in_reqb" => \A t \in Threads : t \notin REQB
    BY <1>0, <1>1, Numbers DEF ReqbInv, TypeOK
  <2>2. \A t, u \in Threads : t \in REQB \cup {p} /\ u \in REQB \cup {p} => t = u
    BY <1>1, <1>3, <1>4, <2>1
  <2>3. PICK t \in Threads : REQB \cup {p} = {t, MASTER}
    BY <1>6, <2>1, <2>2, Numbers
  <2>4. /\ pc[t] \in {"reqb", "in_reqb"} /\ pc[MASTER] \in {"reqb", "in_reqb"}
        /\ REQB' = {} /\ pc'[t] = "ack" /\ pc'[MASTER] = "copy"
        /\ \A q \in Parties \ {t, MASTER} : pc'[q] = pc[q]
    BY <1>1, <1>6, <2>1, <2>3, Numbers DEF MeetREQB, Meet, Waiting
  <2>5. /\ rmtx = t /\ Posting(t)
        /\ \A u \in Threads \ {t} : ~Posting(u) /\ pc[u] # "unlock"
        /\ \A u \in Threads : Posting(u)' <=> Posting(u)
    BY <1>0, <1>4, <2>4, Numbers DEF LockInv, Posting
  <2>6. LockInv'
    BY <1>0, <1>1, <2>4, <2>5, Numbers DEF LockInv
  <2>7. BosInv' /\ ReqbInv' /\ AckInv'
    <3>1. BosInv'
      BY <1>0, <1>1, <2>4, Numbers DEF BosInv, TypeOK
    <3>2. \A q \in Parties : pc'[q] # "in_reqb"
      BY <2>1, <2>3, <2>4, <1>0, Numbers DEF ReqbInv
    <3>3. ReqbInv'
      BY <2>4, <3>2, Numbers DEF ReqbInv
    <3>4. \A q \in Parties : pc'[q] = "in_ack" <=> pc[q] = "in_ack"
      BY <2>4, Numbers
    <3>5. AckInv'
      BY <1>0, <1>1, <2>4, <3>4, Numbers DEF AckInv
    <3>6. QED
      BY <3>1, <3>3, <3>5
  <2>8. MailboxInv'
    BY <1>0, <1>1, <2>4, <2>5, Numbers DEF MailboxInv, Copying, Posting, TypeOK
  <2>9. RequestHasOneHome'
    BY <1>0, <1>1, <2>4, HomeFrame, Numbers DEF Waits
  <2>10. QED
    BY <1>2, <2>6, <2>7, <2>8, <2>9 DEF HandoverInv, BarrierInv
<1>7. QED
  BY <1>5, <1>6

\* The party that comes to ACK[t] is t, or the master with its copy of t's
\* request; the other of the two is the only one that can wait there.
LEMMA MeetACKStep ==
  ASSUME HandoverInv, NEW p \in Parties, NEW t \in Threads, MeetACK(p, t),
         p = t \/ (p = MASTER /\ t = local_req.thread_id)
  PROVE  HandoverInv'
<1>0. /\ TypeOK /\ LockInv /\ BosInv /\ ReqbInv /\ AckInv /\ MailboxInv
      /\ RequestHasOneHome
  BY DEF HandoverInv, BarrierInv
<1>1. /\ pc[p] = "ack" /\ ACK' = [ACK EXCEPT ![t] = Waiting(p, ACK[t])]
      /\ UNCHANGED <<reqc, rmtx, BOS, REQB, ready_reqs, rtype, req_res, local_req, queue>>
  BY DEF MeetACK, mailbox, user, master
<1>2. TypeOK'
  BY <1>0, Numbers DEF TypeOK, UserPlaces, MasterPlaces, MeetACK, Meet, Waiting,
                       mailbox, user, master, tables
<1>3. Copying /\ rmtx = t /\ pc[t] \in {"ack", "in_ack"} /\ Posting(t)
  <2>1. CASE p = t
    BY <1>0, <1>1, <2>1 DEF MailboxInv, LockInv, Posting
  <2>2. CASE p = MASTER
    <3>1. local_req = reqc /\ rmtx \in Threads /\ pc[rmtx] \in {"ack", "in_ack"}
      BY <1>0, <1>1, <2>2 DEF MailboxInv, Copying
    <3>2. reqc.thread_id = rmtx
      BY <1>0, <3>1 DEF MailboxInv, Posting
    <3>3. QED
      BY <1>1, <2>2, <3>1, <3>2, Numbers DEF Posting, Copying
  <2>3. QED
    BY <2>1, <2>2
<1>4. \A u \in Threads \ {t} : ~Posting(u) /\ pc[u] # "unlock"
  BY <1>0, <1>3 DEF LockInv
<1>5. pc[MASTER] \in {"ack", "in_ack"} =>
        local_req = reqc /\ local_req.thread_id = t /\ local_req.type = rtype[t]
  BY <1>0, <1>3 DEF MailboxInv
<1>6. CASE ACK[t] = {}
  <2>1. /\ ACK' = [ACK EXCEPT ![t] = {p}] /\ pc'[p] = "in_ack"
        /\ \A q \in Parties \ {p} : pc'[q] = pc[q]
    BY <1>0, <1>1, <1>6, Numbers DEF MeetACK, Meet, Waiting, TypeOK
  <2>2. \A u \in Threads : Posting(u)' <=> Posting(u)
    BY <1>1, <2>1, Numbers DEF Posting
  <2>3. LockInv'
    BY <1>0, <1>1, <2>1, <2>2, Numbers DEF LockInv
  <2>4. BosInv' /\ ReqbInv'
    BY <1>0, <1>1, <2>1, Numbers DEF BosInv, ReqbInv, TypeOK
  <2>5. AckInv'
    <3>1. pc[t] # "in_ack" /\ (p = t => pc[MASTER] # "in_ack")
      BY <1>0, <1>5, <1>6, Numbers DEF AckInv
    <3>2. \A u \in Threads, q \in Parties :
            q \in ACK'[u] <=> /\ pc'[q] = "in_ack"
                              /\ q = u \/ (q = MASTER /\ local_req'.thread_id = u)
      BY <1>0, <1>1, <1>5, <2>1, <3>1, Numbers DEF AckInv, TypeOK
    <3>3. pc'[MASTER] = "in_ack" => \A u \in Threads : pc'[u] # "in_ack"
      BY <1>4, <2>1, <3>1, Numbers DEF Posting
    <3>4. QED
      BY <3>2, <3>3 DEF AckInv
  <2>6. MailboxInv'
    BY <1>0, <1>1, <1>3, <1>5, <2>1, <2>2, Numbers DEF MailboxInv, Copying, TypeOK
  <2>7. RequestHasOneHome'
    BY <1>0, <1>1, <2>1, HomeFrame, Numbers DEF Waits
  <2>8. QED
    BY <1>2, <2>3, <2>4, <2>5, <2>6, <2>7 DEF HandoverInv, BarrierInv
<1>7. CASE ACK[t] # {}
  <2>1. /\ ACK[t] \cup {p} = {t, MASTER} /\ pc[MASTER] \in {"ack", "in_ack"}
    BY <1>0, <1>1, <1>7, Numbers DEF AckInv, TypeOK
  <2>2. /\ ACK' = [ACK EXCEPT ![t] = {}]
        /\ pc'[t] = "unlock" /\ pc'[MASTER] = "serve"
        /\ \A q \in Parties \ {t, MASTER} : pc'[q] = pc[q]
    BY <1>1, <1>7, <2>1, Numbers DEF MeetACK, Meet, Waiting
  <2>3. \A u \in Threads : ~Posting(u)'
    BY <1>4, <2>2, Numbers DEF Posting
  <2>4. LockInv'
    BY <1>1, <1>3, <1>4, <2>2, <2>3, Numbers DEF LockInv
  <2>5. BosInv' /\ ReqbInv'
    BY <1>0, <1>1, <1>3, <2>1, <2>2, Numbers DEF BosInv, ReqbInv, TypeOK
  <2>6. AckInv'
    <3>1. \A u \in Threads \ {t} : pc[u] # "in_ack"
      BY <1>4 DEF Posting
    <3>2. \A u \in Threads : ACK'[u] = {}
      BY <1>0, <1>5, <2>1, <2>2, <3>1, Numbers DEF AckInv, TypeOK
    <3>3. \A q \in Parties : pc'[q] # "in_ack"
      BY <2>2, <3>1, Numbers
    <3>4. QED
      BY <3>2, <3>3, Numbers DEF AckInv
  <2>7. MailboxInv'
    BY <2>2, <2>3, Numbers DEF MailboxInv, Copying, Posting
  <2>8. RequestHasOneHome'
    <3>1. local_req.thread_id = t /\ local_req.type = rtype[t] /\ ~Awaiting(t)
      BY <1>3, <1>5, <2>1 DEF Awaiting
    <3>2. \A u \in Threads : InQueue(u)' <=> InQueue(u)
      BY <1>1 DEF InQueue
    <3>3. \A u \in Threads : ~InHand(u) /\ (InHand(u)' <=> u = t /\ rtype[t] = "ADDITIONAL")
      BY <1>1, <2>1, <2>2, <3>1 DEF InHand
    <3>4. \A u \in Threads \ {t} : Awaiting(u)' <=> Awaiting(u)
      BY <1>1, <2>2, Numbers DEF Awaiting
    <3>5. Awaiting(t)' <=> rtype[t] = "ADDITIONAL"
      BY <1>1, <2>2 DEF Awaiting
    <3>6. QED
      BY <1>0, <1>1, <2>2, <3>1, <3>2, <3>3, <3>4, <3>5, Numbers DEF RequestHasOneHome
  <2>9. QED
    BY <1>2, <2>4, <2>5, <2>6, <2>7, <2>8 DEF HandoverInv, BarrierInv
<1>8. QED
  BY <1>6, <1>7

LEMMA UnlockStep ==
  ASSUME HandoverInv, NEW t \in Threads, Unlock(t)
  PROVE  HandoverInv'
<1>0. /\ TypeOK /\ LockInv /\ BosInv /\ ReqbInv /\ AckInv /\ MailboxInv
      /\ RequestHasOneHome
  BY DEF HandoverInv, BarrierInv
<1>1. /\ pc[t] = "unlock" /\ rmtx = t /\ rmtx' = NONE
      /\ rtype[t] = "ADDITIONAL" => pc'[t] = "cond"
      /\ rtype[t] # "ADDITIONAL" => pc'[t] \in {"run", "done"}
      /\ pc' \in [Parties -> UserPlaces \cup MasterPlaces]
      /\ \A q \in Parties \ {t} : pc'[q] = pc[q]
      /\ UNCHANGED <<reqc, BOS, REQB, ACK, ready_reqs, rtype, req_res, local_req, queue>>
  BY <1>0, Numbers DEF Unlock, TypeOK, LockInv, RequestTypes, UserPlaces,
                       barriers, user, master
<1>2. TypeOK'
  BY <1>0, <1>1, Numbers DEF Unlock, TypeOK, UserPlaces, barriers, user, master, tables
<1>3. \A u \in Threads : /\ ~Posting(u) /\ ~Posting(u)'
                         /\ pc'[u] # "unlock"
  BY <1>0, <1>1, Numbers DEF LockInv, Posting
<1>4. LockInv'
  BY <1>1, <1>3, Numbers DEF LockInv
<1>5. BosInv' /\ ReqbInv' /\ AckInv'
  BY <1>0, <1>1, Numbers DEF BosInv, ReqbInv, AckInv, TypeOK
<1>6. MailboxInv'
  BY <1>0, <1>1, <1>3, Numbers DEF MailboxInv, Posting, Copying
<1>7. RequestHasOneHome'
  BY <1>0, <1>1, Numbers DEF RequestHasOneHome, Awaiting, InHand, InQueue
<1>8. QED
  BY <1>2, <1>4, <1>5, <1>6, <1>7 DEF HandoverInv, BarrierInv

LEMMA CheckReadyStep ==
  ASSUME HandoverInv, NEW t \in Threads, CheckReady(t)
  PROVE  HandoverInv'
<1>0. /\ TypeOK /\ LockInv /\ BosInv /\ BarrierInv /\ MailboxInv /\ RequestHasOneHome
  BY DEF HandoverInv, BarrierInv
<1>1. /\ pc[t] = "cond"
      /\ \/ /\ ready_reqs[t] /\ pc'[t] = "run"
            /\ ready_reqs' = [ready_reqs EXCEPT ![t] = FALSE]
         \/ /\ ~ready_reqs[t] /\ pc'[t] = "asleep"
            /\ ready_reqs' = ready_reqs
      /\ \A q \in Parties \ {t} : pc'[q] = pc[q]
      /\ UNCHANGED <<reqc, rmtx, BOS, REQB, ACK, rtype, req_res, local_req, queue>>
  BY <1>0, Numbers DEF CheckReady, TypeOK, mailbox, barriers, user, master
<1>2. TypeOK'
  BY <1>0, Numbers DEF CheckReady, TypeOK, UserPlaces, mailbox, barriers, user, master, tables
<1>3. LockInv' /\ BarrierInv' /\ MailboxInv'
  <2>1. \A q \in BOS' : pc'[q] = "in_bos"
    BY <1>0, <1>1, Numbers DEF BosInv, TypeOK
  <2>2. QED
    BY <1>0, <1>1, <2>1, HandFrame, Numbers DEF UserAside
<1>4. RequestHasOneHome'
  <2>1. ready_reqs'[t] = FALSE /\ \A u \in Threads \ {t} : ready_reqs'[u] = ready_reqs[u]
    BY <1>0, <1>1 DEF TypeOK
  <2>2. \A u \in Threads : (InQueue(u)' <=> InQueue(u)) /\ (InHand(u)' <=> InHand(u))
    BY <1>1, Numbers DEF InQueue, InHand
  <2>3. \A u \in Threads \ {t} : Awaiting(u)' <=> Awaiting(u)
    BY <1>1, Numbers DEF Awaiting
  <2>4. CASE ready_reqs[t]
    <3>1. ~InHand(t) /\ ~InQueue(t) /\ ~Awaiting(t)'
      BY <1>0, <1>1, <2>4 DEF RequestHasOneHome, Awaiting
    <3>2. QED
      BY <1>0, <1>1, <2>1, <2>2, <2>3, <3>1, Numbers DEF RequestHasOneHome
  <2>5. CASE ~ready_reqs[t]
    <3>1. Awaiting(t)' <=> Awaiting(t)
      BY <1>1, <2>5 DEF Awaiting
    <3>2. QED
      BY <1>0, <1>1, <2>1, <2>2, <2>3, <2>5, <3>1, Numbers DEF RequestHasOneHome
  <2>6. QED
    BY <2>4, <2>5
<1>5. QED
  BY <1>2, <1>3, <1>4 DEF HandoverInv

LEMMA SpuriousWakeupStep ==
  ASSUME HandoverInv, NEW t \in Threads, SpuriousWakeup(t)
  PROVE  HandoverInv'
<1>0. /\ TypeOK /\ LockInv /\ BosInv /\ BarrierInv /\ MailboxInv /\ RequestHasOneHome
  BY DEF HandoverInv, BarrierInv
<1>1. /\ pc[t] = "asleep" /\ pc'[t] = "cond"
      /\ \A q \in Parties \ {t} : pc'[q] = pc[q]
      /\ UNCHANGED <<reqc, rmtx, BOS, REQB, ACK, ready_reqs, rtype, req_res, local_req, queue>>
  BY <1>0, Numbers DEF SpuriousWakeup, TypeOK, mailbox, barriers, user, master
<1>2. TypeOK'
  BY <1>0, Numbers DEF SpuriousWakeup, TypeOK, UserPlaces,
                       mailbox, barriers, user, master, tables
<1>3. LockInv' /\ BarrierInv' /\ MailboxInv'
  <2>1. \A q \in BOS' : pc'[q] = "in_bos"
    BY <1>0, <1>1, Numbers DEF BosInv, TypeOK
  <2>2. QED
    BY <1>0, <1>1, <2>1, HandFrame, Numbers DEF UserAside
<1>4. RequestHasOneHome'
  BY <1>0, <1>1, HomeFrame, Numbers DEF Waits
<1>5. QED
  BY <1>2, <1>3, <1>4 DEF HandoverInv

-----------------------------------------------------------------------------
(* The master at work.                                                     *)

\* Serving an EXIT or a RELEASE moves no request; a granting pass is set up.
LEMMA ServeOthersStep ==
  ASSUME HandoverInv, pc[MASTER] = "serve",
         NEW t \in Threads, t = local_req.thread_id,
         ServeExit(t) \/ ServeRelease(t)
  PROVE  HandoverInv'
<1>0. /\ TypeOK /\ LockInv /\ BosInv /\ BarrierInv /\ MailboxInv /\ RequestHasOneHome
  BY DEF HandoverInv, BarrierInv
<1>1. /\ pc'[MASTER] \in {"grant", "done"} /\ local_req.type # "ADDITIONAL"
      /\ \A u \in Threads : pc'[u] = pc[u]
      /\ pc' \in [Parties -> UserPlaces \cup MasterPlaces]
      /\ curr' \in {1, curr}
      /\ UNCHANGED <<reqc, rmtx, BOS, REQB, ACK, ready_reqs, rtype, req_res, held, todo,
                     local_req, queue>>
  <2>1. /\ local_req.type # "ADDITIONAL"
        /\ \/ pc' = [pc EXCEPT ![MASTER] = "grant"] /\ curr' = 1
           \/ pc' = [pc EXCEPT ![MASTER] = "done"] /\ curr' = curr
        /\ UNCHANGED <<reqc, rmtx, BOS, REQB, ACK, ready_reqs, rtype, req_res, held, todo,
                       local_req, queue>>
    BY DEF ServeExit, ServeRelease, StartPass, mailbox, barriers, user
  <2>2. pc \in [Parties -> UserPlaces \cup MasterPlaces] /\ MASTER \in Parties
    BY <1>0, Numbers DEF TypeOK
  <2>3. "grant" \in MasterPlaces /\ "done" \in MasterPlaces
    BY DEF MasterPlaces
  <2>4. /\ pc'[MASTER] \in {"grant", "done"} /\ \A u \in Threads : pc'[u] = pc[u]
        /\ pc' \in [Parties -> UserPlaces \cup MasterPlaces]
    BY <2>1, <2>2, <2>3, Numbers
  <2>5. QED
    BY <2>1, <2>4
<1>2. avail' \in Vector /\ alloc' \in [Threads -> Vector]
  <2>1. alloc[t] \in Vector /\ local_req.req \in Vector
    BY <1>0 DEF TypeOK, Request
  <2>2. /\ Plus(avail, alloc[t]) \in Vector /\ Minus(avail, local_req.req) \in Vector
        /\ Plus(alloc[t], local_req.req) \in Vector
    BY <1>0, <2>1, VectorArithmetic DEF TypeOK
  <2>3. /\ avail' \in {Plus(avail, alloc[t]), Minus(avail, local_req.req)}
        /\ \/ alloc' = [alloc EXCEPT ![t] = Nothing]
           \/ alloc' = [alloc EXCEPT ![t] = Plus(alloc[t], local_req.req)]
    BY DEF ServeExit, ServeRelease
  <2>4. Nothing \in Vector /\ alloc \in [Threads -> Vector]
    BY <1>0, VectorArithmetic DEF TypeOK
  <2>5. QED
    BY <2>2, <2>3, <2>4
<1>3. live' \subseteq Threads /\ thread_cnt' \in Int
  BY <1>0 DEF ServeExit, ServeRelease, TypeOK
<1>4. TypeOK'
  BY <1>0, <1>1, <1>2, <1>3, Numbers DEF TypeOK, MasterPlaces
<1>5. LockInv' /\ BarrierInv' /\ MailboxInv'
  <2>1. \A q \in BOS' : pc'[q] = "in_bos"
    BY <1>0, <1>1, Numbers DEF BosInv, TypeOK
  <2>2. QED
    BY <1>0, <1>1, <2>1, HandFrame, Numbers DEF MasterAside
<1>6. RequestHasOneHome'
  <2>1. \A u \in Threads : /\ ~InHand(u) /\ ~InHand(u)'
                           /\ InQueue(u)' <=> InQueue(u)
                           /\ Awaiting(u)' <=> Awaiting(u)
    BY <1>1 DEF InHand, InQueue, Awaiting
  <2>2. QED
    BY <1>0, <1>1, <2>1 DEF RequestHasOneHome
<1>7. QED
  BY <1>4, <1>5, <1>6 DEF HandoverInv

\* The request in the master's hand goes to the rear of the queue.
LEMMA ServeAdditionalStep ==
  ASSUME HandoverInv, pc[MASTER] = "serve",
         NEW t \in Threads, t = local_req.thread_id, ServeAdditional(t)
  PROVE  HandoverInv'
<1> DEFINE r == [thread_id |-> t, req |-> Asked(local_req.req)]
<1>0. /\ TypeOK /\ LockInv /\ BosInv /\ BarrierInv /\ MailboxInv /\ RequestHasOneHome
  BY DEF HandoverInv, BarrierInv
<1>1. /\ pc'[MASTER] = "grant" /\ local_req.type = "ADDITIONAL"
      /\ \A u \in Threads : pc'[u] = pc[u]
      /\ pc' \in [Parties -> UserPlaces \cup MasterPlaces]
      /\ queue' = Append(queue, r)
      /\ UNCHANGED <<reqc, rmtx, BOS, REQB, ACK, ready_reqs, rtype, req_res, held, todo,
                     live, thread_cnt>>
  BY <1>0, Numbers DEF ServeAdditional, TypeOK, MasterPlaces, mailbox, barriers, user
<1>2. /\ local_req.req \in Vector /\ Asked(local_req.req) \in Vector
      /\ Given(local_req.req) \in Vector
  BY <1>0, VectorArithmetic DEF TypeOK, Request
<1>3. /\ avail' \in Vector /\ alloc' \in [Threads -> Vector] /\ local_req' \in Request
      /\ r \in [thread_id : Threads, req : Vector]
  BY <1>0, <1>2, VectorArithmetic DEF ServeAdditional, TypeOK, Request
<1> HIDE DEF r
<1>4. /\ queue' \in Seq([thread_id : Threads, req : Vector])
      /\ Len(queue') = Len(queue) + 1 /\ queue'[Len(queue) + 1] = r
      /\ \A i \in 1 .. Len(queue) : queue'[i] = queue[i]
      /\ Len(queue) \in Nat
  BY <1>0, <1>1, <1>3, AppendProperties DEF TypeOK
<1>5. TypeOK'
  BY <1>0, <1>1, <1>3, <1>4, Numbers DEF TypeOK, MasterPlaces, ServeAdditional
<1>6. LockInv' /\ BarrierInv' /\ MailboxInv'
  <2>1. \A q \in BOS' : pc'[q] = "in_bos"
    BY <1>0, <1>1, Numbers DEF BosInv, TypeOK
  <2>2. QED
    BY <1>0, <1>1, <2>1, HandFrame, Numbers DEF MasterAside
<1>7. RequestHasOneHome'
  <2>1. InHand(t) /\ \A u \in Threads : u # t => ~InHand(u)
    BY <1>1 DEF InHand
  <2>2. \A u \in Threads : ~InHand(u)' /\ (Awaiting(u)' <=> Awaiting(u))
    BY <1>1 DEF InHand, Awaiting
  <2>3. r.thread_id = t
    BY DEF r
  <2>4. \A u \in Threads : InQueue(u)' <=> InQueue(u) \/ u = t
    BY <1>4, <2>3 DEF InQueue
  <2>5. ~InQueue(t) /\ ~ready_reqs[t] /\ Awaiting(t)
    BY <1>0, <2>1 DEF RequestHasOneHome
  <2>6. \A i, j \in 1 .. Len(queue') :
          queue'[i].thread_id = queue'[j].thread_id => i = j
    BY <1>0, <1>4, <2>3, <2>5 DEF RequestHasOneHome, InQueue
  <2>7. QED
    BY <1>0, <1>1, <2>1, <2>2, <2>4, <2>5, <2>6 DEF RequestHasOneHome
<1>8. QED
  BY <1>5, <1>6, <1>7 DEF HandoverInv

\* The first request of a thread in a queue that holds no thread twice.
LEMMA FirstInQueue ==
  ASSUME NEW q, Len(q) \in Nat, NEW i \in 1 .. Len(q),
         \A j \in 1 .. Len(q) : q[j].thread_id = q[i].thread_id => j = i
  PROVE  SelectInSeq(q, LAMBDA r : r.thread_id = q[i].thread_id) = i
<1> DEFINE I == {j \in 1 .. Len(q) : q[j].thread_id = q[i].thread_id}
<1>1. I = {i}
  OBVIOUS
<1>2. Min({i}) = i
  BY DEF Min
<1>3. SelectInSeq(q, LAMBDA r : r.thread_id = q[i].thread_id) = IF I # {} THEN Min(I) ELSE 0
  BY DEF SelectInSeq
<1>4. QED
  BY <1>1, <1>2, <1>3

\* remove_request, called by thread, takes out the very node that is granted.
LEMMA PositionIsCurr ==
  ASSUME RequestHasOneHome, NEW i \in 1 .. Len(queue), Len(queue) \in Nat
  PROVE  PositionOf(queue[i].thread_id) = i
BY FirstInQueue DEF PositionOf, RequestHasOneHome

\* The granted request leaves the queue and becomes the flag of its thread,
\* which is awake or woken.
LEMMA GrantStep ==
  ASSUME HandoverInv, Grant
  PROVE  HandoverInv'
<1> DEFINE t == queue[curr].thread_id
           req == queue[curr].req
<1>0. /\ TypeOK /\ LockInv /\ BosInv /\ BarrierInv /\ MailboxInv /\ RequestHasOneHome
  BY DEF HandoverInv, BarrierInv
<1>1. /\ Len(queue) \in Nat /\ curr \in 1 .. Len(queue)
      /\ \A i \in 1 .. Len(queue) :
           queue[i].thread_id \in Threads /\ queue[i].req \in Vector
  <2>1. curr \in Nat \ {0} /\ curr <= Len(queue)
    BY <1>0 DEF Grant, TypeOK
  <2>2. queue \in Seq([thread_id : Threads, req : Vector])
    BY <1>0 DEF TypeOK
  <2>3. \A i \in 1 .. Len(queue) : queue[i] \in [thread_id : Threads, req : Vector]
    BY <2>2, ElementOfSeq
  <2>4. QED
    BY <2>1, <2>2, <2>3
<1>2. t \in Threads /\ req \in Vector /\ PositionOf(t) = curr
  BY <1>0, <1>1, PositionIsCurr
<1>3. /\ avail' = Minus(avail, req)
      /\ alloc' = [alloc EXCEPT ![t] = Plus(@, req)]
      /\ queue' = RemoveAt(queue, PositionOf(t))
      /\ ready_reqs' = [ready_reqs EXCEPT ![t] = TRUE]
      /\ pc' = [pc EXCEPT ![t] = IF @ = "asleep" THEN "cond" ELSE @]
      /\ pc[MASTER] = "grant"
      /\ UNCHANGED <<reqc, rmtx, BOS, REQB, ACK, rtype, req_res, held, todo, local_req,
                     live, thread_cnt, curr>>
  BY DEF Grant, mailbox, barriers, user
<1> HIDE DEF t, req
<1>4. /\ queue' \in Seq([thread_id : Threads, req : Vector])
      /\ Len(queue') = Len(queue) - 1
      /\ \A j \in 1 .. Len(queue) - 1 :
           queue'[j] = IF j < curr THEN queue[j] ELSE queue[j + 1]
  BY <1>0, <1>1, <1>2, <1>3, RemoveAtProperties DEF TypeOK
<1>5. /\ pc'[t] = IF pc[t] = "asleep" THEN "cond" ELSE pc[t]
      /\ \A q \in Parties \ {t} : pc'[q] = pc[q]
      /\ pc' \in [Parties -> UserPlaces \cup MasterPlaces]
  BY <1>0, <1>2, <1>3, Numbers DEF TypeOK, UserPlaces
<1>6. TypeOK'
  <2>1. avail' \in Vector /\ alloc' \in [Threads -> Vector]
    BY <1>0, <1>2, <1>3, VectorArithmetic DEF TypeOK
  <2>2. ready_reqs' \in [Threads -> BOOLEAN]
    BY <1>0, <1>3 DEF TypeOK
  <2>3. pc'[MASTER] \in MasterPlaces /\ \A u \in Threads : pc'[u] \in UserPlaces
    BY <1>0, <1>2, <1>5, Numbers DEF TypeOK, UserPlaces
  <2>4. QED
    BY <1>0, <1>3, <1>4, <1>5, <2>1, <2>2, <2>3 DEF TypeOK
<1>7. LockInv' /\ BarrierInv' /\ MailboxInv'
  <2>1. \A q \in BOS' : pc'[q] = "in_bos"
    BY <1>0, <1>2, <1>3, <1>5, Numbers DEF BosInv, TypeOK
  <2>2. \A u \in Threads :
           \/ pc[u] \in UserAside /\ pc'[u] \in UserAside
           \/ pc'[u] = pc[u] /\ rtype'[u] = rtype[u] /\ req_res'[u] = req_res[u]
    BY <1>2, <1>3, <1>5, Numbers DEF UserAside
  <2>3. pc'[MASTER] = pc[MASTER] /\ local_req' = local_req
    BY <1>2, <1>3, <1>5, Numbers
  <2>4. QED
    BY <1>0, <1>3, <2>1, <2>2, <2>3, HandFrame
<1>8. RequestHasOneHome'
  <2>1. \A u \in Threads : InQueue(u)' <=> InQueue(u) /\ u # t
    <3>1. ASSUME NEW u \in Threads, InQueue(u)' PROVE InQueue(u) /\ u # t
      <4>1. PICK j \in 1 .. Len(queue') : queue'[j].thread_id = u
        BY <3>1 DEF InQueue
      <4>2. PICK i \in 1 .. Len(queue) : i # curr /\ queue[i].thread_id = u
        <5>1. j \in 1 .. Len(queue) - 1
          BY <1>4
        <5>2. CASE j < curr
          BY <1>1, <1>4, <4>1, <5>1, <5>2
        <5>3. CASE ~(j < curr)
          <6>1. /\ queue'[j] = queue[j + 1]
                /\ j + 1 \in 1 .. Len(queue) /\ j + 1 # curr
            BY <1>1, <1>4, <5>1, <5>3
          <6>2. QED
            BY <4>1, <6>1
        <5>4. QED
          BY <5>2, <5>3
      <4>3. QED
        BY <1>0, <1>1, <4>2 DEF RequestHasOneHome, InQueue, t
    <3>2. ASSUME NEW u \in Threads, InQueue(u), u # t PROVE InQueue(u)'
      <4>1. PICK i \in 1 .. Len(queue) : queue[i].thread_id = u
        BY <3>2 DEF InQueue
      <4>2. i # curr
        BY <3>2, <4>1 DEF t
      <4>3. CASE i < curr
        <5>1. i \in 1 .. Len(queue') /\ queue'[i] = queue[i]
          BY <1>1, <1>4, <4>3
        <5>2. QED
          BY <4>1, <5>1 DEF InQueue
      <4>4. CASE i > curr
        <5>1. i - 1 \in 1 .. Len(queue') /\ queue'[i - 1] = queue[i]
          BY <1>1, <1>4, <4>4
        <5>2. QED
          BY <4>1, <5>1 DEF InQueue
      <4>5. QED
        BY <1>1, <4>2, <4>3, <4>4
    <3>3. QED
      BY <3>1, <3>2
  <2>2. \A i, j \in 1 .. Len(queue') :
          queue'[i].thread_id = queue'[j].thread_id => i = j
    <3>1. \A i, j \in 1 .. Len(queue) :
            queue[i].thread_id = queue[j].thread_id => i = j
      BY <1>0 DEF RequestHasOneHome
    <3>2. SUFFICES ASSUME NEW i \in 1 .. Len(queue'), NEW j \in 1 .. Len(queue'),
                          queue'[i].thread_id = queue'[j].thread_id
                   PROVE  i = j
      OBVIOUS
    <3>3. PICK a \in 1 .. Len(queue) :
            queue'[i] = queue[a] /\ a = (IF i < curr THEN i ELSE i + 1)
      BY <1>1, <1>4
    <3>4. PICK b \in 1 .. Len(queue) :
            queue'[j] = queue[b] /\ b = (IF j < curr THEN j ELSE j + 1)
      BY <1>1, <1>4
    <3>5. a = b
      BY <3>1, <3>2, <3>3, <3>4
    <3>6. QED
      BY <1>1, <1>4, <3>3, <3>4, <3>5
  <2>3. InQueue(t)
    BY <1>1 DEF InQueue, t
  <2>4. Awaiting(t) /\ ~InHand(t) /\ ~ready_reqs[t]
    BY <1>0, <1>2, <2>3 DEF RequestHasOneHome
  <2>5. \A u \in Threads : /\ Awaiting(u)' <=> Awaiting(u)
                           /\ ~InHand(u) /\ ~InHand(u)'
    BY <1>2, <1>3, <1>5, Numbers DEF Awaiting, InHand
  <2>6. /\ ready_reqs'[t] /\ pc'[t] # "asleep"
        /\ \A u \in Threads \ {t} : ready_reqs'[u] = ready_reqs[u] /\ pc'[u] = pc[u]
    BY <1>0, <1>2, <1>3, <1>5, Numbers DEF TypeOK
  <2>7. QED
    BY <1>0, <2>1, <2>2, <2>4, <2>5, <2>6 DEF RequestHasOneHome
<1>9. QED
  BY <1>6, <1>7, <1>8 DEF HandoverInv

LEMMA PassStep ==
  ASSUME HandoverInv, Skip \/ EndPass
  PROVE  HandoverInv'
<1>0. /\ TypeOK /\ LockInv /\ BosInv /\ BarrierInv /\ MailboxInv /\ RequestHasOneHome
  BY DEF HandoverInv, BarrierInv
<1>1. /\ pc[MASTER] = "grant" /\ pc'[MASTER] \in {"grant", "reqb"}
      /\ \A u \in Threads : pc'[u] = pc[u]
      /\ pc' \in [Parties -> UserPlaces \cup MasterPlaces]
      /\ curr' \in Nat \ {0}
      /\ UNCHANGED <<reqc, rmtx, BOS, REQB, ACK, ready_reqs, rtype, req_res, held, todo,
                     local_req, avail, alloc, live, thread_cnt, queue>>
  <2>1. CASE Skip
    BY <1>0, <2>1, Numbers DEF Skip, TypeOK, mailbox, barriers, user, tables
  <2>2. CASE EndPass
    BY <1>0, <2>2, Numbers DEF EndPass, TypeOK, MasterPlaces, mailbox, barriers, user, tables
  <2>3. QED
    BY <2>1, <2>2
<1>2. TypeOK'
  BY <1>0, <1>1 DEF TypeOK, MasterPlaces
<1>3. LockInv' /\ BarrierInv' /\ MailboxInv'
  <2>1. \A q \in BOS' : pc'[q] = "in_bos"
    BY <1>0, <1>1, Numbers DEF BosInv, TypeOK
  <2>2. QED
    BY <1>0, <1>1, <2>1, HandFrame, Numbers DEF MasterAside
<1>4. RequestHasOneHome'
  BY <1>0, <1>1, HomeFrame, Numbers DEF Waits
<1>5. QED
  BY <1>2, <1>3, <1>4 DEF HandoverInv

-----------------------------------------------------------------------------
LEMMA HandoverStep == HandoverInv /\ [Next]_vars => HandoverInv'
<1> SUFFICES ASSUME HandoverInv, [Next]_vars PROVE HandoverInv'
  OBVIOUS
<1>1. local_req.thread_id \in Threads
  BY DEF HandoverInv, TypeOK, Request
<1>2. CASE MasterStep
  <2>1. CASE Begin(MASTER)
    BY <2>1, BeginStep, Numbers
  <2>2. CASE MeetREQB(MASTER)
    BY <2>2, MeetREQBStep, Numbers
  <2>3. CASE CopyRequest
    BY <2>3, CopyRequestStep
  <2>4. CASE MeetACK(MASTER, local_req.thread_id)
    BY <1>1, <2>4, MeetACKStep, Numbers
  <2>5. CASE Serve
    BY <1>1, <2>5, ServeOthersStep, ServeAdditionalStep DEF Serve
  <2>6. CASE Grant
    BY <2>6, GrantStep
  <2>7. CASE Skip \/ EndPass
    BY <2>7, PassStep
  <2>8. QED
    BY <1>2, <2>1, <2>2, <2>3, <2>4, <2>5, <2>6, <2>7 DEF MasterStep
<1>3. ASSUME NEW t \in Threads, UserStep(t) PROVE HandoverInv'
  <2>1. CASE Begin(t) \/ MeetREQB(t) \/ MeetACK(t, t)
    BY <2>1, BeginStep, MeetREQBStep, MeetACKStep, Numbers
  <2>2. CASE ReadRequest(t) \/ ReadQuit(t) \/ Post(t)
    BY <2>2, ReadRequestStep, ReadQuitStep, PostStep
  <2>3. CASE Unlock(t) \/ CheckReady(t)
    BY <2>3, UnlockStep, CheckReadyStep
  <2>4. QED
    BY <1>3, <2>1, <2>2, <2>3 DEF UserStep
<1>4. ASSUME NEW t \in Threads, SpuriousWakeup(t) PROVE HandoverInv'
  BY <1>4, SpuriousWakeupStep
<1>5. CASE UNCHANGED vars
  BY <1>5, HandoverStutter
<1>6. QED
  BY <1>2, <1>3, <1>4, <1>5 DEF Next

\* The hand-over of requests from PROCESS to MASTER and back: the inductive
\* invariant the three theorems below rest on.
THEOREM Handover == Spec => []HandoverInv
BY HandoverInit, HandoverStep, PTL DEF Spec

(***************************************************************************)
(* Type correctness of the whole program.                                  *)
(***************************************************************************)
THEOREM Typing == Spec => []TypeOK
<1>1. HandoverInv => TypeOK
  BY DEF HandoverInv
<1>2. QED
  BY <1>1, Handover, PTL

(***************************************************************************)
(* The master always works from what the holder of rmtx posted.            *)
(***************************************************************************)
THEOREM CopyIsRight == Spec => []CopyIsWhatWasPosted
<1>1. HandoverInv => CopyIsWhatWasPosted
  BY DEF HandoverInv, MailboxInv, Copying, Posting, CopyIsWhatWasPosted
<1>2. QED
  BY <1>1, Handover, PTL

(***************************************************************************)
(* No request of a waiting thread is ever lost or held twice, and no       *)
(* wakeup is lost, whatever bankers decides.                               *)
(***************************************************************************)
THEOREM NoRequestIsLost == Spec => []RequestHasOneHome
<1>1. HandoverInv => RequestHasOneHome
  BY DEF HandoverInv
<1>2. QED
  BY <1>1, Handover, PTL

-----------------------------------------------------------------------------
(* The ledgers: what the parts of LedgersAgree are.                        *)

\* t has posted a request that the master has not copied.
IsPosted(t) == \/ pc[t] \in {"post", "reqb", "in_reqb"}
               \/ pc[t] \in {"ack", "in_ack"} /\ pc[MASTER] = "copy"

\* What thread t asks for in the queue q.
AskedIn(q, t) ==
  IF \E i \in 1 .. Len(q) : q[i].thread_id = t
    THEN q[SelectInSeq(q, LAMBDA r : r.thread_id = t)].req
    ELSE Nothing

NoThreadTwice(q) ==
  \A i, j \in 1 .. Len(q) : q[i].thread_id = q[j].thread_id => i = j

Queues == Seq([thread_id : Threads, req : Vector])

LEMMA QueueElements ==
  ASSUME NEW q \in Queues
  PROVE  /\ Len(q) \in Nat
         /\ \A i \in 1 .. Len(q) : q[i].thread_id \in Threads /\ q[i].req \in Vector
<1>1. \A i \in 1 .. Len(q) : q[i] \in [thread_id : Threads, req : Vector]
  BY ElementOfSeq DEF Queues
<1>2. QED
  BY <1>1, LenProperties DEF Queues

LEMMA AskedInIs ==
  ASSUME NEW q \in Queues, NoThreadTwice(q)
  PROVE  /\ \A i \in 1 .. Len(q) : AskedIn(q, q[i].thread_id) = q[i].req
         /\ \A t \in Threads :
              /\ (\A i \in 1 .. Len(q) : q[i].thread_id # t) => AskedIn(q, t) = Nothing
              /\ AskedIn(q, t) \in Vector
<1>0. /\ Len(q) \in Nat
      /\ \A i \in 1 .. Len(q) : q[i].thread_id \in Threads /\ q[i].req \in Vector
  BY QueueElements
<1>1. ASSUME NEW i \in 1 .. Len(q) PROVE AskedIn(q, q[i].thread_id) = q[i].req
  <2>1. SelectInSeq(q, LAMBDA r : r.thread_id = q[i].thread_id) = i
    BY <1>0, FirstInQueue DEF NoThreadTwice
  <2>2. QED
    BY <2>1 DEF AskedIn
<1>2. \A t \in Threads : (\A i \in 1 .. Len(q) : q[i].thread_id # t) => AskedIn(q, t) = Nothing
  BY DEF AskedIn
<1>3. ASSUME NEW t \in Threads PROVE AskedIn(q, t) \in Vector
  <2>1. CASE \E i \in 1 .. Len(q) : q[i].thread_id = t
    BY <1>0, <1>1, <2>1
  <2>2. CASE \A i \in 1 .. Len(q) : q[i].thread_id # t
    BY <1>2, <2>2, Vectors
  <2>3. QED
    BY <2>1, <2>2
<1>4. QED
  BY <1>1, <1>2, <1>3

LEMMA AskedInAppend ==
  ASSUME NEW q \in Queues, NoThreadTwice(q), NEW q2 \in Queues, NEW t \in Threads,
         \A i \in 1 .. Len(q) : q[i].thread_id # t,
         Len(q2) = Len(q) + 1, \A i \in 1 .. Len(q) : q2[i] = q[i],
         q2[Len(q) + 1].thread_id = t
  PROVE  /\ AskedIn(q, t) = Nothing /\ AskedIn(q2, t) = q2[Len(q) + 1].req
         /\ \A u \in Threads : u # t => AskedIn(q2, u) = AskedIn(q, u)
<1> DEFINE r == q2[Len(q) + 1]
           v == r.req
<1>1. r.thread_id = t /\ r.req = v
  OBVIOUS
<1> HIDE DEF r, v
<1>2. /\ q2 \in Queues /\ Len(q) \in Nat
      /\ Len(q2) = Len(q) + 1 /\ q2[Len(q) + 1] = r
      /\ \A i \in 1 .. Len(q) : q2[i] = q[i]
  BY QueueElements DEF r
<1>3. \A i \in 1 .. Len(q2) : i = Len(q2) \/ i \in 1 .. Len(q)
  BY <1>2
<1>4. NoThreadTwice(q2)
  BY <1>1, <1>2, <1>3 DEF NoThreadTwice
<1>5. AskedIn(q2, t) = v
  <2>1. Len(q2) \in 1 .. Len(q2) /\ q2[Len(q2)].thread_id = t /\ q2[Len(q2)].req = v
    BY <1>1, <1>2
  <2>2. QED
    BY <1>2, <1>4, <2>1, AskedInIs
<1>6. ASSUME NEW u \in Threads, u # t PROVE AskedIn(q2, u) = AskedIn(q, u)
  <2>1. CASE \E i \in 1 .. Len(q) : q[i].thread_id = u
    <3>1. PICK i \in 1 .. Len(q) : q[i].thread_id = u
      BY <2>1
    <3>2. i \in 1 .. Len(q2) /\ q2[i] = q[i]
      BY <1>2
    <3>3. AskedIn(q2, u) = q2[i].req /\ AskedIn(q, u) = q[i].req
      BY <1>2, <1>4, <3>1, <3>2, AskedInIs
    <3>4. QED
      BY <3>2, <3>3
  <2>2. CASE \A i \in 1 .. Len(q) : q[i].thread_id # u
    <3>1. \A i \in 1 .. Len(q2) : q2[i].thread_id # u
      BY <1>1, <1>2, <1>3, <1>6, <2>2
    <3>2. QED
      BY <1>2, <1>4, <2>2, <3>1, AskedInIs
  <2>3. QED
    BY <2>1, <2>2
<1>7. QED
  BY <1>2, <1>5, <1>6, AskedInIs DEF r, v

LEMMA AskedInRemove ==
  ASSUME NEW q \in Queues, NoThreadTwice(q), NEW c \in 1 .. Len(q),
         NEW q2, q2 = RemoveAt(q, c)
  PROVE  /\ q2 \in Queues /\ NoThreadTwice(q2) /\ Len(q2) = Len(q) - 1
         /\ \A i \in 1 .. Len(q2) : q2[i] = IF i < c THEN q[i] ELSE q[i + 1]
         /\ \A i \in 1 .. Len(q2) : q2[i].thread_id # q[c].thread_id
         /\ AskedIn(q2, q[c].thread_id) = Nothing
         /\ \A u \in Threads : u # q[c].thread_id => AskedIn(q2, u) = AskedIn(q, u)
<1>0. /\ Len(q) \in Nat
      /\ \A i \in 1 .. Len(q) : q[i].thread_id \in Threads /\ q[i].req \in Vector
  BY QueueElements
<1>1. /\ q2 \in Queues /\ Len(q2) = Len(q) - 1
      /\ \A i \in 1 .. Len(q2) : q2[i] = IF i < c THEN q[i] ELSE q[i + 1]
  BY RemoveAtProperties DEF Queues
<1> DEFINE old(i) == IF i < c THEN i ELSE i + 1
<1>2. \A i \in 1 .. Len(q2) : /\ old(i) \in 1 .. Len(q) /\ q2[i] = q[old(i)] /\ old(i) # c
                              /\ \A j \in 1 .. Len(q2) : old(i) = old(j) => i = j
  BY <1>0, <1>1
<1>3. \A j \in 1 .. Len(q) : j # c => \E i \in 1 .. Len(q2) : old(i) = j
  <2>1. ASSUME NEW j \in 1 .. Len(q), j # c PROVE \E i \in 1 .. Len(q2) : old(i) = j
    <3>1. CASE j < c
      <4>1. j \in 1 .. Len(q2) /\ old(j) = j
        BY <1>0, <1>1, <3>1
      <4>2. QED
        BY <4>1
    <3>2. CASE j > c
      <4>1. j - 1 \in 1 .. Len(q2) /\ old(j - 1) = j
        BY <1>0, <1>1, <3>2
      <4>2. QED
        BY <4>1
    <3>3. QED
      BY <1>0, <2>1, <3>1, <3>2
  <2>2. QED
    BY <2>1
<1> HIDE DEF old
<1>4. NoThreadTwice(q2)
  <2>1. ASSUME NEW i \in 1 .. Len(q2), NEW j \in 1 .. Len(q2),
               q2[i].thread_id = q2[j].thread_id
        PROVE  i = j
    <3>1. old(i) = old(j)
      BY <1>2, <2>1 DEF NoThreadTwice
    <3>2. QED
      BY <1>2, <3>1
  <2>2. QED
    BY <2>1 DEF NoThreadTwice
<1>5. \A i \in 1 .. Len(q2) : q2[i].thread_id # q[c].thread_id
  BY <1>2 DEF NoThreadTwice
<1>6. ASSUME NEW u \in Threads, u # q[c].thread_id PROVE AskedIn(q2, u) = AskedIn(q, u)
  <2>1. CASE \E j \in 1 .. Len(q) : q[j].thread_id = u
    <3>1. PICK j \in 1 .. Len(q) : q[j].thread_id = u
      BY <2>1
    <3>2. PICK i \in 1 .. Len(q2) : old(i) = j
      BY <1>3, <1>6, <3>1
    <3>3. q2[i] = q[j]
      BY <1>2, <3>2
    <3>4. AskedIn(q2, u) = q2[i].req /\ AskedIn(q, u) = q[j].req
      BY <1>1, <1>4, <3>1, <3>3, AskedInIs
    <3>5. QED
      BY <3>3, <3>4
  <2>2. CASE \A j \in 1 .. Len(q) : q[j].thread_id # u
    <3>1. \A i \in 1 .. Len(q2) : q2[i].thread_id # u
      BY <1>2, <2>2
    <3>2. QED
      BY <1>1, <1>4, <2>2, <3>1, AskedInIs
  <2>3. QED
    BY <2>1, <2>2
<1>7. QED
  BY <1>0, <1>1, <1>4, <1>5, <1>6, AskedInIs

\* The same, told of the thread whose entry goes.
LEMMA AskedWithout ==
  ASSUME NEW q \in Queues, NoThreadTwice(q), NEW c \in 1 .. Len(q),
         NEW t, t = q[c].thread_id, NEW q2, q2 = RemoveAt(q, c)
  PROVE  /\ Len(q2) = Len(q) - 1
         /\ \A i \in 1 .. Len(q2) : q2[i] = IF i < c THEN q[i] ELSE q[i + 1]
         /\ \A i \in 1 .. Len(q2) : q2[i].thread_id # t
         /\ AskedIn(q2, t) = Nothing
         /\ \A u \in Threads : u # t => AskedIn(q2, u) = AskedIn(q, u)
<1>1. /\ Len(q2) = Len(q) - 1
      /\ \A i \in 1 .. Len(q2) : q2[i] = IF i < c THEN q[i] ELSE q[i + 1]
      /\ \A i \in 1 .. Len(q2) : q2[i].thread_id # q[c].thread_id
      /\ AskedIn(q2, q[c].thread_id) = Nothing
      /\ \A u \in Threads : u # q[c].thread_id => AskedIn(q2, u) = AskedIn(q, u)
  BY AskedInRemove, SMTT(40)
<1>2. QED
  BY <1>1, Zenon
-----------------------------------------------------------------------------
LEMMA QueuedIs == \A t \in Threads : Queued(t) = AskedIn(queue, t)
BY Zenon DEF Queued, InQueue, PositionOf, AskedIn

InBalance(h, a, p, c, q) == \A k \in Kinds : h[k] = a[k] + p[k] + c[k] + q[k]

LEMMA Balance ==
  ASSUME NEW h \in Vector, NEW a \in Vector, NEW p \in Vector, NEW c \in Vector, NEW q \in Vector
  PROVE  h = Plus(Plus(a, p), Plus(c, q)) <=> InBalance(h, a, p, c, q)
BY DEF Vector, Plus, InBalance

Parts ==
  /\ \A t \in Threads :
       /\ Posted(t) = IF rtype[t] # "EXIT" /\ IsPosted(t) THEN req_res[t] ELSE Nothing
       /\ Copied(t) = IF InMastersHand /\ local_req.thread_id = t /\ local_req.type # "EXIT"
                        THEN local_req.req ELSE Nothing
       /\ Queued(t) = AskedIn(queue, t)
       /\ Posted(t) \in Vector /\ Copied(t) \in Vector /\ Queued(t) \in Vector
       /\ req_res[t] \in Vector /\ held[t] \in Vector /\ alloc[t] \in Vector
       /\ MaxNeed[t] \in Vector
  /\ local_req.req \in Vector /\ local_req.thread_id \in Threads
  /\ queue \in Queues /\ NoThreadTwice(queue) /\ Len(queue) \in Nat
  /\ \A i \in 1 .. Len(queue) : queue[i].thread_id \in Threads /\ queue[i].req \in Vector
  /\ live \subseteq Threads
  /\ LedgersAgree <=>
       \A t \in live : InBalance(held[t], alloc[t], Posted(t), Copied(t), Queued(t))

LEMMA PartsOfLedger == HandoverInv => Parts
<1> SUFFICES ASSUME HandoverInv PROVE Parts
  OBVIOUS
<1>0. TypeOK /\ RequestHasOneHome
  BY DEF HandoverInv
<1>1. \A t \in Threads :
        /\ Posted(t) = IF rtype[t] # "EXIT" /\ IsPosted(t) THEN req_res[t] ELSE Nothing
        /\ Copied(t) = IF InMastersHand /\ local_req.thread_id = t /\ local_req.type # "EXIT"
                         THEN local_req.req ELSE Nothing
  BY DEF Posted, Copied, IsPosted, InMastersHand
<1>2. \A t \in Threads : req_res[t] \in Vector /\ held[t] \in Vector /\ alloc[t] \in Vector
  BY <1>0 DEF TypeOK
<1>3. \A t \in Threads : MaxNeed[t] \in Vector
  BY ResourceAssumption DEF Vector
<1>4. /\ local_req.req \in Vector /\ local_req.thread_id \in Threads
      /\ live \subseteq Threads
  BY <1>0 DEF TypeOK, Request
<1>5. queue \in Queues /\ NoThreadTwice(queue)
  BY <1>0 DEF TypeOK, Queues, RequestHasOneHome, NoThreadTwice
<1>6. /\ Len(queue) \in Nat
      /\ \A i \in 1 .. Len(queue) : queue[i].thread_id \in Threads /\ queue[i].req \in Vector
  BY <1>5, QueueElements
<1>7. \A t \in Threads : Posted(t) \in Vector /\ Copied(t) \in Vector
  BY <1>1, <1>2, <1>4, Vectors
<1>8. \A t \in Threads : Queued(t) = AskedIn(queue, t) /\ Queued(t) \in Vector
  BY <1>5, QueuedIs, AskedInIs
<1>9. LedgersAgree <=>
        \A t \in live : InBalance(held[t], alloc[t], Posted(t), Copied(t), Queued(t))
  <2>1. \A t \in live : held[t] = Plus(Plus(alloc[t], Posted(t)), Plus(Copied(t), Queued(t)))
           <=> InBalance(held[t], alloc[t], Posted(t), Copied(t), Queued(t))
    BY <1>2, <1>4, <1>7, <1>8, Balance
  <2>2. QED
    BY <2>1 DEF LedgersAgree
<1>10. QED
  BY <1>1, <1>2, <1>3, <1>4, <1>5, <1>6, <1>7, <1>8, <1>9 DEF Parts

\* The same after a step.
LEMMA PartsOfNext == HandoverInv' => Parts'
BY PartsOfLedger, PTL

\* Steps that move no amount.
LEMMA LedgerFrame ==
  ASSUME LedgerInv, HandoverInv', ExitInv',
         UNCHANGED <<held, local_req, queue, alloc, live>>,
         InMastersHand' <=> InMastersHand,
         \A t \in Threads :
           /\ \/ rtype'[t] = rtype[t] /\ req_res'[t] = req_res[t]
              \/ rtype'[t] = "EXIT"
           /\ rtype[t] # "EXIT" /\ IsPosted(t) <=> rtype'[t] # "EXIT" /\ IsPosted(t)'
  PROVE  LedgerInv'
<1>0. Parts /\ Parts'
  BY PartsOfLedger, PartsOfNext DEF LedgerInv
<1>1. \A t \in Threads : Posted(t)' = Posted(t)
  BY <1>0 DEF Parts
<1>2. \A t \in Threads : Copied(t)' = Copied(t) /\ Queued(t)' = Queued(t)
  BY <1>0 DEF Parts
<1>3. LedgersAgree'
  BY <1>0, <1>1, <1>2 DEF Parts, LedgerInv
<1>4. AmountsInv'
  BY <1>1 DEF LedgerInv, AmountsInv
<1>5. ClaimsInv'
  BY DEF LedgerInv, ClaimsInv
<1>6. QED
  BY <1>3, <1>4, <1>5 DEF LedgerInv

LEMMA ExitFrame ==
  ASSUME ExitInv, UNCHANGED <<local_req, queue, live>>,
         pc'[MASTER] = "serve" => pc[MASTER] = "serve",
         \A t \in Threads : rtype[t] = "EXIT" /\ pc[t] \in {"unlock", "done"} =>
           rtype'[t] = "EXIT" /\ pc'[t] \in {"unlock", "done"},
         local_req.thread_id \in Threads
  PROVE  ExitInv'
BY DEF ExitInv, InQueue

\* Steps of a thread that leave the master where it is, and its request where
\* it was.
LEMMA OwnStep ==
  ASSUME LedgerInv, HandoverInv', UNCHANGED <<held, local_req, queue, alloc, live>>,
         NEW t \in Threads,
         \A q \in Parties : q # t => pc'[q] = pc[q],
         \A u \in Threads : u # t => rtype'[u] = rtype[u],
         \A u \in Threads : rtype'[u] = rtype[u] \/ rtype'[u] = "EXIT",
         req_res' = req_res,
         rtype[t] = "EXIT" /\ pc[t] \in {"unlock", "done"} =>
           rtype'[t] = "EXIT" /\ pc'[t] \in {"unlock", "done"},
         rtype[t] # "EXIT" /\ IsPosted(t) <=> rtype'[t] # "EXIT" /\ IsPosted(t)'
  PROVE  LedgerInv'
<1>1. pc'[MASTER] = pc[MASTER] /\ (InMastersHand' <=> InMastersHand)
  BY Numbers DEF InMastersHand
<1>2. local_req.thread_id \in Threads
  BY DEF LedgerInv, HandoverInv, TypeOK, Request
<1>3. ExitInv'
  BY <1>1, <1>2, ExitFrame, Numbers DEF LedgerInv
<1>4. \A u \in Threads :
        rtype[u] # "EXIT" /\ IsPosted(u) <=> rtype'[u] # "EXIT" /\ IsPosted(u)'
  BY <1>1, Numbers DEF IsPosted
<1>5. QED
  BY <1>1, <1>3, <1>4, LedgerFrame

LEMMA LedgerQuietSteps ==
  ASSUME LedgerInv, HandoverInv', NEW t \in Threads,
         ReadQuit(t) \/ Post(t) \/ Unlock(t) \/ CheckReady(t) \/ SpuriousWakeup(t)
  PROVE  LedgerInv'
<1>0. /\ pc \in [Parties -> UserPlaces \cup MasterPlaces] /\ rtype \in [Threads -> RequestTypes]
      /\ t \in Parties
  BY Numbers DEF LedgerInv, HandoverInv, TypeOK
<1>1. \A q \in Parties : q # t => pc'[q] = pc[q]
  BY <1>0 DEF ReadQuit, Post, Unlock, CheckReady, SpuriousWakeup
<1>2. UNCHANGED <<held, local_req, queue, alloc, live>> /\ req_res' = req_res
  BY DEF ReadQuit, Post, Unlock, CheckReady, SpuriousWakeup, user, master, tables
<1>3. /\ \A u \in Threads : u # t => rtype'[u] = rtype[u]
      /\ \A u \in Threads : rtype'[u] = rtype[u] \/ rtype'[u] = "EXIT"
  BY <1>0 DEF ReadQuit, Post, Unlock, CheckReady, SpuriousWakeup, user
<1>4. rtype[t] = "EXIT" /\ pc[t] \in {"unlock", "done"} =>
        rtype'[t] = "EXIT" /\ pc'[t] \in {"unlock", "done"}
  BY <1>0 DEF ReadQuit, Post, Unlock, CheckReady, SpuriousWakeup, user
<1>5. rtype[t] # "EXIT" /\ IsPosted(t) <=> rtype'[t] # "EXIT" /\ IsPosted(t)'
  BY <1>0, <1>1, Numbers
     DEF ReadQuit, Post, Unlock, CheckReady, SpuriousWakeup, user, IsPosted, RequestTypes
<1>6. QED
  BY <1>1, <1>2, <1>3, <1>4, <1>5, OwnStep

LEMMA LedgerBegin ==
  ASSUME LedgerInv, HandoverInv', NEW p \in Parties, Begin(p)
  PROVE  LedgerInv'
<1>0. /\ pc \in [Parties -> UserPlaces \cup MasterPlaces] /\ BosInv
      /\ local_req.thread_id \in Threads
  BY DEF LedgerInv, HandoverInv, BarrierInv, TypeOK, Request
<1>1. \A q \in Parties :
        \/ pc'[q] = pc[q]
        \/ pc[q] \in {"boot", "in_bos"} /\ pc'[q] = "in_bos"
        \/ /\ pc[q] \in {"boot", "in_bos"}
           /\ pc'[q] = IF q = MASTER THEN "reqb" ELSE "run"
  BY <1>0 DEF Begin, BosInv
<1>2. UNCHANGED <<held, local_req, queue, alloc, live, rtype, req_res>>
  BY DEF Begin, user, master, tables
<1>3. ExitInv'
  BY <1>0, <1>1, <1>2, ExitFrame, Numbers DEF LedgerInv
<1>4. /\ InMastersHand' <=> InMastersHand
      /\ \A u \in Threads : IsPosted(u)' <=> IsPosted(u)
  BY <1>1, Numbers DEF InMastersHand, IsPosted
<1>5. QED
  BY <1>2, <1>3, <1>4, LedgerFrame

\* A posted request stays posted until the master copies it.
LEMMA LedgerMeetREQB ==
  ASSUME LedgerInv, HandoverInv', NEW p \in Parties, MeetREQB(p)
  PROVE  LedgerInv'
<1>0. /\ pc \in [Parties -> UserPlaces \cup MasterPlaces] /\ MASTER \in Parties
      /\ \A q \in REQB : q \in Parties /\ pc[q] = "in_reqb"
      /\ \A u \in Threads : pc[u] \in {"ack", "in_ack"} => pc[MASTER] \in {"copy", "ack", "in_ack"}
      /\ local_req.thread_id \in Threads
  BY Numbers DEF LedgerInv, HandoverInv, BarrierInv, TypeOK, Request, ReqbInv, MailboxInv, Copying
<1>1. UNCHANGED <<held, local_req, queue, alloc, live, rtype, req_res>> /\ pc[p] = "reqb"
  BY DEF MeetREQB, user, master, tables
<1>2. CASE REQB = {}
  <2>1. pc'[p] = "in_reqb" /\ \A q \in Parties : q # p => pc'[q] = pc[q]
    BY <1>0, <1>2 DEF MeetREQB, Meet
  <2>2. ExitInv'
    BY <1>0, <1>1, <2>1, ExitFrame, Numbers DEF LedgerInv
  <2>3. InMastersHand' <=> InMastersHand
    BY <1>1, <2>1, Numbers DEF InMastersHand
  <2>4. \A u \in Threads : IsPosted(u)' <=> IsPosted(u)
    BY <1>0, <1>1, <2>1, Numbers DEF IsPosted
  <2>5. QED
    BY <1>1, <2>2, <2>3, <2>4, LedgerFrame
<1>3. CASE REQB # {}
  <2>1. \A q \in Parties : pc'[q] = IF q \in REQB \cup {p}
                                    THEN IF q = MASTER THEN "copy" ELSE "ack" ELSE pc[q]
    BY <1>3 DEF MeetREQB, Meet
  <2>2. \A q \in REQB \cup {p} : pc[q] \in {"reqb", "in_reqb"}
    BY <1>0, <1>1
  <2>3. MASTER \in REQB \cup {p}
    <3>1. PICK q \in REQB : TRUE
      BY <1>3
    <3>2. q # p /\ pc[q] = "in_reqb" /\ q \in Parties
      BY <1>0, <1>1
    <3>3. CASE q \in Threads /\ p \in Threads
      BY <1>1, <3>2, <3>3 DEF LedgerInv, HandoverInv, LockInv, Posting
    <3>4. QED
      BY <3>2, <3>3, Numbers
  <2>4. ExitInv'
    BY <1>0, <1>1, <2>1, <2>2, ExitFrame, Numbers DEF LedgerInv
  <2>5. InMastersHand' <=> InMastersHand
    BY <1>0, <2>1, <2>2, <2>3 DEF InMastersHand
  <2>6. pc'[MASTER] = "copy" /\ \A u \in Threads : pc[u] \notin {"ack", "in_ack"}
    BY <1>0, <2>1, <2>2, <2>3
  <2>7. ASSUME NEW u \in Threads PROVE IsPosted(u)' <=> IsPosted(u)
    BY <2>1, <2>2, <2>6, Numbers DEF IsPosted
  <2>8. QED
    BY <1>1, <2>4, <2>5, <2>7, LedgerFrame
<1>4. QED
  BY <1>2, <1>3

\* When the master and the thread have met at ACK, the master serves a thread
\* that is still in its tables and waits for nothing else.
LEMMA LedgerMeetACK ==
  ASSUME LedgerInv, HandoverInv', NEW p \in Parties, NEW t \in Threads, MeetACK(p, t),
         p = t \/ (p = MASTER /\ t = local_req.thread_id)
  PROVE  LedgerInv'
<1>0. /\ pc \in [Parties -> UserPlaces \cup MasterPlaces] /\ MASTER \in Parties
      /\ \A q \in Parties :
           q \in ACK[t] <=> pc[q] = "in_ack" /\ (q = t \/ (q = MASTER /\ local_req.thread_id = t))
      /\ \A u \in Threads : pc[u] \in {"ack", "in_ack"} => pc[MASTER] \in {"copy", "ack", "in_ack"}
      /\ local_req.thread_id \in Threads /\ ACK[t] \subseteq Parties
      /\ ExitInv
  BY Numbers DEF LedgerInv, HandoverInv, BarrierInv, TypeOK, Request, AckInv, MailboxInv, Copying
<1>1. UNCHANGED <<held, local_req, queue, alloc, live, rtype, req_res>> /\ pc[p] = "ack"
  BY DEF MeetACK, user, master, tables
<1>2. CASE ACK[t] = {}
  <2>1. pc'[p] = "in_ack" /\ \A q \in Parties : q # p => pc'[q] = pc[q]
    BY <1>0, <1>2 DEF MeetACK, Meet
  <2>2. ExitInv'
    BY <1>0, <1>1, <2>1, ExitFrame, Numbers
  <2>3. InMastersHand' <=> InMastersHand
    BY <1>1, <2>1, Numbers DEF InMastersHand
  <2>4. \A u \in Threads : IsPosted(u)' <=> IsPosted(u)
    BY <1>0, <1>1, <2>1, Numbers DEF IsPosted
  <2>5. QED
    BY <1>1, <2>2, <2>3, <2>4, LedgerFrame
<1>3. CASE ACK[t] # {}
  <2>1. \A q \in Parties : pc'[q] = IF q \in ACK[t] \cup {p}
                                    THEN IF q = MASTER THEN "serve" ELSE "unlock" ELSE pc[q]
    BY <1>3 DEF MeetACK, Meet
  <2>2. ACK[t] \cup {p} = {t, MASTER} /\ t # MASTER
    BY <1>0, <1>1, <1>3, Numbers
  <2>3. /\ pc[t] \in {"ack", "in_ack"} /\ pc[MASTER] \in {"ack", "in_ack"}
        /\ pc'[t] = "unlock" /\ pc'[MASTER] = "serve"
        /\ \A q \in Parties : q # t /\ q # MASTER => pc'[q] = pc[q]
    BY <1>0, <1>1, <2>1, <2>2, Numbers
  <2>4. local_req.thread_id = t /\ local_req.type = rtype[t]
    BY <2>3 DEF LedgerInv, HandoverInv, MailboxInv, Posting
  <2>5. t \in live /\ ~InQueue(t)
    BY <1>0, <2>3 DEF ExitInv, LedgerInv, HandoverInv, RequestHasOneHome, Awaiting
  <2>6. ExitInv'
    <3>1. \A u \in Threads : u \notin live' =>
            rtype'[u] = "EXIT" /\ pc'[u] \in {"unlock", "done"}
      BY <1>0, <1>1, <2>3, Numbers DEF ExitInv
    <3>2. local_req'.thread_id \in live' /\ ~InQueue(local_req.thread_id)'
      BY <1>1, <2>4, <2>5 DEF InQueue
    <3>3. QED
      BY <1>1, <2>3, <2>4, <3>1, <3>2 DEF ExitInv
  <2>7. InMastersHand' /\ InMastersHand
    BY <2>3 DEF InMastersHand
  <2>8. ASSUME NEW u \in Threads PROVE IsPosted(u)' <=> IsPosted(u)
    BY <2>3, Numbers DEF IsPosted
  <2>9. QED
    BY <1>1, <2>6, <2>7, <2>8, LedgerFrame
<1>4. QED
  BY <1>2, <1>3

LEMMA LedgerPass ==
  ASSUME LedgerInv, HandoverInv', Skip \/ EndPass
  PROVE  LedgerInv'
<1>0. pc \in [Parties -> UserPlaces \cup MasterPlaces] /\ local_req.thread_id \in Threads
  BY DEF LedgerInv, HandoverInv, TypeOK, Request
<1>1. /\ UNCHANGED <<held, local_req, queue, alloc, live, rtype, req_res>>
      /\ pc[MASTER] = "grant" /\ pc'[MASTER] \in {"grant", "reqb"}
      /\ \A u \in Threads : pc'[u] = pc[u]
  BY <1>0, Numbers DEF Skip, EndPass, user, tables
<1>2. ExitInv'
  BY <1>0, <1>1, ExitFrame DEF LedgerInv
<1>3. /\ InMastersHand' <=> InMastersHand
      /\ \A u \in Threads : IsPosted(u)' <=> IsPosted(u)
  BY <1>1 DEF InMastersHand, IsPosted
<1>4. QED
  BY <1>1, <1>2, <1>3, LedgerFrame

\* What may be held next lies within the claim.
LEMMA HoldingsAreWithin ==
  ASSUME NEW t \in Threads, NEW h \in Holdings(t)
  PROVE  h \in Vector /\ Within(h, MaxNeed[t])
<1>1. h \in Vector
  BY HoldingsAreVectors
<1>2. \A k \in Kinds : MaxNeed[t][k] \in Nat
  BY ResourceAssumption
<1>3. UNION {0 .. MaxNeed[t][k] : k \in Kinds} \subseteq Nat
  BY <1>2
<1>4. \A k \in Kinds : h[k] \in Nat
  BY <1>3 DEF Holdings
<1>5. Fits(Nothing, h)
  BY <1>1, <1>4, Vectors DEF Fits
<1>6. Fits(h, MaxNeed[t])
  BY DEF Holdings
<1>7. QED
  BY <1>1, <1>5, <1>6 DEF Within

LEMMA SameVector ==
  ASSUME NEW a \in Vector, NEW b \in Vector, \A k \in Kinds : a[k] = b[k]
  PROVE  a = b
BY DEF Vector

LEMMA MinusBack ==
  ASSUME NEW a \in Vector, NEW b \in Vector
  PROVE  Minus(a, Minus(a, b)) = b /\ Minus(a, Nothing) = a
<1>1. \A k \in Kinds : Minus(a, Minus(a, b))[k] = b[k] /\ Minus(a, Nothing)[k] = a[k]
  BY Vectors DEF Vector
<1>2. /\ Minus(a, b) \in Vector /\ Nothing \in Vector
  BY Vectors
<1>3. /\ Minus(a, Minus(a, b)) \in Vector /\ Minus(a, Nothing) \in Vector
  BY <1>2, Vectors
<1>4. Minus(a, Minus(a, b)) = b
  BY <1>1, <1>3, SameVector
<1>5. Minus(a, Nothing) = a
  BY <1>1, <1>3, SameVector
<1>6. QED
  BY <1>4, <1>5

\* The thread counts the request in before the master knows of it.
LEMMA LedgerReadRequest ==
  ASSUME LedgerInv, HandoverInv', NEW t \in Threads, ReadRequest(t)
  PROVE  LedgerInv'
<1>0. /\ Parts /\ Parts' /\ ExitInv /\ AmountsInv /\ LedgersAgree
      /\ pc \in [Parties -> UserPlaces \cup MasterPlaces] /\ t \in Parties
      /\ req_res \in [Threads -> Vector] /\ held \in [Threads -> Vector]
      /\ rtype \in [Threads -> RequestTypes] /\ local_req.thread_id \in Threads
  BY PartsOfLedger, PartsOfNext, Numbers DEF LedgerInv, HandoverInv, TypeOK, Request
<1>1. PICK h \in Holdings(t) :
        /\ req_res' = [req_res EXCEPT ![t] = Minus(h, held[t])]
        /\ rtype' = [rtype EXCEPT ![t] = IF \E k \in Kinds : Minus(h, held[t])[k] > 0
                                           THEN "ADDITIONAL" ELSE "RELEASE"]
        /\ held' = [held EXCEPT ![t] = h]
  BY DEF ReadRequest
<1> DEFINE req == Minus(h, held[t])
<1>2. h \in Vector /\ Within(h, MaxNeed[t])
  BY HoldingsAreWithin
<1>3. held[t] \in Vector /\ req \in Vector /\ \A k \in Kinds : req[k] = h[k] - held[t][k]
  BY <1>0, <1>2, Vectors
<1>4. /\ held'[t] = h /\ req_res'[t] = req
      /\ rtype'[t] = IF \E k \in Kinds : req[k] > 0 THEN "ADDITIONAL" ELSE "RELEASE"
      /\ \A u \in Threads : u # t => /\ held'[u] = held[u] /\ req_res'[u] = req_res[u]
                                     /\ rtype'[u] = rtype[u]
  BY <1>0, <1>1
<1> HIDE DEF req
<1>5. /\ pc[t] = "run" /\ pc'[t] = "post" /\ \A q \in Parties : q # t => pc'[q] = pc[q]
      /\ UNCHANGED <<local_req, queue, alloc, live>>
  BY <1>0 DEF ReadRequest, master, tables
<1>6. /\ t \in live /\ pc'[MASTER] = pc[MASTER] /\ (InMastersHand' <=> InMastersHand)
      /\ ~IsPosted(t) /\ IsPosted(t)'
      /\ \A u \in Threads : u # t => (IsPosted(u)' <=> IsPosted(u))
  BY <1>0, <1>5, Numbers DEF ExitInv, InMastersHand, IsPosted
<1>7. ExitInv'
  BY <1>0, <1>4, <1>5, <1>6, ExitFrame, Numbers
<1>8. /\ Posted(t) = Nothing /\ Posted(t)' = req
      /\ \A u \in Threads : u # t => Posted(u)' = Posted(u)
      /\ \A u \in Threads : Copied(u)' = Copied(u) /\ Queued(u)' = Queued(u)
  BY <1>0, <1>4, <1>5, <1>6 DEF Parts
<1>9. LedgersAgree'
  <2>1. \A u \in live : InBalance(held[u], alloc[u], Posted(u), Copied(u), Queued(u))
    BY <1>0 DEF Parts
  <2>2. ASSUME NEW u \in live, u # t
        PROVE  InBalance(held'[u], alloc'[u], Posted(u)', Copied(u)', Queued(u)')
    BY <1>0, <1>4, <1>5, <1>8, <2>1, <2>2 DEF Parts
  <2>3. InBalance(h, alloc[t], req, Copied(t), Queued(t))
    <3>1. /\ \A k \in Kinds : held[t][k] = alloc[t][k] + 0 + Copied(t)[k] + Queued(t)[k]
          /\ alloc[t] \in Vector /\ Copied(t) \in Vector /\ Queued(t) \in Vector
      BY <1>0, <1>6, <1>8, <2>1, Vectors DEF InBalance, Parts
    <3>2. QED
      BY <1>2, <1>3, <3>1 DEF InBalance, Vector
  <2>4. \A u \in live' : InBalance(held'[u], alloc'[u], Posted(u)', Copied(u)', Queued(u)')
    BY <1>0, <1>4, <1>5, <1>8, <2>2, <2>3
  <2>5. QED
    BY <1>0, <2>4 DEF Parts
<1>10. AmountsInv'
  <2>1. Minus(h, req) = held[t] /\ Minus(held[t], Nothing) = held[t]
    BY <1>2, <1>3, MinusBack DEF req
  <2>2. /\ rtype'[t] = "RELEASE" => AsksNothing(req_res'[t])
        /\ rtype'[t] = "ADDITIONAL" => ~AsksNothing(req_res'[t])
    BY <1>3, <1>4 DEF AsksNothing, Vector
  <2>3. /\ Within(held'[t], MaxNeed[t]) /\ Within(Minus(held'[t], Posted(t)'), MaxNeed[t])
    BY <1>0, <1>2, <1>4, <1>8, <2>1 DEF AmountsInv
  <2>4. ASSUME NEW u \in Threads, u # t
        PROVE  /\ rtype'[u] = "RELEASE" => AsksNothing(req_res'[u])
               /\ rtype'[u] = "ADDITIONAL" => ~AsksNothing(req_res'[u])
               /\ Within(held'[u], MaxNeed[u])
               /\ Within(Minus(held'[u], Posted(u)'), MaxNeed[u])
    BY <1>0, <1>4, <1>8, <2>4 DEF AmountsInv
  <2>5. /\ InMastersHand' =>
             /\ local_req'.type = "RELEASE" => AsksNothing(local_req'.req)
             /\ local_req'.type = "ADDITIONAL" => ~AsksNothing(local_req'.req)
        /\ \A i \in 1 .. Len(queue') : Fits(Nothing, queue'[i].req) /\ ~AsksNothing(queue'[i].req)
    BY <1>0, <1>5, <1>6 DEF AmountsInv
  <2>6. QED
    BY <2>2, <2>3, <2>4, <2>5 DEF AmountsInv
<1>11. ClaimsInv'
  BY <1>5 DEF LedgerInv, ClaimsInv
<1>12. QED
  BY <1>7, <1>9, <1>10, <1>11 DEF LedgerInv

\* The master takes the request over: it is not counted twice.
LEMMA LedgerCopyRequest ==
  ASSUME LedgerInv, HandoverInv', CopyRequest
  PROVE  LedgerInv'
<1>0. /\ Parts /\ Parts' /\ ExitInv /\ AmountsInv /\ LedgersAgree
      /\ pc \in [Parties -> UserPlaces \cup MasterPlaces] /\ MASTER \in Parties
      /\ local_req.thread_id \in Threads
  BY PartsOfLedger, PartsOfNext, Numbers DEF LedgerInv, HandoverInv, TypeOK, Request
<1>1. /\ pc[MASTER] = "copy" /\ pc'[MASTER] = "ack" /\ \A u \in Threads : pc'[u] = pc[u]
      /\ local_req' = reqc /\ UNCHANGED <<held, queue, alloc, live, rtype, req_res>>
  BY <1>0, Numbers DEF CopyRequest, user, tables
<1> DEFINE t == rmtx
<1>2. /\ t \in Threads /\ pc[t] \in {"ack", "in_ack"}
      /\ local_req'.thread_id = t /\ local_req'.type = rtype[t]
      /\ rtype[t] # "EXIT" => local_req'.req = req_res[t]
      /\ \A u \in Threads : u # t => pc[u] \notin {"ack", "in_ack"}
  BY <1>1 DEF LedgerInv, HandoverInv, LockInv, MailboxInv, Posting, Copying
<1> HIDE DEF t
<1>3. IsPosted(t) /\ \A u \in Threads : IsPosted(u)' <=> IsPosted(u) /\ u # t
  BY <1>1, <1>2 DEF IsPosted
<1>4. ~InMastersHand /\ InMastersHand'
  BY <1>1 DEF InMastersHand
<1>5. /\ \A u \in Threads : Posted(u)' = IF u = t THEN Nothing ELSE Posted(u)
      /\ \A u \in Threads : Copied(u) = Nothing
      /\ \A u \in Threads : Copied(u)' = IF u = t THEN Posted(u) ELSE Nothing
      /\ \A u \in Threads : Queued(u)' = Queued(u)
  BY <1>0, <1>1, <1>2, <1>3, <1>4 DEF Parts
<1>6. ExitInv'
  BY <1>0, <1>1 DEF ExitInv
<1>7. LedgersAgree'
  <2>1. ASSUME NEW u \in live
        PROVE  InBalance(held'[u], alloc'[u], Posted(u)', Copied(u)', Queued(u)')
    <3>1. /\ InBalance(held[u], alloc[u], Posted(u), Nothing, Queued(u))
          /\ Posted(u) \in Vector /\ alloc[u] \in Vector /\ Queued(u) \in Vector
      BY <1>0, <1>5 DEF Parts
    <3>2. InBalance(held[u], alloc[u], Nothing, Posted(u), Queued(u))
      BY <3>1, Vectors DEF InBalance, Vector
    <3>3. u \in Threads
      BY <1>0 DEF Parts
    <3>4. QED
      BY <1>1, <1>5, <3>1, <3>2, <3>3
  <2>2. QED
    BY <1>0, <1>1, <2>1 DEF Parts
<1>8. AmountsInv'
  <2>1. \A u \in Threads : Within(Minus(held'[u], Posted(u)'), MaxNeed[u])
    <3>1. \A u \in Threads : Minus(held[u], Nothing) = held[u]
      BY <1>0, Vectors, MinusBack DEF Parts
    <3>2. QED
      BY <1>0, <1>1, <1>5, <3>1 DEF AmountsInv
  <2>2. /\ local_req'.type = "RELEASE" => AsksNothing(local_req'.req)
        /\ local_req'.type = "ADDITIONAL" => ~AsksNothing(local_req'.req)
    BY <1>0, <1>2 DEF AmountsInv
  <2>3. QED
    BY <1>0, <1>1, <2>1, <2>2 DEF AmountsInv
<1>9. ClaimsInv'
  BY <1>1 DEF LedgerInv, ClaimsInv
<1>10. QED
  BY <1>6, <1>7, <1>8, <1>9 DEF LedgerInv

\* What an exiting thread had goes back, and it is out of the books.
LEMMA LedgerServeExit ==
  ASSUME LedgerInv, HandoverInv', pc[MASTER] = "serve",
         NEW t \in Threads, t = local_req.thread_id, ServeExit(t)
  PROVE  LedgerInv'
<1>0. /\ Parts /\ Parts' /\ ExitInv /\ AmountsInv /\ LedgersAgree /\ ClaimsInv
      /\ pc \in [Parties -> UserPlaces \cup MasterPlaces] /\ MASTER \in Parties
      /\ alloc \in [Threads -> Vector]
  BY PartsOfLedger, PartsOfNext, Numbers DEF LedgerInv, HandoverInv, TypeOK
<1>1. /\ pc'[MASTER] \in {"grant", "done"} /\ \A u \in Threads : pc'[u] = pc[u]
      /\ UNCHANGED <<held, local_req, queue, rtype, req_res>>
      /\ local_req.type = "EXIT" /\ live' = live \ {t}
  BY <1>0, Numbers DEF ServeExit, StartPass, user
<1>2. alloc'[t] = Nothing /\ \A u \in Threads : u # t => alloc'[u] = alloc[u]
  BY <1>0 DEF ServeExit
<1>3. ~InMastersHand' /\ \A u \in Threads : IsPosted(u)' <=> IsPosted(u)
  BY <1>1 DEF InMastersHand, IsPosted
<1>4. \A u \in Threads : /\ Posted(u)' = Posted(u) /\ Queued(u)' = Queued(u)
                         /\ Copied(u) = Nothing /\ Copied(u)' = Nothing
  BY <1>0, <1>1, <1>3 DEF Parts
<1>5. ExitInv'
  BY <1>1 DEF ExitInv, LedgerInv
<1>6. LedgersAgree'
  BY <1>0, <1>1, <1>2, <1>4 DEF Parts
<1>7. AmountsInv'
  BY <1>0, <1>1, <1>3, <1>4 DEF AmountsInv
<1>8. ClaimsInv'
  <2>1. Within(Nothing, MaxNeed[t])
    BY ResourceAssumption, Vectors DEF Within, Fits
  <2>2. QED
    BY <1>0, <1>2, <2>1 DEF ClaimsInv
<1>9. QED
  BY <1>5, <1>6, <1>7, <1>8 DEF LedgerInv

\* What is released comes off the thread's account.
LEMMA LedgerServeRelease ==
  ASSUME LedgerInv, HandoverInv', pc[MASTER] = "serve",
         NEW t \in Threads, t = local_req.thread_id, ServeRelease(t)
  PROVE  LedgerInv'
<1> DEFINE req == local_req.req
<1>0. /\ Parts /\ Parts' /\ ExitInv /\ AmountsInv /\ LedgersAgree /\ ClaimsInv
      /\ pc \in [Parties -> UserPlaces \cup MasterPlaces] /\ MASTER \in Parties
      /\ alloc \in [Threads -> Vector]
  BY PartsOfLedger, PartsOfNext, Numbers DEF LedgerInv, HandoverInv, TypeOK
<1>1. /\ pc'[MASTER] = "grant" /\ \A u \in Threads : pc'[u] = pc[u]
      /\ UNCHANGED <<held, local_req, queue, rtype, req_res, live>>
      /\ local_req.type = "RELEASE"
  BY <1>0, Numbers DEF ServeRelease, StartPass, user
<1>2. /\ req \in Vector /\ alloc[t] \in Vector /\ held[t] \in Vector /\ Posted(t) \in Vector
      /\ MaxNeed[t] \in Vector
  BY <1>0 DEF Parts
<1>3. alloc'[t] = Plus(alloc[t], req) /\ \A u \in Threads : u # t => alloc'[u] = alloc[u]
  BY <1>0 DEF ServeRelease
<1>4. /\ InMastersHand /\ ~InMastersHand'
      /\ \A u \in Threads : IsPosted(u)' <=> IsPosted(u)
  BY <1>1 DEF InMastersHand, IsPosted
<1>5. /\ \A u \in Threads : /\ Posted(u)' = Posted(u) /\ Queued(u)' = Queued(u)
                            /\ Copied(u) = IF u = t THEN req ELSE Nothing
                            /\ Copied(u)' = Nothing
      /\ Queued(t) = Nothing
  <2>1. \A u \in Threads : /\ Posted(u)' = Posted(u) /\ Queued(u)' = Queued(u)
                           /\ Copied(u) = IF u = t THEN req ELSE Nothing
                           /\ Copied(u)' = Nothing
    BY <1>0, <1>1, <1>4 DEF Parts
  <2>2. ~InQueue(t)
    BY <1>0 DEF ExitInv
  <2>3. Queued(t) = Nothing
    BY <2>2, Zenon DEF Queued
  <2>4. QED
    BY <2>1, <2>3
<1>6. ExitInv'
  BY <1>0, <1>1 DEF ExitInv
<1>7. /\ t \in live
      /\ \A k \in Kinds : held[t][k] = alloc[t][k] + Posted(t)[k] + req[k]
  <2>1. t \in live
    BY <1>0 DEF ExitInv
  <2>2. InBalance(held[t], alloc[t], Posted(t), req, Nothing)
    BY <1>0, <1>5, <2>1 DEF Parts
  <2>3. QED
    BY <1>2, <2>1, <2>2, Vectors DEF InBalance, Vector
<1> HIDE DEF req
<1>8. LedgersAgree'
  <2>1. InBalance(held[t], Plus(alloc[t], req), Posted(t), Nothing, Nothing)
    BY <1>2, <1>7, Vectors DEF InBalance, Vector
  <2>2. ASSUME NEW u \in live
        PROVE  InBalance(held'[u], alloc'[u], Posted(u)', Copied(u)', Queued(u)')
    <3>1. u \in Threads
      BY <1>0 DEF Parts
    <3>2. CASE u = t
      BY <1>1, <1>3, <1>5, <2>1, <3>1, <3>2
    <3>3. CASE u # t
      BY <1>0, <1>1, <1>3, <1>5, <3>1, <3>3 DEF Parts
    <3>4. QED
      BY <3>2, <3>3
  <2>3. QED
    BY <1>0, <1>1, <2>2 DEF Parts
<1>9. AmountsInv'
  BY <1>0, <1>1, <1>4, <1>5 DEF AmountsInv
<1>10. ClaimsInv'
  <2>1. /\ \A k \in Kinds : req[k] <= 0
        /\ \A k \in Kinds : 0 <= Minus(held[t], Posted(t))[k]
        /\ \A k \in Kinds : alloc[t][k] <= MaxNeed[t][k]
    BY <1>0, <1>1, <1>4, Vectors DEF AmountsInv, ClaimsInv, AsksNothing, Within, Fits, req
  <2>2. \A k \in Kinds : /\ 0 <= Plus(alloc[t], req)[k]
                         /\ Plus(alloc[t], req)[k] <= MaxNeed[t][k]
    <3>1. \A k \in Kinds : /\ Plus(alloc[t], req)[k] = alloc[t][k] + req[k]
                           /\ Minus(held[t], Posted(t))[k] = held[t][k] - Posted(t)[k]
      BY <1>2, Vectors
    <3>2. \A k \in Kinds : /\ alloc[t][k] \in Int /\ req[k] \in Int /\ held[t][k] \in Int
                           /\ Posted(t)[k] \in Int /\ MaxNeed[t][k] \in Int
      BY <1>2 DEF Vector
    <3>3. QED
      BY <1>7, <2>1, <3>1, <3>2
  <2>3. Within(alloc'[t], MaxNeed[t])
    BY <1>3, <2>2, Vectors DEF Within, Fits
  <2>4. QED
    BY <1>0, <1>3, <2>3 DEF ClaimsInv
<1>11. QED
  BY <1>6, <1>8, <1>9, <1>10 DEF LedgerInv

LEMMA GivenAndAsked ==
  ASSUME NEW r \in Vector
  PROVE  /\ Given(r) \in Vector /\ Asked(r) \in Vector
         /\ \A k \in Kinds : /\ r[k] = Asked(r)[k] - Given(r)[k]
                             /\ Given(r)[k] >= 0 /\ Asked(r)[k] >= 0
                             /\ Given(r)[k] = 0 \/ Asked(r)[k] = 0
                             /\ r[k] > 0 => Asked(r)[k] > 0
BY DEF Vector, Given, Asked

\* What an ADDITIONAL request gives back is booked, what it asks for waits.
LEMMA LedgerServeAdditional ==
  ASSUME LedgerInv, HandoverInv', pc[MASTER] = "serve",
         NEW t \in Threads, t = local_req.thread_id, ServeAdditional(t)
  PROVE  LedgerInv'
<1> DEFINE req == local_req.req
           give == Given(req)
           ask == Asked(req)
<1>0. /\ Parts /\ Parts' /\ ExitInv /\ AmountsInv /\ LedgersAgree /\ ClaimsInv
      /\ pc \in [Parties -> UserPlaces \cup MasterPlaces] /\ MASTER \in Parties
      /\ alloc \in [Threads -> Vector] /\ local_req \in Request /\ RequestHasOneHome
  BY PartsOfLedger, PartsOfNext, Numbers DEF LedgerInv, HandoverInv, TypeOK
<1>1. /\ pc'[MASTER] = "grant" /\ \A u \in Threads : pc'[u] = pc[u]
      /\ UNCHANGED <<held, rtype, req_res, live>>
      /\ local_req.type = "ADDITIONAL"
  BY <1>0, Numbers DEF ServeAdditional, user
<1>2. /\ req \in Vector /\ give \in Vector /\ ask \in Vector
      /\ \A k \in Kinds : /\ req[k] = ask[k] - give[k] /\ give[k] >= 0 /\ ask[k] >= 0
                          /\ give[k] = 0 \/ ask[k] = 0
                          /\ req[k] > 0 => ask[k] > 0
  BY <1>0, GivenAndAsked DEF Parts
<1>3. /\ alloc'[t] = Minus(alloc[t], give) /\ \A u \in Threads : u # t => alloc'[u] = alloc[u]
      /\ Len(queue) \in Nat /\ Len(queue') = Len(queue) + 1
      /\ queue'[Len(queue) + 1].thread_id = t /\ queue'[Len(queue) + 1].req = ask
      /\ \A i \in 1 .. Len(queue) : queue'[i] = queue[i]
  <2>1. /\ alloc' = [alloc EXCEPT ![t] = Minus(@, give)]
        /\ queue' = Append(queue, [thread_id |-> t, req |-> ask])
    BY DEF ServeAdditional
  <2>2. [thread_id |-> t, req |-> ask] \in [thread_id : Threads, req : Vector]
    BY <1>2
  <2>3. queue \in Seq([thread_id : Threads, req : Vector]) /\ Len(queue) \in Nat
    BY <1>0 DEF Parts, Queues
  <2>4. QED
    BY <1>0, <2>1, <2>2, <2>3, AppendProperties
<1>4. /\ InMastersHand /\ ~InMastersHand'
      /\ \A u \in Threads : IsPosted(u)' <=> IsPosted(u)
  BY <1>1 DEF InMastersHand, IsPosted
<1>5. /\ t \in live /\ ~IsPosted(t)
      /\ \A i \in 1 .. Len(queue) : queue[i].thread_id # t
  <2>1. InHand(t)
    BY <1>1 DEF InHand
  <2>2. Awaiting(t)
    BY <1>0, <2>1 DEF RequestHasOneHome
  <2>3. QED
    BY <1>0, <2>2 DEF Awaiting, IsPosted, ExitInv, InQueue
<1> HIDE DEF give, ask
<1>6. /\ Queued(t) = Nothing /\ Queued(t)' = ask
      /\ \A u \in Threads : u # t => Queued(u)' = Queued(u)
  <2>1. /\ queue \in Queues /\ NoThreadTwice(queue) /\ queue' \in Queues
        /\ \A u \in Threads : Queued(u) = AskedIn(queue, u) /\ Queued(u)' = AskedIn(queue', u)
    BY <1>0 DEF Parts
  <2>2. /\ AskedIn(queue, t) = Nothing /\ AskedIn(queue', t) = ask
        /\ \A u \in Threads : u # t => AskedIn(queue', u) = AskedIn(queue, u)
    BY <1>3, <1>5, <2>1, AskedInAppend
  <2>3. QED
    BY <2>1, <2>2
<1>7. /\ Posted(t) = Nothing
      /\ \A u \in Threads : /\ Posted(u)' = Posted(u)
                            /\ Copied(u) = IF u = t THEN req ELSE Nothing
                            /\ Copied(u)' = Nothing
  BY <1>0, <1>1, <1>4, <1>5 DEF Parts
<1>8. /\ held[t] \in Vector /\ alloc[t] \in Vector /\ MaxNeed[t] \in Vector
      /\ \A k \in Kinds : held[t][k] = alloc[t][k] + req[k]
  <2>1. held[t] \in Vector /\ alloc[t] \in Vector /\ MaxNeed[t] \in Vector
    BY <1>0 DEF Parts
  <2>2. InBalance(held[t], alloc[t], Nothing, req, Nothing)
    BY <1>0, <1>5, <1>6, <1>7 DEF Parts
  <2>3. QED
    BY <1>2, <2>1, <2>2, Vectors DEF InBalance, Vector
<1>9. \A k \in Kinds : /\ Minus(alloc[t], give)[k] = alloc[t][k] - give[k]
                       /\ alloc[t][k] \in Int /\ give[k] \in Int /\ ask[k] \in Int
                       /\ req[k] \in Int /\ held[t][k] \in Int /\ MaxNeed[t][k] \in Int
  BY <1>2, <1>8, Vectors DEF Vector
<1> HIDE DEF req
<1>10. ExitInv'
  BY <1>0, <1>1 DEF ExitInv
<1>11. LedgersAgree'
  <2>1. InBalance(held[t], Minus(alloc[t], give), Nothing, Nothing, ask)
    BY <1>2, <1>8, <1>9, Vectors DEF InBalance
  <2>2. ASSUME NEW u \in live
        PROVE  InBalance(held'[u], alloc'[u], Posted(u)', Copied(u)', Queued(u)')
    <3>1. u \in Threads
      BY <1>0 DEF Parts
    <3>2. CASE u = t
      BY <1>1, <1>3, <1>6, <1>7, <2>1, <3>1, <3>2
    <3>3. CASE u # t
      BY <1>0, <1>1, <1>3, <1>6, <1>7, <3>1, <3>3 DEF Parts
    <3>4. QED
      BY <3>2, <3>3
  <2>3. QED
    BY <1>0, <1>1, <2>2 DEF Parts
<1>12. AmountsInv'
  <2>2. Fits(Nothing, ask) /\ ~AsksNothing(ask)
    <3>1. \E k \in Kinds : req[k] > 0
      BY <1>0, <1>1, <1>4, <1>9 DEF AmountsInv, AsksNothing, req
    <3>2. \E k \in Kinds : ask[k] > 0
      BY <1>2, <3>1
    <3>3. QED
      BY <1>2, <1>9, <3>2, Vectors DEF AsksNothing, Fits
  <2>3. \A i \in 1 .. Len(queue') : Fits(Nothing, queue'[i].req) /\ ~AsksNothing(queue'[i].req)
    <3>1. \A i \in 1 .. Len(queue') : i = Len(queue) + 1 \/ i \in 1 .. Len(queue)
      BY <1>3
    <3>2. QED
      BY <1>0, <1>3, <2>2, <3>1 DEF AmountsInv
  <2>4. QED
    BY <1>0, <1>1, <1>4, <1>7, <2>3 DEF AmountsInv
<1>13. ClaimsInv'
  <2>1. \A k \in Kinds : 0 <= held[t][k] /\ 0 <= alloc[t][k] /\ alloc[t][k] <= MaxNeed[t][k]
    BY <1>0, Vectors DEF AmountsInv, ClaimsInv, Within, Fits
  <2>2. \A k \in Kinds : /\ 0 <= Minus(alloc[t], give)[k]
                         /\ Minus(alloc[t], give)[k] <= MaxNeed[t][k]
    BY <1>2, <1>8, <1>9, <2>1
  <2>3. Within(alloc'[t], MaxNeed[t])
    BY <1>3, <2>2, Vectors DEF Within, Fits
  <2>4. QED
    BY <1>0, <1>3, <2>3 DEF ClaimsInv
<1>14. QED
  BY <1>10, <1>11, <1>12, <1>13 DEF LedgerInv

\* What a grant does to the tables and the queue.
LEMMA WhatGrantDoes ==
  ASSUME HandoverInv, Grant
  PROVE  LET t == queue[curr].thread_id
             req == queue[curr].req
         IN  /\ curr \in 1 .. Len(queue) /\ Len(queue) \in Nat
             /\ t \in Threads /\ req \in Vector /\ Awaiting(t)
             /\ Decision(curr) = 1 /\ pc[MASTER] = "grant" /\ pc'[MASTER] = "grant"
             /\ alloc'[t] = Plus(alloc[t], req)
             /\ \A u \in Threads : u # t => alloc'[u] = alloc[u]
             /\ avail' = Minus(avail, req) /\ curr' = curr
             /\ queue' = RemoveAt(queue, curr)
             /\ pc'[t] \in {"unlock", "cond"}
             /\ \A q \in Parties : q # t => pc'[q] = pc[q]
             /\ \A u \in Threads : pc[u] # "asleep" => pc'[u] = pc[u]
             /\ UNCHANGED <<held, local_req, rtype, req_res, live>>
<1> DEFINE t == queue[curr].thread_id
           req == queue[curr].req
<1>0. /\ Parts /\ RequestHasOneHome /\ curr \in Nat \ {0} /\ curr <= Len(queue)
      /\ pc \in [Parties -> UserPlaces \cup MasterPlaces] /\ alloc \in [Threads -> Vector]
      /\ pc[MASTER] = "grant" /\ Decision(curr) = 1
  BY PartsOfLedger DEF HandoverInv, TypeOK, Grant
<1>1. curr \in 1 .. Len(queue) /\ Len(queue) \in Nat
  BY <1>0 DEF Parts
<1>2. t \in Threads /\ req \in Vector /\ PositionOf(t) = curr
  BY <1>0, <1>1, PositionIsCurr DEF Parts
<1>3. Awaiting(t)
  BY <1>0, <1>1, <1>2 DEF RequestHasOneHome, InQueue
<1>4. /\ avail' = Minus(avail, req) /\ curr' = curr
      /\ alloc' = [alloc EXCEPT ![t] = Plus(@, req)]
      /\ queue' = RemoveAt(queue, PositionOf(t))
      /\ pc' = [pc EXCEPT ![t] = IF @ = "asleep" THEN "cond" ELSE @]
      /\ UNCHANGED <<held, local_req, rtype, req_res, live>>
  BY DEF Grant, user
<1> HIDE DEF t, req
<1>5. /\ alloc'[t] = Plus(alloc[t], req)
      /\ \A u \in Threads : u # t => alloc'[u] = alloc[u]
      /\ queue' = RemoveAt(queue, curr)
  BY <1>0, <1>2, <1>4
<1>6. /\ pc'[t] \in {"unlock", "cond"} /\ pc'[MASTER] = "grant"
      /\ \A q \in Parties : q # t => pc'[q] = pc[q]
      /\ \A u \in Threads : pc[u] # "asleep" => pc'[u] = pc[u]
  BY <1>0, <1>2, <1>3, <1>4, Numbers DEF Awaiting
<1>7. QED
  BY <1>0, <1>1, <1>2, <1>3, <1>4, <1>5, <1>6 DEF t, req

\* What was queued is now allocated.
LEMMA LedgerGrant ==
  ASSUME LedgerInv, HandoverInv', Grant
  PROVE  LedgerInv'
<1>t. PICK t : t = queue[curr].thread_id
  OBVIOUS
<1>r. PICK req : req = queue[curr].req
  OBVIOUS
<1>0. /\ Parts /\ Parts' /\ ExitInv /\ AmountsInv /\ LedgersAgree /\ ClaimsInv /\ HandoverInv
  BY PartsOfLedger, PartsOfNext DEF LedgerInv
<1>1. /\ curr \in 1 .. Len(queue) /\ Len(queue) \in Nat
      /\ t \in Threads /\ req \in Vector /\ Awaiting(t)
      /\ pc[MASTER] = "grant" /\ pc'[MASTER] = "grant"
      /\ alloc'[t] = Plus(alloc[t], req)
      /\ \A u \in Threads : u # t => alloc'[u] = alloc[u]
      /\ queue' = RemoveAt(queue, curr)
      /\ pc'[t] \in {"unlock", "cond"}
      /\ \A u \in Threads : u # t => pc'[u] = pc[u]
      /\ UNCHANGED <<held, local_req, rtype, req_res, live>>
  BY <1>t, <1>r, <1>0, WhatGrantDoes, Numbers
<1>2. t \in live /\ rtype[t] = "ADDITIONAL" /\ pc[t] \in {"unlock", "cond", "asleep"}
  BY <1>0, <1>1 DEF Awaiting, ExitInv
<1>3. Fits(Nothing, req)
  BY <1>r, <1>0, <1>1 DEF AmountsInv
<1>4. /\ queue \in Queues /\ NoThreadTwice(queue) /\ queue' \in Queues /\ NoThreadTwice(queue')
      /\ \A u \in Threads : Queued(u) = AskedIn(queue, u) /\ Queued(u)' = AskedIn(queue', u)
  BY <1>0 DEF Parts
<1>5. /\ Len(queue') = Len(queue) - 1
      /\ \A i \in 1 .. Len(queue') : queue'[i] = IF i < curr THEN queue[i] ELSE queue[i + 1]
      /\ Queued(t)' = Nothing
      /\ \A u \in Threads : u # t => Queued(u)' = Queued(u)
      /\ Queued(t) = req
  <2>1. AskedIn(queue, t) = req
    BY <1>1, <1>4, <1>t, <1>r, AskedInIs
  <2>2. /\ Len(queue') = Len(queue) - 1
        /\ \A i \in 1 .. Len(queue') : queue'[i] = IF i < curr THEN queue[i] ELSE queue[i + 1]
        /\ AskedIn(queue', t) = Nothing
        /\ \A u \in Threads : u # t => AskedIn(queue', u) = AskedIn(queue, u)
    <3>1. curr \in 1 .. Len(queue) /\ queue' = RemoveAt(queue, curr)
      BY <1>1
    <3>2. queue \in Queues /\ NoThreadTwice(queue)
      BY <1>4
    <3>3. QED
      BY <1>t, <3>1, <3>2, AskedWithout
  <2>3. QED
    BY <1>1, <1>4, <2>1, <2>2
<1>6. /\ ~InMastersHand /\ ~InMastersHand' /\ ~IsPosted(t)
      /\ \A u \in Threads : IsPosted(u)' <=> IsPosted(u)
  BY <1>1, <1>2 DEF InMastersHand, IsPosted
<1>7. /\ Posted(t) = Nothing
      /\ \A u \in Threads : /\ Posted(u)' = Posted(u)
                            /\ Copied(u) = Nothing /\ Copied(u)' = Nothing
  BY <1>0, <1>1, <1>6 DEF Parts
<1>8. /\ held[t] \in Vector /\ alloc[t] \in Vector
      /\ \A k \in Kinds : held[t][k] = alloc[t][k] + req[k]
  <2>1. held[t] \in Vector /\ alloc[t] \in Vector
    BY <1>0, <1>1 DEF Parts
  <2>2. InBalance(held[t], alloc[t], Nothing, Nothing, req)
    BY <1>0, <1>1, <1>2, <1>5, <1>7 DEF Parts
  <2>3. QED
    BY <1>1, <2>1, <2>2, Vectors DEF InBalance, Vector
<1>9. alloc'[t] = held[t]
  <2>1. /\ Plus(alloc[t], req) \in Vector
        /\ \A k \in Kinds : Plus(alloc[t], req)[k] = alloc[t][k] + req[k]
    BY <1>1, <1>8, Vectors
  <2>2. Plus(alloc[t], req) = held[t]
    BY <1>8, <2>1, SameVector
  <2>3. QED
    BY <1>1, <2>2
<1>10. ExitInv'
  BY <1>0, <1>1, <1>2 DEF ExitInv
<1>11. LedgersAgree'
  <2>1. InBalance(held[t], held[t], Nothing, Nothing, Nothing)
    BY <1>8, Vectors DEF InBalance, Vector
  <2>2. ASSUME NEW u \in live
        PROVE  InBalance(held'[u], alloc'[u], Posted(u)', Copied(u)', Queued(u)')
    <3>1. u \in Threads
      BY <1>0 DEF Parts
    <3>2. CASE u = t
      <4>1. /\ held'[u] = held[t] /\ alloc'[u] = held[t]
            /\ Posted(u)' = Nothing /\ Copied(u)' = Nothing /\ Queued(u)' = Nothing
        BY <1>1, <1>5, <1>7, <1>9, <3>1, <3>2
      <4>2. QED
        BY <2>1, <4>1
    <3>3. CASE u # t
      BY <1>0, <1>1, <1>5, <1>7, <3>1, <3>3 DEF Parts
    <3>4. QED
      BY <3>2, <3>3
  <2>3. QED
    BY <1>0, <1>1, <2>2 DEF Parts
<1>12. AmountsInv'
  <2>1. \A i \in 1 .. Len(queue') : Fits(Nothing, queue'[i].req) /\ ~AsksNothing(queue'[i].req)
    <3>1. ASSUME NEW i \in 1 .. Len(queue') PROVE \E j \in 1 .. Len(queue) : queue'[i] = queue[j]
      <4>1. i \in 1 .. Len(queue) /\ i + 1 \in 1 .. Len(queue)
        BY <1>1, <1>5
      <4>2. QED
        BY <1>5, <4>1
    <3>2. QED
      BY <1>0, <3>1 DEF AmountsInv
  <2>2. QED
    BY <1>0, <1>1, <1>6, <1>7, <2>1 DEF AmountsInv
<1>13. ClaimsInv'
  <2>1. Within(alloc'[t], MaxNeed[t])
    BY <1>0, <1>1, <1>9 DEF AmountsInv
  <2>2. QED
    BY <1>0, <1>1, <2>1 DEF ClaimsInv
<1>14. QED
  BY <1>10, <1>11, <1>12, <1>13 DEF LedgerInv

LEMMA LedgerStutter ==
  ASSUME LedgerInv, HandoverInv', UNCHANGED vars
  PROVE  LedgerInv'
<1>0. Parts /\ local_req.thread_id \in Threads
  BY PartsOfLedger DEF LedgerInv, Parts
<1>1. UNCHANGED <<pc, held, local_req, queue, alloc, live, rtype, req_res>>
  BY DEF vars, user, master, tables
<1>2. ExitInv'
  BY <1>0, <1>1, ExitFrame DEF LedgerInv
<1>3. /\ InMastersHand' <=> InMastersHand
      /\ \A u \in Threads : IsPosted(u)' <=> IsPosted(u)
  BY <1>1 DEF InMastersHand, IsPosted
<1>4. QED
  BY <1>1, <1>2, <1>3, LedgerFrame

LEMMA LedgerInit == Init => LedgerInv
<1> SUFFICES ASSUME Init PROVE LedgerInv
  OBVIOUS
<1>1. HandoverInv /\ Parts
  BY HandoverInit, PartsOfLedger
<1>2. /\ \A t \in Threads : /\ pc[t] = "boot" /\ rtype[t] = "RELEASE" /\ req_res[t] = Nothing
                            /\ held[t] = Nothing /\ alloc[t] = Nothing
      /\ pc[MASTER] = "boot" /\ live = Threads /\ Len(queue) = 0
  BY Numbers DEF Init
<1>3. ~InMastersHand /\ \A t \in Threads : ~IsPosted(t)
  BY <1>2 DEF InMastersHand, IsPosted
<1>4. ExitInv
  BY <1>2 DEF ExitInv
<1>5. \A t \in Threads : Posted(t) = Nothing /\ Copied(t) = Nothing /\ Queued(t) = Nothing
  <2>1. \A t \in Threads : Posted(t) = Nothing /\ Copied(t) = Nothing
    BY <1>1, <1>3 DEF Parts
  <2>2. \A t \in Threads : AskedIn(queue, t) = Nothing
    <3>1. queue \in Queues /\ NoThreadTwice(queue) /\ \A i \in 1 .. Len(queue) : FALSE
      BY <1>1, <1>2 DEF Parts
    <3>2. QED
      BY <3>1, AskedInIs
  <2>3. QED
    BY <1>1, <2>1, <2>2 DEF Parts
<1>6. LedgersAgree
  <2>1. InBalance(Nothing, Nothing, Nothing, Nothing, Nothing)
    BY Vectors DEF InBalance
  <2>2. QED
    BY <1>1, <1>2, <1>5, <2>1 DEF Parts
<1>7. \A t \in Threads : Within(Nothing, MaxNeed[t])
  BY ResourceAssumption, Vectors DEF Within, Fits
<1>8. AmountsInv
  <2>1. AsksNothing(Nothing)
    BY Vectors DEF AsksNothing
  <2>2. Minus(Nothing, Nothing) = Nothing
    BY Vectors, MinusBack
  <2>3. QED
    BY <1>1, <1>2, <1>3, <1>5, <1>7, <2>1, <2>2 DEF AmountsInv
<1>9. ClaimsInv
  BY <1>2, <1>7 DEF ClaimsInv
<1>10. QED
  BY <1>1, <1>4, <1>6, <1>8, <1>9 DEF LedgerInv

LEMMA LedgerStep == LedgerInv /\ [Next]_vars => LedgerInv'
<1> SUFFICES ASSUME LedgerInv, [Next]_vars PROVE LedgerInv'
  OBVIOUS
<1>1. HandoverInv' /\ local_req.thread_id \in Threads
  BY HandoverStep DEF LedgerInv, HandoverInv, TypeOK, Request
<1>2. CASE MasterStep
  <2>1. CASE Begin(MASTER)
    BY <1>1, <2>1, LedgerBegin, Numbers
  <2>2. CASE MeetREQB(MASTER)
    BY <1>1, <2>2, LedgerMeetREQB, Numbers
  <2>3. CASE CopyRequest
    BY <1>1, <2>3, LedgerCopyRequest
  <2>4. CASE MeetACK(MASTER, local_req.thread_id)
    BY <1>1, <2>4, LedgerMeetACK, Numbers
  <2>5. CASE Serve
    BY <1>1, <2>5, LedgerServeExit, LedgerServeRelease, LedgerServeAdditional DEF Serve
  <2>6. CASE Grant
    BY <1>1, <2>6, LedgerGrant
  <2>7. CASE Skip \/ EndPass
    BY <1>1, <2>7, LedgerPass
  <2>8. QED
    BY <1>2, <2>1, <2>2, <2>3, <2>4, <2>5, <2>6, <2>7 DEF MasterStep
<1>3. ASSUME NEW t \in Threads, UserStep(t) PROVE LedgerInv'
  <2>1. CASE Begin(t) \/ MeetREQB(t) \/ MeetACK(t, t)
    BY <1>1, <2>1, LedgerBegin, LedgerMeetREQB, LedgerMeetACK, Numbers
  <2>2. CASE ReadRequest(t)
    BY <1>1, <2>2, LedgerReadRequest
  <2>3. CASE ReadQuit(t) \/ Post(t) \/ Unlock(t) \/ CheckReady(t)
    BY <1>1, <2>3, LedgerQuietSteps
  <2>4. QED
    BY <1>3, <2>1, <2>2, <2>3 DEF UserStep
<1>4. ASSUME NEW t \in Threads, SpuriousWakeup(t) PROVE LedgerInv'
  BY <1>1, <1>4, LedgerQuietSteps
<1>5. CASE UNCHANGED vars
  BY <1>1, <1>5, LedgerStutter
<1>6. QED
  BY <1>2, <1>3, <1>4, <1>5 DEF Next

\* What resource.c's main, PROCESS and MASTER keep true of the amounts: the
\* inductive invariant behind LedgersAgree and BankersIsExact.
THEOREM Ledgers == Spec => []LedgerInv
BY LedgerInit, LedgerStep, PTL DEF Spec

(***************************************************************************)
(* The master's table and every live thread's own count agree, whatever    *)
(* the requests are and whatever bankers decides.                          *)
(***************************************************************************)
THEOREM LedgersAlwaysAgree == Spec => []LedgersAgree
<1>1. LedgerInv => LedgersAgree
  BY DEF LedgerInv
<1>2. QED
  BY <1>1, Ledgers, PTL

-----------------------------------------------------------------------------
(* The tables stay safe, and no pass leaves a grantable request behind.    *)

\* What the master decides from.
TablesAre ==
  /\ NonNegative(alloc)
  /\ DLAVOID \in BOOLEAN /\ avail \in Vector /\ MaxNeed \in [Threads -> Vector]
  /\ alloc \in [Threads -> Vector] /\ live \in SUBSET Threads
  /\ \A i \in 1 .. Len(queue) :
       /\ queue[i].thread_id \in Threads /\ queue[i].req \in Vector
       /\ \A k \in Kinds : queue[i].req[k] >= 0

LEMMA LedgerTables == LedgerInv => TablesAre /\ Parts /\ BankersIsExact
<1> SUFFICES ASSUME LedgerInv PROVE TablesAre /\ Parts /\ BankersIsExact
  OBVIOUS
<1>1. Parts /\ ClaimsInv /\ AmountsInv /\ TypeOK
  BY PartsOfLedger DEF LedgerInv, HandoverInv
<1>2. \A i \in 1 .. Len(queue) :
        /\ queue[i].thread_id \in Threads /\ queue[i].req \in Vector
        /\ \A k \in Kinds : queue[i].req[k] >= 0
  BY <1>1, Vectors DEF Parts, AmountsInv, Fits
<1>3. NonNegative(alloc)
  BY <1>1, Vectors DEF ClaimsInv, Within, Fits, NonNegative
<1>4. /\ DLAVOID \in BOOLEAN /\ avail \in Vector /\ MaxNeed \in [Threads -> Vector]
      /\ alloc \in [Threads -> Vector] /\ live \in SUBSET Threads
  BY <1>1, ResourceAssumption DEF TypeOK, Vector
<1>5. BankersIsExact
  <2> SUFFICES ASSUME NEW i \in 1 .. Len(queue)
               PROVE  LET t == queue[i].thread_id
                          req == queue[i].req
                          fits == Fits(req, avail)
                          safe == DLAVOID => SafeAfter(avail, MaxNeed, alloc, live, t, req)
                      IN  Decision(i) = IF ~fits THEN -1 ELSE IF safe THEN 1 ELSE 0
    BY DEF BankersIsExact
  <2>1. QED
    BY <1>2, <1>3, <1>4, BankersDecides DEF Decision
<1>6. QED
  BY <1>1, <1>2, <1>3, <1>4, <1>5 DEF TablesAre

LEMMA LedgerTablesNext == LedgerInv' => TablesAre' /\ Parts' /\ BankersIsExact'
BY LedgerTables, PTL

(***************************************************************************)
(* bankers decides every request that is ever in the queue exactly.        *)
(***************************************************************************)
THEOREM BankersIsAlwaysExact == Spec => []BankersIsExact
BY LedgerTables, Ledgers, PTL

LEMMA ClaimsAreVectors == MaxNeed \in [Threads -> Vector]
BY ResourceAssumption DEF Vector

\* Whether the live threads can all be served one after the other.
CanFinish(free, has, who) == Enough(free, Needs(MaxNeed, has), has, who)

LEMMA SafeIsCanFinish ==
  ASSUME NEW free \in Vector, NEW has \in [Threads -> Vector], NonNegative(has),
         NEW who \in SUBSET Threads
  PROVE  Safe(free, MaxNeed, has, who) <=> CanFinish(free, has, who)
BY ClaimsAreVectors, SafeIffEnough DEF CanFinish

\* A request is granted when it fits and, if that matters, all can still be
\* served afterwards.
LEMMA GrantedWhen ==
  ASSUME LedgerInv, NEW i \in 1 .. Len(queue), NEW t, t = queue[i].thread_id,
         NEW req, req = queue[i].req
  PROVE  Decision(i) = 1 <=>
           /\ Fits(req, avail)
           /\ DLAVOID => CanFinish(Minus(avail, req), [alloc EXCEPT ![t] = Plus(alloc[t], req)], live)
<1>1. TablesAre /\ BankersIsExact
  BY LedgerTables
<1>2. Decision(i) = 1 <=> Fits(req, avail)
                          /\ (DLAVOID => SafeAfter(avail, MaxNeed, alloc, live, t, req))
  BY <1>1 DEF BankersIsExact
<1> DEFINE has == [alloc EXCEPT ![t] = Plus(alloc[t], req)]
<1>3. /\ t \in Threads /\ req \in Vector /\ alloc[t] \in Vector
      /\ Plus(alloc[t], req) \in Vector /\ Minus(avail, req) \in Vector
      /\ \A k \in Kinds : /\ Plus(alloc[t], req)[k] = alloc[t][k] + req[k]
                          /\ alloc[t][k] >= 0 /\ req[k] >= 0
                          /\ alloc[t][k] \in Int /\ req[k] \in Int
  <2>1. t \in Threads /\ req \in Vector /\ \A k \in Kinds : req[k] >= 0
    BY <1>1 DEF TablesAre
  <2>2. alloc[t] \in Vector /\ avail \in Vector /\ \A k \in Kinds : alloc[t][k] >= 0
    BY <1>1, <2>1 DEF TablesAre, NonNegative
  <2>3. /\ Plus(alloc[t], req) \in Vector /\ Minus(avail, req) \in Vector
        /\ \A k \in Kinds : Plus(alloc[t], req)[k] = alloc[t][k] + req[k]
    BY <2>1, <2>2, Vectors
  <2>4. \A k \in Kinds : alloc[t][k] \in Int /\ req[k] \in Int
    BY <2>1, <2>2 DEF Vector
  <2>5. QED
    BY <2>1, <2>2, <2>3, <2>4
<1>4. has \in [Threads -> Vector] /\ has[t] = Plus(alloc[t], req)
      /\ \A u \in Threads : u # t => has[u] = alloc[u]
  BY <1>1, <1>3 DEF TablesAre
<1> HIDE DEF has
<1>5. NonNegative(has)
  BY <1>1, <1>3, <1>4 DEF NonNegative, TablesAre
<1>6. SafeAfter(avail, MaxNeed, alloc, live, t, req) <=> CanFinish(Minus(avail, req), has, live)
  BY <1>1, <1>3, <1>4, <1>5, SafeIsCanFinish DEF SafeAfter, has, TablesAre
<1>7. QED
  BY <1>2, <1>6 DEF has

\* The same in terms of the tables after a step.
LEMMA GrantedWhenNow ==
  LedgerInv => \A i \in 1 .. Len(queue) : \A t, req :
    t = queue[i].thread_id /\ req = queue[i].req =>
      (Decision(i) = 1 <=>
         /\ Fits(req, avail)
         /\ DLAVOID => CanFinish(Minus(avail, req), [alloc EXCEPT ![t] = Plus(alloc[t], req)], live))
BY GrantedWhen

LEMMA GrantedWhenNext ==
  LedgerInv' => \A i \in 1 .. Len(queue') : \A t, req :
    t = queue'[i].thread_id /\ req = queue'[i].req =>
      (Decision(i)' = 1 <=>
         /\ Fits(req, avail')
         /\ DLAVOID => CanFinish(Minus(avail', req), [alloc' EXCEPT ![t] = Plus(alloc'[t], req)], live'))
<1>1. (LedgerInv => \A i \in 1 .. Len(queue) : \A t, req :
         t = queue[i].thread_id /\ req = queue[i].req =>
           (Decision(i) = 1 <=>
              /\ Fits(req, avail)
              /\ DLAVOID => CanFinish(Minus(avail, req), [alloc EXCEPT ![t] = Plus(alloc[t], req)], live)))'
  BY GrantedWhenNow, PTL
<1>2. QED
  BY <1>1

LEMMA PlusMinus ==
  ASSUME NEW a \in Vector, NEW b \in Vector
  PROVE  Minus(Plus(a, b), b) = a
<1>1. Plus(a, b) \in Vector /\ \A k \in Kinds : Minus(Plus(a, b), b)[k] = a[k]
  BY Vectors DEF Vector
<1>2. QED
  BY <1>1, Vectors, SameVector

LEMMA MinusMinus ==
  ASSUME NEW a \in Vector, NEW b \in Vector, NEW c \in Vector
  PROVE  Minus(a, c) = Plus(Minus(Minus(a, b), c), b)
<1>1. /\ Minus(a, b) \in Vector /\ Minus(Minus(a, b), c) \in Vector /\ Minus(a, c) \in Vector
      /\ Plus(Minus(Minus(a, b), c), b) \in Vector
  BY Vectors
<1>2. ASSUME NEW k \in Kinds PROVE Minus(a, c)[k] = Plus(Minus(Minus(a, b), c), b)[k]
  <2>1. /\ Minus(a, c)[k] = a[k] - c[k] /\ Minus(a, b)[k] = a[k] - b[k]
        /\ Minus(Minus(a, b), c)[k] = Minus(a, b)[k] - c[k]
        /\ Plus(Minus(Minus(a, b), c), b)[k] = Minus(Minus(a, b), c)[k] + b[k]
    BY <1>1, Vectors
  <2>2. a[k] \in Int /\ b[k] \in Int /\ c[k] \in Int
    BY DEF Vector
  <2>3. QED
    BY <2>1, <2>2
<1>3. QED
  BY <1>1, <1>2, SameVector

-----------------------------------------------------------------------------
(* The tables after each action, for AlwaysSafe.                           *)

SafeNow == DLAVOID => CanFinish(avail, alloc, live)

LEMMA SafeNowIs == LedgerInv => (AlwaysSafe <=> SafeNow)
BY LedgerTables, SafeIsCanFinish DEF TablesAre, AlwaysSafe, SafeNow

\* Giving back units leaves the others able to finish.
LEMMA GivenBack ==
  ASSUME NEW free \in Vector, NEW has \in [Threads -> Vector], NEW who \in SUBSET Threads,
         CanFinish(free, has, who), NEW t \in who,
         NEW units \in Vector, \A k \in Kinds : units[k] >= 0,
         NEW free2, free2 = Plus(free, units),
         NEW has2, has2 = [has EXCEPT ![t] = Minus(has[t], units)]
  PROVE  CanFinish(free2, has2, who)
BY ClaimsAreVectors, GiveBackLeavesEnough DEF CanFinish

LEMMA SafeServeExit ==
  ASSUME LedgerInv, SafeNow, pc[MASTER] = "serve", ServeExit(local_req.thread_id)
  PROVE  SafeNow'
<1>1. /\ TablesAre /\ local_req.thread_id \in live
      /\ MaxNeed \in [Threads -> Vector] /\ DLAVOID' = DLAVOID /\ MaxNeed' = MaxNeed
  BY LedgerTables, ResourceAssumption DEF LedgerInv, ExitInv, Vector
<1> DEFINE t == local_req.thread_id
           less == [alloc EXCEPT ![t] = Nothing]
<1>2. DLAVOID => CanFinish(Plus(avail, alloc[t]), less, live \ {t})
  BY <1>1, ExitLeavesEnough DEF SafeNow, CanFinish, TablesAre
<1>3. avail' = Plus(avail, alloc[t]) /\ alloc' = less /\ live' = live \ {t}
  BY DEF ServeExit
<1> HIDE DEF t, less
<1>4. QED
  BY <1>2, <1>3 DEF SafeNow

LEMMA NegatedRequest ==
  ASSUME NEW a \in Vector, NEW r \in Vector
  PROVE  /\ Minus(Nothing, r) \in Vector /\ \A k \in Kinds : Minus(Nothing, r)[k] = -r[k]
         /\ Plus(a, Minus(Nothing, r)) = Minus(a, r)
         /\ Minus(a, Minus(Nothing, r)) = Plus(a, r)
<1>1. Minus(Nothing, r) \in Vector /\ \A k \in Kinds : Minus(Nothing, r)[k] = -r[k]
  BY Vectors DEF Vector
<1>2. Plus(a, Minus(Nothing, r)) = Minus(a, r)
  <2>1. \A k \in Kinds : Plus(a, Minus(Nothing, r))[k] = Minus(a, r)[k]
    BY <1>1, Vectors DEF Vector
  <2>2. QED
    BY <1>1, <2>1, Vectors, SameVector
<1>3. Minus(a, Minus(Nothing, r)) = Plus(a, r)
  <2>1. \A k \in Kinds : Minus(a, Minus(Nothing, r))[k] = Plus(a, r)[k]
    BY <1>1, Vectors DEF Vector
  <2>2. QED
    BY <1>1, <2>1, Vectors, SameVector
<1>4. QED
  BY <1>1, <1>2, <1>3

LEMMA SafeServeRelease ==
  ASSUME LedgerInv, SafeNow, pc[MASTER] = "serve", NEW t, t = local_req.thread_id,
         ServeRelease(t)
  PROVE  SafeNow'
<1>0. PICK req : req = local_req.req
  OBVIOUS
<1>1. /\ TablesAre /\ t \in live /\ t \in Threads /\ req \in Vector /\ alloc[t] \in Vector
      /\ avail \in Vector
  BY <1>0, LedgerTables DEF LedgerInv, ExitInv, TablesAre, Parts
<1>2. avail' = Minus(avail, req) /\ alloc' = [alloc EXCEPT ![t] = Plus(@, req)] /\ live' = live
  BY <1>0 DEF ServeRelease
<1>3. \A k \in Kinds : req[k] <= 0 /\ req[k] \in Int
  BY <1>0, <1>1 DEF LedgerInv, AmountsInv, InMastersHand, ServeRelease, AsksNothing, Vector
<1>4. PICK units \in Vector : /\ \A k \in Kinds : units[k] >= 0
                              /\ Plus(avail, units) = Minus(avail, req)
                              /\ Minus(alloc[t], units) = Plus(alloc[t], req)
  BY <1>1, <1>3, NegatedRequest
<1>5. avail' = Plus(avail, units) /\ alloc' = [alloc EXCEPT ![t] = Minus(alloc[t], units)]
  BY <1>2, <1>4
<1>6. ASSUME DLAVOID PROVE CanFinish(avail', alloc', live)
  <2>1. /\ alloc \in [Threads -> Vector] /\ live \in SUBSET Threads
        /\ CanFinish(avail, alloc, live)
    BY <1>1, <1>6 DEF SafeNow, TablesAre
  <2>2. QED
    BY <1>1, <1>4, <1>5, <2>1, GivenBack
<1>7. QED
  BY <1>2, <1>6 DEF SafeNow

LEMMA SafeServeAdditional ==
  ASSUME LedgerInv, SafeNow, pc[MASTER] = "serve", NEW t, t = local_req.thread_id,
         ServeAdditional(t)
  PROVE  SafeNow'
<1>0. PICK units : units = Given(local_req.req)
  OBVIOUS
<1>1. /\ TablesAre /\ t \in live /\ local_req.req \in Vector
  BY LedgerTables DEF LedgerInv, ExitInv, TablesAre, Parts
<1>2. units \in Vector /\ \A k \in Kinds : units[k] >= 0
  BY <1>0, <1>1, GivenAndAsked
<1>3. /\ avail' = Plus(avail, units) /\ live' = live
      /\ alloc' = [alloc EXCEPT ![t] = Minus(alloc[t], units)]
  BY <1>0 DEF ServeAdditional
<1>4. QED
  BY <1>1, <1>2, <1>3, GivenBack DEF SafeNow, TablesAre

LEMMA SafeGrant ==
  ASSUME LedgerInv, Grant
  PROVE  SafeNow'
<1>0. PICK t, req : t = queue[curr].thread_id /\ req = queue[curr].req
  OBVIOUS
<1>1. /\ curr \in 1 .. Len(queue) /\ Decision(curr) = 1
      /\ avail' = Minus(avail, req) /\ live' = live
  BY <1>0, WhatGrantDoes DEF LedgerInv
<1>2. alloc' = [alloc EXCEPT ![t] = Plus(alloc[t], req)]
  BY <1>0 DEF Grant
<1>3. DLAVOID => CanFinish(Minus(avail, req), [alloc EXCEPT ![t] = Plus(alloc[t], req)], live)
  BY <1>0, <1>1, GrantedWhen
<1>4. QED
  BY <1>1, <1>2, <1>3 DEF SafeNow

\* At first everything is there: every claim fits in the total.
LEMMA SafeInit == Init => SafeNow
<1> SUFFICES ASSUME Init, NEW S \in SUBSET live, S # {}
             PROVE  \E t \in S : Fits(Needs(MaxNeed, alloc)[t], Plus(avail, HeldBy(alloc, live \ S)))
  BY DEF SafeNow, CanFinish, Enough
<1>1. /\ alloc \in [Threads -> Vector] /\ \A t \in Threads : alloc[t] = Nothing
      /\ avail = Total /\ avail \in Vector /\ live = Threads /\ MaxNeed \in [Threads -> Vector]
  BY ResourceAssumption, Vectors DEF Init, Vector
<1>2. PICK t \in S : TRUE
  OBVIOUS
<1>3. t \in Threads /\ MaxNeed[t] \in Vector /\ Fits(MaxNeed[t], avail)
  BY <1>1, ResourceAssumption
<1>4. Needs(MaxNeed, alloc)[t] = MaxNeed[t]
  BY <1>1, <1>3, MinusBack DEF Needs
<1>5. HeldBy(alloc, live \ S) \in Vector /\ Fits(Nothing, HeldBy(alloc, live \ S))
  <2>1. NonNegative(alloc)
    BY <1>1, Vectors DEF NonNegative
  <2>2. HeldBy(alloc, {}) = Nothing
    BY <1>1, HeldByNone
  <2>3. Fits(HeldBy(alloc, {}), HeldBy(alloc, live \ S))
    BY <1>1, <2>1, HeldByMonotone
  <2>4. QED
    BY <1>1, <2>2, <2>3, HeldByIsVector
<1>6. PICK more \in Vector : more = HeldBy(alloc, live \ S) /\ \A k \in Kinds : more[k] >= 0
  BY <1>5, Vectors DEF Fits
<1>7. Fits(MaxNeed[t], Plus(avail, more))
  <2>1. Plus(avail, more) \in Vector
    BY <1>1, Vectors
  <2>2. Fits(avail, Plus(avail, more))
    BY <1>1, <1>6, FitsOrder
  <2>3. QED
    BY <1>1, <1>3, <2>1, <2>2, FitsOrder
<1>8. QED
  BY <1>2, <1>4, <1>6, <1>7

-----------------------------------------------------------------------------
(* The requests a pass has left behind stay refused.                       *)

\* Granting one request makes no refused one grantable.
LEMMA GrantHelpsNobody ==
  ASSUME LedgerInv, LedgerInv', Grant, NEW i \in 1 .. Len(queue'), i < curr,
         Decision(i) # 1
  PROVE  Decision(i)' # 1
<1>0. PICK t, req : t = queue[curr].thread_id /\ req = queue[curr].req
  OBVIOUS
<1>1. /\ curr \in 1 .. Len(queue) /\ Len(queue) \in Nat
      /\ avail' = Minus(avail, req) /\ live' = live /\ Awaiting(t) /\ t \in Threads
      /\ queue' = RemoveAt(queue, curr)
  BY <1>0, WhatGrantDoes DEF LedgerInv
<1>2. alloc' = [alloc EXCEPT ![t] = Plus(alloc[t], req)]
  BY <1>0 DEF Grant
<1>3. /\ TablesAre /\ Parts /\ TablesAre' /\ t \in live
  BY <1>1, LedgerTables, LedgerTablesNext DEF LedgerInv, ExitInv, Awaiting
<1>4. /\ queue \in Queues /\ NoThreadTwice(queue)
      /\ Len(queue') = Len(queue) - 1 /\ queue'[i] = queue[i]
  BY <1>1, <1>3, AskedInRemove DEF Parts
<1>5. PICK u, ask : u = queue[i].thread_id /\ ask = queue[i].req
  OBVIOUS
<1>6. /\ i \in 1 .. Len(queue) /\ u \in Threads /\ u # t
      /\ ask \in Vector /\ req \in Vector /\ avail \in Vector
      /\ alloc[t] \in Vector /\ alloc[u] \in Vector /\ alloc \in [Threads -> Vector]
      /\ \A k \in Kinds : req[k] >= 0 /\ ask[k] >= 0
  BY <1>0, <1>1, <1>3, <1>4, <1>5 DEF TablesAre, NoThreadTwice
<1>7. SUFFICES ASSUME Decision(i)' = 1 PROVE Decision(i) = 1
  OBVIOUS
<1>8. /\ Fits(ask, avail')
      /\ DLAVOID => CanFinish(Minus(avail', ask), [alloc' EXCEPT ![u] = Plus(alloc'[u], ask)], live')
  <2>1. LedgerInv' /\ i \in 1 .. Len(queue)' /\ u = queue'[i].thread_id /\ ask = queue'[i].req
    BY <1>4, <1>5
  <2>2. QED
    BY <1>7, <2>1, GrantedWhenNext
<1>9. Fits(ask, avail)
  <2>1. \A k \in Kinds : avail'[k] = avail[k] - req[k]
    BY <1>1, <1>6, Vectors
  <2>2. \A k \in Kinds : avail[k] \in Int /\ req[k] \in Int /\ ask[k] \in Int
    BY <1>6 DEF Vector
  <2>3. QED
    BY <1>6, <1>8, <2>1, <2>2 DEF Fits
<1>10. ASSUME DLAVOID
       PROVE  CanFinish(Minus(avail, ask), [alloc EXCEPT ![u] = Plus(alloc[u], ask)], live)
  <2> DEFINE has == [alloc' EXCEPT ![u] = Plus(alloc'[u], ask)]
             has2 == [alloc EXCEPT ![u] = Plus(alloc[u], ask)]
             free == Minus(avail', ask)
  <2>1. /\ has \in [Threads -> Vector] /\ has2 \in [Threads -> Vector]
        /\ has[t] = Plus(alloc[t], req) /\ has2[t] = alloc[t]
        /\ \A w \in Threads : w # t => has2[w] = has[w]
    BY <1>2, <1>6, <1>1, Vectors
  <2>2. free \in Vector
    BY <1>1, <1>6, Vectors
  <2>3. Minus(Plus(alloc[t], req), req) = alloc[t]
    BY <1>6, PlusMinus
  <2>4. has2 = [has EXCEPT ![t] = Minus(has[t], req)]
    BY <2>1, <2>3, <1>1
  <2>5. Minus(avail, ask) = Plus(free, req)
    BY <1>1, <1>6, MinusMinus
  <2>6. CanFinish(free, has, live)
    BY <1>1, <1>8, <1>10
  <2>7. live \in SUBSET Threads
    BY <1>3 DEF TablesAre
  <2> HIDE DEF has, has2, free
  <2>8. CanFinish(Minus(avail, ask), has2, live)
    BY <1>3, <1>6, <2>1, <2>2, <2>4, <2>5, <2>6, <2>7, GivenBack
  <2>9. QED
    BY <2>8 DEF has2
<1>11. QED
  BY <1>5, <1>6, <1>9, <1>10, GrantedWhen

\* Steps that leave what the decisions depend on alone.
LEMMA DecisionFrame ==
  ASSUME UNCHANGED <<avail, alloc, live, queue>>
  PROVE  \A i \in 1 .. Len(queue) : Decision(i)' = Decision(i)
BY DEF Decision

\* The master is where it decides nothing and has left nothing grantable.
Resting == pc[MASTER] \in {"boot", "in_bos", "reqb", "in_reqb"}

LEMMA TablesFrame ==
  ASSUME TablesInv, LedgerInv', UNCHANGED <<avail, alloc, live, queue>>,
         Resting' => Resting,
         pc'[MASTER] = "grant" => pc[MASTER] = "grant" /\ curr' = curr
  PROVE  TablesInv'
<1>1. AlwaysSafe'
  BY DEF TablesInv, AlwaysSafe
<1>2. PassInv'
  BY DecisionFrame DEF TablesInv, PassInv, Resting
<1>3. QED
  BY <1>1, <1>2 DEF TablesInv

LEMMA SafeNowNext == LedgerInv' => (AlwaysSafe' <=> SafeNow')
BY SafeNowIs, PTL

LEMMA TablesServe ==
  ASSUME TablesInv, LedgerInv', Serve
  PROVE  TablesInv'
<1>0. LedgerInv /\ SafeNow /\ pc[MASTER] = "serve" /\ Len(queue') \in Nat
  BY SafeNowIs, LedgerTablesNext DEF TablesInv, Serve, Parts
<1>1. PICK t : t = local_req.thread_id
  OBVIOUS
<1>2. ServeExit(t) \/ ServeRelease(t) \/ ServeAdditional(t)
  BY <1>1 DEF Serve
<1>3. SafeNow'
  BY <1>0, <1>1, <1>2, SafeServeExit, SafeServeRelease, SafeServeAdditional
<1>4. pc' = [pc EXCEPT ![MASTER] = "done"] \/ (pc' = [pc EXCEPT ![MASTER] = "grant"] /\ curr' = 1)
  BY <1>2 DEF ServeExit, ServeRelease, ServeAdditional, StartPass
<1>5. pc \in [Parties -> UserPlaces \cup MasterPlaces] /\ MASTER \in Parties
  BY <1>0, Numbers DEF LedgerInv, HandoverInv, TypeOK
<1>6. pc'[MASTER] = "done" \/ (pc'[MASTER] = "grant" /\ curr' = 1)
  BY <1>4, <1>5
<1>7. PassInv'
  <2>1. \A i \in 1 .. Len(queue') : ~(i < 1)
    BY <1>0
  <2>2. QED
    BY <1>6, <2>1 DEF PassInv
<1>8. QED
  BY <1>3, <1>7, SafeNowNext DEF TablesInv

LEMMA TablesGrant ==
  ASSUME TablesInv, LedgerInv', Grant
  PROVE  TablesInv'
<1>0. LedgerInv /\ PassInv /\ HandoverInv /\ Parts
  BY LedgerTables DEF TablesInv, LedgerInv
<1>1. SafeNow'
  BY <1>0, SafeGrant
<1>2. /\ pc[MASTER] = "grant" /\ pc'[MASTER] = "grant" /\ curr' = curr
      /\ curr \in 1 .. Len(queue) /\ Len(queue) \in Nat /\ queue' = RemoveAt(queue, curr)
  BY <1>0, WhatGrantDoes
<1>3. Len(queue') = Len(queue) - 1
  BY <1>0, <1>2, AskedInRemove DEF Parts
<1>4. ASSUME NEW i \in 1 .. Len(queue'), i < curr' PROVE Decision(i)' # 1
  <2>1. i \in 1 .. Len(queue) /\ i < curr
    BY <1>2, <1>3, <1>4
  <2>2. Decision(i) # 1
    BY <1>0, <1>2, <2>1 DEF PassInv
  <2>3. QED
    BY <1>0, <2>1, <2>2, GrantHelpsNobody
<1>5. PassInv'
  BY <1>2, <1>4 DEF PassInv
<1>6. QED
  BY <1>1, <1>5, SafeNowNext DEF TablesInv

LEMMA TablesPass ==
  ASSUME TablesInv, LedgerInv', Skip \/ EndPass
  PROVE  TablesInv'
<1>0. /\ pc \in [Parties -> UserPlaces \cup MasterPlaces] /\ MASTER \in Parties
      /\ curr \in Nat \ {0} /\ PassInv /\ Parts
  BY LedgerTables, Numbers DEF TablesInv, LedgerInv, HandoverInv, TypeOK
<1>1. UNCHANGED <<avail, alloc, live, queue>> /\ pc[MASTER] = "grant"
  BY DEF Skip, EndPass, tables
<1>2. AlwaysSafe'
  BY <1>1 DEF TablesInv, AlwaysSafe
<1>3. \A i \in 1 .. Len(queue) : i < curr => Decision(i) # 1
  BY <1>0, <1>1 DEF PassInv
<1>4. \A i \in 1 .. Len(queue) : Decision(i)' = Decision(i)
  BY <1>1, DecisionFrame
<1>5. CASE Skip
  <2>1. /\ pc'[MASTER] = "grant" /\ curr' = curr + 1 /\ curr <= Len(queue)
        /\ Decision(curr) # 1
    BY <1>1, <1>5 DEF Skip
  <2>2. \A i \in 1 .. Len(queue) : i < curr' => i < curr \/ i = curr
    BY <1>0, <2>1
  <2>3. \A i \in 1 .. Len(queue) : i < curr' => Decision(i)' # 1
    BY <1>3, <1>4, <2>1, <2>2
  <2>4. PassInv'
    BY <1>1, <2>1, <2>3 DEF PassInv
  <2>5. QED
    BY <1>2, <2>4 DEF TablesInv
<1>6. CASE EndPass
  <2>1. pc'[MASTER] = "reqb" /\ curr > Len(queue)
    BY <1>0, <1>6 DEF EndPass
  <2>2. \A i \in 1 .. Len(queue) : i < curr
    BY <1>0, <2>1 DEF Parts
  <2>3. \A i \in 1 .. Len(queue) : Decision(i)' # 1
    BY <1>3, <1>4, <2>2
  <2>4. PassInv'
    BY <1>1, <2>1, <2>3 DEF PassInv
  <2>5. QED
    BY <1>2, <2>4 DEF TablesInv
<1>7. QED
  BY <1>5, <1>6

\* All other steps.
LEMMA TablesQuiet ==
  ASSUME TablesInv, LedgerInv', NEW p \in Parties,
         \/ Begin(p) \/ MeetREQB(p) \/ CopyRequest
         \/ \E t \in Threads : MeetACK(p, t)
         \/ p \in Threads /\ (ReadRequest(p) \/ ReadQuit(p) \/ Post(p) \/ Unlock(p)
                               \/ CheckReady(p) \/ SpuriousWakeup(p))
  PROVE  TablesInv'
<1>0. /\ pc \in [Parties -> UserPlaces \cup MasterPlaces] /\ MASTER \in Parties
      /\ MASTER \notin Threads
      /\ \A q \in BOS : pc[q] = "in_bos"
      /\ \A q \in REQB : pc[q] = "in_reqb"
      /\ \A t \in Threads, q \in Parties : q \in ACK[t] => pc[q] = "in_ack"
      /\ BOS \subseteq Parties
  BY Numbers DEF TablesInv, LedgerInv, HandoverInv, TypeOK, BarrierInv, BosInv, ReqbInv, AckInv
<1>1. UNCHANGED <<avail, alloc, live, queue>>
  BY DEF Begin, MeetREQB, CopyRequest, MeetACK, ReadRequest, ReadQuit, Post, Unlock, CheckReady,
         SpuriousWakeup, master, tables
<1>2. \/ (Resting' => Resting) /\ pc'[MASTER] # "grant"
      \/ pc'[MASTER] = pc[MASTER] /\ curr' = curr
  <2>1. CASE Begin(p)
    BY <1>0, <2>1 DEF Begin, Resting, master
  <2>2. CASE MeetREQB(p)
    BY <1>0, <2>2 DEF MeetREQB, Meet, Resting, master
  <2>3. CASE CopyRequest
    BY <1>0, <2>3 DEF CopyRequest, Resting
  <2>4. CASE \E t \in Threads : MeetACK(p, t)
    BY <1>0, <2>4 DEF MeetACK, Meet, Resting, master
  <2>5. CASE p \in Threads /\ (ReadRequest(p) \/ ReadQuit(p) \/ Post(p) \/ Unlock(p)
                                \/ CheckReady(p) \/ SpuriousWakeup(p))
    BY <1>0, <2>5 DEF ReadRequest, ReadQuit, Post, Unlock, CheckReady, SpuriousWakeup, master
  <2>6. QED
    BY <2>1, <2>2, <2>3, <2>4, <2>5
<1>3. QED
  BY <1>1, <1>2, TablesFrame DEF Resting

LEMMA TablesInit == Init => TablesInv
<1> SUFFICES ASSUME Init PROVE TablesInv
  OBVIOUS
<1>1. LedgerInv /\ AlwaysSafe
  BY LedgerInit, SafeInit, SafeNowIs
<1>2. PassInv
  BY DEF Init, PassInv
<1>3. QED
  BY <1>1, <1>2 DEF TablesInv

LEMMA TablesStep == TablesInv /\ [Next]_vars => TablesInv'
<1> SUFFICES ASSUME TablesInv, [Next]_vars PROVE TablesInv'
  OBVIOUS
<1>1. LedgerInv' /\ local_req.thread_id \in Threads /\ MASTER \in Parties
  BY LedgerStep, Numbers DEF TablesInv, LedgerInv, HandoverInv, TypeOK, Request
<1>2. CASE MasterStep
  <2>1. CASE Begin(MASTER) \/ MeetREQB(MASTER) \/ CopyRequest \/ MeetACK(MASTER, local_req.thread_id)
    BY <1>1, <2>1, TablesQuiet
  <2>2. CASE Serve
    BY <1>1, <2>2, TablesServe
  <2>3. CASE Grant
    BY <1>1, <2>3, TablesGrant
  <2>4. CASE Skip \/ EndPass
    BY <1>1, <2>4, TablesPass
  <2>5. QED
    BY <1>2, <2>1, <2>2, <2>3, <2>4 DEF MasterStep
<1>3. ASSUME NEW t \in Threads, UserStep(t) \/ SpuriousWakeup(t) PROVE TablesInv'
  BY <1>1, <1>3, TablesQuiet, Numbers DEF UserStep
<1>4. CASE UNCHANGED vars
  <2>1. UNCHANGED <<pc, avail, alloc, live, queue, curr>>
    BY <1>4 DEF vars, master, tables
  <2>2. QED
    BY <1>1, <2>1, TablesFrame DEF Resting
<1>5. QED
  BY <1>2, <1>3, <1>4 DEF Next

\* With the safety of the tables and what a pass of the queue has found so far:
\* the inductive invariant behind AlwaysSafe and NothingGrantableIsLeft.
THEOREM Tables == Spec => []TablesInv
BY TablesInit, TablesStep, PTL DEF Spec

(***************************************************************************)
(* With -D_DLAVOID the master's tables are safe after every step: every    *)
(* way of serving a request, checked by bankers or not, keeps them so.     *)
(***************************************************************************)
THEOREM TheTablesStaySafe == Spec => []AlwaysSafe
<1>1. TablesInv => AlwaysSafe
  BY DEF TablesInv
<1>2. QED
  BY <1>1, Tables, PTL

(***************************************************************************)
(* One pass over the queue is enough, in both builds: no request it left   *)
(* behind could be granted when it ends.                                   *)
(***************************************************************************)
THEOREM OnePassIsEnough == Spec => []NothingGrantableIsLeft
<1>1. TablesInv => NothingGrantableIsLeft
  BY DEF TablesInv, PassInv, NothingGrantableIsLeft
<1>2. QED
  BY <1>1, Tables, PTL

-----------------------------------------------------------------------------
(* The operators SafeAllocator reads from its own copy of Banker.          *)

LEMMA SamePlus ==
  \A a, b : Allocator!Plus(a, b) = Plus(a, b)
BY DEF Allocator!Plus, Plus, Allocator!Kinds, Kinds

LEMMA SameMinus ==
  \A a, b : Allocator!Minus(a, b) = Minus(a, b)
BY DEF Allocator!Minus, Minus, Allocator!Kinds, Kinds

LEMMA SameFits ==
  \A a, b : Allocator!Fits(a, b) <=> Fits(a, b)
BY DEF Allocator!Fits, Fits, Allocator!Kinds, Kinds

LEMMA SameNothing == Allocator!Nothing = Nothing
BY DEF Allocator!Nothing, Nothing, Allocator!Kinds, Kinds

LEMMA SameThreads == Allocator!Threads = Threads
BY DEF Allocator!Threads, Threads

LEMMA SameCardinality ==
  \A S : Allocator!Cardinality(S) = Cardinality(S)
BY Zenon DEF Allocator!Cardinality, Cardinality

LEMMA SameSeqs ==
  \A S : Allocator!SetToSeqs(S) = SetToSeqs(S)
BY SameCardinality, Zenon DEF Allocator!SetToSeqs, SetToSeqs

LEMMA SameAfter ==
  \A a, b, c, d : Allocator!AvailableAfter(a, b, c, d) = AvailableAfter(a, b, c, d)
BY Zenon DEF Allocator!AvailableAfter, AvailableAfter, Allocator!Plus, Plus, Allocator!Kinds, Kinds

LEMMA SameSafe ==
  \A a, b, c, d : Allocator!Safe(a, b, c, d) <=> Safe(a, b, c, d)
BY SameSeqs, SameAfter, SameFits, SameMinus DEF Allocator!Safe, Safe

LEMMA SameSafeAfter ==
  \A a, b, c, d, t, r : Allocator!SafeAfter(a, b, c, d, t, r) <=> SafeAfter(a, b, c, d, t, r)
BY SameSafe, SamePlus, SameMinus DEF Allocator!SafeAfter, SafeAfter

-----------------------------------------------------------------------------
\* What the refinement mapping gives the allocator.
Wants == [t \in Threads |-> Queued(t)]
StateOf(t) == IF t \notin live THEN "gone" ELSE IF InQueue(t) THEN "waiting" ELSE "working"
States == [t \in Threads |-> StateOf(t)]

\* Steps that leave the tables and the queue alone.
LEMMA SameView ==
  ASSUME LedgerInv, LedgerInv', UNCHANGED <<live, queue>>
  PROVE  Wants' = Wants /\ States' = States
<1>1. \A t \in Threads : Queued(t)' = Queued(t)
  BY LedgerTables, LedgerTablesNext DEF Parts
<1>2. \A t \in Threads : StateOf(t)' = StateOf(t)
  BY DEF StateOf, InQueue
<1>3. QED
  BY <1>1, <1>2 DEF Wants, States

LEMMA AllocatorStutter ==
  ASSUME LedgerInv, LedgerInv', UNCHANGED <<avail, alloc, live, queue>>
  PROVE  UNCHANGED Allocator!avars
<1>1. Wants' = Wants /\ States' = States
  BY SameView
<1>2. QED
  BY <1>1 DEF Allocator!avars, Wants, States, StateOf

LEMMA ExitIsLeave ==
  ASSUME LedgerInv, LedgerInv', pc[MASTER] = "serve", NEW t, t = local_req.thread_id,
         ServeExit(t)
  PROVE  Allocator!Leave(t)
<1>1. t \in live /\ t \in Threads /\ ~InQueue(t) /\ TablesAre
  BY LedgerTables DEF LedgerInv, ExitInv, TablesAre
<1>2. /\ avail' = Plus(avail, alloc[t]) /\ alloc' = [alloc EXCEPT ![t] = Nothing]
      /\ live' = live \ {t} /\ queue' = queue
  BY DEF ServeExit
<1>3. Wants' = Wants
  <2>1. \A u \in Threads : Queued(u)' = Queued(u)
    BY <1>2, LedgerTables, LedgerTablesNext DEF Parts
  <2>2. QED
    BY <2>1 DEF Wants
<1>4. States' = [States EXCEPT ![t] = "gone"]
  <2>1. StateOf(t)' = "gone" /\ \A u \in Threads : u # t => StateOf(u)' = StateOf(u)
    BY <1>2 DEF StateOf, InQueue
  <2>2. QED
    BY <2>1 DEF States
<1>5. Nothing = Minus(alloc[t], alloc[t])
  <2>1. alloc[t] \in Vector
    BY <1>1 DEF TablesAre
  <2>2. \A k \in Kinds : Nothing[k] = Minus(alloc[t], alloc[t])[k]
    BY <2>1, Vectors DEF Vector
  <2>3. QED
    BY <2>1, <2>2, Vectors
<1>6. States[t] = "working"
  BY <1>1 DEF States, StateOf
<1>7. QED
  BY <1>2, <1>3, <1>4, <1>5, <1>6, SamePlus, SameMinus
     DEF Allocator!Leave, Allocator!GiveBack, Wants, States, StateOf

LEMMA UptoIs ==
  ASSUME NEW v \in Vector, NEW h \in Vector, \A k \in Kinds : 0 <= h[k] /\ h[k] <= v[k]
  PROVE  h \in Allocator!Upto(v)
<1>1. \A k \in Kinds : h[k] \in 0 .. v[k]
  BY DEF Vector
<1>2. h \in [Kinds -> UNION {0 .. v[k] : k \in Kinds}]
  BY <1>1 DEF Vector
<1>3. Fits(h, v)
  BY DEF Fits
<1>4. Allocator!Kinds = Kinds
  BY DEF Allocator!Kinds, Kinds
<1>5. QED
  BY <1>2, <1>3, <1>4, SameFits DEF Allocator!Upto

LEMMA ReleaseIsRelease ==
  ASSUME LedgerInv, LedgerInv', pc[MASTER] = "serve", NEW t, t = local_req.thread_id,
         ServeRelease(t)
  PROVE  Allocator!Release(t)
<1>0. PICK req : req = local_req.req
  OBVIOUS
<1>1. /\ TablesAre /\ t \in live /\ t \in Threads /\ ~InQueue(t)
      /\ req \in Vector /\ alloc[t] \in Vector /\ avail \in Vector
      /\ alloc \in [Threads -> Vector]
  BY <1>0, LedgerTables DEF LedgerInv, ExitInv, TablesAre, Parts
<1>2. /\ avail' = Minus(avail, req) /\ alloc' = [alloc EXCEPT ![t] = Plus(@, req)]
      /\ live' = live /\ queue' = queue
  BY <1>0 DEF ServeRelease
<1>3. \A k \in Kinds : req[k] <= 0 /\ req[k] \in Int /\ alloc[t][k] \in Int
  BY <1>0, <1>1 DEF LedgerInv, AmountsInv, InMastersHand, ServeRelease, AsksNothing, Vector
<1>4. alloc'[t] = Plus(alloc[t], req) /\ \A k \in Kinds : alloc'[t][k] >= 0
  BY <1>1, <1>2, LedgerTablesNext DEF TablesAre, NonNegative
<1>5. PICK units \in Vector : /\ \A k \in Kinds : units[k] = -req[k]
                              /\ Plus(avail, units) = Minus(avail, req)
                              /\ Minus(alloc[t], units) = Plus(alloc[t], req)
  BY <1>1, NegatedRequest
<1>6. units \in Allocator!Upto(alloc[t])
  <2>1. \A k \in Kinds : alloc'[t][k] = alloc[t][k] + req[k]
    BY <1>1, <1>4, Vectors
  <2>2. \A k \in Kinds : 0 <= units[k] /\ units[k] <= alloc[t][k]
    BY <1>3, <1>4, <1>5, <2>1
  <2>3. QED
    BY <1>1, <2>2, UptoIs
<1>7. Allocator!GiveBack(t, units)
  BY <1>2, <1>5, SamePlus, SameMinus DEF Allocator!GiveBack
<1>8. Wants' = Wants /\ States' = States
  BY <1>2, SameView
<1>9. States[t] = "working"
  BY <1>1 DEF States, StateOf
<1>10. QED
  BY <1>6, <1>7, <1>8, <1>9 DEF Allocator!Release, Wants, States, StateOf

LEMMA AdditionalIsRequest ==
  ASSUME LedgerInv, LedgerInv', pc[MASTER] = "serve", NEW t, t = local_req.thread_id,
         ServeAdditional(t)
  PROVE  Allocator!Request(t)
<1>0. PICK req, units, more : req = local_req.req /\ units = Given(req) /\ more = Asked(req)
  OBVIOUS
<1>1. /\ TablesAre /\ Parts /\ Parts' /\ t \in live /\ t \in Threads /\ ~InQueue(t)
      /\ req \in Vector /\ alloc[t] \in Vector /\ MaxNeed[t] \in Vector
      /\ alloc \in [Threads -> Vector] /\ TablesAre' /\ held[t] \in Vector
  BY <1>0, LedgerTables, LedgerTablesNext DEF LedgerInv, ExitInv, TablesAre, Parts
<1>2. /\ avail' = Plus(avail, units) /\ alloc' = [alloc EXCEPT ![t] = Minus(@, units)]
      /\ live' = live /\ queue' = Append(queue, [thread_id |-> t, req |-> more])
      /\ held' = held /\ local_req.type = "ADDITIONAL"
  BY <1>0 DEF ServeAdditional, user
<1>3. /\ units \in Vector /\ more \in Vector
      /\ \A k \in Kinds : /\ req[k] = more[k] - units[k] /\ units[k] >= 0 /\ more[k] >= 0
                          /\ units[k] = 0 \/ more[k] = 0
                          /\ req[k] > 0 => more[k] > 0
  BY <1>0, <1>1, GivenAndAsked
<1>4. /\ queue \in Queues /\ NoThreadTwice(queue) /\ queue' \in Queues
      /\ Len(queue) \in Nat /\ Len(queue') = Len(queue) + 1
      /\ queue'[Len(queue) + 1].thread_id = t /\ queue'[Len(queue) + 1].req = more
      /\ \A i \in 1 .. Len(queue) : queue'[i] = queue[i]
      /\ \A i \in 1 .. Len(queue) : queue[i].thread_id # t
  <2>1. [thread_id |-> t, req |-> more] \in [thread_id : Threads, req : Vector]
    BY <1>1, <1>3
  <2>2. queue \in Seq([thread_id : Threads, req : Vector])
    BY <1>1 DEF Parts, Queues
  <2>3. /\ Len(queue) \in Nat /\ Len(queue') = Len(queue) + 1
        /\ queue'[Len(queue) + 1] = [thread_id |-> t, req |-> more]
        /\ \A i \in 1 .. Len(queue) : queue'[i] = queue[i]
    BY <1>2, <2>1, <2>2, AppendProperties, LenProperties
  <2>4. QED
    BY <1>1, <2>3 DEF Parts, InQueue
<1>5. Wants' = [Wants EXCEPT ![t] = more]
  <2>1. \A u \in Threads : Queued(u) = AskedIn(queue, u) /\ Queued(u)' = AskedIn(queue', u)
    BY <1>1 DEF Parts
  <2>2. /\ AskedIn(queue', t) = more
        /\ \A u \in Threads : u # t => AskedIn(queue', u) = AskedIn(queue, u)
    BY <1>1, <1>4, AskedInAppend
  <2>3. QED
    BY <1>1, <2>1, <2>2 DEF Wants
<1>6. States[t] = "working" /\ States' = [States EXCEPT ![t] = "waiting"]
  <2>1. \A i \in 1 .. Len(queue') : i = Len(queue) + 1 \/ i \in 1 .. Len(queue)
    BY <1>4
  <2>2. InQueue(t)'
    BY <1>4 DEF InQueue
  <2>3. \A u \in Threads : u # t => (InQueue(u)' <=> InQueue(u))
    BY <1>4, <2>1 DEF InQueue
  <2>4. StateOf(t)' = "waiting" /\ \A u \in Threads : u # t => StateOf(u)' = StateOf(u)
    BY <1>1, <1>2, <2>2, <2>3 DEF StateOf
  <2>5. QED
    BY <1>1, <2>4 DEF States, StateOf
<1>7. \A k \in Kinds : /\ alloc[t][k] \in Int /\ units[k] \in Int /\ more[k] \in Int
                       /\ req[k] \in Int /\ MaxNeed[t][k] \in Int /\ held[t][k] \in Int
                       /\ Minus(MaxNeed[t], alloc[t])[k] = MaxNeed[t][k] - alloc[t][k]
                       /\ 0 <= alloc[t][k] - units[k]
                       /\ alloc[t][k] <= MaxNeed[t][k]
                       /\ alloc[t][k] - units[k] + more[k] <= MaxNeed[t][k]
  <2>1. \A k \in Kinds : /\ alloc[t][k] \in Int /\ units[k] \in Int /\ more[k] \in Int
                         /\ req[k] \in Int /\ MaxNeed[t][k] \in Int /\ held[t][k] \in Int
    BY <1>1, <1>3 DEF Vector
  <2>2. /\ Minus(MaxNeed[t], alloc[t]) \in Vector
        /\ \A k \in Kinds : Minus(MaxNeed[t], alloc[t])[k] = MaxNeed[t][k] - alloc[t][k]
    BY <1>1, Vectors
  <2>3. alloc'[t] = Minus(alloc[t], units)
    BY <1>1, <1>2
  <2>4. \A k \in Kinds : alloc'[t][k] = alloc[t][k] - units[k] /\ alloc'[t][k] >= 0
    BY <1>1, <1>3, <2>3, Vectors DEF TablesAre, NonNegative
  <2>5. \A k \in Kinds : alloc[t][k] <= MaxNeed[t][k] /\ held[t][k] <= MaxNeed[t][k]
    BY <1>1 DEF LedgerInv, ClaimsInv, AmountsInv, Within, Fits
  <2>6. \A k \in Kinds : held[t][k] = alloc[t][k] - units[k] + more[k]
    <3>1. ~IsPosted(t) /\ Queued(t) = Nothing
      <4>0. InHand(t)
        BY <1>2 DEF InHand
      <4>1. Awaiting(t)
        BY <1>1, <4>0 DEF LedgerInv, HandoverInv, RequestHasOneHome
      <4>2. Queued(t) = Nothing
        BY <1>1, Zenon DEF Queued
      <4>3. QED
        BY <4>1, <4>2 DEF Awaiting, IsPosted
    <3>2. Posted(t) = Nothing /\ Copied(t) = req
      BY <1>0, <1>1, <1>2, <3>1 DEF Parts, InMastersHand
    <3>3. InBalance(held[t], alloc[t], Nothing, req, Nothing)
      BY <1>1, <3>1, <3>2 DEF Parts, LedgerInv
    <3>4. QED
      BY <1>3, <2>1, <3>3, Vectors DEF InBalance
  <2>7. QED
    BY <2>1, <2>2, <2>4, <2>5, <2>6
<1>8. units \in Allocator!Upto(alloc[t])
  <2>1. \A k \in Kinds : 0 <= units[k] /\ units[k] <= alloc[t][k]
    BY <1>3, <1>7
  <2>2. QED
    BY <1>1, <1>3, <2>1, UptoIs
<1>9. more \in Allocator!Upto(Minus(MaxNeed[t], alloc[t]))
  <2>1. Minus(MaxNeed[t], alloc[t]) \in Vector
    BY <1>1, Vectors
  <2>2. \A k \in Kinds : 0 <= more[k] /\ more[k] <= Minus(MaxNeed[t], alloc[t])[k]
    BY <1>3, <1>7
  <2>3. QED
    BY <1>3, <2>1, <2>2, UptoIs
<1>10. more # Nothing /\ \A k \in Kinds : units[k] = 0 \/ more[k] = 0
  <2>1. \E k \in Kinds : req[k] > 0
    BY <1>0, <1>2, <1>7 DEF LedgerInv, AmountsInv, InMastersHand, AsksNothing
  <2>2. QED
    BY <1>3, <2>1, Vectors
<1>11. Allocator!GiveBack(t, units)
  BY <1>2, SamePlus, SameMinus DEF Allocator!GiveBack
<1>12. Allocator!Kinds = Kinds
  BY DEF Allocator!Kinds, Kinds
<1>13. QED
  BY <1>5, <1>6, <1>8, <1>9, <1>10, <1>11, <1>12, SameMinus, SameNothing
     DEF Allocator!Request, Wants, States, StateOf

LEMMA GrantIsAllocate ==
  ASSUME LedgerInv, LedgerInv', Grant, NEW t, t = queue[curr].thread_id
  PROVE  Allocator!Allocate(t)
<1>0. PICK req : req = queue[curr].req
  OBVIOUS
<1>1. /\ curr \in 1 .. Len(queue) /\ Len(queue) \in Nat /\ Decision(curr) = 1
      /\ avail' = Minus(avail, req) /\ live' = live /\ Awaiting(t) /\ t \in Threads
      /\ queue' = RemoveAt(queue, curr)
  BY <1>0, WhatGrantDoes DEF LedgerInv
<1>2. alloc' = [alloc EXCEPT ![t] = Plus(@, req)]
  BY <1>0 DEF Grant
<1>3. /\ TablesAre /\ Parts /\ Parts' /\ BankersIsExact /\ t \in live /\ InQueue(t)
  BY <1>1, LedgerTables, LedgerTablesNext DEF LedgerInv, ExitInv, Awaiting, InQueue
<1>4. Fits(req, avail) /\ (DLAVOID => SafeAfter(avail, MaxNeed, alloc, live, t, req))
  BY <1>0, <1>1, <1>3 DEF BankersIsExact
<1>5. /\ queue \in Queues /\ NoThreadTwice(queue) /\ queue' \in Queues
      /\ \A u \in Threads : Queued(u) = AskedIn(queue, u) /\ Queued(u)' = AskedIn(queue', u)
  BY <1>3 DEF Parts
<1>6. AskedIn(queue, t) = req
  BY <1>0, <1>1, <1>5, AskedInIs
<1>7. /\ AskedIn(queue', t) = Nothing
      /\ \A u \in Threads : u # t => AskedIn(queue', u) = AskedIn(queue, u)
      /\ Len(queue') = Len(queue) - 1
      /\ \A i \in 1 .. Len(queue') : queue'[i] = IF i < curr THEN queue[i] ELSE queue[i + 1]
      /\ \A i \in 1 .. Len(queue') : queue'[i].thread_id # t
  <2>1. curr \in 1 .. Len(queue) /\ queue' = RemoveAt(queue, curr)
    BY <1>1
  <2>2. queue \in Queues /\ NoThreadTwice(queue)
    BY <1>5
  <2>3. QED
    BY <2>1, <2>2, AskedWithout
<1>8. Wants[t] = req /\ Wants' = [Wants EXCEPT ![t] = Nothing]
  BY <1>1, <1>5, <1>6, <1>7 DEF Wants
<1>9. States[t] = "waiting" /\ States' = [States EXCEPT ![t] = "working"]
  <2>1. ~InQueue(t)'
    BY <1>7 DEF InQueue
  <2>2. ASSUME NEW u \in Threads, u # t PROVE InQueue(u)' <=> InQueue(u)
    <3>1. ASSUME NEW i \in 1 .. Len(queue), queue[i].thread_id = u
          PROVE  \E j \in 1 .. Len(queue') : queue'[j].thread_id = u
      <4>1. CASE i < curr
        <5>1. i \in 1 .. Len(queue') /\ queue'[i] = queue[i]
          BY <1>1, <1>7, <4>1
        <5>2. QED
          BY <3>1, <5>1
      <4>2. CASE i > curr
        <5>1. i - 1 \in 1 .. Len(queue') /\ queue'[i - 1] = queue[i]
          BY <1>1, <1>7, <4>2
        <5>2. QED
          BY <3>1, <5>1
      <4>3. QED
        BY <1>1, <2>2, <3>1, <4>1, <4>2
    <3>2. ASSUME NEW j \in 1 .. Len(queue'), queue'[j].thread_id = u
          PROVE  \E i \in 1 .. Len(queue) : queue[i].thread_id = u
      <4>1. j \in 1 .. Len(queue) /\ j + 1 \in 1 .. Len(queue)
        BY <1>1, <1>7
      <4>2. QED
        BY <1>7, <3>2, <4>1
    <3>3. QED
      BY <3>1, <3>2 DEF InQueue
  <2>3. StateOf(t)' = "working" /\ \A u \in Threads : u # t => StateOf(u)' = StateOf(u)
    BY <1>1, <1>3, <2>1, <2>2 DEF StateOf
  <2>4. StateOf(t) = "waiting"
    BY <1>3 DEF StateOf
  <2>5. QED
    BY <1>1, <2>3, <2>4 DEF States
<1>10. Allocator!Alive = live
  <2>1. \A u \in Threads : States[u] # "gone" <=> u \in live
    BY DEF States, StateOf
  <2>2. {u \in Threads : States[u] # "gone"} = live
    BY <1>3, <2>1 DEF Parts
  <2>3. QED
    BY <2>2, SameThreads DEF Allocator!Alive, States, StateOf
<1>11. /\ Allocator!Fits(Wants[t], avail)
       /\ DLAVOID => Allocator!SafeAfter(avail, MaxNeed, alloc, Allocator!Alive, t, Wants[t])
  BY <1>4, <1>8, <1>10, SameFits, SameSafeAfter
<1>12. /\ avail' = Allocator!Minus(avail, Wants[t])
       /\ alloc' = [alloc EXCEPT ![t] = Allocator!Plus(@, Wants[t])]
  BY <1>1, <1>2, <1>8, SamePlus, SameMinus
<1>13. QED
  BY <1>8, <1>9, <1>11, <1>12, SameNothing DEF Allocator!Allocate, Wants, States, StateOf

LEMMA AllocatorInit == Init => Allocator!Init
<1> SUFFICES ASSUME Init PROVE Allocator!Init
  OBVIOUS
<1>1. LedgerInv /\ Parts
  BY LedgerInit, LedgerTables
<1>2. Len(queue) = 0 /\ live = Threads
  BY DEF Init
<1>3. Wants = [t \in Threads |-> Nothing]
  <2>1. queue \in Queues /\ NoThreadTwice(queue) /\ \A i \in 1 .. Len(queue) : FALSE
    BY <1>1, <1>2 DEF Parts
  <2>2. \A t \in Threads : AskedIn(queue, t) = Nothing
    BY <2>1, AskedInIs
  <2>3. \A t \in Threads : Queued(t) = Nothing
    BY <1>1, <2>2 DEF Parts
  <2>4. QED
    BY <2>3 DEF Wants
<1>4. States = [t \in Threads |-> "working"]
  BY <1>2 DEF States, StateOf, InQueue
<1>5. avail = Total /\ alloc = [t \in Threads |-> Nothing]
  BY DEF Init
<1>6. QED
  BY <1>3, <1>4, <1>5, SameThreads, SameNothing DEF Allocator!Init, Wants, States, StateOf

LEMMA AllocatorNext ==
  LedgerInv /\ LedgerInv' /\ [Next]_vars => [Allocator!Next]_(Allocator!avars)
<1> SUFFICES ASSUME LedgerInv, LedgerInv', [Next]_vars
             PROVE  [Allocator!Next]_(Allocator!avars)
  OBVIOUS
<1>1. local_req.thread_id \in Threads /\ Parts
  BY LedgerTables DEF Parts
<1>2. CASE Serve
  <2>1. PICK t \in Threads : t = local_req.thread_id
    BY <1>1
  <2>2. Allocator!Leave(t) \/ Allocator!Release(t) \/ Allocator!Request(t)
    BY <1>2, <2>1, ExitIsLeave, ReleaseIsRelease, AdditionalIsRequest DEF Serve
  <2>3. QED
    BY <2>2, SameThreads DEF Allocator!Next
<1>3. CASE Grant
  <2>1. PICK t : t = queue[curr].thread_id
    OBVIOUS
  <2>2. t \in Threads
    BY <1>3, <2>1, WhatGrantDoes DEF LedgerInv
  <2>3. Allocator!Allocate(t)
    BY <1>3, <2>1, GrantIsAllocate
  <2>4. QED
    BY <2>2, <2>3, SameThreads DEF Allocator!Next
<1>4. CASE UNCHANGED <<avail, alloc, live, queue>>
  BY <1>4, AllocatorStutter
<1>5. Serve \/ Grant \/ UNCHANGED <<avail, alloc, live, queue>>
  <2>1. CASE MasterStep
    BY <2>1 DEF MasterStep, Begin, MeetREQB, CopyRequest, MeetACK, Skip, EndPass, master, tables
  <2>2. CASE \E t \in Threads : UserStep(t) \/ SpuriousWakeup(t)
    BY <2>2 DEF UserStep, Begin, ReadRequest, ReadQuit, Post, MeetREQB, MeetACK, Unlock,
                CheckReady, SpuriousWakeup, master, tables
  <2>3. CASE UNCHANGED vars
    BY <2>3 DEF vars, master, tables
  <2>4. QED
    BY <2>1, <2>2, <2>3 DEF Next
<1>6. QED
  BY <1>2, <1>3, <1>4, <1>5

(***************************************************************************)
(* The program is a safe allocator: with its barriers, its queue and its   *)
(* loop forgotten, every step of it gives units back, asks, is granted     *)
(* what is free and safe, leaves, or changes nothing.                      *)
(***************************************************************************)
THEOREM TheMasterIsASafeAllocator == Spec => ImplementsAllocator
BY AllocatorInit, AllocatorNext, Ledgers, PTL DEF Spec, ImplementsAllocator, Allocator!Spec
=============================================================================
