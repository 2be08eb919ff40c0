--------------------------- MODULE SchedulerProofs ---------------------------
(***************************************************************************)
(* Proofs about Scheduler, for any processes, programs and quanta: its     *)
(* heap yields the events in the order of RoundRobin, which it implements; *)
(* its times add up; and its ready queue stays within its array.           *)
(***************************************************************************)
EXTENDS Scheduler, FiniteSetTheorems, SequenceTheorems, TLAPS

-----------------------------------------------------------------------------
(* Induction over numbers.                                                 *)

\* A set of naturals has a least member.
LEMMA LeastNumber ==
  ASSUME NEW S \in SUBSET Nat, S # {}
  PROVE  \E m \in S : \A k \in S : m <= k
<1>. DEFINE R == OpToRel(<, Nat)
<1>1. IsWellFoundedOn(R, Nat)
  BY NatLessThanWellFounded
<1>2. \A a, b \in Nat : <<a, b>> \in R <=> a < b
  BY DEF OpToRel
<1>. HIDE DEF R
<1>3. PICK m \in S : \A y \in S : ~(<<y, m>> \in R)
  BY <1>1, WFMin, Zenon
<1>4. \A y \in S : ~(y < m)
  BY <1>2, <1>3
<1>. QED BY <1>4

\* A set that has 0 and, below m, the successor of each of its members has
\* all the numbers up to m.
LEMMA InductionUpTo ==
  ASSUME NEW m \in Nat, NEW S, 0 \in S, \A k \in 0 .. m - 1 : k \in S => k + 1 \in S
  PROVE  \A k \in 0 .. m : k \in S
<1>. DEFINE Missing == (0 .. m) \ S
<1>1. SUFFICES ASSUME Missing # {} PROVE FALSE
  OBVIOUS
<1>2. PICK b \in Missing : \A k \in Missing : b <= k
  <2>1. Missing \in SUBSET Nat
    OBVIOUS
  <2>. HIDE DEF Missing
  <2>. QED BY <1>1, <2>1, LeastNumber
<1>3. b - 1 \in 0 .. m - 1 /\ b - 1 \in S
  BY <1>2
<1>4. (b - 1) + 1 \in S
  BY <1>3
<1>. QED BY <1>2, <1>4

-----------------------------------------------------------------------------
(* The order of the events.                                                *)

Events    == [process_id : Procs, time : Nat, event_type : EventTypes]
CpuEvents == {"burst_end", "timeout"}

\* A process has one event at most, and the CPU has one.
Orderly(S) ==
  /\ S \subseteq Events
  /\ \A a, b \in S : a.process_id = b.process_id => a = b
  /\ \A a, b \in S : a.event_type \in CpuEvents /\ b.event_type \in CpuEvents => a = b

\* Then, and only then, comp is an order.
LEMMA CompOrders ==
  ASSUME NEW S, Orderly(S)
  PROVE  /\ \A a \in S : ~comp(a, a)
         /\ \A a, b \in S : a # b => comp(a, b) \/ comp(b, a)
         /\ \A a, b \in S : ~(comp(a, b) /\ comp(b, a))
         /\ \A a, b, c \in S : comp(a, b) /\ comp(b, c) => comp(a, c)
<1>1. \A a \in S : /\ a.time \in Nat /\ a.process_id \in Int
                   /\ a.event_type \in Joins \/ a.event_type \in CpuEvents
  BY WorkloadAssumption DEF Orderly, Events, EventTypes, Joins, CpuEvents, Procs
<1>2. Joins = {"arrival", "io_done"} /\ CpuEvents = {"burst_end", "timeout"}
  BY DEF Joins, CpuEvents
<1>3. \A a, b \in S : a # b => a.process_id # b.process_id
  BY DEF Orderly
<1>4. \A a, b \in S : a.event_type \in CpuEvents /\ b.event_type \in CpuEvents => a = b
  BY DEF Orderly
<1>5. \A a \in S : ~comp(a, a)
  BY <1>1, <1>2 DEF comp
<1>6. \A a, b \in S : a # b => comp(a, b) \/ comp(b, a)
  BY <1>1, <1>2, <1>3 DEF comp
<1>7. \A a, b \in S : ~(comp(a, b) /\ comp(b, a))
  BY <1>1, <1>2 DEF comp
<1>8. ASSUME NEW a \in S, NEW b \in S, NEW c \in S, comp(a, b), comp(b, c)
      PROVE  comp(a, c)
  <2>1. a # b /\ b # c /\ a # c
    BY <1>5, <1>7, <1>8
  <2>2. ~(a.event_type \in CpuEvents /\ b.event_type \in CpuEvents)
        /\ ~(b.event_type \in CpuEvents /\ c.event_type \in CpuEvents)
        /\ ~(a.event_type \in CpuEvents /\ c.event_type \in CpuEvents)
    BY <1>4, <2>1
  <2>3. /\ a.time \in Nat /\ b.time \in Nat /\ c.time \in Nat
        /\ a.process_id \in Int /\ b.process_id \in Int /\ c.process_id \in Int
    BY <1>1
  <2>. QED BY <1>1, <1>2, <1>8, <2>2, <2>3 DEF comp
<1>. QED BY <1>5, <1>6, <1>7, <1>8

-----------------------------------------------------------------------------
(* The heap.                                                               *)

\* h lists the m events of S, each once.
Lists(h, m, S) ==
  /\ h \in [1 .. m -> S]
  /\ \A i, j \in 1 .. m : h[i] = h[j] => i = j
  /\ \A e \in S : \E i \in 1 .. m : h[i] = e

\* No event comes before its parent; none but the one at place i, or but the
\* children of place i, which do not come before the parent of i either.
IsHeap(h, m) == \A j \in 2 .. m : ~comp(h[j], h[j \div 2])

Rising(h, m, i) ==
  /\ \A j \in 2 .. m : j # i => ~comp(h[j], h[j \div 2])
  /\ \A j \in 2 .. m : j \div 2 = i /\ i > 1 => ~comp(h[j], h[i \div 2])

Sinking(h, m, i) ==
  /\ \A j \in 2 .. m : j \div 2 # i => ~comp(h[j], h[j \div 2])
  /\ \A j \in 2 .. m : j \div 2 = i /\ i > 1 => ~comp(h[j], h[i \div 2])

LEMMA ListIsSeq ==
  ASSUME NEW S, NEW m \in Nat, NEW h, Lists(h, m, S)
  PROVE  h \in Seq(S) /\ Len(h) = m /\ ToSet(h) = S
<1>1. h \in [1 .. m -> S]
  BY DEF Lists
<1>2. h \in Seq(S) /\ Len(h) = m /\ DOMAIN h = 1 .. m
  BY <1>1
<1>3. ToSet(h) = S
  BY <1>1, <1>2 DEF Lists, ToSet
<1>. QED BY <1>2, <1>3

LEMMA SwapKeeps ==
  ASSUME NEW S, NEW m, NEW h, NEW i, NEW j, NEW g,
         m \in Nat, Lists(h, m, S), i \in 1 .. m, j \in 1 .. m, g = Swapped(h, i, j)
  PROVE  /\ Lists(g, m, S) /\ g[i] = h[j] /\ g[j] = h[i]
         /\ \A k \in 1 .. m : k # i /\ k # j => g[k] = h[k]
<1>1. h \in [1 .. m -> S] /\ (\A k, l \in 1 .. m : h[k] = h[l] => k = l)
      /\ (\A e \in S : \E k \in 1 .. m : h[k] = e)
  BY DEF Lists
<1>2. /\ g \in [1 .. m -> S] /\ g[i] = h[j] /\ g[j] = h[i]
      /\ \A k \in 1 .. m : k # i /\ k # j => g[k] = h[k]
  BY <1>1 DEF Swapped
<1>3. \A k, l \in 1 .. m : g[k] = g[l] => k = l
  BY <1>1, <1>2
<1>4. ASSUME NEW e \in S PROVE \E k \in 1 .. m : g[k] = e
  <2>1. PICK k \in 1 .. m : h[k] = e
    BY <1>1
  <2>2. CASE k = i
    BY <1>2, <2>1, <2>2
  <2>3. CASE k = j
    BY <1>2, <2>1, <2>3
  <2>4. CASE k # i /\ k # j
    BY <1>2, <2>1, <2>4
  <2>. QED BY <2>2, <2>3, <2>4
<1>. QED BY <1>2, <1>3, <1>4 DEF Lists

-----------------------------------------------------------------------------
(* insert.                                                                 *)

\* A turn of the loop in insert: the event rises, or the heap is a heap.
LEMMA RaisedStep ==
  ASSUME NEW S, Orderly(S), NEW m \in Nat, NEW h, Lists(h, m, S), NEW i \in 1 .. m,
         Rising(h, m, i), NEW s, s = [heap |-> h, idx |-> i], ~IsHeap(h, m)
  PROVE  \E g, p : /\ Raised(s) = [heap |-> g, idx |-> p] /\ p \in 1 .. m /\ p < i
                   /\ Lists(g, m, S) /\ Rising(g, m, p)
<1>. DEFINE p == i \div 2
            g == Swapped(h, i, p)
<1>1. i \in Nat /\ i > 1 /\ comp(h[i], h[p])
  <2>1. PICK j \in 2 .. m : comp(h[j], h[j \div 2])
    BY DEF IsHeap
  <2>2. j = i
    BY <2>1 DEF Rising
  <2>. QED BY <2>1, <2>2
<1>2. p \in 1 .. m /\ p < i /\ p \in Nat
  BY <1>1
<1>3. Raised(s) = [heap |-> g, idx |-> p]
  BY <1>1 DEF Raised
<1>4. /\ Lists(g, m, S) /\ g[i] = h[p] /\ g[p] = h[i]
      /\ \A k \in 1 .. m : k # i /\ k # p => g[k] = h[k]
  <2>1. PICK x, y : x = g /\ y = p
    OBVIOUS
  <2>2. x = Swapped(h, i, y) /\ y \in 1 .. m
    BY <1>2, <2>1
  <2>. HIDE DEF p, g
  <2>3. /\ Lists(x, m, S) /\ x[i] = h[y] /\ x[y] = h[i]
        /\ \A k \in 1 .. m : k # i /\ k # y => x[k] = h[k]
    <3>1. m \in Nat /\ Lists(h, m, S) /\ i \in 1 .. m
      OBVIOUS
    <3>2. x = Swapped(h, i, y) /\ y \in 1 .. m
      BY <2>2
    <3>. QED BY ONLY <3>1, <3>2, SwapKeeps
  <2>. QED BY <2>1, <2>3
<1>5. \A k \in 1 .. m : h[k] \in S
  BY DEF Lists
<1>6. \A j \in 2 .. m : j \div 2 \in 1 .. m /\ j \div 2 < j
  OBVIOUS
<1>7. ~comp(h[p], h[i])
  BY <1>1, <1>2, <1>5, CompOrders
<1>8. ASSUME NEW j \in 2 .. m, j # p
      PROVE  ~comp(g[j], g[j \div 2])
  <2>1. CASE j = i
    BY <1>4, <1>7, <2>1
  <2>2. CASE j # i /\ j \div 2 = i
    <3>1. ~comp(h[j], h[p]) /\ g[j] = h[j] /\ g[i] = h[p]
      BY <1>1, <1>4, <1>8, <2>2 DEF Rising
    <3>. QED BY <2>2, <3>1
  <2>3. CASE j # i /\ j \div 2 # i /\ j \div 2 = p
    <3>1. ~comp(h[j], h[p]) /\ g[j] = h[j] /\ g[p] = h[i]
      BY <1>4, <1>8, <2>3 DEF Rising
    <3>2. ~comp(h[j], h[i])
      BY <1>1, <1>2, <1>5, <3>1, CompOrders
    <3>. QED BY <2>3, <3>1, <3>2
  <2>4. CASE j # i /\ j \div 2 # i /\ j \div 2 # p
    <3>1. ~comp(h[j], h[j \div 2]) /\ g[j] = h[j] /\ g[j \div 2] = h[j \div 2]
      BY <1>4, <1>6, <1>8, <2>4 DEF Rising
    <3>. QED BY <3>1
  <2>. QED BY <2>1, <2>2, <2>3, <2>4
<1>9. ASSUME NEW j \in 2 .. m, j \div 2 = p, p > 1
      PROVE  ~comp(g[j], g[p \div 2])
  <2>1. p \div 2 \in 1 .. m /\ p \div 2 < p /\ p \in 2 .. m
    BY <1>2, <1>9
  <2>2. ~comp(h[p], h[p \div 2]) /\ g[p \div 2] = h[p \div 2]
    BY <1>2, <1>4, <2>1 DEF Rising
  <2>3. CASE j = i
    BY <1>4, <2>2, <2>3
  <2>4. CASE j # i
    <3>1. ~comp(h[j], h[p]) /\ g[j] = h[j]
      BY <1>4, <1>6, <1>9, <2>4 DEF Rising
    <3>2. ~comp(h[j], h[p \div 2])
      <4>1. h[j] \in S /\ h[p] \in S /\ h[p \div 2] \in S
        BY <1>2, <1>5, <2>1
      <4>. QED BY <2>2, <3>1, <4>1, CompOrders
    <3>. QED BY <2>2, <3>1, <3>2
  <2>. QED BY <2>3, <2>4
<1>10. Rising(g, m, p)
  BY <1>8, <1>9 DEF Rising
<1>. QED BY <1>2, <1>3, <1>4, <1>10

\* The turns of the loop in insert, one after the other.
RaisedTurns(s, m, f) == f = [k \in 0 .. m |-> IF k = 0 THEN s ELSE Raised(f[k - 1])]

LEMMA RaisedTurnsExist ==
  ASSUME NEW s, NEW m \in Nat
  PROVE  \E f : RaisedTurns(s, m, f)
<1>. DEFINE Some == {l \in 0 .. m : \E f : RaisedTurns(s, l, f)}
<1>1. 0 \in Some
  <2>1. RaisedTurns(s, 0, [k \in 0 .. 0 |-> s])
    BY DEF RaisedTurns
  <2>. QED BY <2>1
<1>2. ASSUME NEW l \in 0 .. m - 1, l \in Some
      PROVE  l + 1 \in Some
  <2>1. PICK f : f = [k \in 0 .. l |-> IF k = 0 THEN s ELSE Raised(f[k - 1])]
    BY <1>2 DEF RaisedTurns
  <2>. DEFINE g == [k \in 0 .. l + 1 |-> IF k = l + 1 THEN Raised(f[l]) ELSE f[k]]
  <2>2. \A k \in 0 .. l : g[k] = f[k]
    OBVIOUS
  <2>3. \A k \in 0 .. l + 1 : g[k] = IF k = 0 THEN s ELSE Raised(g[k - 1])
    <3>1. SUFFICES ASSUME NEW k \in 0 .. l + 1
                   PROVE  g[k] = IF k = 0 THEN s ELSE Raised(g[k - 1])
      OBVIOUS
    <3>2. CASE k = l + 1
      <4>1. g[k] = Raised(f[l]) /\ k # 0 /\ g[k - 1] = f[l]
        BY <2>2, <3>2
      <4>. HIDE DEF g
      <4>. QED BY <4>1
    <3>3. CASE k \in 0 .. l
      <4>1. f[k] = IF k = 0 THEN s ELSE Raised(f[k - 1])
        BY <2>1, <3>3
      <4>2. g[k] = f[k] /\ (k # 0 => g[k - 1] = f[k - 1])
        BY <2>2, <3>3
      <4>. HIDE DEF g
      <4>. QED BY <4>1, <4>2
    <3>. QED BY <3>2, <3>3
  <2>4. g = [k \in 0 .. l + 1 |-> g[k]]
    OBVIOUS
  <2>5. RaisedTurns(s, l + 1, g)
    <3>. HIDE DEF g
    <3>. QED BY <2>3, <2>4 DEF RaisedTurns
  <2>. HIDE DEF g
  <2>. QED BY <2>5
<1>3. \A k \in 0 .. m : k \in Some
  <2>. HIDE DEF Some
  <2>. QED BY <1>1, <1>2, InductionUpTo
<1>. QED BY <1>3

LEMMA RaisedTurnsUnfold ==
  ASSUME NEW s, NEW m \in Nat, NEW f, RaisedTurns(s, m, f)
  PROVE  f[0] = s /\ \A k \in 0 .. m - 1 : f[k + 1] = Raised(f[k])
<1>1. \A k \in 0 .. m : f[k] = IF k = 0 THEN s ELSE Raised(f[k - 1])
  BY DEF RaisedTurns
<1>2. \A k \in 0 .. m - 1 : k + 1 \in 0 .. m /\ k + 1 # 0 /\ (k + 1) - 1 = k
  OBVIOUS
<1>. QED BY <1>1, <1>2

\* insert makes a heap of a heap and an event.
LEMMA InsertIsRight ==
  ASSUME NEW S, NEW e, e \notin S, Orderly(S \cup {e}), NEW m \in Nat,
         NEW h, Lists(h, m, S), IsHeap(h, m)
  PROVE  Lists(insert(h, e), m + 1, S \cup {e}) /\ IsHeap(insert(h, e), m + 1)
<1>. DEFINE all == S \cup {e}
            size == m + 1
            first == Append(h, e)
<1>0. Len(h) = m /\ h \in Seq(S)
  BY ListIsSeq
<1>1. \E after : RaisedTurns([heap |-> first, idx |-> size], size, after)
                /\ insert(h, e) = after[size].heap
  <2>. DEFINE After == CHOOSE f : RaisedTurns([heap |-> first, idx |-> size], size, f)
  <2>1. insert(h, e) = After[size].heap
    BY <1>0, Zenon DEF insert, RaisedTurns
  <2>2. RaisedTurns([heap |-> first, idx |-> size], size, After)
    <3>1. size \in Nat
      OBVIOUS
    <3>. HIDE DEF first, size
    <3>. QED BY <3>1, RaisedTurnsExist, Zenon
  <2>. QED BY <2>1, <2>2
<1>2. PICK after : /\ insert(h, e) = after[size].heap
                   /\ after[0] = [heap |-> first, idx |-> size]
                   /\ \A k \in 0 .. size - 1 : after[k + 1] = Raised(after[k])
  <2>1. size \in Nat
    OBVIOUS
  <2>2. PICK after : /\ RaisedTurns([heap |-> first, idx |-> size], size, after)
                     /\ insert(h, e) = after[size].heap
    BY <1>1
  <2>. HIDE DEF first, size
  <2>3. /\ after[0] = [heap |-> first, idx |-> size]
        /\ \A k \in 0 .. size - 1 : after[k + 1] = Raised(after[k])
    <3>1. PICK x, z : x = [heap |-> first, idx |-> size] /\ z = size
      OBVIOUS
    <3>2. z \in Nat /\ RaisedTurns(x, z, after)
      BY <2>1, <2>2, <3>1
    <3>3. after[0] = x /\ \A k \in 0 .. z - 1 : after[k + 1] = Raised(after[k])
      BY <3>2, RaisedTurnsUnfold
    <3>. QED BY <3>1, <3>3
  <2>. QED BY <2>2, <2>3
<1>3. Lists(first, size, all) /\ Rising(first, size, size)
  <2>1. /\ first \in [1 .. size -> all] /\ first[size] = e
        /\ \A k \in 1 .. m : first[k] = h[k] /\ h[k] \in S
    <3>1. /\ first \in Seq(all) /\ Len(first) = size /\ first[size] = e
          /\ \A k \in 1 .. m : first[k] = h[k]
      BY <1>0
    <3>2. \A k \in 1 .. m : h[k] \in S
      BY <1>0
    <3>. HIDE DEF first
    <3>. QED BY <3>1, <3>2
  <2>2. \A i, j \in 1 .. m : h[i] = h[j] => i = j
    BY DEF Lists
  <2>3. \A x \in S : \E i \in 1 .. m : h[i] = x
    BY DEF Lists
  <2>. HIDE DEF first
  <2>4. Lists(first, size, all)
    <3>1. \A i, j \in 1 .. size : first[i] = first[j] => i = j
      BY <2>1, <2>2
    <3>2. \A x \in all : \E i \in 1 .. size : first[i] = x
      BY <2>1, <2>3
    <3>. QED BY <2>1, <3>1, <3>2 DEF Lists
  <2>5. Rising(first, size, size)
    <3>1. \A j \in 2 .. size : j # size => j \in 2 .. m /\ j \div 2 \in 1 .. m
      OBVIOUS
    <3>2. \A j \in 2 .. size : j \div 2 # size
      OBVIOUS
    <3>. QED BY <2>1, <3>1, <3>2 DEF Rising, IsHeap
  <2>. QED BY <2>4, <2>5
<1>. DEFINE Good(k) == \E g, i : /\ after[k] = [heap |-> g, idx |-> i] /\ i \in 1 .. size
                                 /\ Lists(g, size, all) /\ Rising(g, size, i)
                                 /\ IsHeap(g, size) \/ i <= size - k
            Turns == {k \in 0 .. size : Good(k)}
<1>4. 0 \in Turns
  <2>1. size \in 1 .. size /\ size <= size - 0 /\ 0 \in 0 .. size
    OBVIOUS
  <2>. HIDE DEF first, size, all
  <2>2. Good(0)
    BY <1>2, <1>3, <2>1
  <2>. HIDE DEF Good
  <2>. QED BY <2>1, <2>2
<1>5. ASSUME NEW k \in 0 .. size - 1, k \in Turns
      PROVE  k + 1 \in Turns
  <2>1. PICK g, i : /\ after[k] = [heap |-> g, idx |-> i] /\ i \in 1 .. size
                    /\ Lists(g, size, all) /\ Rising(g, size, i)
                    /\ IsHeap(g, size) \/ i <= size - k
    BY <1>5
  <2>2. after[k + 1] = Raised([heap |-> g, idx |-> i])
    BY <1>2, <2>1
  <2>3. CASE IsHeap(g, size)
    <3>1. Raised([heap |-> g, idx |-> i]) = [heap |-> g, idx |-> i]
      BY <2>1, <2>3 DEF Raised, IsHeap
    <3>. QED BY <2>1, <2>2, <2>3, <3>1
  <2>4. CASE ~IsHeap(g, size)
    <3>1. size \in Nat
      OBVIOUS
    <3>2. PICK f, p : /\ Raised([heap |-> g, idx |-> i]) = [heap |-> f, idx |-> p]
                      /\ p \in 1 .. size /\ p < i
                      /\ Lists(f, size, all) /\ Rising(f, size, p)
      <4>. HIDE DEF size, all
      <4>. QED BY <2>1, <2>4, <3>1, RaisedStep DEF all
    <3>3. p <= size - (k + 1)
      BY <2>1, <2>4, <3>2
    <3>. QED BY <2>2, <3>2, <3>3
  <2>. QED BY <2>3, <2>4
<1>6. size \in Turns
  <2>1. size \in Nat /\ size \in 0 .. size
    OBVIOUS
  <2>. HIDE DEF Turns, size
  <2>. QED BY <1>4, <1>5, <2>1, InductionUpTo
<1>7. PICK g, i : /\ after[size] = [heap |-> g, idx |-> i] /\ i \in 1 .. size
                  /\ Lists(g, size, all) /\ (IsHeap(g, size) \/ i <= size - size)
  BY <1>6
<1>. QED BY <1>2, <1>7

-----------------------------------------------------------------------------
(* min.                                                                    *)

\* A call of heapify: the event sinks, or the heap is a heap.
LEMMA SunkStep ==
  ASSUME NEW S, Orderly(S), NEW m \in Nat, NEW h, Lists(h, m, S), NEW i \in 1 .. m,
         Sinking(h, m, i), NEW s, s = [heap |-> h, idx |-> i], ~IsHeap(h, m)
  PROVE  \E g, p : /\ Sunk(s) = [heap |-> g, idx |-> p] /\ p \in 1 .. m /\ i < p
                   /\ Lists(g, m, S) /\ Sinking(g, m, p)
<1>0. Len(h) = m
  BY ListIsSeq
<1>1. Len(h) = m /\ s.heap = h /\ s.idx = i /\ i \in Nat /\ i >= 1
  BY <1>0
<1>2. \A k \in 1 .. m : h[k] \in S
  BY DEF Lists
<1>3. PICK j \in 2 .. m : comp(h[j], h[i]) /\ j \div 2 = i
  BY DEF IsHeap, Sinking
<1>4. j = 2 * i \/ j = 2 * i + 1
  BY <1>1, <1>3
<1>. DEFINE Smaller(a, b) == IF b <= Len(s.heap) /\ comp(s.heap[b], s.heap[a]) THEN b ELSE a
            l == Smaller(i, 2 * i)
            p == Smaller(l, 2 * i + 1)
<1>5. /\ p \in 1 .. m /\ p > 1 /\ p \div 2 = i /\ i < p /\ comp(h[p], h[i])
      /\ \A k \in 2 .. m : k \div 2 = i => ~comp(h[k], h[p])
  <2>1. \A k \in 2 .. m : k \div 2 = i => k = 2 * i \/ k = 2 * i + 1
    BY <1>1
  <2>2. 2 * i > 1 /\ 2 * i + 1 > 2 /\ (2 * i) \div 2 = i /\ (2 * i + 1) \div 2 = i
    BY <1>1
  <2>3. CASE ~(2 * i <= m /\ comp(h[2 * i], h[i]))
    <3>1. j = 2 * i + 1 /\ l = i /\ p = 2 * i + 1
      BY <1>1, <1>3, <1>4, <2>3
    <3>2. 2 * i + 1 <= m /\ comp(h[2 * i + 1], h[i]) /\ 2 * i + 1 \in 1 .. m /\ 2 * i \in 1 .. m
      BY <1>1, <1>3, <3>1
    <3>3. ~comp(h[2 * i], h[i]) /\ ~comp(h[2 * i], h[2 * i + 1]) /\ ~comp(h[2 * i + 1], h[2 * i + 1])
      BY <1>2, <2>3, <3>2, CompOrders
    <3>. HIDE DEF p
    <3>. QED BY <1>1, <2>1, <2>2, <3>1, <3>2, <3>3
  <2>4. CASE /\ 2 * i <= m /\ comp(h[2 * i], h[i])
             /\ ~(2 * i + 1 <= m /\ comp(h[2 * i + 1], h[2 * i]))
    <3>1. l = 2 * i /\ p = 2 * i
      BY <1>1, <2>4
    <3>2. 2 * i \in 1 .. m
      BY <1>1, <2>4
    <3>3. ~comp(h[2 * i], h[2 * i])
      BY <1>2, <3>2, CompOrders
    <3>. HIDE DEF p
    <3>. QED BY <1>1, <2>1, <2>2, <2>4, <3>1, <3>2, <3>3
  <2>5. CASE /\ 2 * i <= m /\ comp(h[2 * i], h[i])
             /\ 2 * i + 1 <= m /\ comp(h[2 * i + 1], h[2 * i])
    <3>1. l = 2 * i /\ p = 2 * i + 1
      BY <1>1, <2>5
    <3>2. 2 * i \in 1 .. m /\ 2 * i + 1 \in 1 .. m
      BY <1>1, <2>5
    <3>3. ~comp(h[2 * i + 1], h[2 * i + 1]) /\ ~comp(h[2 * i], h[2 * i + 1]) /\ comp(h[2 * i + 1], h[i])
      BY <1>2, <2>5, <3>2, CompOrders
    <3>. HIDE DEF p
    <3>. QED BY <1>1, <2>1, <2>2, <3>1, <3>2, <3>3
  <2>. HIDE DEF p, l
  <2>. QED BY <2>3, <2>4, <2>5
<1>. DEFINE g == Swapped(h, p, i)
<1>6. Sunk(s) = [heap |-> g, idx |-> p]
  <2>1. p # i
    <3>. HIDE DEF p
    <3>. QED BY <1>1, <1>5
  <2>. QED BY <1>1, <2>1, Zenon DEF Sunk
<1>. HIDE DEF p, l, Smaller
<1>7. /\ Lists(g, m, S) /\ g[p] = h[i] /\ g[i] = h[p]
      /\ \A k \in 1 .. m : k # i /\ k # p => g[k] = h[k]
  <2>1. PICK q \in 1 .. m : q = p
    BY <1>5
  <2>2. PICK f : f = Swapped(h, q, i)
    OBVIOUS
  <2>3. Lists(f, m, S)
    BY <2>2, SwapKeeps
  <2>4. h \in [1 .. m -> S]
    BY DEF Lists
  <2>5. /\ f[q] = h[i] /\ f[i] = h[q]
        /\ \A k \in 1 .. m : k # q /\ k # i => f[k] = h[k]
    BY <2>2, <2>4 DEF Swapped
  <2>. QED BY <2>1, <2>2, <2>3, <2>5
<1>. HIDE DEF g
<1>8. \A k \in 2 .. m : k \div 2 \in 1 .. m /\ k \div 2 < k
  OBVIOUS
<1>9. ASSUME NEW k \in 2 .. m, k \div 2 # p
      PROVE  ~comp(g[k], g[k \div 2])
  <2>1. CASE k = p
    <3>1. ~comp(h[i], h[p])
      BY <1>2, <1>5, CompOrders
    <3>. QED BY <1>5, <1>7, <2>1, <3>1
  <2>2. CASE k # p /\ k \div 2 = i
    <3>1. g[k] = h[k] /\ g[k \div 2] = h[p]
      BY <1>7, <1>8, <2>2
    <3>. QED BY <1>5, <2>2, <3>1
  <2>3. CASE k = i
    <3>1. ~comp(h[p], h[i \div 2])
      BY <1>5, <2>3 DEF Sinking
    <3>2. g[k] = h[p] /\ g[k \div 2] = h[i \div 2]
      BY <1>5, <1>7, <1>8, <2>3
    <3>. QED BY <3>1, <3>2
  <2>4. CASE k # p /\ k # i /\ k \div 2 # i
    <3>1. ~comp(h[k], h[k \div 2]) /\ g[k] = h[k] /\ g[k \div 2] = h[k \div 2]
      BY <1>7, <1>8, <1>9, <2>4 DEF Sinking
    <3>. QED BY <3>1
  <2>. QED BY <2>1, <2>2, <2>3, <2>4
<1>10. ASSUME NEW k \in 2 .. m, k \div 2 = p
       PROVE  ~comp(g[k], g[p \div 2])
  <2>1. k # i /\ k # p /\ k \div 2 # i
    BY <1>5, <1>8, <1>10
  <2>2. ~comp(h[k], h[p]) /\ g[k] = h[k] /\ g[p \div 2] = h[p]
    BY <1>5, <1>7, <1>10, <2>1 DEF Sinking
  <2>. QED BY <2>2
<1>11. Sinking(g, m, p)
  BY <1>9, <1>10 DEF Sinking
<1>. QED BY <1>5, <1>6, <1>7, <1>11

\* On a heap heapify does nothing.
LEMMA SunkRests ==
  ASSUME NEW S, NEW m \in Nat, NEW h, Lists(h, m, S), IsHeap(h, m), NEW i \in Nat \ {0},
         NEW s, s = [heap |-> h, idx |-> i]
  PROVE  Sunk(s) = s
<1>1. Len(h) = m /\ s.heap = h /\ s.idx = i
  BY ListIsSeq
<1>2. \A j \in {2 * i, 2 * i + 1} : j <= m => ~comp(h[j], h[i])
  <2>1. 2 * i > 1 /\ 2 * i + 1 > 1 /\ (2 * i) \div 2 = i /\ (2 * i + 1) \div 2 = i
    OBVIOUS
  <2>. QED BY <2>1 DEF IsHeap
<1>. DEFINE Smaller(a, b) == IF b <= Len(s.heap) /\ comp(s.heap[b], s.heap[a]) THEN b ELSE a
<1>3. Smaller(i, 2 * i) = i
  BY <1>1, <1>2
<1>4. Smaller(i, 2 * i + 1) = i
  BY <1>1, <1>2
<1>5. Smaller(Smaller(i, 2 * i), 2 * i + 1) = i
  <2>. HIDE DEF Smaller
  <2>. QED BY <1>3, <1>4
<1>. QED BY <1>1, <1>5, Zenon DEF Sunk

\* The calls of heapify, one after the other.
SunkTurns(s, m, f) == f = [k \in 0 .. m |-> IF k = 0 THEN s ELSE Sunk(f[k - 1])]

LEMMA SunkTurnsExist ==
  ASSUME NEW s, NEW m \in Nat
  PROVE  \E f : SunkTurns(s, m, f)
<1>. DEFINE Some == {l \in 0 .. m : \E f : SunkTurns(s, l, f)}
<1>1. 0 \in Some
  <2>1. SunkTurns(s, 0, [k \in 0 .. 0 |-> s])
    BY DEF SunkTurns
  <2>. QED BY <2>1
<1>2. ASSUME NEW l \in 0 .. m - 1, l \in Some
      PROVE  l + 1 \in Some
  <2>1. PICK f : f = [k \in 0 .. l |-> IF k = 0 THEN s ELSE Sunk(f[k - 1])]
    BY <1>2 DEF SunkTurns
  <2>. DEFINE g == [k \in 0 .. l + 1 |-> IF k = l + 1 THEN Sunk(f[l]) ELSE f[k]]
  <2>2. \A k \in 0 .. l : g[k] = f[k]
    OBVIOUS
  <2>3. \A k \in 0 .. l + 1 : g[k] = IF k = 0 THEN s ELSE Sunk(g[k - 1])
    <3>1. SUFFICES ASSUME NEW k \in 0 .. l + 1
                   PROVE  g[k] = IF k = 0 THEN s ELSE Sunk(g[k - 1])
      OBVIOUS
    <3>2. CASE k = l + 1
      <4>1. g[k] = Sunk(f[l]) /\ k # 0 /\ g[k - 1] = f[l]
        BY <2>2, <3>2
      <4>. HIDE DEF g
      <4>. QED BY <4>1
    <3>3. CASE k \in 0 .. l
      <4>1. f[k] = IF k = 0 THEN s ELSE Sunk(f[k - 1])
        BY <2>1, <3>3
      <4>2. g[k] = f[k] /\ (k # 0 => g[k - 1] = f[k - 1])
        BY <2>2, <3>3
      <4>. HIDE DEF g
      <4>. QED BY <4>1, <4>2
    <3>. QED BY <3>2, <3>3
  <2>4. g = [k \in 0 .. l + 1 |-> g[k]]
    OBVIOUS
  <2>5. SunkTurns(s, l + 1, g)
    <3>. HIDE DEF g
    <3>. QED BY <2>3, <2>4 DEF SunkTurns
  <2>. HIDE DEF g
  <2>. QED BY <2>5
<1>3. \A k \in 0 .. m : k \in Some
  <2>. HIDE DEF Some
  <2>. QED BY <1>1, <1>2, InductionUpTo
<1>. QED BY <1>3

LEMMA SunkTurnsUnfold ==
  ASSUME NEW s, NEW m \in Nat, NEW f, SunkTurns(s, m, f)
  PROVE  f[0] = s /\ \A k \in 0 .. m - 1 : f[k + 1] = Sunk(f[k])
<1>1. \A k \in 0 .. m : f[k] = IF k = 0 THEN s ELSE Sunk(f[k - 1])
  BY DEF SunkTurns
<1>2. \A k \in 0 .. m - 1 : k + 1 \in 0 .. m /\ k + 1 # 0 /\ (k + 1) - 1 = k
  OBVIOUS
<1>. QED BY <1>1, <1>2

\* heapify repairs a heap whose root may be in the wrong place.
LEMMA HeapifyIsRight ==
  ASSUME NEW S, Orderly(S), NEW m \in Nat, NEW h, Lists(h, m, S), Sinking(h, m, 1)
  PROVE  Lists(heapify(h, 1), m, S) /\ IsHeap(heapify(h, 1), m)
<1>0. Len(h) = m
  BY ListIsSeq
<1>1. \E after : SunkTurns([heap |-> h, idx |-> 1], m, after)
                /\ heapify(h, 1) = after[m].heap
  <2>. DEFINE After == CHOOSE f : SunkTurns([heap |-> h, idx |-> 1], m, f)
  <2>1. heapify(h, 1) = After[m].heap
    BY <1>0, Zenon DEF heapify, SunkTurns
  <2>2. SunkTurns([heap |-> h, idx |-> 1], m, After)
    BY SunkTurnsExist, Zenon
  <2>. QED BY <2>1, <2>2
<1>2. PICK after : /\ heapify(h, 1) = after[m].heap
                   /\ after[0] = [heap |-> h, idx |-> 1]
                   /\ \A k \in 0 .. m - 1 : after[k + 1] = Sunk(after[k])
  <2>1. PICK after : /\ SunkTurns([heap |-> h, idx |-> 1], m, after)
                     /\ heapify(h, 1) = after[m].heap
    BY <1>1
  <2>2. /\ after[0] = [heap |-> h, idx |-> 1]
        /\ \A k \in 0 .. m - 1 : after[k + 1] = Sunk(after[k])
    <3>1. PICK x : x = [heap |-> h, idx |-> 1]
      OBVIOUS
    <3>2. SunkTurns(x, m, after)
      BY <2>1, <3>1
    <3>3. after[0] = x /\ \A k \in 0 .. m - 1 : after[k + 1] = Sunk(after[k])
      BY <3>2, SunkTurnsUnfold
    <3>. QED BY <3>1, <3>3
  <2>. QED BY <2>1, <2>2
<1>. DEFINE Good(k) == \E g, i : /\ after[k] = [heap |-> g, idx |-> i] /\ i \in Nat \ {0}
                                 /\ Lists(g, m, S)
                                 /\ \/ IsHeap(g, m)
                                    \/ Sinking(g, m, i) /\ i \in 1 .. m /\ i > k
            Turns == {k \in 0 .. m : Good(k)}
<1>3. 0 \in Turns
  <2>1. IsHeap(h, m) \/ 1 \in 1 .. m
    BY DEF IsHeap
  <2>2. Good(0)
    BY <1>2, <2>1
  <2>. HIDE DEF Good
  <2>. QED BY <2>2
<1>4. ASSUME NEW k \in 0 .. m - 1, k \in Turns
      PROVE  k + 1 \in Turns
  <2>1. PICK g, i : /\ after[k] = [heap |-> g, idx |-> i] /\ i \in Nat \ {0}
                    /\ Lists(g, m, S)
                    /\ \/ IsHeap(g, m)
                       \/ Sinking(g, m, i) /\ i \in 1 .. m /\ i > k
    BY <1>4
  <2>2. after[k + 1] = Sunk([heap |-> g, idx |-> i])
    BY <1>2, <2>1
  <2>3. CASE IsHeap(g, m)
    <3>1. Sunk([heap |-> g, idx |-> i]) = [heap |-> g, idx |-> i]
      BY <2>1, <2>3, SunkRests
    <3>2. Good(k + 1)
      BY <2>1, <2>2, <2>3, <3>1
    <3>. HIDE DEF Good
    <3>. QED BY <3>2
  <2>4. CASE ~IsHeap(g, m)
    <3>1. PICK f, p : /\ Sunk([heap |-> g, idx |-> i]) = [heap |-> f, idx |-> p]
                      /\ p \in 1 .. m /\ i < p /\ Lists(f, m, S) /\ Sinking(f, m, p)
      BY <2>1, <2>4, SunkStep
    <3>2. p > k + 1 /\ p \in Nat \ {0}
      BY <2>1, <2>4, <3>1
    <3>3. Good(k + 1)
      BY <2>2, <3>1, <3>2
    <3>. HIDE DEF Good
    <3>. QED BY <3>3
  <2>. QED BY <2>3, <2>4
<1>5. m \in Turns
  <2>1. \A k \in 0 .. m : k \in Turns
    <3>. HIDE DEF Turns
    <3>. QED BY <1>3, <1>4, InductionUpTo
  <2>2. m \in 0 .. m
    OBVIOUS
  <2>. HIDE DEF Turns
  <2>. QED BY <2>1, <2>2
<1>6. PICK g, i : /\ after[m] = [heap |-> g, idx |-> i] /\ i \in Nat \ {0}
                  /\ Lists(g, m, S) /\ (IsHeap(g, m) \/ (i \in 1 .. m /\ i > m))
  BY <1>5
<1>. QED BY <1>2, <1>6

\* min leaves a heap of all events but the first.
LEMMA PoppedIsRight ==
  ASSUME NEW S, Orderly(S), NEW m \in Nat \ {0}, NEW h, Lists(h, m, S), IsHeap(h, m)
  PROVE  /\ Lists(Popped(h), m - 1, S \ {h[1]}) /\ IsHeap(Popped(h), m - 1)
         /\ h[1] \in S
<1>. DEFINE r == m - 1
            rest == Front([h EXCEPT ![1] = h[Len(h)]])
            S1 == S \ {h[1]}
<1>0. /\ Len(h) = m /\ h \in Seq(S) /\ r \in Nat
      /\ h \in [1 .. m -> S] /\ (\A i, j \in 1 .. m : h[i] = h[j] => i = j)
      /\ (\A e \in S : \E i \in 1 .. m : h[i] = e)
  BY ListIsSeq DEF Lists
<1>1. /\ rest \in Seq(S) /\ Len(rest) = r
      /\ \A i \in 1 .. r : rest[i] = IF i = 1 THEN h[m] ELSE h[i]
  <2>1. PICK u : u = [h EXCEPT ![1] = h[Len(h)]]
    OBVIOUS
  <2>2. u \in Seq(S) /\ Len(u) = m /\ \A i \in 1 .. m : u[i] = IF i = 1 THEN h[m] ELSE h[i]
    BY <1>0, <2>1
  <2>3. SubSeq(u, 1, Len(u) - 1) \in Seq(S) /\ Len(SubSeq(u, 1, Len(u) - 1)) = r
        /\ \A i \in 1 .. r : SubSeq(u, 1, Len(u) - 1)[i] = u[i]
    BY <2>2
  <2>. QED BY <2>1, <2>2, <2>3 DEF Front
<1>. HIDE DEF rest
<1>2. Lists(rest, r, S1)
  <2>1. \A i \in 1 .. r : rest[i] \in S1
    BY <1>0, <1>1
  <2>2. \A i, j \in 1 .. r : rest[i] = rest[j] => i = j
    BY <1>0, <1>1
  <2>3. ASSUME NEW e \in S1 PROVE \E i \in 1 .. r : rest[i] = e
    <3>1. PICK i \in 1 .. m : h[i] = e
      BY <1>0
    <3>2. i # 1
      BY <3>1
    <3>3. CASE i = m
      <4>1. 1 \in 1 .. r /\ rest[1] = e
        BY <1>1, <3>1, <3>2, <3>3
      <4>. QED BY <4>1
    <3>4. CASE i # m
      <4>1. i \in 1 .. r /\ rest[i] = e
        BY <1>1, <3>1, <3>2, <3>4
      <4>. QED BY <4>1
    <3>. QED BY <3>3, <3>4
  <2>4. rest \in [1 .. r -> S1]
    BY <1>0, <1>1, <2>1
  <2>. QED BY <2>2, <2>3, <2>4 DEF Lists
<1>3. Sinking(rest, r, 1)
  <2>1. \A j \in 2 .. r : j \div 2 # 1 => ~comp(rest[j], rest[j \div 2])
    <3>1. \A j \in 2 .. r : j \in 2 .. m /\ j \in 1 .. r /\ j \div 2 \in 1 .. r
      BY <1>0
    <3>2. \A j \in 2 .. m : ~comp(h[j], h[j \div 2])
      BY DEF IsHeap
    <3>. HIDE DEF r
    <3>. QED BY <1>1, <3>1, <3>2
  <2>. QED BY <2>1 DEF Sinking
<1>4. Orderly(S1)
  BY DEF Orderly
<1>5. Lists(heapify(rest, 1), r, S1) /\ IsHeap(heapify(rest, 1), r)
  <2>. HIDE DEF r, S1
  <2>. QED BY <1>0, <1>2, <1>3, <1>4, HeapifyIsRight
<1>6. Popped(h) = heapify(rest, 1)
  BY DEF Popped, rest
<1>. QED BY <1>0, <1>5, <1>6

\* The event at the root comes before all others.
LEMMA RootIsFirst ==
  ASSUME NEW S, Orderly(S), NEW m \in Nat, NEW h, Lists(h, m, S), IsHeap(h, m)
  PROVE  \A i \in 2 .. m : comp(h[1], h[i])
<1>. DEFINE bad == {i \in 2 .. m : ~comp(h[1], h[i])}
<1>1. SUFFICES ASSUME bad # {} PROVE FALSE
  OBVIOUS
<1>2. PICK i \in bad : \A k \in bad : i <= k
  <2>1. bad \in SUBSET Nat
    OBVIOUS
  <2>. HIDE DEF bad
  <2>. QED BY <1>1, <2>1, LeastNumber
<1>3. i \in 2 .. m /\ ~comp(h[1], h[i]) /\ i \div 2 \in 1 .. m /\ i \div 2 < i
  OBVIOUS
<1>4. \A k \in 1 .. m : h[k] \in S
  BY DEF Lists
<1>5. ~comp(h[i], h[i \div 2]) /\ h[i \div 2] # h[i] /\ h[1] # h[i]
  BY <1>3 DEF IsHeap, Lists
<1>6. comp(h[i \div 2], h[i])
  BY <1>3, <1>4, <1>5, CompOrders
<1>7. i \div 2 # 1
  BY <1>3, <1>6
<1>8. comp(h[1], h[i \div 2])
  <2>1. i \div 2 \in 2 .. m
    BY <1>3, <1>7
  <2>2. i \div 2 \notin bad
    <3>. HIDE DEF bad
    <3>. QED BY <1>2, <1>3
  <2>. QED BY <2>1, <2>2
<1>9. 1 \in 1 .. m /\ i \in 1 .. m
  BY <1>3
<1>. QED BY <1>3, <1>4, <1>6, <1>8, <1>9, CompOrders

-----------------------------------------------------------------------------
(* RoundRobin, with what the heap and the array say of the processes.      *)

\* RoundRobin has the processes of Scheduler.
LEMMA SameProcs == RR!Procs = Procs
BY DEF RR!Procs, Procs

Stages == {"new", "ready", "running", "waiting", "finished"}

Started(where) == {p \in RR!Procs : where[p] \in {"new", "running", "waiting"}}

\* What is known of the processes when an event has been handled and the CPU
\* is still to be given away.
Handled(now, where, queue, ends, rest) ==
  /\ now \in Nat /\ where \in [RR!Procs -> Stages] /\ queue \in Seq(RR!Procs)
  /\ ends \in [RR!Procs -> Nat] /\ rest \in [RR!Procs -> Nat]
  /\ round \in 1 .. Len(Quanta)
  /\ \A p, r \in RR!Procs : where[p] = "running" /\ where[r] = "running" => p = r
  /\ \A p \in RR!Procs : where[p] = "ready" <=> \E i \in 1 .. Len(queue) : queue[i] = p
  /\ \A i, j \in 1 .. Len(queue) : queue[i] = queue[j] => i = j
  /\ \A p \in Started(where) : ends[p] >= now

SettledTypes ==
  PlaceOf \in [RR!Procs -> Stages] /\ ReadyOf \in Seq(RR!Procs) /\ DueOf \in [RR!Procs -> Nat] /\ rem_time \in [RR!Procs -> Nat]

\* What a line of proc.txt holds.
LEMMA ProgramIsRight ==
  ASSUME NEW b \in Programs
  PROVE  /\ b.arrival \in Nat /\ Len(b.cpu) \in Nat /\ Len(b.cpu) >= 1 /\ b.cpu[1] \in Nat
         /\ Len(b.cpu) = Len(b.io) + 1
         /\ \A i \in 1 .. Len(b.cpu) : b.cpu[i] \in Nat
         /\ \A i \in 1 .. Len(b.io) : b.io[i] \in Nat
<1>1. b \in [arrival : Nat, cpu : Seq(Nat \ {0}), io : Seq(Nat \ {0})] /\ Len(b.cpu) = Len(b.io) + 1
  BY WorkloadAssumption
<1>2. b.arrival \in Nat /\ b.cpu \in Seq(Nat \ {0}) /\ b.io \in Seq(Nat \ {0})
  BY <1>1
<1>3. \A s \in Seq(Nat \ {0}) : Len(s) \in Nat /\ \A i \in 1 .. Len(s) : s[i] \in Nat
  OBVIOUS
<1>4. Len(b.io) \in Nat /\ Len(b.cpu) \in Nat /\ Len(b.cpu) >= 1 /\ 1 \in 1 .. Len(b.cpu)
  BY <1>1, <1>2, <1>3
<1>. QED BY <1>1, <1>2, <1>3, <1>4

LEMMA SliceIsRight ==
  ASSUME NEW rest \in [RR!Procs -> Nat], NEW p \in RR!Procs, round \in 1 .. Len(Quanta)
  PROVE  RR!Slice(p, rest) \in Nat /\ RR!Slice(p, rest) <= rest[p]
BY WorkloadAssumption DEF RR!Slice

\* Giving the CPU to the first in the queue, or leaving it, keeps the books.
LEMMA SettleKeeps ==
  ASSUME NEW now, NEW where, NEW queue, NEW ends, NEW rest,
         Handled(now, where, queue, ends, rest), curr_time' = now,
         RR!Settle(now, where, queue, ends, rest)
  PROVE  SettledTypes' /\ RR!CpuInv'
<1>1. CASE (\E r \in RR!Procs : where[r] = "running") \/ queue = <<>>
  <2>1. PlaceOf' = where /\ ReadyOf' = queue /\ DueOf' = ends /\ rem_time' = rest
    BY <1>1 DEF RR!Settle
  <2>2. SettledTypes'
    BY <2>1 DEF SettledTypes, Handled
  <2>3. RR!OneRuns' /\ RR!NothingIsOverdue'
    BY <2>1 DEF RR!OneRuns, RR!NothingIsOverdue, RR!Pending, Started, Handled
  <2>4. RR!WorkConserving'
    BY <2>1, <1>1 DEF RR!WorkConserving
  <2>5. RR!QueueIsReady'
    BY <2>1 DEF RR!QueueIsReady, Handled
  <2>. QED BY <2>2, <2>3, <2>4, <2>5 DEF RR!CpuInv
<1>2. CASE ~((\E r \in RR!Procs : where[r] = "running") \/ queue = <<>>)
  <2>. DEFINE p == Head(queue)
  <2>0. p \in RR!Procs /\ p = queue[1] /\ Len(queue) > 0
    BY <1>2 DEF Handled
  <2>1. /\ PlaceOf' = [where EXCEPT ![p] = "running"]
        /\ ReadyOf' = Tail(queue)
        /\ DueOf' = [ends EXCEPT ![p] = now + RR!Slice(p, rest)]
        /\ rem_time' = [rest EXCEPT ![p] = @ - RR!Slice(p, rest)]
    BY <1>2 DEF RR!Settle
  <2>2. RR!Slice(p, rest) \in Nat /\ RR!Slice(p, rest) <= rest[p]
    BY <2>0, SliceIsRight DEF Handled
  <2>. HIDE DEF p
  <2>3. SettledTypes'
    <3>1. PlaceOf' \in [RR!Procs -> Stages] BY <2>0, <2>1 DEF Handled, Stages
    <3>2. ReadyOf' \in Seq(RR!Procs) BY <1>2, <2>1 DEF Handled
    <3>3. DueOf' \in [RR!Procs -> Nat] BY <2>0, <2>1, <2>2 DEF Handled
    <3>4. rem_time' \in [RR!Procs -> Nat] BY <2>0, <2>1, <2>2 DEF Handled
    <3>. QED BY <3>1, <3>2, <3>3, <3>4 DEF SettledTypes
  <2>4. RR!OneRuns'
    BY <2>0, <2>1, <1>2 DEF RR!OneRuns, Handled
  <2>5. RR!WorkConserving'
    BY <2>0, <2>1 DEF RR!WorkConserving, Handled
  <2>6. Len(Tail(queue)) = Len(queue) - 1 /\ \A i \in 1 .. Len(queue) - 1 : Tail(queue)[i] = queue[i + 1]
    BY <1>2 DEF Handled
  <2>8. Len(queue) \in Nat
    BY DEF Handled
  <2>7. RR!QueueIsReady'
    <3>1. \A i, j \in 1 .. Len(ReadyOf') : ReadyOf'[i] = ReadyOf'[j] => i = j
      BY <2>1, <2>6 DEF Handled
    <3>2. ASSUME NEW q \in RR!Procs, PlaceOf'[q] = "ready"
          PROVE  \E i \in 1 .. Len(ReadyOf') : ReadyOf'[i] = q
      <4>1. where[q] = "ready" /\ q # p
        BY <2>0, <2>1, <3>2 DEF Handled
      <4>2. PICK i \in 1 .. Len(queue) : queue[i] = q
        BY <4>1 DEF Handled
      <4>3. i # 1
        BY <4>1, <4>2, <2>0
      <4>4. i - 1 \in 1 .. Len(queue) - 1 /\ Tail(queue)[i - 1] = queue[(i - 1) + 1]
        BY <4>2, <4>3, <2>6, <2>8
      <4>. QED BY <4>2, <4>4, <2>1, <2>6
    <3>3. ASSUME NEW q \in RR!Procs, NEW i \in 1 .. Len(ReadyOf'), ReadyOf'[i] = q
          PROVE  PlaceOf'[q] = "ready"
      <4>1. i + 1 \in 1 .. Len(queue) /\ queue[i + 1] = q /\ i + 1 # 1
        BY <2>1, <2>6, <2>8, <3>3
      <4>2. where[q] = "ready"
        BY <4>1 DEF Handled
      <4>3. 1 \in 1 .. Len(queue) /\ queue[1] # queue[i + 1]
        <5>1. 1 \in 1 .. Len(queue) /\ i + 1 \in 1 .. Len(queue) /\ i + 1 # 1
          BY <4>1, <2>0, <2>8
        <5>. QED BY <5>1 DEF Handled
      <4>. QED BY <4>1, <4>2, <4>3, <2>0, <2>1 DEF Handled
    <3>. QED BY <3>1, <3>2, <3>3 DEF RR!QueueIsReady
  <2>9. RR!NothingIsOverdue'
    <3>. SUFFICES ASSUME NEW q \in RR!Procs, PlaceOf'[q] \in {"new", "running", "waiting"}
                 PROVE  DueOf'[q] >= now
      BY DEF RR!NothingIsOverdue, RR!Pending
    <3>1. CASE q = p
      BY <3>1, <2>0, <2>1, <2>2 DEF Handled
    <3>2. CASE q # p
      BY <3>2, <2>0, <2>1 DEF Handled, Started
    <3>. QED BY <3>1, <3>2
  <2>. QED BY <2>3, <2>4, <2>5, <2>7, <2>9 DEF RR!CpuInv
<1>. QED BY <1>1, <1>2

RRInv == RR!TypeOK /\ RR!CpuInv

LEMMA RRInitInv == RR!Init => RRInv
<1>. SUFFICES ASSUME RR!Init PROVE RRInv
  OBVIOUS
<1>0. \A p \in RR!Procs : /\ program[p] \in Programs /\ program[p].arrival \in Nat
                       /\ Len(program[p].cpu) >= 1 /\ program[p].cpu[1] \in Nat
  BY ProgramIsRight DEF RR!Init
<1>1. RR!TypeOK
  BY <1>0, WorkloadAssumption DEF RR!Init, RR!TypeOK
<1>2. RR!CpuInv
  BY <1>0 DEF RR!Init, RR!CpuInv, RR!OneRuns, RR!WorkConserving, RR!QueueIsReady, RR!NothingIsOverdue, RR!Pending
<1>. QED BY <1>1, <1>2 DEF RRInv

\* All that is pending is due at the next event or later.
LEMMA NextIsFirst ==
  ASSUME RRInv, NEW p \in RR!Procs, RR!IsNext(p)
  PROVE  /\ DueOf[p] \in Nat /\ PlaceOf[p] \in {"new", "running", "waiting"}
         /\ \A r \in RR!Pending : DueOf[r] >= DueOf[p]
<1>1. p \in RR!Pending /\ \A r \in RR!Pending \ {p} : RR!Before(p, r)
  BY DEF RR!IsNext
<1>2. DueOf \in [RR!Procs -> Nat] /\ DueOf[p] \in Nat
  BY DEF RRInv, RR!TypeOK
<1>3. ASSUME NEW r \in RR!Pending PROVE DueOf[r] >= DueOf[p]
  <2>1. DueOf[r] \in Nat
    BY <1>2 DEF RR!Pending
  <2>2. CASE r = p
    BY <2>2, <1>2
  <2>3. CASE r # p
    <3>1. DueOf[p] < DueOf[r] \/ DueOf[p] = DueOf[r]
      BY <1>1, <2>3 DEF RR!Before
    <3>. QED BY <3>1, <2>1, <1>2
  <2>. QED BY <2>2, <2>3
<1>. QED BY <1>1, <1>2, <1>3 DEF RR!Pending

\* The books once a process has joined the queue, the CPU still to be given away.
LEMMA JoinHandled ==
  ASSUME RRInv, NEW p \in RR!Procs, RR!IsNext(p)
  PROVE  Handled(DueOf[p], [PlaceOf EXCEPT ![p] = "ready"], Append(ReadyOf, p),
                 [DueOf EXCEPT ![p] = 0], rem_time)
<1>. DEFINE where == [PlaceOf EXCEPT ![p] = "ready"]
           queue == Append(ReadyOf, p)
           ends  == [DueOf EXCEPT ![p] = 0]
<1>2. DueOf[p] \in Nat /\ PlaceOf[p] # "ready" /\ \A r \in RR!Pending : DueOf[r] >= DueOf[p]
  BY NextIsFirst
<1>3. Handled(DueOf[p], where, queue, ends, rem_time)
  <2>1. \A i \in 1 .. Len(ReadyOf) : ReadyOf[i] # p
    BY <1>2 DEF RRInv, RR!CpuInv, RR!QueueIsReady
  <2>2. /\ queue \in Seq(RR!Procs) /\ Len(queue) = Len(ReadyOf) + 1 /\ queue[Len(ReadyOf) + 1] = p
        /\ \A i \in 1 .. Len(ReadyOf) : queue[i] = ReadyOf[i]
    BY DEF RRInv, RR!TypeOK
  <2>3. \A i, j \in 1 .. Len(queue) : queue[i] = queue[j] => i = j
    <3>1. Len(ReadyOf) \in Nat /\ \A i, j \in 1 .. Len(ReadyOf) : ReadyOf[i] = ReadyOf[j] => i = j
      BY DEF RRInv, RR!CpuInv, RR!QueueIsReady, RR!TypeOK
    <3>2. \A i \in 1 .. Len(queue) : i \in 1 .. Len(ReadyOf) \/ i = Len(ReadyOf) + 1
      BY <3>1, <2>2
    <3>. HIDE DEF queue
    <3>. QED BY <3>1, <3>2, <2>1, <2>2
  <2>4. ASSUME NEW q \in RR!Procs
        PROVE  where[q] = "ready" <=> \E i \in 1 .. Len(queue) : queue[i] = q
    <3>1. CASE q = p
      BY <3>1, <2>2 DEF RRInv, RR!TypeOK
    <3>2. CASE q # p
      BY <3>2, <2>2 DEF RRInv, RR!CpuInv, RR!QueueIsReady, RR!TypeOK
    <3>. QED BY <3>1, <3>2
  <2>5. \A q, r \in RR!Procs : where[q] = "running" /\ where[r] = "running" => q = r
    BY DEF RRInv, RR!CpuInv, RR!OneRuns, RR!TypeOK
  <2>6. \A q \in Started(where) : ends[q] >= DueOf[p]
    BY <1>2 DEF Started, RR!Pending, RRInv, RR!TypeOK
  <2>7. where \in [RR!Procs -> Stages] /\ ends \in [RR!Procs -> Nat] /\ rem_time \in [RR!Procs -> Nat] /\ round \in 1 .. Len(Quanta)
    BY DEF RRInv, RR!TypeOK, Stages
  <2>. HIDE DEF where, queue, ends
  <2>. QED BY <1>2, <2>2, <2>3, <2>4, <2>5, <2>6, <2>7 DEF Handled
<1>. QED BY <1>3

LEMMA JoinKeeps ==
  ASSUME RRInv, NEW p \in RR!Procs, RR!Join(p)
  PROVE  RRInv'
<1>. DEFINE where == [PlaceOf EXCEPT ![p] = "ready"]
           queue == Append(ReadyOf, p)
           ends  == [DueOf EXCEPT ![p] = 0]
<1>1. /\ RR!IsNext(p) /\ curr_time' = DueOf[p] /\ RR!Settle(DueOf[p], where, queue, ends, rem_time)
      /\ UNCHANGED <<program, round, curr_burst>>
  BY DEF RR!Join
<1>2. DueOf[p] \in Nat /\ PlaceOf[p] # "ready" /\ \A r \in RR!Pending : DueOf[r] >= DueOf[p]
  BY <1>1, NextIsFirst
<1>3. Handled(DueOf[p], where, queue, ends, rem_time)
  BY <1>1, JoinHandled
<1>. HIDE DEF where, queue, ends
<1>4. SettledTypes' /\ RR!CpuInv'
  BY <1>1, <1>3, SettleKeeps
<1>. QED BY <1>1, <1>2, <1>4 DEF RRInv, RR!TypeOK, SettledTypes, Stages

\* The end of a burst: the process waits or has finished, and the queue stays.
LEMMA BurstEndHandled ==
  ASSUME RRInv, NEW p \in RR!Procs, RR!BurstEnds(p), NEW to \in {"waiting", "finished"},
         NEW end \in Nat, to = "waiting" => end >= DueOf[p],
         NEW rest \in [RR!Procs -> Nat]
  PROVE  Handled(DueOf[p], [PlaceOf EXCEPT ![p] = to], ReadyOf, [DueOf EXCEPT ![p] = end], rest)
<1>. DEFINE where == [PlaceOf EXCEPT ![p] = to]
           ends  == [DueOf EXCEPT ![p] = end]
<1>1. RR!IsNext(p) /\ PlaceOf[p] = "running"
  BY DEF RR!BurstEnds
<1>2. DueOf[p] \in Nat /\ \A r \in RR!Pending : DueOf[r] >= DueOf[p]
  BY <1>1, NextIsFirst
<1>3. Handled(DueOf[p], where, ReadyOf, ends, rest)
  <2>1. where \in [RR!Procs -> Stages] /\ ends \in [RR!Procs -> Nat] /\ ReadyOf \in Seq(RR!Procs) /\ round \in 1 .. Len(Quanta)
    BY DEF RRInv, RR!TypeOK, Stages
  <2>2. \A q, r \in RR!Procs : where[q] = "running" /\ where[r] = "running" => q = r
    BY DEF RRInv, RR!CpuInv, RR!OneRuns, RR!TypeOK
  <2>3. \A q \in RR!Procs : where[q] = "ready" <=> \E i \in 1 .. Len(ReadyOf) : ReadyOf[i] = q
    BY <1>1 DEF RRInv, RR!CpuInv, RR!QueueIsReady, RR!TypeOK
  <2>4. \A q \in Started(where) : ends[q] >= DueOf[p]
    BY <1>2 DEF Started, RR!Pending, RRInv, RR!TypeOK
  <2>5. \A i, j \in 1 .. Len(ReadyOf) : ReadyOf[i] = ReadyOf[j] => i = j
    BY DEF RRInv, RR!CpuInv, RR!QueueIsReady
  <2>. HIDE DEF where, ends
  <2>. QED BY <1>2, <2>1, <2>2, <2>3, <2>4, <2>5 DEF Handled
<1>. QED BY <1>3

LEMMA BurstEndKeeps ==
  ASSUME RRInv, NEW p \in RR!Procs, RR!BurstEnds(p), NEW to \in {"waiting", "finished"},
         NEW end \in Nat, to = "waiting" => end >= DueOf[p],
         NEW rest \in [RR!Procs -> Nat], curr_time' = DueOf[p],
         RR!Settle(DueOf[p], [PlaceOf EXCEPT ![p] = to], ReadyOf, [DueOf EXCEPT ![p] = end], rest)
  PROVE  SettledTypes' /\ RR!CpuInv'
<1>1. Handled(DueOf[p], [PlaceOf EXCEPT ![p] = to], ReadyOf, [DueOf EXCEPT ![p] = end], rest)
  BY BurstEndHandled
<1>. QED BY <1>1, SettleKeeps

LEMMA WaitKeeps ==
  ASSUME RRInv, NEW p \in RR!Procs, RR!Wait(p)
  PROVE  RRInv'
<1>. DEFINE end  == DueOf[p] + program[p].io[curr_burst[p]]
           rest == [rem_time EXCEPT ![p] = program[p].cpu[curr_burst[p] + 1]]
<1>1. /\ RR!BurstEnds(p) /\ curr_burst[p] < Len(program[p].cpu) /\ curr_time' = DueOf[p]
      /\ curr_burst' = [curr_burst EXCEPT ![p] = @ + 1] /\ UNCHANGED <<program, round>>
      /\ RR!Settle(DueOf[p], [PlaceOf EXCEPT ![p] = "waiting"], ReadyOf, [DueOf EXCEPT ![p] = end], rest)
  BY DEF RR!Wait, RRInv, RR!TypeOK
<1>2. DueOf[p] \in Nat /\ curr_burst[p] \in Nat \ {0} /\ program[p] \in Programs
  BY DEF RRInv, RR!TypeOK
<1>3. /\ Len(program[p].cpu) \in Nat /\ Len(program[p].cpu) = Len(program[p].io) + 1
      /\ \A i \in 1 .. Len(program[p].cpu) : program[p].cpu[i] \in Nat
      /\ \A i \in 1 .. Len(program[p].io) : program[p].io[i] \in Nat
  BY <1>2, ProgramIsRight
<1>4. program[p].io[curr_burst[p]] \in Nat /\ program[p].cpu[curr_burst[p] + 1] \in Nat
  <2>1. Len(program[p].io) \in Int
    BY <1>2, WorkloadAssumption
  <2>2. curr_burst[p] \in 1 .. Len(program[p].io) /\ curr_burst[p] + 1 \in 1 .. Len(program[p].cpu)
    BY <1>1, <1>2, <1>3, <2>1
  <2>. QED BY <2>2, <1>3
<1>5. end \in Nat /\ end >= DueOf[p] /\ rest \in [RR!Procs -> Nat]
  <2>1. rem_time \in [RR!Procs -> Nat]
    BY DEF RRInv, RR!TypeOK
  <2>2. rest \in [RR!Procs -> Nat]
    BY <1>4, <2>1
  <2>3. end \in Nat /\ end >= DueOf[p]
    BY <1>2, <1>4
  <2>. QED BY <2>2, <2>3
<1>. HIDE DEF end, rest
<1>6. SettledTypes' /\ RR!CpuInv'
  BY <1>1, <1>5, BurstEndKeeps
<1>7. curr_burst' \in [RR!Procs -> Nat \ {0}] /\ \A q \in RR!Procs : curr_burst'[q] <= Len(program'[q].cpu)
  <2>. SUFFICES ASSUME NEW q \in RR!Procs
               PROVE  curr_burst' \in [RR!Procs -> Nat \ {0}] /\ curr_burst'[q] <= Len(program[q].cpu)
    BY <1>1
  <2>1. curr_burst \in [RR!Procs -> Nat \ {0}] /\ curr_burst[q] <= Len(program[q].cpu)
    BY DEF RRInv, RR!TypeOK
  <2>2. curr_burst' \in [RR!Procs -> Nat \ {0}]
    BY <2>1, <1>1, <1>2
  <2>3. curr_burst'[q] = IF q = p THEN curr_burst[q] + 1 ELSE curr_burst[q]
    BY <2>1, <1>1
  <2>4. curr_burst[p] + 1 <= Len(program[p].cpu)
    BY <1>1, <1>2, <1>3
  <2>. QED BY <2>1, <2>2, <2>3, <2>4
<1>. QED BY <1>1, <1>2, <1>6, <1>7 DEF RRInv, RR!TypeOK, SettledTypes, Stages

LEMMA ExitKeeps ==
  ASSUME RRInv, NEW p \in RR!Procs, RR!Exit(p)
  PROVE  RRInv'
<1>1. /\ RR!BurstEnds(p) /\ curr_time' = DueOf[p] /\ UNCHANGED <<program, round, curr_burst>>
      /\ RR!Settle(DueOf[p], [PlaceOf EXCEPT ![p] = "finished"], ReadyOf, [DueOf EXCEPT ![p] = 0], rem_time)
  BY DEF RR!Exit
<1>2. rem_time \in [RR!Procs -> Nat] /\ DueOf[p] \in Nat
  BY DEF RRInv, RR!TypeOK
<1>3. SettledTypes' /\ RR!CpuInv'
  BY <1>1, <1>2, BurstEndKeeps
<1>. QED BY <1>1, <1>2, <1>3 DEF RRInv, RR!TypeOK, SettledTypes, Stages

LEMMA NextRoundKeeps ==
  ASSUME RRInv, RR!NextRound
  PROVE  RRInv'
<1>0. \A p \in RR!Procs : /\ program[p] \in Programs /\ program[p].arrival \in Nat
                       /\ Len(program[p].cpu) >= 1 /\ program[p].cpu[1] \in Nat
  BY ProgramIsRight DEF RRInv, RR!TypeOK
<1>1. RR!TypeOK'
  BY <1>0, WorkloadAssumption DEF RR!NextRound, RR!StartOfRound, RRInv, RR!TypeOK
<1>2. RR!CpuInv'
  BY <1>0 DEF RR!NextRound, RR!StartOfRound, RR!CpuInv, RR!OneRuns, RR!WorkConserving, RR!QueueIsReady, RR!NothingIsOverdue, RR!Pending
<1>. QED BY <1>1, <1>2 DEF RRInv

LEMMA RRNextInv == RRInv /\ [RR!Next]_(RR!rvars) => RRInv'
<1>. SUFFICES ASSUME RRInv, [RR!Next]_(RR!rvars) PROVE RRInv'
  OBVIOUS
<1>1. CASE RR!NextRound
  BY <1>1, NextRoundKeeps
<1>2. ASSUME NEW p \in RR!Procs, RR!Join(p) PROVE RRInv'
  BY <1>2, JoinKeeps
<1>3. ASSUME NEW p \in RR!Procs, RR!Wait(p) PROVE RRInv'
  BY <1>3, WaitKeeps
<1>4. ASSUME NEW p \in RR!Procs, RR!Exit(p) PROVE RRInv'
  BY <1>4, ExitKeeps
<1>5. CASE UNCHANGED RR!rvars
  BY <1>5 DEF RR!rvars, RRInv, RR!TypeOK, RR!CpuInv, RR!OneRuns, RR!WorkConserving, RR!QueueIsReady,
     RR!NothingIsOverdue, RR!Pending
<1>. QED BY <1>1, <1>2, <1>3, <1>4, <1>5 DEF RR!Next

-----------------------------------------------------------------------------
(* The heap at the beginning of a round.                                   *)

ArrivalOf(p) == Event(p, program[p].arrival, "arrival")

ArrivalsTo(k) == {ArrivalOf(p) : p \in 0 .. k - 1}

ArrivalTurns(m, f) == f = [k \in 0 .. m |-> IF k = 0 THEN <<>> ELSE insert(f[k - 1], ArrivalOf(k - 1))]

LEMMA ArrivalTurnsExist ==
  ASSUME NEW m \in Nat
  PROVE  \E f : ArrivalTurns(m, f)
<1>. DEFINE Some == {l \in 0 .. m : \E f : ArrivalTurns(l, f)}
<1>1. 0 \in Some
  <2>1. ArrivalTurns(0, [k \in 0 .. 0 |-> <<>>])
    BY DEF ArrivalTurns
  <2>. QED BY <2>1
<1>2. ASSUME NEW l \in 0 .. m - 1, l \in Some
      PROVE  l + 1 \in Some
  <2>1. PICK f : f = [k \in 0 .. l |-> IF k = 0 THEN <<>> ELSE insert(f[k - 1], ArrivalOf(k - 1))]
    BY <1>2 DEF ArrivalTurns
  <2>. DEFINE g == [k \in 0 .. l + 1 |-> IF k = l + 1 THEN insert(f[l], ArrivalOf(l)) ELSE f[k]]
  <2>2. \A k \in 0 .. l : g[k] = f[k]
    OBVIOUS
  <2>3. \A k \in 0 .. l + 1 : g[k] = IF k = 0 THEN <<>> ELSE insert(g[k - 1], ArrivalOf(k - 1))
    <3>1. SUFFICES ASSUME NEW k \in 0 .. l + 1
                   PROVE  g[k] = IF k = 0 THEN <<>> ELSE insert(g[k - 1], ArrivalOf(k - 1))
      OBVIOUS
    <3>2. CASE k = l + 1
      <4>1. g[k] = insert(f[l], ArrivalOf(l)) /\ k # 0 /\ g[k - 1] = f[l] /\ k - 1 = l
        BY <2>2, <3>2
      <4>. HIDE DEF g
      <4>. QED BY <4>1
    <3>3. CASE k \in 0 .. l
      <4>1. f[k] = IF k = 0 THEN <<>> ELSE insert(f[k - 1], ArrivalOf(k - 1))
        BY <2>1, <3>3
      <4>2. g[k] = f[k] /\ (k # 0 => g[k - 1] = f[k - 1])
        BY <2>2, <3>3
      <4>. HIDE DEF g
      <4>. QED BY <4>1, <4>2
    <3>. QED BY <3>2, <3>3
  <2>4. g = [k \in 0 .. l + 1 |-> g[k]]
    OBVIOUS
  <2>5. ArrivalTurns(l + 1, g)
    <3>. HIDE DEF g
    <3>. QED BY <2>3, <2>4 DEF ArrivalTurns
  <2>. HIDE DEF g
  <2>. QED BY <2>5
<1>3. \A k \in 0 .. m : k \in Some
  <2>. HIDE DEF Some
  <2>. QED BY <1>1, <1>2, InductionUpTo
<1>. QED BY <1>3

LEMMA ArrivalTurnsUnfold ==
  ASSUME NEW m \in Nat, NEW f, ArrivalTurns(m, f)
  PROVE  f[0] = <<>> /\ \A k \in 0 .. m - 1 : f[k + 1] = insert(f[k], ArrivalOf(k))
<1>1. \A k \in 0 .. m : f[k] = IF k = 0 THEN <<>> ELSE insert(f[k - 1], ArrivalOf(k - 1))
  BY DEF ArrivalTurns
<1>2. \A k \in 0 .. m - 1 : k + 1 \in 0 .. m /\ k + 1 # 0 /\ (k + 1) - 1 = k
  OBVIOUS
<1>. QED BY <1>1, <1>2

\* Arrivals is a heap of all arrivals.
LEMMA ArrivalsAreRight ==
  ASSUME program \in [Procs -> Programs]
  PROVE  /\ Lists(Arrivals, num_proc, ArrivalsTo(num_proc)) /\ IsHeap(Arrivals, num_proc)
         /\ Orderly(ArrivalsTo(num_proc))
<1>0. num_proc \in Nat
  BY WorkloadAssumption
<1>1. PICK after : /\ Arrivals = after[num_proc] /\ after[0] = <<>>
                   /\ \A k \in 0 .. num_proc - 1 : after[k + 1] = insert(after[k], ArrivalOf(k))
  <2>. DEFINE After == CHOOSE f : ArrivalTurns(num_proc, f)
  <2>1. Arrivals = After[num_proc]
    BY Zenon DEF Arrivals, ArrivalTurns, ArrivalOf
  <2>2. ArrivalTurns(num_proc, After)
    BY <1>0, ArrivalTurnsExist, Zenon
  <2>. HIDE DEF After
  <2>3. After[0] = <<>> /\ \A k \in 0 .. num_proc - 1 : After[k + 1] = insert(After[k], ArrivalOf(k))
    BY <1>0, <2>2, ArrivalTurnsUnfold
  <2>. QED BY <2>1, <2>3
<1>2. \A p \in Procs : program[p].arrival \in Nat
  BY ProgramIsRight
<1>3. ASSUME NEW k \in 0 .. num_proc PROVE Orderly(ArrivalsTo(k))
  <2>1. \A p \in 0 .. k - 1 : p \in Procs
    BY <1>0 DEF Procs
  <2>. QED BY <1>2, <2>1 DEF Orderly, ArrivalsTo, ArrivalOf, Event, Events, EventTypes, CpuEvents
<1>. DEFINE Good == {k \in 0 .. num_proc : Lists(after[k], k, ArrivalsTo(k)) /\ IsHeap(after[k], k)}
<1>4. 0 \in Good
  <2>1. ArrivalsTo(0) = {}
    BY DEF ArrivalsTo
  <2>2. Lists(<<>>, 0, {}) /\ IsHeap(<<>>, 0)
    BY DEF Lists, IsHeap
  <2>3. Lists(after[0], 0, ArrivalsTo(0)) /\ IsHeap(after[0], 0)
    BY <1>1, <2>1, <2>2, Zenon
  <2>4. 0 \in 0 .. num_proc
    BY <1>0
  <2>. QED BY <2>3, <2>4, Zenon
<1>5. ASSUME NEW k \in 0 .. num_proc - 1, k \in Good PROVE k + 1 \in Good
  <2>1. k + 1 \in 0 .. num_proc /\ k \in Nat /\ k \in 0 .. num_proc
    BY <1>0
  <2>2. ArrivalsTo(k + 1) = ArrivalsTo(k) \cup {ArrivalOf(k)}
    BY <2>1 DEF ArrivalsTo
  <2>3. ArrivalOf(k) \notin ArrivalsTo(k)
    <3>1. \A p \in 0 .. k - 1 : ArrivalOf(p).process_id = p /\ p # k
      BY DEF ArrivalOf, Event
    <3>2. ArrivalOf(k).process_id = k
      BY DEF ArrivalOf, Event
    <3>. QED BY <3>1, <3>2 DEF ArrivalsTo
  <2>4. after[k + 1] = insert(after[k], ArrivalOf(k))
    BY <1>1
  <2>5. Lists(after[k], k, ArrivalsTo(k)) /\ IsHeap(after[k], k)
    BY <1>5
  <2>6. Orderly(ArrivalsTo(k) \cup {ArrivalOf(k)})
    BY <1>3, <2>1, <2>2
  <2>7. Lists(insert(after[k], ArrivalOf(k)), k + 1, ArrivalsTo(k) \cup {ArrivalOf(k)})
        /\ IsHeap(insert(after[k], ArrivalOf(k)), k + 1)
    BY <2>1, <2>3, <2>5, <2>6, InsertIsRight
  <2>. QED BY <2>1, <2>2, <2>4, <2>7
<1>6. num_proc \in Good
  <2>1. \A k \in 0 .. num_proc : k \in Good
    <3>. HIDE DEF Good
    <3>. QED BY <1>0, <1>4, <1>5, InductionUpTo
  <2>. HIDE DEF Good
  <2>. QED BY <1>0, <2>1
<1>. QED BY <1>0, <1>1, <1>3, <1>6

-----------------------------------------------------------------------------
(* What the events say of the processes.                                   *)

KindOf(stage, rest) ==
  CASE stage = "new"     -> "arrival"
    [] stage = "waiting" -> "io_done"
    [] stage = "running" -> IF rest > 0 THEN "timeout" ELSE "burst_end"

StateOf(stage) ==
  CASE stage = "running"  -> "RUNNING"
    [] stage = "waiting"  -> "WAITING"
    [] stage = "finished" -> "FINISHED"
    [] stage \in {"new", "ready"} -> "READY"

EndOf(p, where, ends, rest) == Event(p, ends[p], KindOf(where[p], rest[p]))

EndsOf(where, ends, rest) == {EndOf(p, where, ends, rest) : p \in Started(where)}

\* S holds the events at which the processes end what they are doing, and st
\* their states.
Tells(S, where, ends, rest, st) ==
  /\ where \in [Procs -> Stages] /\ ends \in [Procs -> Nat]
  /\ S = EndsOf(where, ends, rest)
  /\ \A p \in Procs \ Started(where) : ends[p] = 0
  /\ st = [p \in Procs |-> StateOf(where[p])]

LEMMA EventsTell ==
  ASSUME NEW where, NEW ends, Tells(ToSet(event_heap), where, ends, rem_time, state)
  PROVE  PlaceOf = where /\ DueOf = ends
<1>. DEFINE S == ToSet(event_heap)
            E(p) == EndOf(p, where, ends, rem_time)
<1>1. /\ where \in [Procs -> Stages] /\ ends \in [Procs -> Nat]
      /\ S = {E(p) : p \in Started(where)}
      /\ \A p \in Procs \ Started(where) : ends[p] = 0
      /\ \A p \in Procs : state[p] = StateOf(where[p])
  BY DEF Tells, EndsOf
<1>2. \A p \in Procs : E(p).process_id = p /\ E(p).time = ends[p]
  BY DEF EndOf, Event
<1>3. Started(where) \subseteq Procs
  BY SameProcs DEF Started
<1>4. ASSUME NEW p \in Procs
      PROVE  EventOf(p) = IF p \in Started(where) THEN {E(p)} ELSE {}
  <2>1. EventOf(p) = {e \in S : e.process_id = p}
    BY DEF EventOf
  <2>. HIDE DEF E, S
  <2>. QED BY <1>1, <1>2, <1>3, <2>1
<1>5. ASSUME NEW p \in Procs
      PROVE  (CASE state[p] = "RUNNING"  -> "running"
                [] state[p] = "WAITING"  -> "waiting"
                [] state[p] = "FINISHED" -> "finished"
                [] state[p] = "READY"    -> IF EventOf(p) = {} THEN "ready" ELSE "new") = where[p]
  <2>1. where[p] \in Stages /\ state[p] = StateOf(where[p])
    BY <1>1
  <2>2. EventOf(p) = {} <=> where[p] \notin {"new", "running", "waiting"}
    <3>. HIDE DEF E
    <3>. QED BY <1>4, SameProcs DEF Started
  <2>3. CASE where[p] = "new"
    BY <2>1, <2>2, <2>3 DEF StateOf
  <2>4. CASE where[p] = "ready"
    BY <2>1, <2>2, <2>4 DEF StateOf
  <2>5. CASE where[p] = "running"
    BY <2>1, <2>2, <2>5 DEF StateOf
  <2>6. CASE where[p] = "waiting"
    BY <2>1, <2>2, <2>6 DEF StateOf
  <2>7. CASE where[p] = "finished"
    BY <2>1, <2>2, <2>7 DEF StateOf
  <2>. QED BY <2>1, <2>3, <2>4, <2>5, <2>6, <2>7 DEF Stages
<1>6. ASSUME NEW p \in Procs
      PROVE  (IF EventOf(p) = {} THEN 0 ELSE (CHOOSE e \in EventOf(p) : TRUE).time) = ends[p]
  <2>1. CASE p \in Started(where)
    <3>1. EventOf(p) = {E(p)}
      BY <1>4, <2>1
    <3>2. (CHOOSE e \in {E(p)} : TRUE) = E(p)
      <4>. HIDE DEF E
      <4>. QED BY Zenon
    <3>. HIDE DEF E
    <3>. QED BY <1>2, <3>1, <3>2
  <2>2. CASE p \notin Started(where)
    BY <1>1, <1>4, <2>2
  <2>. QED BY <2>1, <2>2
<1>7. PlaceOf = where
  <2>1. PlaceOf = [p \in Procs |-> where[p]]
    BY <1>5, Zenon DEF PlaceOf
  <2>. QED BY <1>1, <2>1
<1>8. DueOf = ends
  <2>1. \A p \in Procs : DueOf[p] = ends[p]
    BY <1>6 DEF DueOf
  <2>2. DueOf = [p \in Procs |-> DueOf[p]]
    BY DEF DueOf
  <2>. QED BY <1>1, <2>1, <2>2
<1>. QED BY <1>7, <1>8

LEMMA EventsTellNext ==
  (\A where, ends : Tells(ToSet(event_heap), where, ends, rem_time, state)
                       => PlaceOf = where /\ DueOf = ends)'
<1>1. \A where, ends : Tells(ToSet(event_heap), where, ends, rem_time, state)
                          => PlaceOf = where /\ DueOf = ends
  BY EventsTell
<1>. QED BY <1>1, PTL

\* One process at most is on the CPU.
OneRunsIn(where) == \A p, r \in Procs : where[p] = "running" /\ where[r] = "running" => p = r

LEMMA EndsAreOrderly ==
  ASSUME NEW where \in [Procs -> Stages], NEW ends \in [Procs -> Nat], NEW rest,
         OneRunsIn(where)
  PROVE  Orderly(EndsOf(where, ends, rest))
<1>. DEFINE E(p) == EndOf(p, where, ends, rest)
<1>1. Started(where) \subseteq Procs
  BY SameProcs DEF Started
<1>2. ASSUME NEW p \in Started(where)
      PROVE  /\ E(p) \in Events /\ E(p).process_id = p
             /\ E(p).event_type \in CpuEvents => where[p] = "running"
  <2>1. KindOf(where[p], rest[p]) \in EventTypes
        /\ (KindOf(where[p], rest[p]) \in CpuEvents => where[p] = "running")
    <3>1. where[p] \in {"new", "running", "waiting"}
      BY DEF Started
    <3>. QED BY <3>1 DEF KindOf, EventTypes, CpuEvents
  <2>. QED BY <1>1, <2>1 DEF EndOf, Event, Events
<1>. HIDE DEF E
<1>. DEFINE S == {E(p) : p \in Started(where)}
<1>3. S \subseteq Events
  BY <1>2
<1>4. \A a, b \in S : a.process_id = b.process_id => a = b
  BY <1>2
<1>5. \A a, b \in S : a.event_type \in CpuEvents /\ b.event_type \in CpuEvents => a = b
  BY <1>1, <1>2 DEF OneRunsIn
<1>6. S = EndsOf(where, ends, rest)
  BY DEF EndsOf, E
<1>. QED BY <1>3, <1>4, <1>5, <1>6 DEF Orderly

\* comp is the order of RoundRobin.
LEMMA CompIsBefore ==
  ASSUME NEW p \in Procs, NEW r \in Procs, p # r,
         PlaceOf[p] \in {"new", "running", "waiting"}, PlaceOf[r] \in {"new", "running", "waiting"},
         ~(PlaceOf[p] = "running" /\ PlaceOf[r] = "running"),
         DueOf[p] \in Nat, DueOf[r] \in Nat,
         comp(EndOf(p, PlaceOf, DueOf, rem_time), EndOf(r, PlaceOf, DueOf, rem_time))
  PROVE  RR!Before(p, r)
<1>. DEFINE a == EndOf(p, PlaceOf, DueOf, rem_time)
            b == EndOf(r, PlaceOf, DueOf, rem_time)
<1>1. /\ a.process_id = p /\ a.time = DueOf[p] /\ a.event_type = KindOf(PlaceOf[p], rem_time[p])
      /\ b.process_id = r /\ b.time = DueOf[r] /\ b.event_type = KindOf(PlaceOf[r], rem_time[r])
  BY DEF EndOf, Event
<1>2. \A q \in {p, r} : /\ KindOf(PlaceOf[q], rem_time[q]) = "timeout" <=> RR!TimesOut(q)
                        /\ KindOf(PlaceOf[q], rem_time[q]) \in Joins <=> PlaceOf[q] # "running"
  BY DEF KindOf, RR!TimesOut, Joins
<1>3. \A q \in {p, r} : RR!TimesOut(q) => PlaceOf[q] = "running"
  BY DEF RR!TimesOut
<1>. HIDE DEF a, b
<1>4. comp(a, b)
  BY DEF a, b
<1>5. p \in Int /\ r \in Int
  BY WorkloadAssumption DEF Procs
<1>. QED BY <1>1, <1>2, <1>3, <1>4, <1>5 DEF comp, RR!Before

-----------------------------------------------------------------------------
(* A turn of the loop.                                                     *)

\* The heap h holds the events of S.
Holds(h, S) == \E m \in Nat : Lists(h, m, S) /\ IsHeap(h, m)

RunsIn(where, run) ==
  run \in Procs \cup {NONE} /\ \A p \in Procs : where[p] = "running" <=> run = p

LEMMA HoldsIsSet ==
  ASSUME NEW h, NEW S, Holds(h, S)
  PROVE  ToSet(h) = S /\ h \in Seq(S) /\ (h = <<>> <=> S = {})
<1>1. PICK m \in Nat : Lists(h, m, S)
  BY DEF Holds
<1>2. h \in Seq(S) /\ Len(h) = m /\ ToSet(h) = S
  BY <1>1, ListIsSeq
<1>3. h = <<>> => S = {}
  BY <1>1, <1>2 DEF Lists
<1>4. S = {} => h = <<>>
  BY <1>2
<1>. QED BY <1>2, <1>3, <1>4

LEMMA PoppedHolds ==
  ASSUME NEW h, NEW S, Orderly(S), Holds(h, S), S # {}
  PROVE  /\ h[1] \in S /\ Holds(Popped(h), S \ {h[1]})
         /\ \A e \in S \ {h[1]} : comp(h[1], e)
<1>1. PICK m \in Nat : Lists(h, m, S) /\ IsHeap(h, m)
  BY DEF Holds
<1>2. m # 0
  BY <1>1 DEF Lists
<1>3. m \in Nat \ {0} /\ m - 1 \in Nat
  BY <1>2
<1>4. Lists(Popped(h), m - 1, S \ {h[1]}) /\ IsHeap(Popped(h), m - 1) /\ h[1] \in S
  BY <1>1, <1>3, PoppedIsRight
<1>5. \A i \in 2 .. m : comp(h[1], h[i])
  BY <1>1, RootIsFirst
<1>6. \A e \in S \ {h[1]} : comp(h[1], e)
  <2>1. \A e \in S : \E i \in 1 .. m : h[i] = e
    BY <1>1 DEF Lists
  <2>2. \A i \in 1 .. m : i = 1 \/ i \in 2 .. m
    OBVIOUS
  <2>. QED BY <1>5, <2>1, <2>2
<1>. QED BY <1>3, <1>4, <1>6 DEF Holds

LEMMA InsertHolds ==
  ASSUME NEW h, NEW S, Holds(h, S), NEW e, e \notin S, Orderly(S \cup {e})
  PROVE  Holds(insert(h, e), S \cup {e})
<1>1. PICK m \in Nat : Lists(h, m, S) /\ IsHeap(h, m)
  BY DEF Holds
<1>2. Lists(insert(h, e), m + 1, S \cup {e}) /\ IsHeap(insert(h, e), m + 1)
  BY <1>1, InsertIsRight
<1>. QED BY <1>2 DEF Holds

LEMMA MinOfTwo ==
  ASSUME NEW a \in Nat, NEW b \in Nat
  PROVE  Min({a, b}) = IF a < b THEN a ELSE b
<1>. DEFINE least == IF a < b THEN a ELSE b
<1>1. least \in {a, b} /\ \A y \in {a, b} : least <= y
  OBVIOUS
<1>2. \A x \in {a, b} : (\A y \in {a, b} : x <= y) => x = least
  OBVIOUS
<1>. HIDE DEF least
<1>3. (CHOOSE x \in {a, b} : \A y \in {a, b} : x <= y) = least
  BY <1>1, <1>2
<1>4. Min({a, b}) = least
  BY <1>3 DEF Min
<1>. QED BY <1>4 DEF least

LEMMA SameSlice ==
  ASSUME NEW rest \in [Procs -> Nat], NEW p \in Procs, round \in 1 .. Len(Quanta)
  PROVE  /\ RR!Slice(p, rest) = Slice(rest[p])
         /\ Slice(rest[p]) \in Nat /\ Slice(rest[p]) <= rest[p]
         /\ rest[p] > 0 => Slice(rest[p]) > 0
         /\ Slice(rest[p]) <= Quanta[round]
         /\ Slice(rest[p]) < rest[p] => Slice(rest[p]) = Quanta[round]
<1>1. Quanta[round] \in Nat \ {0} /\ rest[p] \in Nat
  BY WorkloadAssumption
<1>2. Min({Quanta[round], rest[p]}) = IF Quanta[round] < rest[p] THEN Quanta[round] ELSE rest[p]
  BY <1>1, MinOfTwo
<1>3. Slice(rest[p]) = RR!Slice(p, rest)
  BY <1>2 DEF Slice, RR!Slice
<1>. QED BY <1>1, <1>2, <1>3 DEF Slice

\* An event more, and an event less.
LEMMA MoreEnds ==
  ASSUME NEW where, NEW ends, NEW rest, NEW w, NEW d, NEW r, NEW p,
         Started(w) = Started(where) \cup {p},
         \A q \in Started(where) : EndOf(q, w, d, r) = EndOf(q, where, ends, rest)
  PROVE  EndsOf(w, d, r) = EndsOf(where, ends, rest) \cup {EndOf(p, w, d, r)}
<1>1. EndsOf(w, d, r) \subseteq EndsOf(where, ends, rest) \cup {EndOf(p, w, d, r)}
  BY DEF EndsOf
<1>2. EndsOf(where, ends, rest) \cup {EndOf(p, w, d, r)} \subseteq EndsOf(w, d, r)
  BY DEF EndsOf
<1>. QED BY <1>1, <1>2

LEMMA FewerEnds ==
  ASSUME NEW where, NEW ends, NEW rest, NEW w, NEW d, NEW p \in Started(where),
         Started(w) = Started(where) \ {p},
         \A q \in Started(where) : q # p => EndOf(q, w, d, rest) = EndOf(q, where, ends, rest)
  PROVE  EndsOf(w, d, rest) = EndsOf(where, ends, rest) \ {EndOf(p, where, ends, rest)}
<1>0. \A q \in Started(where) : EndOf(q, where, ends, rest).process_id = q
  BY DEF EndOf, Event
<1>1. EndsOf(w, d, rest) \subseteq EndsOf(where, ends, rest) \ {EndOf(p, where, ends, rest)}
  BY <1>0 DEF EndsOf
<1>2. EndsOf(where, ends, rest) \ {EndOf(p, where, ends, rest)} \subseteq EndsOf(w, d, rest)
  BY DEF EndsOf
<1>. QED BY <1>1, <1>2

\* The event of a process that gets the CPU, or waits, joins the others.
Enters(p, where, ends, rest, w, d, r) ==
  /\ p \in Procs /\ p \notin Started(where) /\ w[p] \in {"running", "waiting"}
  /\ \A q \in Procs : q # p => w[q] = where[q] /\ d[q] = ends[q] /\ r[q] = rest[q]

With(S, e) == S \cup {e}

LEMMA OneMoreEnd ==
  ASSUME NEW where, NEW ends, NEW rest, NEW p, NEW w, NEW d, NEW r,
         Enters(p, where, ends, rest, w, d, r)
  PROVE  /\ EndsOf(w, d, r) = With(EndsOf(where, ends, rest), EndOf(p, w, d, r))
         /\ EndOf(p, w, d, r) \notin EndsOf(where, ends, rest)
<1>0. /\ p \in Procs /\ p \notin Started(where) /\ w[p] \in {"running", "waiting"}
      /\ \A q \in Procs : q # p => w[q] = where[q] /\ d[q] = ends[q] /\ r[q] = rest[q]
  BY DEF Enters
<1>1. Started(where) \subseteq Procs
  BY SameProcs DEF Started
<1>2. Started(w) = Started(where) \cup {p}
  BY <1>0, SameProcs DEF Started
<1>3. \A q \in Started(where) : EndOf(q, w, d, r) = EndOf(q, where, ends, rest)
  BY <1>0, <1>1 DEF EndOf
<1>4. EndsOf(w, d, r) = With(EndsOf(where, ends, rest), EndOf(p, w, d, r))
  BY <1>2, <1>3, MoreEnds DEF With
<1>5. EndOf(p, w, d, r) \notin EndsOf(where, ends, rest)
  <2>1. EndOf(p, w, d, r).process_id = p
    BY DEF EndOf, Event
  <2>2. \A q \in Started(where) : EndOf(q, where, ends, rest).process_id = q
    BY DEF EndOf, Event
  <2>. QED BY <1>0, <2>1, <2>2 DEF EndsOf
<1>. QED BY <1>4, <1>5

\* And the event of a process that ends what it did goes.
Leaves(p, where, ends, w, d) ==
  /\ p \in Started(where) /\ w[p] \notin {"new", "running", "waiting"}
  /\ \A q \in Procs : q # p => w[q] = where[q] /\ d[q] = ends[q]

Without(S, e) == S \ {e}

LEMMA OneEndLess ==
  ASSUME NEW where, NEW ends, NEW rest, NEW w, NEW d, NEW p, Leaves(p, where, ends, w, d)
  PROVE  EndsOf(w, d, rest) = Without(EndsOf(where, ends, rest), EndOf(p, where, ends, rest))
<1>0. /\ p \in Started(where) /\ w[p] \notin {"new", "running", "waiting"}
      /\ \A q \in Procs : q # p => w[q] = where[q] /\ d[q] = ends[q]
  BY DEF Leaves
<1>1. Started(where) \subseteq Procs
  BY SameProcs DEF Started
<1>2. Started(w) = Started(where) \ {p}
  BY <1>0, <1>1, SameProcs DEF Started
<1>3. \A q \in Started(where) : q # p => EndOf(q, w, d, rest) = EndOf(q, where, ends, rest)
  BY <1>0, <1>1 DEF EndOf
<1>. QED BY <1>0, <1>2, <1>3, FewerEnds DEF Without

\* What is left of the ready queue.
LEMMA QueueLeft ==
  ASSUME NEW queue \in Seq(Procs), NEW k \in 0 .. Len(queue), NEW rest,
         rest = SubSeq(queue, k + 1, Len(queue))
  PROVE  /\ rest \in Seq(Procs) /\ Len(rest) = Len(queue) - k
         /\ \A i \in 1 .. Len(queue) - k : rest[i] = queue[k + i]
         /\ rest = <<>> <=> k = Len(queue)
         /\ k < Len(queue) => /\ Head(rest) = queue[k + 1]
                              /\ Tail(rest) = SubSeq(queue, (k + 1) + 1, Len(queue))
<1>1. /\ rest \in Seq(Procs) /\ Len(rest) = Len(queue) - k
      /\ \A i \in 1 .. Len(queue) - k : rest[i] = queue[k + i]
  OBVIOUS
<1>2. rest = <<>> <=> k = Len(queue)
  <2>1. rest = <<>> <=> Len(rest) = 0
    BY <1>1, EmptySeq
  <2>. QED BY <1>1, <2>1
<1>3. ASSUME k < Len(queue)
      PROVE  /\ Head(rest) = queue[k + 1]
             /\ Tail(rest) = SubSeq(queue, (k + 1) + 1, Len(queue))
  <2>1. rest # <<>> /\ Head(rest) = rest[1] /\ 1 \in 1 .. Len(queue) - k
    BY <1>1, <1>2, <1>3
  <2>2. Tail(rest) \in Seq(Procs) /\ Len(Tail(rest)) = Len(queue) - k - 1
        /\ \A i \in 1 .. Len(queue) - k - 1 : Tail(rest)[i] = rest[i + 1]
    BY <1>1, <2>1
  <2>3. PICK other : other = SubSeq(queue, (k + 1) + 1, Len(queue))
    OBVIOUS
  <2>4. other \in Seq(Procs) /\ Len(other) = Len(queue) - k - 1
        /\ \A i \in 1 .. Len(queue) - k - 1 : other[i] = queue[k + 1 + i]
    BY <1>3, <2>3
  <2>5. \A i \in 1 .. Len(queue) - k - 1 : Tail(rest)[i] = other[i]
    BY <1>1, <2>2, <2>4
  <2>6. Tail(rest) = other
    BY <2>2, <2>4, <2>5, SeqEqual
  <2>. QED BY <1>1, <2>1, <2>3, <2>6
<1>. QED BY <1>1, <1>2, <1>3

LEMMA QueueGrows ==
  ASSUME NEW queue \in Seq(Procs), NEW k \in 0 .. Len(queue), NEW p \in Procs
  PROVE  /\ Append(queue, p) \in Seq(Procs) /\ Len(Append(queue, p)) = Len(queue) + 1
         /\ SubSeq(Append(queue, p), k + 1, Len(Append(queue, p)))
              = Append(SubSeq(queue, k + 1, Len(queue)), p)
<1>1. PICK a, n : a = Append(queue, p) /\ n = Len(queue)
  OBVIOUS
<1>2. /\ a \in Seq(Procs) /\ Len(a) = n + 1 /\ a[n + 1] = p /\ n \in Nat /\ k \in 0 .. n
      /\ \A i \in 1 .. n : a[i] = queue[i]
  BY <1>1
<1>3. PICK u : u = SubSeq(a, k + 1, Len(a))
  OBVIOUS
<1>4. PICK v : v = SubSeq(queue, k + 1, Len(queue))
  OBVIOUS
<1>5. /\ u \in Seq(Procs) /\ Len(u) = Len(a) - k
      /\ \A i \in 1 .. Len(a) - k : u[i] = a[k + i]
  <2>1. k \in 0 .. Len(a)
    BY <1>2
  <2>. QED BY <1>2, <1>3, <2>1, QueueLeft
<1>6. /\ v \in Seq(Procs) /\ Len(v) = n - k
      /\ \A i \in 1 .. n - k : v[i] = queue[k + i]
  BY <1>1, <1>4, QueueLeft
<1>7. PICK b : b = Append(v, p)
  OBVIOUS
<1>8. /\ b \in Seq(Procs) /\ Len(b) = n - k + 1 /\ b[n - k + 1] = p
      /\ \A i \in 1 .. n - k : b[i] = v[i]
  BY <1>2, <1>6, <1>7
<1>9. ASSUME NEW i \in 1 .. n + 1 - k PROVE u[i] = b[i]
  <2>1. u[i] = a[k + i]
    BY <1>2, <1>5
  <2>2. CASE i = n + 1 - k
    <3>1. k + i = n + 1 /\ i = n - k + 1
      BY <1>2, <2>2
    <3>. QED BY <1>2, <1>8, <2>1, <3>1
  <2>3. CASE i # n + 1 - k
    <3>1. i \in 1 .. n - k /\ k + i \in 1 .. n
      BY <1>2, <2>3
    <3>. QED BY <1>2, <1>6, <1>8, <2>1, <3>1
  <2>. QED BY <2>2, <2>3
<1>10. u = b
  <2>1. Len(u) = n + 1 - k /\ Len(b) = n + 1 - k
    BY <1>2, <1>5, <1>8
  <2>. QED BY <1>5, <1>8, <1>9, <2>1, SeqEqual
<1>. QED BY <1>1, <1>2, <1>3, <1>4, <1>7, <1>10

LEMMA ReadyOfNext == ReadyOf' = SubSeq(ready_queue', r_frnt' + 1, Len(ready_queue'))
BY DEF ReadyOf

\* What holds of the program between the handling of an event and the end of
\* the turn, and what holds after it.
Between(heap, queue, run, rem, st, where, ends) ==
  /\ Holds(heap, EndsOf(where, ends, rem))
  /\ Tells(EndsOf(where, ends, rem), where, ends, rem, st)
  /\ queue \in Seq(Procs) /\ r_frnt \in 0 .. Len(queue)
  /\ Handled(eve.time, where, SubSeq(queue, r_frnt + 1, Len(queue)), ends, rem)
  /\ RunsIn(where, run)

HeapTells ==
  /\ Holds(event_heap, ToSet(event_heap))
  /\ Tells(ToSet(event_heap), PlaceOf, DueOf, rem_time, state)
  /\ RunsIn(PlaceOf, run_proc)
  /\ ready_queue \in Seq(Procs) /\ r_frnt \in 0 .. Len(ready_queue)

\* If the CPU stays with run, or nobody is ready.
LEMMA SettleStays ==
  ASSUME NEW heap, NEW queue, NEW run, NEW rem, NEW st, NEW where, NEW ends,
         Between(heap, queue, run, rem, st, where, ends),
         Settle(heap, queue, run, rem, st), run # NONE \/ r_frnt = Len(queue)
  PROVE  /\ PlaceOf' = where /\ DueOf' = ends /\ rem_time' = rem
         /\ ReadyOf' = SubSeq(queue, r_frnt + 1, Len(queue))
         /\ (\E r \in Procs : where[r] = "running") \/ SubSeq(queue, r_frnt + 1, Len(queue)) = <<>>
         /\ HeapTells'
<1>1. /\ ready_queue' = queue /\ run_proc' = run /\ r_frnt' = r_frnt
      /\ event_heap' = heap /\ rem_time' = rem /\ state' = st
  BY DEF Settle
<1>2. ToSet(heap) = EndsOf(where, ends, rem)
  BY HoldsIsSet DEF Between
<1>3. Tells(ToSet(event_heap'), where, ends, rem_time', state')
  BY <1>1, <1>2 DEF Between
<1>4. PlaceOf' = where /\ DueOf' = ends
  BY <1>3, EventsTellNext
<1>5. ReadyOf' = SubSeq(queue, r_frnt + 1, Len(queue))
  BY <1>1, ReadyOfNext
<1>6. (\E r \in Procs : where[r] = "running") \/ SubSeq(queue, r_frnt + 1, Len(queue)) = <<>>
  <2>1. CASE run # NONE
    BY <2>1 DEF Between, RunsIn
  <2>2. CASE r_frnt = Len(queue)
    <3>1. PICK rest : rest = SubSeq(queue, r_frnt + 1, Len(queue))
      OBVIOUS
    <3>. QED BY <2>2, <3>1, QueueLeft DEF Between
  <2>. QED BY <2>1, <2>2
<1>7. HeapTells'
  BY <1>1, <1>2, <1>3, <1>4 DEF HeapTells, Between
<1>. QED BY <1>1, <1>4, <1>5, <1>6, <1>7

\* If the first of the queue gets it.
LEMMA SettleMoves ==
  ASSUME NEW heap, NEW queue, NEW run, NEW rem, NEW st, NEW where, NEW ends,
         Between(heap, queue, run, rem, st, where, ends),
         Settle(heap, queue, run, rem, st), run = NONE, r_frnt # Len(queue)
  PROVE  LET rest == SubSeq(queue, r_frnt + 1, Len(queue))
             p    == queue[r_frnt + 1]
         IN  /\ p \in Procs /\ p = Head(rest) /\ where[p] = "ready" /\ rest # <<>>
             /\ \A r \in Procs : where[r] # "running"
             /\ PlaceOf' = [where EXCEPT ![p] = "running"]
             /\ DueOf' = [ends EXCEPT ![p] = eve.time + Slice(rem[p])]
             /\ rem_time' = [rem EXCEPT ![p] = @ - Slice(rem[p])]
             /\ ReadyOf' = Tail(rest)
             /\ HeapTells'
<1>. DEFINE rest == SubSeq(queue, r_frnt + 1, Len(queue))
            p == queue[r_frnt + 1]
            t == Slice(rem[p])
            e == Event(p, eve.time + t, IF t = rem[p] THEN "burst_end" ELSE "timeout")
            S == EndsOf(where, ends, rem)
            w == [where EXCEPT ![p] = "running"]
            d == [ends EXCEPT ![p] = eve.time + t]
            r2 == [rem EXCEPT ![p] = @ - t]
<1>1. /\ ready_queue' = queue /\ run_proc' = p /\ r_frnt' = r_frnt + 1
      /\ state' = [st EXCEPT ![p] = "RUNNING"]
      /\ rem_time' = r2 /\ event_heap' = insert(heap, e)
  BY DEF Settle
<1>2. /\ queue \in Seq(Procs) /\ r_frnt \in 0 .. Len(queue) /\ r_frnt < Len(queue)
      /\ Handled(eve.time, where, rest, ends, rem)
      /\ Holds(heap, S) /\ Tells(S, where, ends, rem, st) /\ RunsIn(where, run)
  BY DEF Between
<1>3. /\ eve.time \in Nat /\ where \in [Procs -> Stages] /\ ends \in [Procs -> Nat]
      /\ rem \in [Procs -> Nat] /\ round \in 1 .. Len(Quanta)
      /\ \A q \in Procs : where[q] = "ready" <=> \E i \in 1 .. Len(rest) : rest[i] = q
  BY <1>2, SameProcs DEF Handled
<1>4. /\ rest # <<>> /\ p = Head(rest) /\ Tail(rest) = SubSeq(queue, (r_frnt + 1) + 1, Len(queue))
      /\ p \in Procs /\ 1 \in 1 .. Len(rest) /\ rest[1] = p
  <2>1. PICK u : u = rest
    OBVIOUS
  <2>2. u = SubSeq(queue, r_frnt + 1, Len(queue))
    BY <2>1
  <2>. HIDE DEF rest
  <2>6. PICK k \in 0 .. Len(queue) : k = r_frnt
    BY <1>2
  <2>7. /\ u \in Seq(Procs) /\ Len(u) = Len(queue) - k
        /\ \A i \in 1 .. Len(queue) - k : u[i] = queue[k + i]
        /\ u = <<>> <=> k = Len(queue)
        /\ k < Len(queue) => /\ Head(u) = queue[k + 1]
                             /\ Tail(u) = SubSeq(queue, (k + 1) + 1, Len(queue))
    <3>1. /\ u = SubSeq(queue, k + 1, Len(queue)) /\ queue \in Seq(Procs)
          /\ k \in 0 .. Len(queue)
      BY <1>2, <2>2, <2>6
    <3>. QED BY <3>1, QueueLeft, SMTT(30)
  <2>3. /\ u \in Seq(Procs) /\ Len(u) = Len(queue) - r_frnt
        /\ \A i \in 1 .. Len(queue) - r_frnt : u[i] = queue[r_frnt + i]
        /\ u # <<>> /\ Head(u) = queue[r_frnt + 1]
        /\ Tail(u) = SubSeq(queue, (r_frnt + 1) + 1, Len(queue))
    BY <1>2, <2>6, <2>7
  <2>4. p \in Procs /\ 1 \in 1 .. Len(u) /\ u[1] = p
    <3>. HIDE DEF rest
    <3>. QED BY <1>2, <2>3
  <2>. HIDE DEF rest
  <2>. QED BY <1>2, <2>1, <2>3, <2>4
<1>. HIDE DEF rest
<1>5. where[p] = "ready" /\ \A q \in Procs : where[q] # "running"
  <2>1. where[p] = "ready"
    <3>. HIDE DEF p
    <3>. QED BY <1>3, <1>4
  <2>2. NONE \notin Procs
    BY WorkloadAssumption DEF NONE, Procs
  <2>. QED BY <1>2, <2>1, <2>2 DEF RunsIn
<1>6. t \in Nat /\ t <= rem[p]
  <2>. HIDE DEF p
  <2>. QED BY <1>3, <1>4, SameSlice
<1>. HIDE DEF p, t
<1>7. rem[p] \in Nat /\ rem[p] - t \in Nat /\ eve.time + t \in Nat /\ p \in Procs
  BY <1>3, <1>4, <1>6
<1>8. e = Event(p, eve.time + t, KindOf("running", rem[p] - t))
  <2>1. KindOf("running", rem[p] - t) = IF rem[p] - t > 0 THEN "timeout" ELSE "burst_end"
    BY DEF KindOf
  <2>. QED BY <1>6, <1>7, <2>1
<1>9. p \notin Started(where)
  BY <1>5 DEF Started
<1>10. /\ EndsOf(w, d, r2) = S \cup {e} /\ e \notin S
  <2>1. /\ \A q \in Procs : q # p => w[q] = where[q] /\ d[q] = ends[q] /\ r2[q] = rem[q]
        /\ w[p] = "running" /\ d[p] = eve.time + t /\ r2[p] = rem[p] - t
    BY <1>3, <1>7
  <2>. HIDE DEF S, w, d, r2, e
  <2>2. e = EndOf(p, w, d, r2)
    BY <1>8, <2>1 DEF EndOf
  <2>3. Enters(p, where, ends, rem, w, d, r2)
    BY <1>7, <1>9, <2>1 DEF Enters
  <2>4. /\ EndsOf(w, d, r2) = With(EndsOf(where, ends, rem), EndOf(p, w, d, r2))
        /\ EndOf(p, w, d, r2) \notin EndsOf(where, ends, rem)
    BY <2>3, OneMoreEnd
  <2>. QED BY <2>2, <2>4 DEF S, With
<1>11. /\ w \in [Procs -> Stages] /\ d \in [Procs -> Nat] /\ r2 \in [Procs -> Nat]
       /\ OneRunsIn(w) /\ RunsIn(w, p)
  <2>1. w \in [Procs -> Stages] /\ d \in [Procs -> Nat] /\ r2 \in [Procs -> Nat]
    BY <1>3, <1>7 DEF Stages
  <2>2. \A q \in Procs : w[q] = "running" <=> q = p
    BY <1>3, <1>5, <1>7
  <2>. HIDE DEF w, d, r2
  <2>. QED BY <1>7, <2>1, <2>2 DEF OneRunsIn, RunsIn
<1>12. Holds(insert(heap, e), S \cup {e})
  <2>1. Orderly(S \cup {e})
    <3>. HIDE DEF S, w, d, r2, e
    <3>. QED BY <1>10, <1>11, EndsAreOrderly
  <2>. HIDE DEF S, e
  <2>. QED BY <1>2, <1>10, <2>1, InsertHolds
<1>13. Tells(S \cup {e}, w, d, r2, state')
  <2>1. \A q \in Procs \ Started(w) : d[q] = 0
    <3>1. \A q \in Procs \ Started(where) : ends[q] = 0
      BY <1>2 DEF Tells
    <3>2. \A q \in Procs : q # p => w[q] = where[q] /\ d[q] = ends[q]
      BY <1>3
    <3>3. p \in Started(w)
      BY <1>3, <1>7, SameProcs DEF Started
    <3>. HIDE DEF w, d
    <3>. QED BY <3>1, <3>2, <3>3, SameProcs DEF Started
  <2>2. state' = [q \in Procs |-> StateOf(w[q])]
    <3>1. st = [q \in Procs |-> StateOf(where[q])]
      BY <1>2 DEF Tells
    <3>2. StateOf("running") = "RUNNING"
      BY DEF StateOf
    <3>3. \A q \in Procs : q # p => w[q] = where[q]
      BY <1>3
    <3>4. w[p] = "running"
      BY <1>3, <1>7
    <3>. HIDE DEF w
    <3>. QED BY <1>1, <1>7, <3>1, <3>2, <3>3, <3>4
  <2>. HIDE DEF w, d, r2, S, e
  <2>. QED BY <1>10, <1>11, <2>1, <2>2 DEF Tells
<1>. HIDE DEF w, d, r2, S, e
<1>14. ToSet(event_heap') = S \cup {e}
  BY <1>1, <1>12, HoldsIsSet
<1>15. PlaceOf' = w /\ DueOf' = d
  BY <1>1, <1>13, <1>14, EventsTellNext
<1>16. ReadyOf' = Tail(rest)
  BY <1>1, <1>4, ReadyOfNext
<1>17. HeapTells'
  BY <1>1, <1>2, <1>11, <1>12, <1>13, <1>14, <1>15 DEF HeapTells
<1>. QED BY <1>1, <1>4, <1>5, <1>7, <1>15, <1>16, <1>17 DEF w, d, r2, t, p, rest

\* Either way it is what RoundRobin does.
LEMMA SettleIsSettle ==
  ASSUME NEW heap, NEW queue, NEW run, NEW rem, NEW st, NEW where, NEW ends,
         Between(heap, queue, run, rem, st, where, ends),
         Settle(heap, queue, run, rem, st)
  PROVE  /\ RR!Settle(eve.time, where, SubSeq(queue, r_frnt + 1, Len(queue)), ends, rem)
         /\ HeapTells'
<1>. DEFINE rest == SubSeq(queue, r_frnt + 1, Len(queue))
            p == queue[r_frnt + 1]
<1>1. CASE run # NONE \/ r_frnt = Len(queue)
  <2>1. /\ PlaceOf' = where /\ DueOf' = ends /\ rem_time' = rem /\ ReadyOf' = rest
        /\ (\E r \in Procs : where[r] = "running") \/ rest = <<>>
        /\ HeapTells'
    BY <1>1, SettleStays
  <2>. HIDE DEF rest
  <2>2. RR!Settle(eve.time, where, rest, ends, rem)
    BY <2>1, SameProcs DEF RR!Settle
  <2>. QED BY <2>1, <2>2 DEF rest
<1>2. CASE ~(run # NONE \/ r_frnt = Len(queue))
  <2>1. /\ p \in Procs /\ p = Head(rest) /\ where[p] = "ready" /\ rest # <<>>
        /\ \A r \in Procs : where[r] # "running"
        /\ PlaceOf' = [where EXCEPT ![p] = "running"]
        /\ DueOf' = [ends EXCEPT ![p] = eve.time + Slice(rem[p])]
        /\ rem_time' = [rem EXCEPT ![p] = @ - Slice(rem[p])]
        /\ ReadyOf' = Tail(rest) /\ HeapTells'
    BY <1>2, SettleMoves
  <2>2. rem \in [Procs -> Nat] /\ round \in 1 .. Len(Quanta)
    BY SameProcs DEF Between, Handled
  <2>. HIDE DEF rest, p
  <2>3. RR!Slice(p, rem) = Slice(rem[p])
    BY <2>1, <2>2, SameSlice
  <2>4. RR!Settle(eve.time, where, rest, ends, rem)
    BY <2>1, <2>3, SameProcs DEF RR!Settle
  <2>. QED BY <2>1, <2>4 DEF rest
<1>. QED BY <1>1, <1>2

-----------------------------------------------------------------------------
(* The kinds of turns.                                                     *)

TurnInv == RRInv /\ HeapTells

\* The event at the root is the one RoundRobin takes.
LEMMA FirstIsNext ==
  ASSUME TurnInv, event_heap # <<>>, NEW p, p = eve.process_id
  PROVE  /\ p \in Procs /\ p \in Started(PlaceOf) /\ RR!IsNext(p)
         /\ eve = EndOf(p, PlaceOf, DueOf, rem_time) /\ eve.time = DueOf[p]
         /\ eve.event_type = KindOf(PlaceOf[p], rem_time[p])
         /\ Holds(Popped(event_heap), EndsOf(PlaceOf, DueOf, rem_time) \ {eve})
<1>. DEFINE S == EndsOf(PlaceOf, DueOf, rem_time)
            E(q) == EndOf(q, PlaceOf, DueOf, rem_time)
<1>1. /\ Holds(event_heap, S) /\ PlaceOf \in [Procs -> Stages] /\ DueOf \in [Procs -> Nat]
  BY DEF TurnInv, HeapTells, Tells
<1>2. OneRunsIn(PlaceOf)
  BY SameProcs DEF TurnInv, RRInv, RR!CpuInv, RR!OneRuns, OneRunsIn
<1>. HIDE DEF S
<1>3. Orderly(S)
  BY <1>1, <1>2, EndsAreOrderly DEF S
<1>4. S # {}
  BY <1>1, HoldsIsSet
<1>5. /\ event_heap[1] \in S /\ Holds(Popped(event_heap), S \ {event_heap[1]})
      /\ \A e \in S \ {event_heap[1]} : comp(event_heap[1], e)
  BY <1>1, <1>3, <1>4, PoppedHolds
<1>6. Started(PlaceOf) \subseteq Procs
  BY SameProcs DEF Started
<1>7. S = {E(q) : q \in Started(PlaceOf)}
  BY DEF S, EndsOf
<1>8. \A q \in Started(PlaceOf) : E(q).process_id = q /\ E(q).time = DueOf[q]
                                  /\ E(q).event_type = KindOf(PlaceOf[q], rem_time[q])
  BY DEF EndOf, Event
<1>. HIDE DEF E
<1>9. PICK q \in Started(PlaceOf) : eve = E(q)
  BY <1>5, <1>7 DEF eve
<1>10. q = p
  BY <1>8, <1>9
<1>11. \A r \in Started(PlaceOf) \ {p} : comp(E(p), E(r))
  <2>1. SUFFICES ASSUME NEW r \in Started(PlaceOf), r # p PROVE comp(E(p), E(r))
    OBVIOUS
  <2>2. E(r) # E(p)
    BY <1>8, <1>9, <1>10, <2>1
  <2>3. E(r) \in S \ {eve}
    BY <1>7, <1>9, <1>10, <2>2
  <2>. QED BY <1>5, <1>9, <1>10, <2>3 DEF eve
<1>12. RR!IsNext(p)
  <2>1. RR!Pending = Started(PlaceOf)
    BY DEF RR!Pending, Started
  <2>2. ASSUME NEW r \in Started(PlaceOf) \ {p} PROVE RR!Before(p, r)
    <3>1. /\ p \in Procs /\ r \in Procs /\ p # r
          /\ PlaceOf[p] \in {"new", "running", "waiting"} /\ PlaceOf[r] \in {"new", "running", "waiting"}
          /\ ~(PlaceOf[p] = "running" /\ PlaceOf[r] = "running")
          /\ DueOf[p] \in Nat /\ DueOf[r] \in Nat
      BY <1>1, <1>2, <1>6, <1>10 DEF OneRunsIn, Started
    <3>2. comp(E(p), E(r))
      BY <1>11
    <3>. QED BY <3>1, <3>2, CompIsBefore DEF E
  <2>. QED BY <1>10, <2>1, <2>2 DEF RR!IsNext
<1>. QED BY <1>5, <1>6, <1>8, <1>9, <1>10, <1>12 DEF eve, S, E

\* A process joins the queue: it arrives, its I/O ends, or its slice.
LEMMA EnqueueIsJoin ==
  ASSUME TurnInv, event_heap # <<>>, eve.event_type \in {"arrival", "io_done", "timeout"},
         NEW run, run = (IF eve.event_type = "timeout" THEN NONE ELSE run_proc),
         curr_time' = eve.time, Enqueue(run)
  PROVE  RR!Join(eve.process_id) /\ HeapTells'
<1>. DEFINE where == [PlaceOf EXCEPT ![eve.process_id] = "ready"]
            ends  == [DueOf EXCEPT ![eve.process_id] = 0]
            st    == [state EXCEPT ![eve.process_id] = "READY"]
            queue == Append(ready_queue, eve.process_id)
<1>1. PICK p : p = eve.process_id
  OBVIOUS
<1>2. /\ p \in Procs /\ p \in Started(PlaceOf) /\ RR!IsNext(p)
      /\ eve = EndOf(p, PlaceOf, DueOf, rem_time) /\ eve.time = DueOf[p]
      /\ eve.event_type = KindOf(PlaceOf[p], rem_time[p])
      /\ Holds(Popped(event_heap), EndsOf(PlaceOf, DueOf, rem_time) \ {eve})
  BY <1>1, FirstIsNext
<1>3. /\ PlaceOf \in [Procs -> Stages] /\ DueOf \in [Procs -> Nat] /\ rem_time \in [Procs -> Nat]
      /\ state = [q \in Procs |-> StateOf(PlaceOf[q])]
      /\ (\A q \in Procs \ Started(PlaceOf) : DueOf[q] = 0)
      /\ RunsIn(PlaceOf, run_proc)
      /\ ready_queue \in Seq(Procs) /\ r_frnt \in 0 .. Len(ready_queue)
  BY SameProcs DEF TurnInv, HeapTells, Tells, RRInv, RR!TypeOK
<1>4. /\ PlaceOf[p] \in {"new", "running", "waiting"}
      /\ PlaceOf[p] = "running" <=> eve.event_type = "timeout"
      /\ PlaceOf[p] = "running" => RR!TimesOut(p)
  <2>1. PlaceOf[p] \in {"new", "running", "waiting"}
    BY <1>2 DEF Started
  <2>. QED BY <1>2, <2>1 DEF KindOf, RR!TimesOut
<1>5. /\ where[p] = "ready" /\ ends[p] = 0
      /\ \A q \in Procs : q # p => where[q] = PlaceOf[q] /\ ends[q] = DueOf[q]
      /\ where \in [Procs -> Stages] /\ ends \in [Procs -> Nat]
      /\ where = [PlaceOf EXCEPT ![p] = "ready"] /\ ends = [DueOf EXCEPT ![p] = 0]
  BY <1>1, <1>2, <1>3 DEF Stages
<1>6. st = [q \in Procs |-> StateOf(where[q])]
  <2>1. StateOf("ready") = "READY"
    BY DEF StateOf
  <2>2. st = [q \in Procs |-> IF q = p THEN "READY" ELSE StateOf(PlaceOf[q])]
    BY <1>1, <1>2, <1>3
  <2>. HIDE DEF where, st
  <2>. QED BY <1>5, <2>1, <2>2
<1>7. /\ Append(ready_queue, p) \in Seq(Procs) /\ Len(Append(ready_queue, p)) = Len(ready_queue) + 1
      /\ r_frnt \in 0 .. Len(Append(ready_queue, p))
      /\ SubSeq(Append(ready_queue, p), r_frnt + 1, Len(Append(ready_queue, p))) = Append(ReadyOf, p)
  <2>1. /\ Append(ready_queue, p) \in Seq(Procs) /\ Len(Append(ready_queue, p)) = Len(ready_queue) + 1
        /\ SubSeq(Append(ready_queue, p), r_frnt + 1, Len(Append(ready_queue, p)))
             = Append(SubSeq(ready_queue, r_frnt + 1, Len(ready_queue)), p)
    BY <1>2, <1>3, QueueGrows
  <2>2. r_frnt \in 0 .. Len(ready_queue) + 1
    BY <1>3
  <2>. QED BY <2>1, <2>2 DEF ReadyOf
<1>8. /\ EndsOf(where, ends, rem_time) = EndsOf(PlaceOf, DueOf, rem_time) \ {eve}
      /\ Started(where) = Started(PlaceOf) \ {p}
  <2>. HIDE DEF where, ends
  <2>1. where[p] \notin {"new", "running", "waiting"}
    BY <1>5
  <2>2. EndsOf(where, ends, rem_time)
          = EndsOf(PlaceOf, DueOf, rem_time) \ {EndOf(p, PlaceOf, DueOf, rem_time)}
    <3>1. Leaves(p, PlaceOf, DueOf, where, ends)
      BY <1>2, <1>5, <2>1 DEF Leaves
    <3>2. EndsOf(where, ends, rem_time)
            = Without(EndsOf(PlaceOf, DueOf, rem_time), EndOf(p, PlaceOf, DueOf, rem_time))
      BY <3>1, OneEndLess
    <3>. QED BY <3>2 DEF Without
  <2>3. Started(where) = Started(PlaceOf) \ {p}
    <3>1. /\ p \in Started(PlaceOf) /\ p \in Procs
          /\ \A q \in Procs : q # p => where[q] = PlaceOf[q]
      BY <1>2, <1>5
    <3>. QED BY <2>1, <3>1, SameProcs DEF Started
  <2>. QED BY <1>2, <2>2, <2>3
<1>9. RunsIn(where, run)
  <2>1. NONE \notin Procs
    BY WorkloadAssumption DEF NONE, Procs
  <2>. HIDE DEF where
  <2>. QED BY <1>2, <1>3, <1>4, <1>5, <2>1 DEF RunsIn
<1>10. Handled(eve.time, where, Append(ReadyOf, p), ends, rem_time)
  BY <1>2, <1>5, JoinHandled, SameProcs DEF TurnInv
<1>11. Settle(Popped(event_heap), queue, run, rem_time, st)
       /\ UNCHANGED <<program, round, curr_burst>>
  BY DEF Enqueue
<1>12. queue = Append(ready_queue, p)
  BY <1>1
<1>. HIDE DEF where, ends, st, queue
<1>13. Tells(EndsOf(where, ends, rem_time), where, ends, rem_time, st)
  BY <1>3, <1>5, <1>6, <1>8 DEF Tells
<1>14. Between(Popped(event_heap), queue, run, rem_time, st, where, ends)
  BY <1>2, <1>7, <1>8, <1>9, <1>10, <1>12, <1>13 DEF Between
<1>15. RR!Settle(eve.time, where, Append(ReadyOf, p), ends, rem_time) /\ HeapTells'
  BY <1>7, <1>11, <1>12, <1>14, SettleIsSettle
<1>16. RR!Join(p)
  BY <1>2, <1>4, <1>5, <1>11, <1>15 DEF RR!Join
<1>. QED BY <1>1, <1>15, <1>16

\* The event at the end of a burst is that of the process on the CPU.
LEMMA BurstHasEnded ==
  ASSUME TurnInv, event_heap # <<>>, eve.event_type = "burst_end", NEW p, p = eve.process_id
  PROVE  /\ p \in Procs /\ p \in Started(PlaceOf)
         /\ eve = EndOf(p, PlaceOf, DueOf, rem_time) /\ eve.time = DueOf[p]
         /\ Holds(Popped(event_heap), Without(EndsOf(PlaceOf, DueOf, rem_time), eve))
         /\ PlaceOf[p] = "running" /\ rem_time[p] = 0 /\ run_proc = p
         /\ RR!BurstEnds(p)
<1>1. /\ p \in Procs /\ p \in Started(PlaceOf) /\ RR!IsNext(p)
      /\ eve = EndOf(p, PlaceOf, DueOf, rem_time) /\ eve.time = DueOf[p]
      /\ eve.event_type = KindOf(PlaceOf[p], rem_time[p])
      /\ Holds(Popped(event_heap), EndsOf(PlaceOf, DueOf, rem_time) \ {eve})
  BY FirstIsNext
<1>2. rem_time[p] \in Nat /\ RunsIn(PlaceOf, run_proc)
  BY <1>1, SameProcs DEF TurnInv, RRInv, RR!TypeOK, HeapTells
<1>3. PlaceOf[p] = "running" /\ rem_time[p] = 0
  <2>1. PlaceOf[p] \in {"new", "running", "waiting"}
    BY <1>1 DEF Started
  <2>. QED BY <1>1, <1>2, <2>1 DEF KindOf
<1>4. run_proc = p
  BY <1>1, <1>2, <1>3 DEF RunsIn
<1>5. RR!BurstEnds(p)
  BY <1>1, <1>2, <1>3 DEF RR!BurstEnds, RR!TimesOut
<1>. QED BY <1>1, <1>3, <1>4, <1>5 DEF Without

LEMMA ExitIsExit ==
  ASSUME TurnInv, event_heap # <<>>, curr_time' = eve.time, Exit
  PROVE  RR!Exit(eve.process_id) /\ HeapTells'
<1>. DEFINE where == [PlaceOf EXCEPT ![eve.process_id] = "finished"]
            ends  == [DueOf EXCEPT ![eve.process_id] = 0]
            st    == [state EXCEPT ![eve.process_id] = "FINISHED"]
<1>1. PICK p : p = eve.process_id
  OBVIOUS
<1>0. /\ eve.event_type = "burst_end" /\ LastBurst(p)
      /\ Settle(Popped(event_heap), ready_queue, NONE, rem_time, st)
      /\ UNCHANGED <<program, round, curr_burst>>
  BY <1>1 DEF Exit, Take
<1>2. /\ p \in Procs /\ p \in Started(PlaceOf)
      /\ eve = EndOf(p, PlaceOf, DueOf, rem_time) /\ eve.time = DueOf[p]
      /\ Holds(Popped(event_heap), Without(EndsOf(PlaceOf, DueOf, rem_time), eve))
      /\ PlaceOf[p] = "running" /\ rem_time[p] = 0 /\ run_proc = p
      /\ RR!BurstEnds(p)
  BY <1>0, <1>1, BurstHasEnded
<1>3. /\ PlaceOf \in [Procs -> Stages] /\ DueOf \in [Procs -> Nat] /\ rem_time \in [Procs -> Nat]
      /\ state = [q \in Procs |-> StateOf(PlaceOf[q])]
      /\ (\A q \in Procs \ Started(PlaceOf) : DueOf[q] = 0)
      /\ RunsIn(PlaceOf, run_proc)
      /\ ready_queue \in Seq(Procs) /\ r_frnt \in 0 .. Len(ready_queue)
  BY SameProcs DEF TurnInv, HeapTells, Tells, RRInv, RR!TypeOK
<1>4. /\ where[p] = "finished" /\ ends[p] = 0
      /\ \A q \in Procs : q # p => where[q] = PlaceOf[q] /\ ends[q] = DueOf[q]
      /\ where \in [Procs -> Stages] /\ ends \in [Procs -> Nat]
      /\ where = [PlaceOf EXCEPT ![p] = "finished"] /\ ends = [DueOf EXCEPT ![p] = 0]
  BY <1>1, <1>2, <1>3 DEF Stages
<1>5. st = [q \in Procs |-> StateOf(where[q])]
  <2>1. StateOf("finished") = "FINISHED"
    BY DEF StateOf
  <2>2. st = [q \in Procs |-> IF q = p THEN "FINISHED" ELSE StateOf(PlaceOf[q])]
    BY <1>1, <1>2, <1>3
  <2>. HIDE DEF where, st
  <2>. QED BY <1>4, <2>1, <2>2
<1>6. /\ EndsOf(where, ends, rem_time) = Without(EndsOf(PlaceOf, DueOf, rem_time), eve)
      /\ Started(where) = Started(PlaceOf) \ {p}
  <2>. HIDE DEF where, ends
  <2>1. Leaves(p, PlaceOf, DueOf, where, ends)
    BY <1>2, <1>4 DEF Leaves
  <2>2. EndsOf(where, ends, rem_time)
          = Without(EndsOf(PlaceOf, DueOf, rem_time), EndOf(p, PlaceOf, DueOf, rem_time))
    BY <2>1, OneEndLess
  <2>3. Started(where) = Started(PlaceOf) \ {p}
    BY <1>2, <1>4, SameProcs DEF Started
  <2>. QED BY <1>2, <2>2, <2>3
<1>7. RunsIn(where, NONE)
  <2>1. NONE \notin Procs
    BY WorkloadAssumption DEF NONE, Procs
  <2>. HIDE DEF where
  <2>. QED BY <1>2, <1>3, <1>4, <2>1 DEF RunsIn
<1>8. Handled(eve.time, where, ReadyOf, ends, rem_time)
  BY <1>2, <1>3, <1>4, BurstEndHandled, SameProcs DEF TurnInv
<1>. HIDE DEF where, ends, st
<1>9. Tells(EndsOf(where, ends, rem_time), where, ends, rem_time, st)
  BY <1>3, <1>4, <1>5, <1>6 DEF Tells
<1>10. Between(Popped(event_heap), ready_queue, NONE, rem_time, st, where, ends)
  BY <1>2, <1>3, <1>6, <1>7, <1>8, <1>9 DEF Between, ReadyOf
<1>11. RR!Settle(eve.time, where, ReadyOf, ends, rem_time) /\ HeapTells'
  BY <1>0, <1>10, SettleIsSettle DEF ReadyOf
<1>12. RR!Exit(p)
  BY <1>0, <1>2, <1>4, <1>11 DEF RR!Exit, LastBurst
<1>. QED BY <1>1, <1>11, <1>12

LEMMA StartIOIsWait ==
  ASSUME TurnInv, event_heap # <<>>, curr_time' = eve.time, StartIO
  PROVE  RR!Wait(eve.process_id) /\ HeapTells'
<1>1. PICK p : p = eve.process_id
  OBVIOUS
<1>. DEFINE b    == curr_burst[p]
            end  == eve.time + program[p].io[b]
            left == program[p].cpu[b + 1]
            w0   == [PlaceOf EXCEPT ![p] = "ready"]
            d0   == [DueOf EXCEPT ![p] = 0]
            where == [PlaceOf EXCEPT ![p] = "waiting"]
            ends  == [DueOf EXCEPT ![p] = end]
            rest  == [rem_time EXCEPT ![p] = left]
            st    == [state EXCEPT ![p] = "WAITING"]
            heap  == insert(Popped(event_heap), Event(p, end, "io_done"))
<1>0. /\ eve.event_type = "burst_end" /\ ~LastBurst(p)
      /\ curr_burst' = [curr_burst EXCEPT ![p] = b + 1]
      /\ Settle(heap, ready_queue, NONE, rest, st)
      /\ UNCHANGED <<program, round>>
  BY <1>1 DEF StartIO, Take
<1>2. /\ p \in Procs /\ p \in Started(PlaceOf)
      /\ eve = EndOf(p, PlaceOf, DueOf, rem_time) /\ eve.time = DueOf[p]
      /\ Holds(Popped(event_heap), Without(EndsOf(PlaceOf, DueOf, rem_time), eve))
      /\ PlaceOf[p] = "running" /\ rem_time[p] = 0 /\ run_proc = p
      /\ RR!BurstEnds(p)
  BY <1>0, <1>1, BurstHasEnded
<1>3. /\ PlaceOf \in [Procs -> Stages] /\ DueOf \in [Procs -> Nat] /\ rem_time \in [Procs -> Nat]
      /\ state = [q \in Procs |-> StateOf(PlaceOf[q])]
      /\ (\A q \in Procs \ Started(PlaceOf) : DueOf[q] = 0)
      /\ RunsIn(PlaceOf, run_proc)
      /\ ready_queue \in Seq(Procs) /\ r_frnt \in 0 .. Len(ready_queue)
      /\ program[p] \in Programs /\ b \in Nat \ {0} /\ b <= Len(program[p].cpu)
  BY <1>2, SameProcs DEF TurnInv, HeapTells, Tells, RRInv, RR!TypeOK
<1>4. /\ b < Len(program[p].cpu) /\ left \in Nat /\ program[p].io[b] \in Nat
      /\ end \in Nat /\ end >= DueOf[p] /\ end = DueOf[p] + program[p].io[b]
  <2>1. /\ Len(program[p].cpu) \in Nat /\ Len(program[p].cpu) = Len(program[p].io) + 1
        /\ \A i \in 1 .. Len(program[p].cpu) : program[p].cpu[i] \in Nat
        /\ \A i \in 1 .. Len(program[p].io) : program[p].io[i] \in Nat
        /\ Len(program[p].io) \in Nat
    BY <1>3, ProgramIsRight, WorkloadAssumption
  <2>2. b < Len(program[p].cpu)
    BY <1>0, <1>3, <2>1 DEF LastBurst
  <2>3. b \in 1 .. Len(program[p].io) /\ b + 1 \in 1 .. Len(program[p].cpu)
    BY <1>3, <2>1, <2>2
  <2>4. left \in Nat /\ program[p].io[b] \in Nat
    BY <2>1, <2>3
  <2>5. DueOf[p] \in Nat
    BY <1>2, <1>3
  <2>. HIDE DEF b, left
  <2>. QED BY <1>2, <2>2, <2>4, <2>5
<1>. HIDE DEF b, end, left
<1>5. /\ w0[p] = "ready" /\ d0[p] = 0
      /\ \A q \in Procs : q # p => w0[q] = PlaceOf[q] /\ d0[q] = DueOf[q]
      /\ where[p] = "waiting" /\ ends[p] = end /\ rest[p] = left
      /\ \A q \in Procs : q # p => where[q] = PlaceOf[q] /\ ends[q] = DueOf[q] /\ rest[q] = rem_time[q]
      /\ where \in [Procs -> Stages] /\ ends \in [Procs -> Nat] /\ rest \in [Procs -> Nat]
  BY <1>2, <1>3, <1>4 DEF Stages
<1>6. st = [q \in Procs |-> StateOf(where[q])]
  <2>1. StateOf("waiting") = "WAITING"
    BY DEF StateOf
  <2>2. st = [q \in Procs |-> IF q = p THEN "WAITING" ELSE StateOf(PlaceOf[q])]
    BY <1>1, <1>2, <1>3
  <2>. HIDE DEF where, st
  <2>. QED BY <1>5, <2>1, <2>2
<1>8. Handled(eve.time, where, ReadyOf, ends, rest)
  <2>1. rest \in [RR!Procs -> Nat] /\ p \in RR!Procs
    BY <1>2, <1>5, SameProcs
  <2>. HIDE DEF rest
  <2>. QED BY <1>2, <1>4, <2>1, BurstEndHandled DEF TurnInv
<1>. HIDE DEF w0, d0, where, ends, rest, st
<1>7. /\ EndsOf(w0, d0, rem_time) = Without(EndsOf(PlaceOf, DueOf, rem_time), eve)
      /\ Started(w0) = Started(PlaceOf) \ {p}
  <2>1. Leaves(p, PlaceOf, DueOf, w0, d0)
    BY <1>2, <1>5 DEF Leaves
  <2>2. EndsOf(w0, d0, rem_time)
          = Without(EndsOf(PlaceOf, DueOf, rem_time), EndOf(p, PlaceOf, DueOf, rem_time))
    BY <2>1, OneEndLess
  <2>3. Started(w0) = Started(PlaceOf) \ {p}
    BY <1>2, <1>5, SameProcs DEF Started
  <2>. QED BY <1>2, <2>2, <2>3
<1>9. EndOf(p, where, ends, rest) = Event(p, end, "io_done")
  BY <1>5 DEF EndOf, KindOf
<1>10. /\ EndsOf(where, ends, rest) = With(EndsOf(w0, d0, rem_time), EndOf(p, where, ends, rest))
       /\ EndOf(p, where, ends, rest) \notin EndsOf(w0, d0, rem_time)
       /\ Started(where) = Started(w0) \cup {p}
  <2>1. p \notin Started(w0)
    BY <1>7
  <2>2. \A q \in Procs : q # p => where[q] = w0[q] /\ ends[q] = d0[q] /\ rest[q] = rem_time[q]
    BY <1>5
  <2>3. where[p] \in {"running", "waiting"}
    BY <1>5
  <2>4. Enters(p, w0, d0, rem_time, where, ends, rest)
    BY <1>2, <2>1, <2>2, <2>3 DEF Enters
  <2>5. Started(where) = Started(w0) \cup {p}
    BY <1>2, <2>2, <2>3, SameProcs DEF Started
  <2>. QED BY <2>4, <2>5, OneMoreEnd
<1>11. RunsIn(where, NONE) /\ OneRunsIn(where)
  <2>1. NONE \notin Procs
    BY WorkloadAssumption DEF NONE, Procs
  <2>. QED BY <1>2, <1>3, <1>5, <2>1 DEF RunsIn, OneRunsIn
<1>12. Holds(heap, EndsOf(where, ends, rest))
  <2>1. Orderly(EndsOf(where, ends, rest))
    BY <1>5, <1>11, EndsAreOrderly
  <2>. HIDE DEF heap
  <2>2. PICK S, e : S = EndsOf(w0, d0, rem_time) /\ e = Event(p, end, "io_done")
    OBVIOUS
  <2>3. Holds(Popped(event_heap), S) /\ e \notin S /\ Orderly(S \cup {e})
        /\ EndsOf(where, ends, rest) = S \cup {e} /\ heap = insert(Popped(event_heap), e)
    BY <1>2, <1>7, <1>9, <1>10, <2>1, <2>2 DEF heap, With
  <2>. QED BY <2>3, InsertHolds
<1>. HIDE DEF heap
<1>13. Tells(EndsOf(where, ends, rest), where, ends, rest, st)
  BY <1>3, <1>5, <1>6, <1>7, <1>10 DEF Tells
<1>14. Between(heap, ready_queue, NONE, rest, st, where, ends)
  BY <1>3, <1>8, <1>11, <1>12, <1>13 DEF Between, ReadyOf
<1>15. RR!Settle(eve.time, where, ReadyOf, ends, rest) /\ HeapTells'
  BY <1>0, <1>14, SettleIsSettle DEF ReadyOf
<1>16. RR!Wait(p)
  <2>1. curr_burst' = [curr_burst EXCEPT ![p] = @ + 1]
    BY <1>0 DEF b
  <2>2. ends = [DueOf EXCEPT ![p] = @ + program[p].io[curr_burst[p]]]
    BY <1>2, <1>3, <1>4 DEF ends, b
  <2>3. rest = [rem_time EXCEPT ![p] = program[p].cpu[curr_burst[p] + 1]]
    BY DEF rest, left, b
  <2>4. where = [PlaceOf EXCEPT ![p] = "waiting"]
    BY DEF where
  <2>. QED BY <1>0, <1>2, <1>4, <1>15, <2>1, <2>2, <2>3, <2>4 DEF RR!Wait, b
<1>. QED BY <1>1, <1>15, <1>16

\* The beginning of a round: all processes are new.
AllNew == [p \in Procs |-> "new"]
Firsts == [p \in Procs |-> program[p].arrival]

LEMMA RoundBegins ==
  ASSUME program \in [Procs -> Programs]
  PROVE  /\ Holds(Arrivals, EndsOf(AllNew, Firsts, FirstBursts))
         /\ Tells(EndsOf(AllNew, Firsts, FirstBursts), AllNew, Firsts, FirstBursts, ForAll("READY"))
         /\ RunsIn(AllNew, NONE)
<1>1. Holds(Arrivals, ArrivalsTo(num_proc))
  BY ArrivalsAreRight, WorkloadAssumption DEF Holds
<1>2. Started(AllNew) = Procs
  BY SameProcs DEF Started, AllNew
<1>3. \A p \in Procs : EndOf(p, AllNew, Firsts, FirstBursts) = ArrivalOf(p)
  BY DEF EndOf, AllNew, Firsts, ArrivalOf, KindOf
<1>4. ArrivalsTo(num_proc) = {ArrivalOf(p) : p \in Procs}
  BY WorkloadAssumption DEF ArrivalsTo, Procs
<1>5. EndsOf(AllNew, Firsts, FirstBursts) = ArrivalsTo(num_proc)
  BY <1>2, <1>3, <1>4 DEF EndsOf
<1>6. AllNew \in [Procs -> Stages] /\ Firsts \in [Procs -> Nat]
  <2>1. \A p \in Procs : program[p].arrival \in Nat
    BY ProgramIsRight
  <2>. QED BY <2>1 DEF AllNew, Firsts, Stages
<1>7. ForAll("READY") = [p \in Procs |-> StateOf(AllNew[p])]
  <2>1. StateOf("new") = "READY"
    BY DEF StateOf
  <2>2. \A p \in Procs : StateOf(AllNew[p]) = "READY"
    BY <2>1 DEF AllNew
  <2>. QED BY <2>2 DEF ForAll
<1>8. RunsIn(AllNew, NONE)
  <2>1. NONE \notin Procs
    BY WorkloadAssumption DEF NONE, Procs
  <2>. QED BY <2>1 DEF RunsIn, AllNew
<1>. QED BY <1>1, <1>2, <1>5, <1>6, <1>7, <1>8 DEF Tells

LEMMA RoundIsNew ==
  ASSUME Tells(ToSet(event_heap), AllNew, Firsts, rem_time, state),
         Holds(event_heap, ToSet(event_heap)), RunsIn(AllNew, run_proc),
         ready_queue = <<>>, r_frnt = 0
  PROVE  HeapTells /\ PlaceOf = AllNew /\ DueOf = Firsts /\ ReadyOf = <<>>
<1>1. PlaceOf = AllNew /\ DueOf = Firsts
  BY EventsTell
<1>2. ReadyOf = <<>>
  BY DEF ReadyOf
<1>. QED BY <1>1, <1>2 DEF HeapTells

LEMMA RoundIsNewNext ==
  (/\ Tells(ToSet(event_heap), AllNew, Firsts, rem_time, state)
   /\ Holds(event_heap, ToSet(event_heap)) /\ RunsIn(AllNew, run_proc)
   /\ ready_queue = <<>> /\ r_frnt = 0)'
  => (HeapTells /\ PlaceOf = AllNew /\ DueOf = Firsts /\ ReadyOf = <<>>)'
<1>1. (/\ Tells(ToSet(event_heap), AllNew, Firsts, rem_time, state)
       /\ Holds(event_heap, ToSet(event_heap)) /\ RunsIn(AllNew, run_proc)
       /\ ready_queue = <<>> /\ r_frnt = 0)
      => (HeapTells /\ PlaceOf = AllNew /\ DueOf = Firsts /\ ReadyOf = <<>>)
  BY RoundIsNew
<1>. QED BY <1>1, PTL

LEMMA InitTells == Init => HeapTells /\ RR!Init
<1>. SUFFICES ASSUME Init PROVE HeapTells /\ RR!Init
  OBVIOUS
<1>1. /\ program \in [Procs -> Programs] /\ round = 1 /\ curr_time = 0
      /\ event_heap = Arrivals /\ ready_queue = <<>> /\ r_frnt = 0 /\ run_proc = NONE
      /\ curr_burst = ForAll(1) /\ rem_time = FirstBursts /\ state = ForAll("READY")
  BY DEF Init
<1>2. /\ Holds(Arrivals, EndsOf(AllNew, Firsts, FirstBursts))
      /\ Tells(EndsOf(AllNew, Firsts, FirstBursts), AllNew, Firsts, FirstBursts, ForAll("READY"))
      /\ RunsIn(AllNew, NONE)
  BY <1>1, RoundBegins
<1>3. ToSet(event_heap) = EndsOf(AllNew, Firsts, FirstBursts)
  BY <1>1, <1>2, HoldsIsSet
<1>4. HeapTells /\ PlaceOf = AllNew /\ DueOf = Firsts /\ ReadyOf = <<>>
  BY <1>1, <1>2, <1>3, RoundIsNew
<1>5. RR!Init
  BY <1>1, <1>4, SameProcs DEF RR!Init, AllNew, Firsts, ForAll, FirstBursts
<1>. QED BY <1>4, <1>5

LEMMA NextRoundIsNextRound ==
  ASSUME TurnInv, NextRound
  PROVE  RR!NextRound /\ HeapTells'
<1>1. /\ event_heap = <<>> /\ round < Len(Quanta) /\ round' = round + 1
      /\ event_heap' = Arrivals /\ ready_queue' = <<>> /\ r_frnt' = 0
      /\ curr_time' = 0 /\ run_proc' = NONE
      /\ curr_burst' = ForAll(1) /\ rem_time' = FirstBursts
      /\ state' = ForAll("READY") /\ program' = program
  BY DEF NextRound
<1>2. program \in [Procs -> Programs]
  BY SameProcs DEF TurnInv, RRInv, RR!TypeOK
<1>3. /\ Holds(Arrivals, EndsOf(AllNew, Firsts, FirstBursts))
      /\ Tells(EndsOf(AllNew, Firsts, FirstBursts), AllNew, Firsts, FirstBursts, ForAll("READY"))
      /\ RunsIn(AllNew, NONE)
  BY <1>2, RoundBegins
<1>4. Firsts' = Firsts /\ AllNew' = AllNew
  BY <1>1 DEF Firsts, AllNew
<1>5. ToSet(event_heap') = EndsOf(AllNew, Firsts, FirstBursts)
  BY <1>1, <1>3, HoldsIsSet
<1>6. /\ Tells(ToSet(event_heap'), AllNew', Firsts', rem_time', state')
      /\ Holds(event_heap', ToSet(event_heap')) /\ RunsIn(AllNew', run_proc')
  BY <1>1, <1>3, <1>4, <1>5
<1>7. HeapTells' /\ PlaceOf' = AllNew /\ DueOf' = Firsts /\ ReadyOf' = <<>>
  BY <1>1, <1>4, <1>6, RoundIsNewNext
<1>8. RR!Pending = {}
  <2>1. ToSet(event_heap) = {}
    BY <1>1, HoldsIsSet DEF TurnInv, HeapTells
  <2>2. EndsOf(PlaceOf, DueOf, rem_time) = {}
    BY <2>1 DEF TurnInv, HeapTells, Tells
  <2>3. Started(PlaceOf) = {}
    BY <2>2 DEF EndsOf
  <2>. QED BY <2>3 DEF Started, RR!Pending
<1>9. RR!StartOfRound(round + 1)
  BY <1>1, <1>7, SameProcs DEF RR!StartOfRound, AllNew, Firsts, ForAll, FirstBursts
<1>. QED BY <1>1, <1>7, <1>8, <1>9 DEF RR!NextRound

\* Main has returned, or nothing happens.
LEMMA NothingTells ==
  ASSUME TurnInv, UNCHANGED vars
  PROVE  UNCHANGED (RR!rvars) /\ HeapTells'
<1>1. UNCHANGED <<program, round, event_heap, ready_queue, r_frnt, run_proc,
                  curr_time, idle_time, curr_burst, rem_time, tat, state, waited>>
  BY DEF vars, clocks, procs
<1>2. PlaceOf' = PlaceOf /\ DueOf' = DueOf /\ ReadyOf' = ReadyOf
  BY <1>1 DEF PlaceOf, DueOf, ReadyOf, EventOf
<1>3. HeapTells'
  BY <1>1, <1>2 DEF HeapTells, TurnInv
<1>. QED BY <1>1, <1>2, <1>3 DEF RR!rvars

\* Each turn is one step of RoundRobin, and leaves the heap right.
LEMMA TurnIsStep ==
  ASSUME TurnInv, [Next]_vars
  PROVE  [RR!Next]_(RR!rvars) /\ HeapTells'
<1>1. CASE NextRound
  BY <1>1, NextRoundIsNextRound DEF RR!Next
<1>0. ASSUME event_heap # <<>> PROVE eve.process_id \in Procs
  BY <1>0, FirstIsNext
<1>2. CASE Arrival
  <2>1. /\ event_heap # <<>> /\ eve.event_type = "arrival" /\ curr_time' = eve.time
        /\ Enqueue(run_proc)
    BY <1>2 DEF Arrival, Take
  <2>2. RR!Join(eve.process_id) /\ HeapTells'
    BY <2>1, EnqueueIsJoin
  <2>. QED BY <1>0, <2>1, <2>2, SameProcs DEF RR!Next
<1>3. CASE IoDone
  <2>1. /\ event_heap # <<>> /\ eve.event_type = "io_done" /\ curr_time' = eve.time
        /\ Enqueue(run_proc)
    BY <1>3 DEF IoDone, Take
  <2>2. RR!Join(eve.process_id) /\ HeapTells'
    BY <2>1, EnqueueIsJoin
  <2>. QED BY <1>0, <2>1, <2>2, SameProcs DEF RR!Next
<1>4. CASE Timeout
  <2>1. /\ event_heap # <<>> /\ eve.event_type = "timeout" /\ curr_time' = eve.time
        /\ Enqueue(NONE)
    BY <1>4 DEF Timeout, Take
  <2>2. RR!Join(eve.process_id) /\ HeapTells'
    BY <2>1, EnqueueIsJoin
  <2>. QED BY <1>0, <2>1, <2>2, SameProcs DEF RR!Next
<1>5. CASE Exit
  <2>1. event_heap # <<>> /\ curr_time' = eve.time
    BY <1>5 DEF Exit, Take
  <2>2. RR!Exit(eve.process_id) /\ HeapTells'
    BY <1>5, <2>1, ExitIsExit
  <2>. QED BY <1>0, <2>1, <2>2, SameProcs DEF RR!Next
<1>6. CASE StartIO
  <2>1. event_heap # <<>> /\ curr_time' = eve.time
    BY <1>6 DEF StartIO, Take
  <2>2. RR!Wait(eve.process_id) /\ HeapTells'
    BY <1>6, <2>1, StartIOIsWait
  <2>. QED BY <1>0, <2>1, <2>2, SameProcs DEF RR!Next
<1>7. CASE UNCHANGED vars
  BY <1>7, NothingTells
<1>. QED BY <1>1, <1>2, <1>3, <1>4, <1>5, <1>6, <1>7 DEF Next

LEMMA TurnInitInv == Init => TurnInv
BY InitTells, RRInitInv DEF TurnInv

LEMMA TurnNextInv == TurnInv /\ [Next]_vars => TurnInv'
<1>. SUFFICES ASSUME TurnInv, [Next]_vars PROVE TurnInv'
  OBVIOUS
<1>1. [RR!Next]_(RR!rvars) /\ HeapTells'
  BY TurnIsStep
<1>2. RRInv'
  BY <1>1, RRNextInv DEF TurnInv
<1>. QED BY <1>1, <1>2 DEF TurnInv

LEMMA TurnsAreSteps == TurnInv /\ [Next]_vars => [RR!Next]_(RR!rvars)
BY TurnIsStep

-----------------------------------------------------------------------------
(* Scheduler implements RoundRobin.                                        *)

(***************************************************************************)
(* Type correctness of RoundRobin (schedule.c, lines 171-292).             *)
(***************************************************************************)
THEOREM RoundRobinTypes == RR!Spec => []RR!TypeOK
<1>1. RRInv => RR!TypeOK
  BY DEF RRInv
<1>. QED BY <1>1, RRInitInv, RRNextInv, PTL DEF RR!Spec

(***************************************************************************)
(* Of RoundRobin: one process runs at a time, the CPU is never idle while  *)
(* somebody is ready, the queue holds exactly the ready processes, each    *)
(* once, and no event is handled late (schedule.c, lines 61-70, 190-292).  *)
(***************************************************************************)
THEOREM RoundRobinShares == RR!Spec => []RR!CpuInv
<1>1. RRInv => RR!CpuInv
  BY DEF RRInv
<1>. QED BY <1>1, RRInitInv, RRNextInv, PTL DEF RR!Spec

(***************************************************************************)
(* The simulation refines RoundRobin: every turn of the loop takes, off    *)
(* the heap, the event that RoundRobin would take, does the same to its    *)
(* process and gives the CPU to the same one; a round begins when no event *)
(* is left (schedule.c, lines 38-111 and 171-292).                         *)
(***************************************************************************)
THEOREM TheHeapIsRoundRobin == Spec => ImplementsRoundRobin
<1>1. Init => RR!Init
  BY InitTells
<1>. QED BY <1>1, TurnInitInv, TurnNextInv, TurnsAreSteps, PTL DEF Spec, ImplementsRoundRobin, RR!Spec

(***************************************************************************)
(* So the CPU of the simulation is shared as RoundRobin shares it: what    *)
(* RoundRobinShares says holds of the heap and the array (schedule.c,      *)
(* lines 61-70 and 190-292).                                               *)
(***************************************************************************)
THEOREM CpuIsShared == Spec => []RR!CpuInv
BY TheHeapIsRoundRobin, RoundRobinShares, PTL DEF ImplementsRoundRobin

-----------------------------------------------------------------------------
(* Sums.                                                                   *)

SumTurns(s, m, f) == f = [i \in 0 .. m |-> IF i = 0 THEN 0 ELSE f[i - 1] + s[i]]

LEMMA SumTurnsExist ==
  ASSUME NEW s, NEW m \in Nat
  PROVE  \E f : SumTurns(s, m, f)
<1>. DEFINE Some == {l \in 0 .. m : \E f : SumTurns(s, l, f)}
<1>1. 0 \in Some
  <2>1. SumTurns(s, 0, [k \in 0 .. 0 |-> 0])
    BY DEF SumTurns
  <2>. QED BY <2>1
<1>2. ASSUME NEW l \in 0 .. m - 1, l \in Some
      PROVE  l + 1 \in Some
  <2>1. PICK f : f = [k \in 0 .. l |-> IF k = 0 THEN 0 ELSE f[k - 1] + s[k]]
    BY <1>2 DEF SumTurns
  <2>. DEFINE g == [k \in 0 .. l + 1 |-> IF k = l + 1 THEN f[l] + s[l + 1] ELSE f[k]]
  <2>2. \A k \in 0 .. l : g[k] = f[k]
    OBVIOUS
  <2>3. \A k \in 0 .. l + 1 : g[k] = IF k = 0 THEN 0 ELSE g[k - 1] + s[k]
    <3>1. SUFFICES ASSUME NEW k \in 0 .. l + 1
                   PROVE  g[k] = IF k = 0 THEN 0 ELSE g[k - 1] + s[k]
      OBVIOUS
    <3>2. CASE k = l + 1
      <4>1. g[k] = f[l] + s[l + 1] /\ k # 0 /\ g[k - 1] = f[l]
        BY <2>2, <3>2
      <4>. HIDE DEF g
      <4>. QED BY <4>1, <3>2
    <3>3. CASE k \in 0 .. l
      <4>1. f[k] = IF k = 0 THEN 0 ELSE f[k - 1] + s[k]
        BY <2>1, <3>3
      <4>2. g[k] = f[k] /\ (k # 0 => g[k - 1] = f[k - 1])
        BY <2>2, <3>3
      <4>. HIDE DEF g
      <4>. QED BY <4>1, <4>2
    <3>. QED BY <3>2, <3>3
  <2>4. g = [k \in 0 .. l + 1 |-> g[k]]
    OBVIOUS
  <2>5. SumTurns(s, l + 1, g)
    <3>. HIDE DEF g
    <3>. QED BY <2>3, <2>4 DEF SumTurns
  <2>. HIDE DEF g
  <2>. QED BY <2>5
<1>3. \A k \in 0 .. m : k \in Some
  <2>. HIDE DEF Some
  <2>. QED BY <1>1, <1>2, InductionUpTo
<1>. QED BY <1>3

LEMMA SumTurnsUnfold ==
  ASSUME NEW s, NEW m \in Nat, NEW f, SumTurns(s, m, f)
  PROVE  f[0] = 0 /\ \A k \in 0 .. m - 1 : f[k + 1] = f[k] + s[k + 1]
<1>1. \A k \in 0 .. m : f[k] = IF k = 0 THEN 0 ELSE f[k - 1] + s[k]
  BY DEF SumTurns
<1>2. \A k \in 0 .. m - 1 : k + 1 \in 0 .. m /\ k + 1 # 0 /\ (k + 1) - 1 = k
  OBVIOUS
<1>. QED BY <1>1, <1>2

LEMMA SumToExists ==
  ASSUME NEW s, NEW m \in Nat
  PROVE  \E f : SumTurns(s, m, f) /\ SumTo(s, m) = f[m]
<1>. DEFINE Sums == CHOOSE f : SumTurns(s, m, f)
<1>1. SumTo(s, m) = Sums[m]
  BY Zenon DEF SumTo, SumTurns
<1>2. SumTurns(s, m, Sums)
  BY SumTurnsExist, Zenon
<1>. QED BY <1>1, <1>2

\* SumTo adds up one after the other.
LEMMA SumToUnfold ==
  ASSUME NEW s
  PROVE  SumTo(s, 0) = 0 /\ \A k \in Nat : SumTo(s, k + 1) = SumTo(s, k) + s[k + 1]
<1>1. SumTo(s, 0) = 0
  <2>1. PICK f : SumTurns(s, 0, f) /\ SumTo(s, 0) = f[0]
    BY SumToExists
  <2>. QED BY <2>1, SumTurnsUnfold
<1>2. ASSUME NEW k \in Nat PROVE SumTo(s, k + 1) = SumTo(s, k) + s[k + 1]
  <2>1. PICK f : SumTurns(s, k, f) /\ SumTo(s, k) = f[k]
    BY SumToExists
  <2>2. PICK n : n = k + 1
    OBVIOUS
  <2>3. n \in Nat
    BY <2>2
  <2>4. PICK g : SumTurns(s, n, g) /\ SumTo(s, n) = g[n]
    BY <2>3, SumToExists
  <2>5. f[0] = 0 /\ \A i \in 0 .. k - 1 : f[i + 1] = f[i] + s[i + 1]
    BY <2>1, SumTurnsUnfold
  <2>6. g[0] = 0 /\ \A i \in 0 .. n - 1 : g[i + 1] = g[i] + s[i + 1]
    BY <2>3, <2>4, SumTurnsUnfold
  <2>. DEFINE Same == {i \in 0 .. k : f[i] = g[i]}
  <2>7. 0 \in Same
    BY <2>5, <2>6
  <2>8. ASSUME NEW i \in 0 .. k - 1, i \in Same PROVE i + 1 \in Same
    BY <2>2, <2>5, <2>6, <2>8
  <2>9. \A i \in 0 .. k : i \in Same
    <3>. HIDE DEF Same
    <3>. QED BY <2>7, <2>8, InductionUpTo
  <2>10. f[k] = g[k] /\ k \in 0 .. n - 1
    BY <2>2, <2>9
  <2>11. g[k + 1] = g[k] + s[k + 1]
    BY <2>6, <2>10
  <2>. QED BY <2>1, <2>2, <2>4, <2>10, <2>11
<1>. QED BY <1>1, <1>2

\* Of natural numbers, it is one.
LEMMA SumIsNat ==
  ASSUME NEW s, NEW m \in Nat, \A i \in 1 .. m : s[i] \in Nat
  PROVE  \A k \in 0 .. m : SumTo(s, k) \in Nat
<1>. DEFINE Fine == {k \in 0 .. m : SumTo(s, k) \in Nat}
<1>1. 0 \in Fine
  BY SumToUnfold
<1>2. ASSUME NEW k \in 0 .. m - 1, k \in Fine PROVE k + 1 \in Fine
  <2>1. SumTo(s, k + 1) = SumTo(s, k) + s[k + 1]
    BY SumToUnfold
  <2>2. k + 1 \in 1 .. m
    OBVIOUS
  <2>. QED BY <1>2, <2>1, <2>2
<1>3. \A k \in 0 .. m : k \in Fine
  <2>. HIDE DEF Fine
  <2>. QED BY <1>1, <1>2, InductionUpTo
<1>. QED BY <1>3

\* A sum is at least each of its beginnings.
LEMMA SumGrows ==
  ASSUME NEW s, NEW m \in Nat, \A i \in 1 .. m : s[i] \in Nat, NEW j \in 0 .. m
  PROVE  SumTo(s, j) <= SumTo(s, m)
<1>. DEFINE Fine == {k \in 0 .. m : k >= j => SumTo(s, j) <= SumTo(s, k)}
<1>0. \A k \in 0 .. m : SumTo(s, k) \in Nat
  BY SumIsNat
<1>1. 0 \in Fine
  BY <1>0
<1>2. ASSUME NEW k \in 0 .. m - 1, k \in Fine PROVE k + 1 \in Fine
  <2>1. SumTo(s, k + 1) = SumTo(s, k) + s[k + 1]
    BY SumToUnfold
  <2>2. k + 1 \in 1 .. m /\ k \in 0 .. m /\ k + 1 \in 0 .. m
    OBVIOUS
  <2>3. s[k + 1] \in Nat /\ SumTo(s, k) \in Nat /\ SumTo(s, j) \in Nat
    BY <1>0, <2>2
  <2>4. k + 1 > j => SumTo(s, j) <= SumTo(s, k)
    BY <1>2
  <2>. QED BY <2>1, <2>2, <2>3, <2>4
<1>3. \A k \in 0 .. m : k \in Fine
  <2>. HIDE DEF Fine
  <2>. QED BY <1>1, <1>2, InductionUpTo
<1>. QED BY <1>3

\* The sum of smaller numbers is smaller.
LEMMA SumAtMost ==
  ASSUME NEW s, NEW t, NEW m \in Nat,
         \A i \in 1 .. m : s[i] \in Int /\ t[i] \in Int /\ s[i] <= t[i]
  PROVE  SumTo(s, m) \in Int /\ SumTo(t, m) \in Int /\ SumTo(s, m) <= SumTo(t, m)
<1>. DEFINE Fine == {k \in 0 .. m : SumTo(s, k) \in Int /\ SumTo(t, k) \in Int /\ SumTo(s, k) <= SumTo(t, k)}
<1>1. 0 \in Fine
  BY SumToUnfold
<1>2. ASSUME NEW k \in 0 .. m - 1, k \in Fine PROVE k + 1 \in Fine
  <2>1. SumTo(s, k + 1) = SumTo(s, k) + s[k + 1] /\ SumTo(t, k + 1) = SumTo(t, k) + t[k + 1]
    BY SumToUnfold
  <2>2. k + 1 \in 1 .. m
    OBVIOUS
  <2>. QED BY <1>2, <2>1, <2>2
<1>3. \A k \in 0 .. m : k \in Fine
  <2>. HIDE DEF Fine
  <2>. QED BY <1>1, <1>2, InductionUpTo
<1>. QED BY <1>3

\* When one number changes, the sum changes by as much.
LEMMA SumChanges ==
  ASSUME NEW s, NEW t, NEW m \in Nat, NEW j \in 1 .. m,
         \A i \in 1 .. m : s[i] \in Int /\ t[i] \in Int,
         \A i \in 1 .. m : i # j => t[i] = s[i]
  PROVE  SumTo(t, m) = SumTo(s, m) + (t[j] - s[j])
<1>. DEFINE Fine == {k \in 0 .. m : /\ SumTo(s, k) \in Int /\ SumTo(t, k) \in Int
                                    /\ SumTo(t, k) = SumTo(s, k) + (IF k < j THEN 0 ELSE t[j] - s[j])}
<1>1. 0 \in Fine
  BY SumToUnfold
<1>2. ASSUME NEW k \in 0 .. m - 1, k \in Fine PROVE k + 1 \in Fine
  <2>1. SumTo(s, k + 1) = SumTo(s, k) + s[k + 1] /\ SumTo(t, k + 1) = SumTo(t, k) + t[k + 1]
    BY SumToUnfold
  <2>2. k + 1 \in 1 .. m
    OBVIOUS
  <2>3. s[k + 1] \in Int /\ t[k + 1] \in Int /\ s[j] \in Int /\ t[j] \in Int
    BY <2>2
  <2>4. k + 1 # j => t[k + 1] = s[k + 1]
    BY <2>2
  <2>. QED BY <1>2, <2>1, <2>2, <2>3, <2>4
<1>3. \A k \in 0 .. m : k \in Fine
  <2>. HIDE DEF Fine
  <2>. QED BY <1>1, <1>2, InductionUpTo
<1>4. m \in Fine /\ ~(m < j)
  BY <1>3
<1>. QED BY <1>4

\* The same for what all processes have together.
LEMMA TotalIsSum ==
  ASSUME NEW f
  PROVE  /\ Total(f) = SumTo([i \in 1 .. num_proc |-> f[i - 1]], num_proc)
         /\ num_proc \in Nat
<1>1. num_proc \in Nat
  BY WorkloadAssumption
<1>2. PICK s : s = [i \in 1 .. num_proc |-> f[i - 1]]
  OBVIOUS
<1>3. Len(s) = num_proc
  <2>0. PICK T : T = {f[i - 1] : i \in 1 .. num_proc}
    OBVIOUS
  <2>3. s \in [1 .. num_proc -> T]
    BY <1>1, <1>2, <2>0
  <2>1. s \in Seq(T)
    BY <1>1, <2>3
  <2>2. DOMAIN s = 1 .. num_proc
    BY <1>2
  <2>. QED BY <1>1, <1>2, <2>1, <2>2
<1>. QED BY <1>1, <1>2, <1>3 DEF Total, Sum

LEMMA TotalAtMost ==
  ASSUME NEW f, NEW g, \A p \in Procs : f[p] \in Int /\ g[p] \in Int /\ f[p] <= g[p]
  PROVE  Total(f) \in Int /\ Total(g) \in Int /\ Total(f) <= Total(g)
<1>1. PICK s, t : s = [i \in 1 .. num_proc |-> f[i - 1]] /\ t = [i \in 1 .. num_proc |-> g[i - 1]]
  OBVIOUS
<1>2. num_proc \in Nat /\ Total(f) = SumTo(s, num_proc) /\ Total(g) = SumTo(t, num_proc)
  BY <1>1, TotalIsSum
<1>3. \A i \in 1 .. num_proc : s[i] \in Int /\ t[i] \in Int /\ s[i] <= t[i]
  <2>1. \A i \in 1 .. num_proc : i - 1 \in Procs
    BY <1>2 DEF Procs
  <2>. QED BY <1>1, <2>1
<1>. QED BY <1>2, <1>3, SumAtMost

LEMMA TotalSame ==
  ASSUME NEW f, NEW g, \A p \in Procs : f[p] \in Int /\ g[p] = f[p]
  PROVE  Total(g) = Total(f)
<1>1. PICK s, t : s = [i \in 1 .. num_proc |-> f[i - 1]] /\ t = [i \in 1 .. num_proc |-> g[i - 1]]
  OBVIOUS
<1>2. num_proc \in Nat /\ Total(f) = SumTo(s, num_proc) /\ Total(g) = SumTo(t, num_proc)
  BY <1>1, TotalIsSum
<1>3. s = t
  <2>1. \A i \in 1 .. num_proc : i - 1 \in Procs
    BY <1>2 DEF Procs
  <2>. QED BY <1>1, <2>1
<1>. QED BY <1>2, <1>3

LEMMA TotalChanges ==
  ASSUME NEW f, NEW g, NEW p, NEW d, p \in Procs, d \in Int,
         \A q \in Procs : f[q] \in Int, g[p] = f[p] + d,
         \A q \in Procs : q # p => g[q] = f[q]
  PROVE  Total(g) = Total(f) + d
<1>1. PICK s, t : s = [i \in 1 .. num_proc |-> f[i - 1]] /\ t = [i \in 1 .. num_proc |-> g[i - 1]]
  OBVIOUS
<1>2. num_proc \in Nat /\ Total(f) = SumTo(s, num_proc) /\ Total(g) = SumTo(t, num_proc)
  BY <1>1, TotalIsSum
<1>3. \A i \in 1 .. num_proc : i - 1 \in Procs /\ s[i] = f[i - 1] /\ t[i] = g[i - 1]
  BY <1>1, <1>2 DEF Procs
<1>4. p + 1 \in 1 .. num_proc /\ (p + 1) - 1 = p /\ p \in Int
  BY <1>2 DEF Procs
<1>5. \A q \in Procs : g[q] \in Int
  OBVIOUS
<1>6. \A i \in 1 .. num_proc : s[i] \in Int /\ t[i] \in Int
  BY <1>3, <1>5
<1>7. \A i \in 1 .. num_proc : i # p + 1 => t[i] = s[i]
  <2>1. SUFFICES ASSUME NEW i \in 1 .. num_proc, i # p + 1 PROVE g[i - 1] = f[i - 1]
    BY <1>3
  <2>2. i - 1 # p /\ i - 1 \in Procs
    BY <1>3, <1>4, <2>1
  <2>. QED BY <2>2
<1>8. PICK j : j = p + 1
  OBVIOUS
<1>9. SumTo(t, num_proc) = SumTo(s, num_proc) + (t[j] - s[j])
  BY <1>2, <1>4, <1>6, <1>7, <1>8, SumChanges
<1>10. t[j] = g[p] /\ s[j] = f[p] /\ f[p] \in Int
  BY <1>3, <1>4, <1>8
<1>11. SumTo(s, num_proc) \in Int
  <2>1. \A i \in 1 .. num_proc : s[i] \in Int /\ s[i] \in Int /\ s[i] <= s[i]
    BY <1>6
  <2>. QED BY <1>2, <2>1, SumAtMost
<1>12. t[j] - s[j] = d
  BY <1>10
<1>. QED BY <1>2, <1>9, <1>11, <1>12

LEMMA TotalOfNothing ==
  ASSUME NEW f, \A p \in Procs : f[p] = 0
  PROVE  Total(f) = 0
<1>1. PICK s : s = [i \in 1 .. num_proc |-> f[i - 1]]
  OBVIOUS
<1>2. num_proc \in Nat /\ Total(f) = SumTo(s, num_proc)
  BY <1>1, TotalIsSum
<1>3. \A i \in 1 .. num_proc : s[i] = 0
  <2>1. \A i \in 1 .. num_proc : i - 1 \in Procs
    BY <1>2 DEF Procs
  <2>. QED BY <1>1, <2>1
<1>. DEFINE Fine == {k \in 0 .. num_proc : SumTo(s, k) = 0}
<1>4. 0 \in Fine
  BY <1>2, SumToUnfold
<1>5. ASSUME NEW k \in 0 .. num_proc - 1, k \in Fine PROVE k + 1 \in Fine
  <2>1. SumTo(s, k + 1) = SumTo(s, k) + s[k + 1]
    BY <1>2, SumToUnfold
  <2>2. k + 1 \in 1 .. num_proc
    BY <1>2
  <2>. QED BY <1>2, <1>3, <1>5, <2>1, <2>2
<1>6. \A k \in 0 .. num_proc : k \in Fine
  <2>. HIDE DEF Fine
  <2>. QED BY <1>2, <1>4, <1>5, InductionUpTo
<1>. QED BY <1>2, <1>6

-----------------------------------------------------------------------------
(* Slices.                                                                 *)

\* Whole slices.
LEMMA Quotient ==
  ASSUME NEW x \in Nat, NEW q \in Nat \ {0}
  PROVE  x \div q \in Nat /\ q * (x \div q) <= x /\ x < q * (x \div q) + q
OBVIOUS
LEMMA NoMoreTimes ==
  ASSUME NEW a \in Int, NEW b \in Int, NEW q \in Nat \ {0}, q * a < q * b + q
  PROVE  a <= b
<1>. SUFFICES ASSUME a >= b + 1 PROVE FALSE
  OBVIOUS
<1>1. PICK d \in Nat : a = b + 1 + d
  <2>1. a - b - 1 \in Nat /\ a = b + 1 + (a - b - 1)
    OBVIOUS
  <2>. QED BY <2>1
<1>2. q * a = q * b + q + q * d
  BY <1>1
<1>3. q * d >= 0 /\ q * d \in Int /\ q * b \in Int
  OBVIOUS
<1>. QED BY <1>2, <1>3

\* Part of a slice counts as a slice.
LEMMA PartOfSlice ==
  ASSUME NEW q \in Nat \ {0}, NEW m \in Nat, NEW t \in 0 .. q
  PROVE  Slices(q * m + t, q) = IF t = 0 THEN m ELSE m + 1
<1>. DEFINE x == q * m + t + q - 1
            d == x \div q
            n == IF t = 0 THEN m ELSE m + 1
<1>1. q * m \in Nat
  OBVIOUS
<1>2. x \in Nat /\ Slices(q * m + t, q) = d
  BY <1>1 DEF Slices
<1>. HIDE DEF x
<1>3. d \in Nat /\ q * d <= x /\ x < q * d + q
  BY <1>2, Quotient
<1>. HIDE DEF d
<1>4. q * (m + 1) = q * m + q
  OBVIOUS
<1>5. q * n <= x /\ x < q * n + q /\ n \in Nat
  BY <1>1, <1>4 DEF x
<1>. HIDE DEF n
<1>6. q * d \in Nat /\ q * n \in Nat
  BY <1>3, <1>5
<1>7. d <= n
  <2>1. q * d < q * n + q
    BY <1>2, <1>3, <1>5, <1>6
  <2>. QED BY <2>1, <1>3, <1>5, NoMoreTimes
<1>8. n <= d
  <2>1. q * n < q * d + q
    BY <1>2, <1>3, <1>5, <1>6
  <2>. QED BY <2>1, <1>3, <1>5, NoMoreTimes
<1>. QED BY <1>2, <1>3, <1>5, <1>7, <1>8 DEF n

LEMMA SlicesAreNat ==
  ASSUME NEW a, NEW q, a \in Nat, q \in Nat \ {0}
  PROVE  Slices(a, q) \in Nat
<1>1. a + q - 1 \in Nat
  OBVIOUS
<1>2. (a + q - 1) \div q \in Nat
  BY <1>1, Quotient
<1>. QED BY <1>2 DEF Slices

LEMMA SlicesGrow ==
  ASSUME NEW a \in Nat, NEW b \in Nat, a <= b, NEW q \in Nat \ {0}
  PROVE  Slices(a, q) \in Nat /\ Slices(b, q) \in Nat /\ Slices(a, q) <= Slices(b, q)
<1>1. PICK x, y \in Nat : x = a + q - 1 /\ y = b + q - 1 /\ x <= y
  OBVIOUS
<1>2. Slices(a, q) = x \div q /\ Slices(b, q) = y \div q
  BY <1>1 DEF Slices
<1>3. PICK d, e : d = x \div q /\ e = y \div q
  OBVIOUS
<1>4. d \in Nat /\ q * d <= x /\ x < q * d + q /\ e \in Nat /\ q * e <= y /\ y < q * e + q
  BY <1>1, <1>3, Quotient
<1>5. q * d \in Nat /\ q * e \in Nat
  BY <1>4
<1>6. q * d < q * e + q
  BY <1>1, <1>4, <1>5
<1>7. d <= e
  BY <1>4, <1>6, NoMoreTimes
<1>. QED BY <1>2, <1>3, <1>4, <1>7

-----------------------------------------------------------------------------
(* The books.                                                              *)

\* The time a process has spent, but for its waiting: it has come, has had
\* its bursts up to b, of the last one all but rest, and the I/O in between.
Spent(line, b, rest) == line.arrival + SumTo(line.cpu, b) - rest + SumTo(line.io, b - 1)

GivenTo(line, b, rest) == SumTo(line.cpu, b) - rest

PortionsOf(line, q) == [i \in DOMAIN line.cpu |-> Slices(line.cpu[i], q)]

\* The places it has taken in the ready queue: one for each slice it has had,
\* and the one it is at.
Taken(line, q, stage, b, rest) ==
  SumTo(PortionsOf(line, q), b - 1) + Slices(line.cpu[b] - rest, q)
    + (IF stage = "ready" THEN 1 ELSE 0)

Right(line, q, now, stage, end, b, rest, wt, tt) ==
  /\ b \in 1 .. Len(line.cpu) /\ rest \in 0 .. line.cpu[b] /\ wt \in Nat
  /\ stage \in {"new", "running", "waiting"} => end = Spent(line, b, rest) + wt
  /\ stage = "ready" => now = Spent(line, b, rest) + wt /\ rest > 0
  /\ stage = "finished" => /\ tt = Spent(line, b, rest) + wt - line.arrival
                           /\ b = Len(line.cpu) /\ rest = 0
  /\ stage \in {"new", "waiting"} => rest = line.cpu[b]
  /\ rest > 0 => \E m \in Nat : line.cpu[b] - rest = q * m

GivenBy(prog, burst, left)           == [p \in Procs |-> GivenTo(prog[p], burst[p], left[p])]
TakenBy(prog, q, where, burst, left) == [p \in Procs |-> Taken(prog[p], q, where[p], burst[p], left[p])]

\* The books of all processes: their own, the places of the queue, and the
\* time of the CPU.
Ledger(prog, q, now, where, ends, burst, left, wt, tt, idle, places) ==
  /\ \A p \in Procs : Right(prog[p], q, now, where[p], ends[p], burst[p], left[p], wt[p], tt[p])
  /\ places = Total(TakenBy(prog, q, where, burst, left))
  /\ idle \in Nat
  /\ \A p \in Procs : where[p] = "running" => ends[p] = idle + Total(GivenBy(prog, burst, left))
  /\ (\A p \in Procs : where[p] # "running") => now = idle + Total(GivenBy(prog, burst, left))

LedgerInv ==
  /\ Ledger(program, Quanta[round], curr_time, PlaceOf, DueOf, curr_burst, rem_time, waited, tat,
            idle_time, Len(ready_queue))
  /\ \A i \in DOMAIN Quanta : Places(Quanta[i]) <= MAXP

\* What is added up are numbers.
LEMMA LineAddsUp ==
  ASSUME NEW line \in Programs, NEW q \in Nat \ {0}, NEW b \in 1 .. Len(line.cpu)
  PROVE  /\ line.arrival \in Nat /\ line.cpu[b] \in Nat \ {0}
         /\ b \in Nat /\ b - 1 \in Nat /\ Len(line.cpu) \in Nat /\ Len(line.io) = Len(line.cpu) - 1
         /\ SumTo(line.cpu, b) \in Nat /\ SumTo(line.io, b - 1) \in Nat
         /\ SumTo(PortionsOf(line, q), b - 1) \in Nat
         /\ SumTo(PortionsOf(line, q), b) <= Sum(PortionsOf(line, q))
         /\ SumTo(PortionsOf(line, q), b) = SumTo(PortionsOf(line, q), b - 1) + Slices(line.cpu[b], q)
         /\ SumTo(line.cpu, b) = SumTo(line.cpu, b - 1) + line.cpu[b]
<1>1. /\ line \in [arrival : Nat, cpu : Seq(Nat \ {0}), io : Seq(Nat \ {0})]
      /\ Len(line.cpu) = Len(line.io) + 1
  BY WorkloadAssumption
<1>2. line.arrival \in Nat /\ line.cpu \in Seq(Nat \ {0}) /\ line.io \in Seq(Nat \ {0})
  BY <1>1
<1>3. PICK n, k : n = Len(line.cpu) /\ k = Len(line.io)
  OBVIOUS
<1>4. /\ n \in Nat /\ k \in Nat /\ n = k + 1 /\ b \in 1 .. n /\ b - 1 \in Nat
      /\ b \in 0 .. n /\ b - 1 \in 0 .. k /\ b - 1 \in 0 .. n /\ b = (b - 1) + 1
  BY <1>1, <1>2, <1>3
<1>5. /\ \A i \in 1 .. n : line.cpu[i] \in Nat \ {0}
      /\ \A i \in 1 .. k : line.io[i] \in Nat
  BY <1>2, <1>3
<1>6. SumTo(line.cpu, b) \in Nat /\ SumTo(line.io, b - 1) \in Nat
  BY <1>4, <1>5, SumIsNat
<1>7. SumTo(line.cpu, b) = SumTo(line.cpu, b - 1) + line.cpu[b]
  BY <1>4, SumToUnfold
<1>8. PICK s : s = PortionsOf(line, q)
  OBVIOUS
<1>9. DOMAIN line.cpu = 1 .. n
  BY <1>2, <1>3
<1>10. s = [i \in 1 .. n |-> Slices(line.cpu[i], q)]
  BY <1>8, <1>9 DEF PortionsOf
<1>11. \A i \in 1 .. n : s[i] = Slices(line.cpu[i], q) /\ s[i] \in Nat
  <2>1. SUFFICES ASSUME NEW i \in 1 .. n PROVE Slices(line.cpu[i], q) \in Nat
    BY <1>10
  <2>2. line.cpu[i] \in Nat
    BY <1>5
  <2>. QED BY <2>2, SlicesAreNat
<1>12. Sum(s) = SumTo(s, n)
  <2>1. Len(s) = n
    <3>1. s \in [1 .. n -> Nat]
      BY <1>10, <1>11
    <3>2. s \in Seq(Nat)
      BY <1>4, <3>1
    <3>. QED BY <1>4, <3>1, <3>2
  <2>. QED BY <2>1 DEF Sum
<1>13. SumTo(s, b - 1) \in Nat /\ SumTo(s, b) <= SumTo(s, n)
  BY <1>4, <1>11, SumIsNat, SumGrows
<1>14. SumTo(s, b) = SumTo(s, b - 1) + Slices(line.cpu[b], q)
  <2>1. SumTo(s, b) = SumTo(s, b - 1) + s[b]
    BY <1>4, SumToUnfold
  <2>. QED BY <1>4, <1>11, <2>1
<1>. QED BY <1>2, <1>3, <1>4, <1>5, <1>6, <1>7, <1>8, <1>12, <1>13, <1>14

LEMMA RightAddsUp ==
  ASSUME NEW line, NEW q, NEW now, NEW stage, NEW end, NEW b, NEW rest, NEW wt, NEW tt,
         line \in Programs, q \in Nat \ {0}, Right(line, q, now, stage, end, b, rest, wt, tt)
  PROVE  Spent(line, b, rest) \in Int /\ GivenTo(line, b, rest) \in Int /\ Taken(line, q, stage, b, rest) \in Int
<1>1. b \in 1 .. Len(line.cpu) /\ rest \in 0 .. line.cpu[b]
  BY DEF Right
<1>2. /\ line.arrival \in Nat /\ line.cpu[b] \in Nat
      /\ SumTo(line.cpu, b) \in Nat /\ SumTo(line.io, b - 1) \in Nat
      /\ SumTo(PortionsOf(line, q), b - 1) \in Nat
  BY <1>1, LineAddsUp
<1>3. Slices(line.cpu[b] - rest, q) \in Nat
  <2>1. PICK u : u = line.cpu[b] - rest
    OBVIOUS
  <2>2. u \in Nat
    BY <1>1, <1>2, <2>1
  <2>3. Slices(u, q) \in Nat
    BY <2>2, SlicesAreNat
  <2>. QED BY <2>1, <2>3
<1>4. Spent(line, b, rest) \in Int
  BY <1>1, <1>2 DEF Spent
<1>5. GivenTo(line, b, rest) \in Int
  BY <1>1, <1>2 DEF GivenTo
<1>6. Taken(line, q, stage, b, rest) \in Int
  BY <1>2, <1>3 DEF Taken
<1>. QED BY <1>4, <1>5, <1>6

\* A process joins the queue.
LEMMA JoiningIsRight ==
  ASSUME NEW line, NEW q, NEW now, NEW stage, NEW end, NEW b, NEW rest, NEW wt, NEW tt,
         line \in Programs, q \in Nat \ {0}, Right(line, q, now, stage, end, b, rest, wt, tt),
         stage \in {"new", "running", "waiting"}, stage = "running" => rest > 0
  PROVE  /\ Right(line, q, end, "ready", 0, b, rest, wt, tt)
         /\ Taken(line, q, "ready", b, rest) = Taken(line, q, stage, b, rest) + 1
<1>1. b \in 1 .. Len(line.cpu) /\ rest \in 0 .. line.cpu[b]
  BY DEF Right
<1>2. rest > 0
  <2>1. line.cpu[b] \in Nat \ {0}
    BY <1>1, LineAddsUp
  <2>. QED BY <2>1 DEF Right
<1>3. Right(line, q, end, "ready", 0, b, rest, wt, tt)
  BY <1>2 DEF Right
<1>4. Taken(line, q, stage, b, rest) \in Int
  BY RightAddsUp
<1>5. Taken(line, q, stage, b, rest) = SumTo(PortionsOf(line, q), b - 1) + Slices(line.cpu[b] - rest, q)
  <2>1. /\ SumTo(PortionsOf(line, q), b - 1) \in Nat /\ Slices(line.cpu[b] - rest, q) \in Nat
    <3>1. line.cpu[b] \in Nat /\ SumTo(PortionsOf(line, q), b - 1) \in Nat
      BY <1>1, LineAddsUp
    <3>2. PICK u : u = line.cpu[b] - rest
      OBVIOUS
    <3>3. u \in Nat
      BY <1>1, <3>1, <3>2
    <3>4. Slices(u, q) \in Nat
      BY <3>3, SlicesAreNat
    <3>. QED BY <3>1, <3>2, <3>4
  <2>. QED BY <2>1 DEF Taken
<1>6. Taken(line, q, "ready", b, rest) = SumTo(PortionsOf(line, q), b - 1) + Slices(line.cpu[b] - rest, q) + 1
  BY DEF Taken
<1>. QED BY <1>3, <1>5, <1>6

\* Its burst ends, and its I/O begins.
LEMMA WaitingIsRight ==
  ASSUME NEW line, NEW q, NEW now, NEW end, NEW b, NEW rest, NEW wt, NEW tt,
         line \in Programs, q \in Nat \ {0}, Right(line, q, now, "running", end, b, rest, wt, tt),
         rest = 0, b < Len(line.cpu)
  PROVE  /\ Right(line, q, end, "waiting", end + line.io[b], b + 1, line.cpu[b + 1], wt, tt)
         /\ Taken(line, q, "waiting", b + 1, line.cpu[b + 1]) = Taken(line, q, "running", b, rest)
         /\ GivenTo(line, b + 1, line.cpu[b + 1]) = GivenTo(line, b, rest)
<1>1. b \in 1 .. Len(line.cpu) /\ wt \in Nat /\ end = Spent(line, b, rest) + wt
  BY DEF Right
<1>2. PICK c : c = b + 1
  OBVIOUS
<1>3. /\ b \in Nat /\ b - 1 \in Nat /\ line.arrival \in Nat /\ line.cpu[b] \in Nat
      /\ Len(line.cpu) \in Nat /\ Len(line.io) = Len(line.cpu) - 1
      /\ SumTo(line.cpu, b) \in Nat /\ SumTo(line.io, b - 1) \in Nat
      /\ SumTo(PortionsOf(line, q), b - 1) \in Nat
      /\ SumTo(PortionsOf(line, q), b) = SumTo(PortionsOf(line, q), b - 1) + Slices(line.cpu[b], q)
  BY <1>1, LineAddsUp
<1>4. c \in 1 .. Len(line.cpu) /\ c - 1 = b /\ c \in Nat
  BY <1>2, <1>3
<1>5. /\ line.cpu[c] \in Nat \ {0} /\ SumTo(line.cpu, c) = SumTo(line.cpu, b) + line.cpu[c]
      /\ SumTo(line.io, b) \in Nat /\ SumTo(PortionsOf(line, q), b) \in Nat
  BY <1>4, LineAddsUp
<1>6. SumTo(line.io, b) = SumTo(line.io, b - 1) + line.io[b]
  <2>1. b = (b - 1) + 1
    BY <1>3
  <2>. QED BY <1>3, <2>1, SumToUnfold
<1>7. line.io[b] \in Nat
  <2>1. b \in 1 .. Len(line.io)
    BY <1>1, <1>3
  <2>. QED BY <2>1, ProgramIsRight
<1>8. Slices(0, q) = 0 /\ Slices(line.cpu[b], q) \in Nat
  <2>1. q * 0 + 0 = 0 /\ 0 \in 0 .. q
    OBVIOUS
  <2>2. Slices(q * 0 + 0, q) = 0
    BY <2>1, PartOfSlice
  <2>4. Slices(line.cpu[b], q) \in Nat
    BY <1>3, SlicesAreNat
  <2>. QED BY <2>1, <2>2, <2>4
<1>9. line.cpu[c] - line.cpu[c] = 0 /\ line.cpu[b] - rest = line.cpu[b] /\ line.cpu[c] \in 0 .. line.cpu[c]
  <2>1. \A k \in Nat : k - k = 0 /\ k - 0 = k /\ k \in 0 .. k
    OBVIOUS
  <2>2. line.cpu[c] \in Nat /\ line.cpu[b] \in Nat
    BY <1>3, <1>5
  <2>. QED BY <2>1, <2>2
<1>10. Taken(line, q, "waiting", c, line.cpu[c]) = SumTo(PortionsOf(line, q), b)
  BY <1>4, <1>5, <1>8, <1>9 DEF Taken
<1>11. Taken(line, q, "running", b, rest) = SumTo(PortionsOf(line, q), b)
  BY <1>3, <1>8, <1>9 DEF Taken
<1>12. GivenTo(line, c, line.cpu[c]) = GivenTo(line, b, rest)
  <2>1. SumTo(line.cpu, c) - line.cpu[c] = SumTo(line.cpu, b)
    BY <1>3, <1>5
  <2>2. SumTo(line.cpu, b) - rest = SumTo(line.cpu, b)
    BY <1>3
  <2>. QED BY <2>1, <2>2 DEF GivenTo
<1>13. Spent(line, c, line.cpu[c]) = Spent(line, b, rest) + line.io[b]
  <2>1. Spent(line, c, line.cpu[c])
          = line.arrival + SumTo(line.cpu, c) - line.cpu[c] + SumTo(line.io, b)
    BY <1>4 DEF Spent
  <2>2. Spent(line, b, rest) = line.arrival + SumTo(line.cpu, b) - 0 + SumTo(line.io, b - 1)
    BY DEF Spent
  <2>3. SumTo(line.cpu, c) = SumTo(line.cpu, b) + line.cpu[c]
    BY <1>5
  <2>4. PICK x, y, z, u, v, w : /\ x = line.arrival /\ y = SumTo(line.cpu, b) /\ z = line.cpu[c]
                                /\ u = SumTo(line.io, b - 1) /\ v = line.io[b] /\ w = SumTo(line.cpu, c)
    OBVIOUS
  <2>5. x \in Nat /\ y \in Nat /\ z \in Nat /\ u \in Nat /\ v \in Nat /\ w = y + z
    BY <1>3, <1>5, <1>7, <2>3, <2>4
  <2>6. x + w - z + (u + v) = (x + y - 0 + u) + v
    BY <2>5
  <2>. QED BY <1>6, <2>1, <2>2, <2>4, <2>6
<1>14. Spent(line, b, rest) \in Int
  BY RightAddsUp
<1>15. Right(line, q, end, "waiting", end + line.io[b], c, line.cpu[c], wt, tt)
  <2>1. end + line.io[b] = Spent(line, c, line.cpu[c]) + wt
    BY <1>1, <1>7, <1>13, <1>14
  <2>2. line.cpu[c] - line.cpu[c] = q * 0
    BY <1>9
  <2>. QED BY <1>1, <1>4, <1>9, <2>1, <2>2 DEF Right
<1>. QED BY <1>2, <1>10, <1>11, <1>12, <1>15

\* Its last burst ends.
LEMMA FinishingIsRight ==
  ASSUME NEW line, NEW q, NEW now, NEW end, NEW b, NEW rest, NEW wt, NEW tt,
         line \in Programs, q \in Nat \ {0}, Right(line, q, now, "running", end, b, rest, wt, tt),
         rest = 0, b = Len(line.cpu)
  PROVE  /\ Right(line, q, end, "finished", 0, b, rest, wt, end - line.arrival)
         /\ Taken(line, q, "finished", b, rest) = Taken(line, q, "running", b, rest)
<1>1. b \in 1 .. Len(line.cpu) /\ rest \in 0 .. line.cpu[b] /\ wt \in Nat /\ end = Spent(line, b, rest) + wt
  BY DEF Right
<1>2. Right(line, q, end, "finished", 0, b, rest, wt, end - line.arrival)
  <2>1. PICK x : x = Spent(line, b, rest)
    OBVIOUS
  <2>2. end - line.arrival = x + wt - line.arrival
    <3>1. x \in Int /\ line.arrival \in Nat
      BY <1>1, <2>1, RightAddsUp, LineAddsUp
    <3>. QED BY <1>1, <2>1, <3>1
  <2>. QED BY <1>1, <2>1, <2>2 DEF Right
<1>. QED BY <1>2 DEF Taken

\* Time goes on for all others.
LEMMA WaitsOn ==
  ASSUME NEW line, NEW q, NEW now, NEW stage, NEW end, NEW b, NEW rest, NEW wt, NEW tt, NEW later,
         line \in Programs, q \in Nat \ {0}, Right(line, q, now, stage, end, b, rest, wt, tt),
         now \in Nat, later \in Nat, later >= now
  PROVE  Right(line, q, later, stage, end, b, rest,
               IF stage = "ready" THEN wt + later - now ELSE wt, tt)
<1>1. Spent(line, b, rest) \in Int
  BY RightAddsUp
<1>2. CASE stage = "ready"
  <2>1. /\ b \in 1 .. Len(line.cpu) /\ rest \in 0 .. line.cpu[b] /\ wt \in Nat
        /\ now = Spent(line, b, rest) + wt /\ rest > 0
        /\ rest > 0 => \E m \in Nat : line.cpu[b] - rest = q * m
    BY <1>2 DEF Right
  <2>2. wt + later - now \in Nat /\ later = Spent(line, b, rest) + (wt + later - now)
    <3>1. PICK x, y : x = Spent(line, b, rest) /\ y = wt + later - now
      OBVIOUS
    <3>2. x \in Int /\ now = x + wt /\ wt \in Nat
      BY <1>1, <2>1, <3>1
    <3>3. y \in Nat /\ later = x + y
      BY <3>1, <3>2
    <3>. QED BY <3>1, <3>3
  <2>. QED BY <1>2, <2>1, <2>2 DEF Right
<1>3. CASE stage # "ready"
  BY <1>3 DEF Right
<1>. QED BY <1>2, <1>3

\* It gets the CPU, for a quantum or what is left of its burst.
LEMMA RunningIsRight ==
  ASSUME NEW line, NEW q, NEW now, NEW end, NEW b, NEW rest, NEW wt, NEW tt, NEW t,
         line \in Programs, q \in Nat \ {0}, Right(line, q, now, "ready", end, b, rest, wt, tt),
         t = (IF q < rest THEN q ELSE rest)
  PROVE  /\ Right(line, q, now, "running", now + t, b, rest - t, wt, tt)
         /\ Taken(line, q, "running", b, rest - t) = Taken(line, q, "ready", b, rest)
         /\ GivenTo(line, b, rest - t) = GivenTo(line, b, rest) + t
         /\ t \in Nat
<1>1. /\ b \in 1 .. Len(line.cpu) /\ rest \in 0 .. line.cpu[b] /\ wt \in Nat
      /\ now = Spent(line, b, rest) + wt /\ rest > 0
  BY DEF Right
<1>2. PICK m \in Nat : line.cpu[b] - rest = q * m
  BY <1>1 DEF Right
<1>3. /\ line.arrival \in Nat /\ line.cpu[b] \in Nat
      /\ SumTo(line.cpu, b) \in Nat /\ SumTo(line.io, b - 1) \in Nat
      /\ SumTo(PortionsOf(line, q), b - 1) \in Nat
  BY <1>1, LineAddsUp
<1>4. t \in 1 .. q /\ t \in 0 .. q /\ rest \in Nat /\ rest - t \in 0 .. line.cpu[b] /\ t # 0 /\ 0 \in 0 .. q
  <2>1. PICK c : c = line.cpu[b]
    OBVIOUS
  <2>2. c \in Nat /\ rest \in 0 .. c /\ rest > 0
    BY <1>1, <1>3, <2>1
  <2>3. t \in 1 .. q /\ t <= rest
    BY <2>2
  <2>4. rest - t \in 0 .. c
    BY <2>2, <2>3
  <2>. QED BY <2>1, <2>2, <2>3, <2>4
<1>5. q * m \in Nat /\ q * (m + 1) = q * m + q
  OBVIOUS
<1>6. line.cpu[b] - (rest - t) = q * m + t /\ line.cpu[b] - rest = q * m + 0
  BY <1>2, <1>3, <1>4, <1>5
<1>7. Slices(q * m + t, q) = m + 1 /\ Slices(q * m + 0, q) = m
  BY <1>4, PartOfSlice
<1>8. Taken(line, q, "running", b, rest - t) = Taken(line, q, "ready", b, rest)
  BY <1>3, <1>6, <1>7 DEF Taken
<1>9. GivenTo(line, b, rest - t) = GivenTo(line, b, rest) + t
  BY <1>3, <1>4 DEF GivenTo
<1>10. Spent(line, b, rest - t) = Spent(line, b, rest) + t /\ Spent(line, b, rest) \in Int
  BY <1>3, <1>4 DEF Spent
<1>11. rest - t > 0 => line.cpu[b] - (rest - t) = q * (m + 1)
  BY <1>1, <1>4, <1>5, <1>6
<1>12. Right(line, q, now, "running", now + t, b, rest - t, wt, tt)
  <2>1. now + t = Spent(line, b, rest - t) + wt
    BY <1>1, <1>4, <1>10
  <2>2. m + 1 \in Nat
    OBVIOUS
  <2>. QED BY <1>1, <1>4, <1>11, <2>1, <2>2 DEF Right
<1>. QED BY <1>4, <1>8, <1>9, <1>12

-----------------------------------------------------------------------------
(* The steps of the books.                                                 *)

LEMMA GivenAddsUp ==
  ASSUME NEW prog, NEW q, NEW now, NEW where, NEW ends, NEW burst, NEW left, NEW wt, NEW tt, NEW idle, NEW places,
         \A p \in Procs : prog[p] \in Programs, q \in Nat \ {0},
         Ledger(prog, q, now, where, ends, burst, left, wt, tt, idle, places)
  PROVE  /\ \A p \in Procs : GivenBy(prog, burst, left)[p] \in Int
         /\ \A p \in Procs : TakenBy(prog, q, where, burst, left)[p] \in Int
         /\ Total(GivenBy(prog, burst, left)) \in Int
<1>1. ASSUME NEW p \in Procs
      PROVE  GivenBy(prog, burst, left)[p] \in Int /\ TakenBy(prog, q, where, burst, left)[p] \in Int
  <2>1. Right(prog[p], q, now, where[p], ends[p], burst[p], left[p], wt[p], tt[p]) /\ prog[p] \in Programs
    BY DEF Ledger
  <2>2. GivenTo(prog[p], burst[p], left[p]) \in Int /\ Taken(prog[p], q, where[p], burst[p], left[p]) \in Int
    BY <2>1, RightAddsUp
  <2>. QED BY <2>2 DEF GivenBy, TakenBy
<1>2. PICK f : f = GivenBy(prog, burst, left)
  OBVIOUS
<1>3. \A p \in Procs : f[p] \in Int /\ f[p] \in Int /\ f[p] <= f[p]
  BY <1>1, <1>2
<1>4. Total(f) \in Int
  BY <1>3, TotalAtMost
<1>. QED BY <1>1, <1>2, <1>4

\* An event of process p at the time later: what changes for p and what for
\* the others, the CPU still to be given away.
OthersStay(p, where, ends, burst, left, tt, where2, ends2, burst2, left2, tt2) ==
  \A q \in Procs : q # p => /\ where2[q] = where[q] /\ ends2[q] = ends[q] /\ burst2[q] = burst[q]
                            /\ left2[q] = left[q] /\ tt2[q] = tt[q]

TimePasses(now, later, where, wt, wt2, idle, idle2) ==
  /\ now \in Nat /\ later \in Nat /\ later >= now
  /\ \A q \in Procs : wt2[q] = IF where[q] = "ready" THEN wt[q] + later - now ELSE wt[q]
  /\ idle2 = IF \E q \in Procs : where[q] = "running" THEN idle ELSE idle + later - now

LEMMA EventIsRight ==
  ASSUME NEW prog, NEW q, NEW now, NEW where, NEW ends, NEW burst, NEW left, NEW wt, NEW tt, NEW idle, NEW places,
         NEW p, NEW later, NEW where2, NEW ends2, NEW burst2, NEW left2, NEW wt2, NEW tt2, NEW idle2, NEW d,
         \A r \in Procs : prog[r] \in Programs, q \in Nat \ {0}, p \in Procs, d \in Int, OneRunsIn(where),
         Ledger(prog, q, now, where, ends, burst, left, wt, tt, idle, places),
         OthersStay(p, where, ends, burst, left, tt, where2, ends2, burst2, left2, tt2),
         TimePasses(now, later, where, wt, wt2, idle, idle2),
         later = ends[p], where2[p] # "running",
         Right(prog[p], q, later, where2[p], ends2[p], burst2[p], left2[p], wt2[p], tt2[p]),
         Taken(prog[p], q, where2[p], burst2[p], left2[p]) = Taken(prog[p], q, where[p], burst[p], left[p]) + d,
         GivenTo(prog[p], burst2[p], left2[p]) = GivenTo(prog[p], burst[p], left[p])
  PROVE  Ledger(prog, q, later, where2, ends2, burst2, left2, wt2, tt2, idle2, places + d)
<1>. DEFINE given  == GivenBy(prog, burst, left)
            given2 == GivenBy(prog, burst2, left2)
            taken  == TakenBy(prog, q, where, burst, left)
            taken2 == TakenBy(prog, q, where2, burst2, left2)
<1>1. /\ \A r \in Procs : given[r] \in Int /\ taken[r] \in Int
      /\ Total(given) \in Int
  BY GivenAddsUp
<1>2. \A r \in Procs : /\ given[r] = GivenTo(prog[r], burst[r], left[r])
                       /\ given2[r] = GivenTo(prog[r], burst2[r], left2[r])
                       /\ taken[r] = Taken(prog[r], q, where[r], burst[r], left[r])
                       /\ taken2[r] = Taken(prog[r], q, where2[r], burst2[r], left2[r])
  BY DEF GivenBy, TakenBy
<1>3. Total(given2) = Total(given)
  <2>1. \A r \in Procs : given[r] \in Int /\ given2[r] = given[r]
    <3>. HIDE DEF given, given2
    <3>. QED BY <1>1, <1>2 DEF OthersStay
  <2>. HIDE DEF given, given2
  <2>. QED BY <2>1, TotalSame
<1>4. Total(taken2) = Total(taken) + d
  <2>1. (\A r \in Procs : taken[r] \in Int) /\ taken2[p] = taken[p] + d
    <3>. HIDE DEF taken, taken2
    <3>. QED BY <1>1, <1>2
  <2>2. \A r \in Procs : r # p => taken2[r] = taken[r]
    <3>. HIDE DEF taken, taken2
    <3>. QED BY <1>2 DEF OthersStay
  <2>. HIDE DEF taken, taken2
  <2>. QED BY <2>1, <2>2, TotalChanges
<1>5. ASSUME NEW r \in Procs
      PROVE  Right(prog[r], q, later, where2[r], ends2[r], burst2[r], left2[r], wt2[r], tt2[r])
  <2>1. CASE r = p
    BY <2>1
  <2>2. CASE r # p
    <3>1. Right(prog[r], q, now, where[r], ends[r], burst[r], left[r], wt[r], tt[r]) /\ prog[r] \in Programs
      BY DEF Ledger
    <3>2. /\ now \in Nat /\ later \in Nat /\ later >= now
          /\ wt2[r] = IF where[r] = "ready" THEN wt[r] + later - now ELSE wt[r]
      BY DEF TimePasses
    <3>3. Right(prog[r], q, later, where[r], ends[r], burst[r], left[r], wt2[r], tt[r])
      BY <3>1, <3>2, WaitsOn
    <3>. QED BY <2>2, <3>3 DEF OthersStay
  <2>. QED BY <2>1, <2>2
<1>. HIDE DEF given, given2, taken, taken2
<1>6. /\ idle \in Nat /\ places = Total(taken)
      /\ \A r \in Procs : where[r] = "running" => ends[r] = idle + Total(given)
      /\ (\A r \in Procs : where[r] # "running") => now = idle + Total(given)
  BY DEF Ledger, given, taken
<1>7. idle2 \in Nat
  BY <1>6 DEF TimePasses
<1>8. \A r \in Procs : where[r] = "running" => ends[r] = idle2 + Total(given)
  BY <1>6 DEF TimePasses
<1>9. (\A r \in Procs : where[r] # "running") => later = idle2 + Total(given)
  BY <1>1, <1>6 DEF TimePasses
<1>10. \A r \in Procs : where2[r] = "running" => ends2[r] = idle2 + Total(given)
  BY <1>8 DEF OthersStay
<1>11. (\A r \in Procs : where2[r] # "running") => later = idle2 + Total(given)
  <2>. SUFFICES ASSUME \A r \in Procs : where2[r] # "running" PROVE later = idle2 + Total(given)
    OBVIOUS
  <2>1. CASE where[p] = "running"
    BY <1>8, <2>1
  <2>2. CASE where[p] # "running"
    <3>1. \A r \in Procs : where[r] # "running"
      BY <2>2 DEF OthersStay
    <3>. QED BY <1>9, <3>1
  <2>. QED BY <2>1, <2>2
<1>. QED BY <1>3, <1>4, <1>5, <1>6, <1>7, <1>10, <1>11 DEF Ledger, given2, taken2

\* The end of the turn: the first of the queue may get the CPU.
LEMMA DispatchIsRight ==
  ASSUME NEW now, NEW where, NEW queue, NEW ends, NEW burst, NEW left, NEW wt, NEW tt, NEW idle, NEW places,
         \A r \in Procs : program[r] \in Programs,
         Handled(now, where, queue, ends, left),
         Ledger(program, Quanta[round], now, where, ends, burst, left, wt, tt, idle, places),
         RR!Settle(now, where, queue, ends, left)
  PROVE  Ledger(program, Quanta[round], now, PlaceOf', DueOf', burst, rem_time', wt, tt, idle, places)
<1>1. CASE (\E r \in Procs : where[r] = "running") \/ queue = <<>>
  <2>1. PlaceOf' = where /\ DueOf' = ends /\ rem_time' = left
    BY <1>1, SameProcs DEF RR!Settle
  <2>. QED BY <2>1
<1>2. CASE ~((\E r \in Procs : where[r] = "running") \/ queue = <<>>)
  <2>. DEFINE p == Head(queue)
              t == RR!Slice(p, left)
              q == Quanta[round]
  <2>1. /\ PlaceOf' = [where EXCEPT ![p] = "running"] /\ DueOf' = [ends EXCEPT ![p] = now + t]
        /\ rem_time' = [left EXCEPT ![p] = @ - t]
    BY <1>2, SameProcs DEF RR!Settle
  <2>2. /\ where \in [Procs -> Stages] /\ queue \in Seq(Procs) /\ ends \in [Procs -> Nat]
        /\ left \in [Procs -> Nat] /\ now \in Nat /\ round \in 1 .. Len(Quanta)
        /\ \A r \in Procs : where[r] = "ready" <=> \E i \in 1 .. Len(queue) : queue[i] = r
    BY SameProcs DEF Handled
  <2>3. p \in Procs /\ p = queue[1] /\ 1 \in 1 .. Len(queue)
    BY <1>2, <2>2
  <2>4. where[p] = "ready" /\ \A r \in Procs : where[r] # "running"
    <3>. HIDE DEF p
    <3>. QED BY <1>2, <2>2, <2>3
  <2>5. q \in Nat \ {0} /\ t = (IF q < left[p] THEN q ELSE left[p])
    <3>1. q \in Nat \ {0}
      BY <2>2, WorkloadAssumption
    <3>. QED BY <3>1 DEF RR!Slice
  <2>. HIDE DEF p, t, q
  <2>6. /\ PlaceOf'[p] = "running" /\ DueOf'[p] = now + t /\ rem_time'[p] = left[p] - t
        /\ \A r \in Procs : r # p => PlaceOf'[r] = where[r] /\ DueOf'[r] = ends[r] /\ rem_time'[r] = left[r]
    BY <2>1, <2>2, <2>3
  <2>7. Ledger(program, q, now, where, ends, burst, left, wt, tt, idle, places)
    BY DEF q
  <2>8. /\ Right(program[p], q, now, "ready", ends[p], burst[p], left[p], wt[p], tt[p])
        /\ program[p] \in Programs
    BY <2>3, <2>4, <2>7 DEF Ledger
  <2>9. /\ Right(program[p], q, now, "running", now + t, burst[p], left[p] - t, wt[p], tt[p])
        /\ Taken(program[p], q, "running", burst[p], left[p] - t) = Taken(program[p], q, "ready", burst[p], left[p])
        /\ GivenTo(program[p], burst[p], left[p] - t) = GivenTo(program[p], burst[p], left[p]) + t
        /\ t \in Nat
    BY <2>5, <2>8, RunningIsRight
  <2>. DEFINE given  == GivenBy(program, burst, left)
              given2 == GivenBy(program, burst, rem_time')
              taken  == TakenBy(program, q, where, burst, left)
              taken2 == TakenBy(program, q, PlaceOf', burst, rem_time')
  <2>10. /\ \A r \in Procs : given[r] \in Int /\ taken[r] \in Int
         /\ Total(given) \in Int
    BY <2>5, <2>7, GivenAddsUp
  <2>11. \A r \in Procs : /\ given[r] = GivenTo(program[r], burst[r], left[r])
                          /\ given2[r] = GivenTo(program[r], burst[r], rem_time'[r])
                          /\ taken[r] = Taken(program[r], q, where[r], burst[r], left[r])
                          /\ taken2[r] = Taken(program[r], q, PlaceOf'[r], burst[r], rem_time'[r])
    BY DEF GivenBy, TakenBy
  <2>. HIDE DEF given, given2, taken, taken2
  <2>12. Total(given2) = Total(given) + t
    <3>1. /\ \A r \in Procs : given[r] \in Int
          /\ given2[p] = given[p] + t /\ t \in Int
      BY <2>3, <2>6, <2>9, <2>10, <2>11
    <3>2. \A r \in Procs : r # p => given2[r] = given[r]
      BY <2>6, <2>11
    <3>. QED BY <2>3, <3>1, <3>2, TotalChanges
  <2>13. Total(taken2) = Total(taken)
    <3>1. \A r \in Procs : taken[r] \in Int /\ taken2[r] = taken[r]
      <4>1. taken2[p] = taken[p]
        BY <2>3, <2>4, <2>6, <2>9, <2>11
      <4>2. \A r \in Procs : r # p => taken2[r] = taken[r]
        BY <2>6, <2>11
      <4>. QED BY <2>10, <4>1, <4>2
    <3>. QED BY <3>1, TotalSame
  <2>14. /\ idle \in Nat /\ places = Total(taken) /\ now = idle + Total(given)
         /\ \A r \in Procs : Right(program[r], q, now, where[r], ends[r], burst[r], left[r], wt[r], tt[r])
    BY <2>4, <2>7 DEF Ledger, given, taken
  <2>15. \A r \in Procs : Right(program[r], q, now, PlaceOf'[r], DueOf'[r], burst[r], rem_time'[r], wt[r], tt[r])
    BY <2>6, <2>9, <2>14
  <2>16. \A r \in Procs : PlaceOf'[r] = "running" => DueOf'[r] = idle + Total(given2)
    BY <2>4, <2>6, <2>9, <2>10, <2>12, <2>14
  <2>17. ~ \A r \in Procs : PlaceOf'[r] # "running"
    BY <2>3, <2>6
  <2>18. Ledger(program, q, now, PlaceOf', DueOf', burst, rem_time', wt, tt, idle, places)
    BY <2>13, <2>14, <2>15, <2>16, <2>17 DEF Ledger, given2, taken2
  <2>. QED BY <2>18 DEF q
<1>. QED BY <1>1, <1>2

-----------------------------------------------------------------------------
(* The turns of the loop.                                                  *)

BooksInv ==
  /\ TurnInv
  /\ Ledger(program, Quanta[round], curr_time, PlaceOf, DueOf, curr_burst, rem_time, waited, tat,
            idle_time, Len(ready_queue))
  /\ tat \in [Procs -> Nat] /\ waited \in [Procs -> Nat]
  /\ \A i \in DOMAIN Quanta : Places(Quanta[i]) <= MAXP

\* Who is in the queue is ready.
LEMMA QueuedIsReady ==
  ASSUME TurnInv, NEW p \in Procs
  PROVE  Queued(p) <=> PlaceOf[p] = "ready"
<1>1. /\ ready_queue \in Seq(Procs) /\ r_frnt \in 0 .. Len(ready_queue)
      /\ PlaceOf[p] = "ready" <=> \E i \in 1 .. Len(ReadyOf) : ReadyOf[i] = p
  BY SameProcs DEF TurnInv, HeapTells, RRInv, RR!CpuInv, RR!QueueIsReady
<1>2. PICK rest, k : rest = ReadyOf /\ k = r_frnt
  OBVIOUS
<1>3. k \in 0 .. Len(ready_queue) /\ rest = SubSeq(ready_queue, k + 1, Len(ready_queue))
  BY <1>1, <1>2 DEF ReadyOf
<1>4. /\ Len(rest) = Len(ready_queue) - k
      /\ \A i \in 1 .. Len(ready_queue) - k : rest[i] = ready_queue[k + i]
  BY <1>1, <1>3, QueueLeft
<1>5. Len(ready_queue) \in Nat
  BY <1>1
<1>6. ASSUME NEW i \in 1 .. Len(rest), rest[i] = p PROVE Queued(p)
  <2>1. k + i \in k + 1 .. Len(ready_queue) /\ ready_queue[k + i] = p
    BY <1>3, <1>4, <1>5, <1>6
  <2>. QED BY <1>2, <2>1 DEF Queued
<1>7. ASSUME NEW i \in k + 1 .. Len(ready_queue), ready_queue[i] = p
      PROVE  \E j \in 1 .. Len(rest) : rest[j] = p
  <2>1. i - k \in 1 .. Len(ready_queue) - k /\ k + (i - k) = i
    BY <1>3, <1>5
  <2>2. rest[i - k] = p
    BY <1>4, <1>7, <2>1
  <2>. QED BY <1>4, <2>1, <2>2
<1>. QED BY <1>1, <1>2, <1>6, <1>7 DEF Queued

\* What the first event does to the clocks.
LEMMA TakeTells ==
  ASSUME TurnInv, idle_time \in Nat, NEW type, Take(type), NEW p, p = eve.process_id
  PROVE  /\ p \in Procs /\ event_heap # <<>> /\ eve.event_type = type
         /\ curr_time' = eve.time /\ eve.time = DueOf[p]
         /\ PlaceOf[p] \in {"new", "running", "waiting"}
         /\ TimePasses(curr_time, DueOf[p], PlaceOf, waited, waited', idle_time, idle_time')
         /\ waited' = [r \in Procs |-> waited'[r]]
<1>1. /\ event_heap # <<>> /\ eve.event_type = type /\ curr_time' = eve.time
      /\ idle_time' = IF run_proc = NONE /\ curr_time < eve.time THEN idle_time + eve.time - curr_time
                                                                 ELSE idle_time
      /\ waited' = [r \in Procs |-> IF Queued(r) THEN waited[r] + eve.time - curr_time ELSE waited[r]]
  BY DEF Take
<1>2. p \in Procs /\ p \in Started(PlaceOf) /\ eve.time = DueOf[p]
  BY <1>1, FirstIsNext
<1>3. PlaceOf[p] \in {"new", "running", "waiting"}
  BY <1>2 DEF Started
<1>4. curr_time \in Nat /\ DueOf[p] \in Nat /\ DueOf[p] >= curr_time
  BY <1>2, <1>3, SameProcs DEF TurnInv, RRInv, RR!TypeOK, RR!CpuInv, RR!NothingIsOverdue, RR!Pending
<1>5. \A r \in Procs : waited'[r] = IF PlaceOf[r] = "ready" THEN waited[r] + DueOf[p] - curr_time
                                                           ELSE waited[r]
  <2>1. \A r \in Procs : Queued(r) <=> PlaceOf[r] = "ready"
    BY QueuedIsReady
  <2>. QED BY <1>1, <1>2, <2>1
<1>6. run_proc = NONE <=> ~ \E r \in Procs : PlaceOf[r] = "running"
  <2>1. NONE \notin Procs
    BY WorkloadAssumption DEF NONE, Procs
  <2>. QED BY <2>1 DEF TurnInv, HeapTells, RunsIn
<1>. QED BY <1>1, <1>2, <1>3, <1>4, <1>5, <1>6 DEF TimePasses

\* What the invariant says of the processes before a turn.
LEMMA BooksTell ==
  ASSUME BooksInv
  PROVE  /\ TurnInv /\ RRInv /\ idle_time \in Nat /\ Quanta[round] \in Nat \ {0} /\ OneRunsIn(PlaceOf)
         /\ \A r \in Procs : program[r] \in Programs
         /\ Ledger(program, Quanta[round], curr_time, PlaceOf, DueOf, curr_burst, rem_time, waited, tat,
                   idle_time, Len(ready_queue))
         /\ PlaceOf \in [Procs -> Stages] /\ DueOf \in [Procs -> Nat] /\ rem_time \in [Procs -> Nat]
         /\ curr_burst \in [Procs -> Nat \ {0}]
         /\ Len(ready_queue) \in Nat
         /\ \A r \in Procs : Right(program[r], Quanta[round], curr_time, PlaceOf[r], DueOf[r],
                                   curr_burst[r], rem_time[r], waited[r], tat[r])
<1>1. TurnInv /\ RRInv /\ ready_queue \in Seq(Procs) /\ PlaceOf \in [Procs -> Stages]
  BY DEF BooksInv, TurnInv, HeapTells, Tells
<1>2. /\ round \in 1 .. Len(Quanta) /\ program \in [Procs -> Programs] /\ DueOf \in [Procs -> Nat]
      /\ rem_time \in [Procs -> Nat] /\ curr_burst \in [Procs -> Nat \ {0}] /\ OneRunsIn(PlaceOf)
  BY <1>1, SameProcs DEF RRInv, RR!TypeOK, RR!CpuInv, RR!OneRuns, OneRunsIn
<1>3. Quanta[round] \in Nat \ {0}
  BY <1>2, WorkloadAssumption
<1>4. Ledger(program, Quanta[round], curr_time, PlaceOf, DueOf, curr_burst, rem_time, waited, tat,
             idle_time, Len(ready_queue))
  BY DEF BooksInv
<1>5. idle_time \in Nat
      /\ \A r \in Procs : Right(program[r], Quanta[round], curr_time, PlaceOf[r], DueOf[r],
                                curr_burst[r], rem_time[r], waited[r], tat[r])
  BY <1>4 DEF Ledger
<1>6. Len(ready_queue) \in Nat
  BY <1>1
<1>. QED BY <1>1, <1>2, <1>3, <1>4, <1>5, <1>6

\* A process joins the queue.
LEMMA EnqueueBalances ==
  ASSUME BooksInv, NEW type \in {"arrival", "io_done", "timeout"}, Take(type),
         NEW run, run = (IF type = "timeout" THEN NONE ELSE run_proc), Enqueue(run)
  PROVE  Ledger(program, Quanta[round], curr_time', PlaceOf', DueOf', curr_burst, rem_time', waited', tat,
                idle_time', Len(ready_queue'))
<1>1. PICK p : p = eve.process_id
  OBVIOUS
<1>2. /\ p \in Procs /\ event_heap # <<>> /\ eve.event_type = type /\ curr_time' = eve.time /\ eve.time = DueOf[p]
      /\ PlaceOf[p] \in {"new", "running", "waiting"}
      /\ TimePasses(curr_time, DueOf[p], PlaceOf, waited, waited', idle_time, idle_time')
  BY <1>1, BooksTell, TakeTells
<1>3. RR!Join(p)
  <2>1. TurnInv /\ eve.event_type \in {"arrival", "io_done", "timeout"}
        /\ run = (IF eve.event_type = "timeout" THEN NONE ELSE run_proc)
    BY <1>2, BooksTell
  <2>. QED BY <1>1, <1>2, <2>1, EnqueueIsJoin
<1>. DEFINE where == [PlaceOf EXCEPT ![p] = "ready"]
            ends  == [DueOf EXCEPT ![p] = 0]
            queue == Append(ReadyOf, p)
<1>4. /\ RR!IsNext(p) /\ (PlaceOf[p] = "running" => rem_time[p] > 0)
      /\ RR!Settle(DueOf[p], where, queue, ends, rem_time)
  BY <1>3 DEF RR!Join, RR!TimesOut
<1>5. Handled(DueOf[p], where, queue, ends, rem_time)
  BY <1>2, <1>4, BooksTell, JoinHandled, SameProcs
<1>6. /\ where[p] = "ready" /\ ends[p] = 0
      /\ \A r \in Procs : r # p => where[r] = PlaceOf[r] /\ ends[r] = DueOf[r]
  BY <1>2, BooksTell
<1>. HIDE DEF where, ends, queue
<1>7. waited'[p] = waited[p]
  BY <1>2 DEF TimePasses
<1>8. Right(program[p], Quanta[round], curr_time, PlaceOf[p], DueOf[p],
            curr_burst[p], rem_time[p], waited[p], tat[p]) /\ program[p] \in Programs
  BY <1>2, BooksTell
<1>9. /\ Right(program[p], Quanta[round], DueOf[p], "ready", 0, curr_burst[p], rem_time[p], waited[p], tat[p])
      /\ Taken(program[p], Quanta[round], "ready", curr_burst[p], rem_time[p])
           = Taken(program[p], Quanta[round], PlaceOf[p], curr_burst[p], rem_time[p]) + 1
  BY <1>2, <1>4, <1>8, BooksTell, JoiningIsRight
<1>10. Ledger(program, Quanta[round], DueOf[p], where, ends, curr_burst, rem_time, waited', tat,
              idle_time', Len(ready_queue) + 1)
  <2>1. OthersStay(p, PlaceOf, DueOf, curr_burst, rem_time, tat, where, ends, curr_burst, rem_time, tat)
    BY <1>6 DEF OthersStay
  <2>2. Right(program[p], Quanta[round], DueOf[p], where[p], ends[p], curr_burst[p], rem_time[p], waited'[p], tat[p])
    BY <1>6, <1>7, <1>9
  <2>3. Taken(program[p], Quanta[round], where[p], curr_burst[p], rem_time[p])
          = Taken(program[p], Quanta[round], PlaceOf[p], curr_burst[p], rem_time[p]) + 1
    BY <1>6, <1>9
  <2>4. where[p] # "running" /\ 1 \in Int
    BY <1>6
  <2>. QED BY <1>2, <2>1, <2>2, <2>3, <2>4, BooksTell, EventIsRight
<1>11. Ledger(program, Quanta[round], DueOf[p], PlaceOf', DueOf', curr_burst, rem_time', waited', tat,
              idle_time', Len(ready_queue) + 1)
  BY <1>4, <1>5, <1>10, BooksTell, DispatchIsRight
<1>12. Len(ready_queue') = Len(ready_queue) + 1
  <2>1. ready_queue' = Append(ready_queue, p) /\ ready_queue \in Seq(Procs)
    BY <1>1 DEF Enqueue, Settle, BooksInv, TurnInv, HeapTells
  <2>. QED BY <1>2, <2>1
<1>. QED BY <1>2, <1>11, <1>12

LEMMA ExitBalances ==
  ASSUME BooksInv, Exit
  PROVE  /\ Ledger(program, Quanta[round], curr_time', PlaceOf', DueOf', curr_burst, rem_time', waited', tat',
                   idle_time', Len(ready_queue'))
         /\ tat' \in [Procs -> Nat]
<1>1. PICK p : p = eve.process_id
  OBVIOUS
<1>0. /\ Take("burst_end") /\ tat' = [tat EXCEPT ![p] = eve.time - program[p].arrival] /\ ready_queue' = ready_queue
  BY <1>1 DEF Exit, Settle
<1>2. /\ p \in Procs /\ event_heap # <<>> /\ eve.event_type = "burst_end" /\ curr_time' = eve.time
      /\ eve.time = DueOf[p]
      /\ TimePasses(curr_time, DueOf[p], PlaceOf, waited, waited', idle_time, idle_time')
  BY <1>0, <1>1, BooksTell, TakeTells
<1>3. RR!Exit(p)
  BY <1>1, <1>2, BooksTell, ExitIsExit
<1>. DEFINE where == [PlaceOf EXCEPT ![p] = "finished"]
            ends  == [DueOf EXCEPT ![p] = 0]
<1>4. /\ RR!BurstEnds(p) /\ curr_burst[p] = Len(program[p].cpu)
      /\ RR!Settle(DueOf[p], where, ReadyOf, ends, rem_time)
  BY <1>3 DEF RR!Exit
<1>5. Handled(DueOf[p], where, ReadyOf, ends, rem_time)
  BY <1>2, <1>4, BooksTell, BurstEndHandled, SameProcs
<1>6. /\ where[p] = "finished" /\ ends[p] = 0
      /\ \A r \in Procs : r # p => where[r] = PlaceOf[r] /\ ends[r] = DueOf[r]
  BY <1>2, BooksTell
<1>. HIDE DEF where, ends
<1>7. PlaceOf[p] = "running" /\ rem_time[p] = 0
  <2>1. rem_time[p] \in Nat
    BY <1>2, BooksTell
  <2>. QED BY <1>4, <2>1 DEF RR!BurstEnds, RR!TimesOut
<1>8. waited'[p] = waited[p]
  BY <1>2, <1>7 DEF TimePasses
<1>9. /\ tat \in [Procs -> Nat] /\ tat'[p] = DueOf[p] - program[p].arrival
      /\ \A r \in Procs : r # p => tat'[r] = tat[r]
  BY <1>0, <1>2 DEF BooksInv
<1>10. Right(program[p], Quanta[round], curr_time, "running", DueOf[p],
             curr_burst[p], rem_time[p], waited[p], tat[p]) /\ program[p] \in Programs
  BY <1>2, <1>7, BooksTell
<1>11. /\ Right(program[p], Quanta[round], DueOf[p], "finished", 0, curr_burst[p], rem_time[p], waited[p],
                DueOf[p] - program[p].arrival)
       /\ Taken(program[p], Quanta[round], "finished", curr_burst[p], rem_time[p])
            = Taken(program[p], Quanta[round], "running", curr_burst[p], rem_time[p])
  BY <1>4, <1>7, <1>10, BooksTell, FinishingIsRight
<1>12. Ledger(program, Quanta[round], DueOf[p], where, ends, curr_burst, rem_time, waited', tat',
              idle_time', Len(ready_queue) + 0)
  <2>1. OthersStay(p, PlaceOf, DueOf, curr_burst, rem_time, tat, where, ends, curr_burst, rem_time, tat')
    BY <1>6, <1>9 DEF OthersStay
  <2>2. Taken(program[p], Quanta[round], "running", curr_burst[p], rem_time[p]) \in Int
    BY <1>10, BooksTell, RightAddsUp
  <2>3. Taken(program[p], Quanta[round], where[p], curr_burst[p], rem_time[p])
          = Taken(program[p], Quanta[round], PlaceOf[p], curr_burst[p], rem_time[p]) + 0
    BY <1>6, <1>7, <1>11, <2>2
  <2>4. Right(program[p], Quanta[round], DueOf[p], where[p], ends[p], curr_burst[p], rem_time[p], waited'[p], tat'[p])
    BY <1>6, <1>8, <1>9, <1>11
  <2>5. where[p] # "running" /\ 0 \in Int
    BY <1>6
  <2>. QED BY <1>2, <2>1, <2>3, <2>4, <2>5, BooksTell, EventIsRight
<1>13. Ledger(program, Quanta[round], DueOf[p], PlaceOf', DueOf', curr_burst, rem_time', waited', tat',
              idle_time', Len(ready_queue))
  <2>1. Len(ready_queue) + 0 = Len(ready_queue)
    BY BooksTell
  <2>. QED BY <1>4, <1>5, <1>12, <2>1, BooksTell, DispatchIsRight
<1>14. DueOf[p] - program[p].arrival \in Nat
  <2>1. /\ curr_burst[p] \in 1 .. Len(program[p].cpu) /\ rem_time[p] = 0 /\ waited[p] \in Nat
        /\ DueOf[p] = Spent(program[p], curr_burst[p], rem_time[p]) + waited[p]
    BY <1>7, <1>10 DEF Right
  <2>2. /\ program[p].arrival \in Nat /\ SumTo(program[p].cpu, curr_burst[p]) \in Nat
        /\ SumTo(program[p].io, curr_burst[p] - 1) \in Nat
    BY <1>10, <2>1, BooksTell, LineAddsUp
  <2>. QED BY <2>1, <2>2 DEF Spent
<1>15. tat' \in [Procs -> Nat]
  BY <1>0, <1>2, <1>9, <1>14
<1>. QED BY <1>0, <1>2, <1>13, <1>15

LEMMA StartIOBalances ==
  ASSUME BooksInv, StartIO
  PROVE  Ledger(program, Quanta[round], curr_time', PlaceOf', DueOf', curr_burst', rem_time', waited', tat,
                idle_time', Len(ready_queue'))
<1>1. PICK p : p = eve.process_id
  OBVIOUS
<1>0. Take("burst_end") /\ ready_queue' = ready_queue
  BY <1>1 DEF StartIO, Settle
<1>2. /\ p \in Procs /\ event_heap # <<>> /\ eve.event_type = "burst_end" /\ curr_time' = eve.time
      /\ eve.time = DueOf[p]
      /\ TimePasses(curr_time, DueOf[p], PlaceOf, waited, waited', idle_time, idle_time')
  BY <1>0, <1>1, BooksTell, TakeTells
<1>3. RR!Wait(p)
  BY <1>1, <1>2, BooksTell, StartIOIsWait
<1>. DEFINE b     == curr_burst[p]
            end   == DueOf[p] + program[p].io[b]
            where == [PlaceOf EXCEPT ![p] = "waiting"]
            ends  == [DueOf EXCEPT ![p] = end]
            rest  == [rem_time EXCEPT ![p] = program[p].cpu[b + 1]]
<1>4. /\ RR!BurstEnds(p) /\ b < Len(program[p].cpu)
      /\ curr_burst' = [curr_burst EXCEPT ![p] = b + 1]
      /\ RR!Settle(DueOf[p], where, ReadyOf, ends, rest)
  <2>1. ends = [DueOf EXCEPT ![p] = @ + program[p].io[b]]
    BY <1>2, BooksTell
  <2>2. curr_burst' = [curr_burst EXCEPT ![p] = b + 1]
    BY <1>2, <1>3, BooksTell DEF RR!Wait
  <2>. HIDE DEF ends
  <2>. QED BY <1>3, <2>1, <2>2 DEF RR!Wait
<1>5. PlaceOf[p] = "running" /\ rem_time[p] = 0
  <2>1. rem_time[p] \in Nat
    BY <1>2, BooksTell
  <2>. QED BY <1>4, <2>1 DEF RR!BurstEnds, RR!TimesOut
<1>6. /\ program[p].io[b] \in Nat /\ program[p].cpu[b + 1] \in Nat /\ DueOf[p] \in Nat
      /\ program[p] \in Programs
  <2>1. program[p] \in Programs /\ b \in Nat \ {0} /\ DueOf[p] \in Nat
    BY <1>2, BooksTell
  <2>2. /\ Len(program[p].cpu) \in Nat /\ Len(program[p].cpu) = Len(program[p].io) + 1
        /\ \A i \in 1 .. Len(program[p].cpu) : program[p].cpu[i] \in Nat
        /\ \A i \in 1 .. Len(program[p].io) : program[p].io[i] \in Nat
    BY <2>1, ProgramIsRight
  <2>3. Len(program[p].io) \in Nat
    BY <2>1, WorkloadAssumption
  <2>4. b \in 1 .. Len(program[p].io) /\ b + 1 \in 1 .. Len(program[p].cpu)
    BY <1>4, <2>1, <2>2, <2>3
  <2>. QED BY <2>1, <2>2, <2>4
<1>7. /\ where[p] = "waiting" /\ ends[p] = end /\ rest[p] = program[p].cpu[b + 1] /\ curr_burst'[p] = b + 1
      /\ \A r \in Procs : r # p => /\ where[r] = PlaceOf[r] /\ ends[r] = DueOf[r]
                                   /\ rest[r] = rem_time[r] /\ curr_burst'[r] = curr_burst[r]
      /\ rest \in [Procs -> Nat]
  BY <1>2, <1>4, <1>6, BooksTell
<1>8. end \in Nat /\ end >= DueOf[p]
  BY <1>6
<1>. HIDE DEF end, where, ends, rest
<1>9. Handled(DueOf[p], where, ReadyOf, ends, rest)
  BY <1>2, <1>4, <1>7, <1>8, BooksTell, BurstEndHandled, SameProcs DEF where, ends
<1>10. waited'[p] = waited[p]
  BY <1>2, <1>5 DEF TimePasses
<1>11. Right(program[p], Quanta[round], curr_time, "running", DueOf[p], b, rem_time[p], waited[p], tat[p])
  BY <1>2, <1>5, BooksTell
<1>12. /\ Right(program[p], Quanta[round], DueOf[p], "waiting", end, b + 1, program[p].cpu[b + 1], waited[p], tat[p])
       /\ Taken(program[p], Quanta[round], "waiting", b + 1, program[p].cpu[b + 1])
            = Taken(program[p], Quanta[round], "running", b, rem_time[p])
       /\ GivenTo(program[p], b + 1, program[p].cpu[b + 1]) = GivenTo(program[p], b, rem_time[p])
  BY <1>4, <1>5, <1>6, <1>11, BooksTell, WaitingIsRight DEF end
<1>. HIDE DEF b
<1>13. Ledger(program, Quanta[round], DueOf[p], where, ends, curr_burst', rest, waited', tat,
              idle_time', Len(ready_queue) + 0)
  <2>1. OthersStay(p, PlaceOf, DueOf, curr_burst, rem_time, tat, where, ends, curr_burst', rest, tat)
    BY <1>7 DEF OthersStay
  <2>2. Taken(program[p], Quanta[round], "running", b, rem_time[p]) \in Int
    BY <1>6, <1>11, BooksTell, RightAddsUp
  <2>3. Taken(program[p], Quanta[round], where[p], curr_burst'[p], rest[p])
          = Taken(program[p], Quanta[round], PlaceOf[p], curr_burst[p], rem_time[p]) + 0
    BY <1>5, <1>7, <1>12, <2>2 DEF b
  <2>4. GivenTo(program[p], curr_burst'[p], rest[p]) = GivenTo(program[p], curr_burst[p], rem_time[p])
    BY <1>7, <1>12 DEF b
  <2>5. Right(program[p], Quanta[round], DueOf[p], where[p], ends[p], curr_burst'[p], rest[p], waited'[p], tat[p])
    BY <1>7, <1>10, <1>12
  <2>6. where[p] # "running" /\ 0 \in Int
    BY <1>7
  <2>. QED BY <1>2, <2>1, <2>3, <2>4, <2>5, <2>6, BooksTell, EventIsRight
<1>14. Ledger(program, Quanta[round], DueOf[p], PlaceOf', DueOf', curr_burst', rem_time', waited', tat,
              idle_time', Len(ready_queue))
  <2>1. Len(ready_queue) + 0 = Len(ready_queue)
    BY BooksTell
  <2>. QED BY <1>4, <1>9, <1>13, <2>1, BooksTell, DispatchIsRight
<1>. QED BY <1>0, <1>2, <1>14

-----------------------------------------------------------------------------
(* The invariant.                                                          *)

\* At the beginning of a round nothing has been spent.
LEMMA NewLineIsRight ==
  ASSUME NEW line, NEW q, NEW tt, line \in Programs, q \in Nat \ {0}
  PROVE  /\ Right(line, q, 0, "new", line.arrival, 1, line.cpu[1], 0, tt)
         /\ Taken(line, q, "new", 1, line.cpu[1]) = 0
         /\ GivenTo(line, 1, line.cpu[1]) = 0
<1>1. 1 \in 1 .. Len(line.cpu)
  <2>1. Len(line.cpu) \in Nat /\ Len(line.cpu) >= 1
    BY ProgramIsRight
  <2>. QED BY <2>1
<1>2. line.arrival \in Nat /\ line.cpu[1] \in Nat \ {0} /\ SumTo(line.cpu, 1) = SumTo(line.cpu, 1 - 1) + line.cpu[1]
  BY <1>1, LineAddsUp
<1>3. /\ 1 - 1 = 0 /\ SumTo(line.cpu, 0) = 0 /\ SumTo(line.io, 0) = 0
      /\ SumTo(PortionsOf(line, q), 0) = 0
  BY SumToUnfold
<1>4. SumTo(line.cpu, 1) = line.cpu[1]
  BY <1>2, <1>3
<1>5. Slices(0, q) = 0
  <2>1. q * 0 + 0 = 0 /\ 0 \in 0 .. q
    OBVIOUS
  <2>2. Slices(q * 0 + 0, q) = 0
    BY <2>1, PartOfSlice
  <2>. QED BY <2>1, <2>2
<1>6. line.cpu[1] - line.cpu[1] = 0 /\ line.cpu[1] \in 0 .. line.cpu[1]
  BY <1>2
<1>7. Taken(line, q, "new", 1, line.cpu[1]) = 0
  BY <1>3, <1>5, <1>6 DEF Taken
<1>8. GivenTo(line, 1, line.cpu[1]) = 0
  BY <1>4, <1>6 DEF GivenTo
<1>9. Spent(line, 1, line.cpu[1]) = line.arrival
  BY <1>2, <1>3, <1>4 DEF Spent
<1>10. Right(line, q, 0, "new", line.arrival, 1, line.cpu[1], 0, tt)
  <2>1. line.arrival = Spent(line, 1, line.cpu[1]) + 0
    BY <1>2, <1>9
  <2>2. line.cpu[1] - line.cpu[1] = q * 0 /\ 0 \in Nat
    BY <1>6
  <2>. QED BY <1>1, <1>6, <2>1, <2>2 DEF Right
<1>. QED BY <1>7, <1>8, <1>10

LEMMA RoundBalances ==
  ASSUME program \in [Procs -> Programs], NEW q, q \in Nat \ {0}, NEW tt
  PROVE  Ledger(program, q, 0, AllNew, Firsts, ForAll(1), FirstBursts, ForAll(0), tt, 0, 0)
<1>1. \A p \in Procs : /\ AllNew[p] = "new" /\ Firsts[p] = program[p].arrival /\ ForAll(1)[p] = 1
                       /\ FirstBursts[p] = program[p].cpu[1] /\ ForAll(0)[p] = 0
  BY DEF AllNew, Firsts, ForAll, FirstBursts
<1>2. \A p \in Procs : /\ Right(program[p], q, 0, "new", program[p].arrival, 1, program[p].cpu[1], 0, tt[p])
                       /\ Taken(program[p], q, "new", 1, program[p].cpu[1]) = 0
                       /\ GivenTo(program[p], 1, program[p].cpu[1]) = 0
  BY NewLineIsRight
<1>3. PICK f, g : f = GivenBy(program, ForAll(1), FirstBursts) /\ g = TakenBy(program, q, AllNew, ForAll(1), FirstBursts)
  OBVIOUS
<1>4. \A p \in Procs : f[p] = 0 /\ g[p] = 0
  <2>1. \A p \in Procs : /\ f[p] = GivenTo(program[p], ForAll(1)[p], FirstBursts[p])
                         /\ g[p] = Taken(program[p], q, AllNew[p], ForAll(1)[p], FirstBursts[p])
    BY <1>3 DEF GivenBy, TakenBy
  <2>. QED BY <1>1, <1>2, <2>1
<1>5. Total(f) = 0 /\ Total(g) = 0
  BY <1>4, TotalOfNothing
<1>6. \A p \in Procs : Right(program[p], q, 0, AllNew[p], Firsts[p], ForAll(1)[p], FirstBursts[p], ForAll(0)[p], tt[p])
  BY <1>1, <1>2
<1>7. \A p \in Procs : AllNew[p] # "running"
  BY <1>1
<1>8. 0 = 0 + 0 /\ 0 \in Nat
  OBVIOUS
<1>. QED BY <1>3, <1>5, <1>6, <1>7, <1>8 DEF Ledger

LEMMA BooksInitInv == Init => BooksInv
<1>. SUFFICES ASSUME Init PROVE BooksInv
  OBVIOUS
<1>1. /\ program \in [Procs -> Programs] /\ round = 1 /\ curr_time = 0 /\ idle_time = 0
      /\ event_heap = Arrivals /\ ready_queue = <<>> /\ r_frnt = 0 /\ run_proc = NONE
      /\ curr_burst = ForAll(1) /\ rem_time = FirstBursts /\ state = ForAll("READY")
      /\ tat = ForAll(0) /\ waited = ForAll(0)
      /\ \A i \in DOMAIN Quanta : Places(Quanta[i]) <= MAXP
  BY DEF Init
<1>2. /\ Holds(Arrivals, EndsOf(AllNew, Firsts, FirstBursts))
      /\ Tells(EndsOf(AllNew, Firsts, FirstBursts), AllNew, Firsts, FirstBursts, ForAll("READY"))
      /\ RunsIn(AllNew, NONE)
  BY <1>1, RoundBegins
<1>3. ToSet(event_heap) = EndsOf(AllNew, Firsts, FirstBursts)
  BY <1>1, <1>2, HoldsIsSet
<1>4. PlaceOf = AllNew /\ DueOf = Firsts
  BY <1>1, <1>2, <1>3, RoundIsNew
<1>5. TurnInv
  BY TurnInitInv
<1>6. Quanta[round] \in Nat \ {0}
  <2>1. round \in 1 .. Len(Quanta)
    BY <1>5 DEF TurnInv, RRInv, RR!TypeOK
  <2>. QED BY <2>1, WorkloadAssumption
<1>7. Ledger(program, Quanta[round], 0, AllNew, Firsts, ForAll(1), FirstBursts, ForAll(0), tat, 0, 0)
  BY <1>1, <1>6, RoundBalances
<1>8. Len(ready_queue) = 0
  BY <1>1
<1>9. ForAll(0) \in [Procs -> Nat]
  BY DEF ForAll
<1>. QED BY <1>1, <1>4, <1>5, <1>7, <1>8, <1>9 DEF BooksInv

LEMMA NextRoundBalances ==
  ASSUME BooksInv, NextRound
  PROVE  BooksInv'
<1>1. /\ round' = round + 1 /\ round < Len(Quanta) /\ ready_queue' = <<>>
      /\ curr_time' = 0 /\ idle_time' = 0 /\ curr_burst' = ForAll(1) /\ rem_time' = FirstBursts
      /\ waited' = ForAll(0) /\ program' = program /\ tat' = tat
  BY DEF NextRound
<1>2. TurnInv'
  BY TurnNextInv DEF BooksInv, Next
<1>3. RR!StartOfRound(round + 1)
  BY NextRoundIsNextRound DEF BooksInv, RR!NextRound
<1>4. PlaceOf' = AllNew /\ DueOf' = Firsts
  BY <1>3, SameProcs DEF RR!StartOfRound, AllNew, Firsts
<1>5. program \in [Procs -> Programs] /\ round + 1 \in 1 .. Len(Quanta)
  BY <1>1, SameProcs DEF BooksInv, TurnInv, RRInv, RR!TypeOK
<1>6. Quanta[round'] \in Nat \ {0}
  BY <1>1, <1>5, WorkloadAssumption
<1>7. Ledger(program, Quanta[round'], 0, AllNew, Firsts, ForAll(1), FirstBursts, ForAll(0), tat, 0, 0)
  BY <1>5, <1>6, RoundBalances
<1>8. Len(ready_queue') = 0
  BY <1>1
<1>9. ForAll(0) \in [Procs -> Nat]
  BY DEF ForAll
<1>10. Ledger(program', Quanta[round'], curr_time', PlaceOf', DueOf', curr_burst', rem_time', waited', tat',
              idle_time', Len(ready_queue'))
  BY <1>1, <1>4, <1>7, <1>8
<1>11. tat' \in [Procs -> Nat] /\ waited' \in [Procs -> Nat]
  BY <1>1, <1>9 DEF BooksInv
<1>12. (\A i \in DOMAIN Quanta : Places(Quanta[i]) <= MAXP)'
  <2>1. \A i \in DOMAIN Quanta : Places(Quanta[i]) <= MAXP
    BY DEF BooksInv
  <2>. QED BY <1>1, <2>1 DEF Places, Portions
<1>. QED BY <1>2, <1>10, <1>11, <1>12 DEF BooksInv

\* A turn that leaves the program and the round alone.
LEMMA TurnBalances ==
  ASSUME BooksInv, [Next]_vars, UNCHANGED <<program, round>>, tat' \in [Procs -> Nat], NEW type, Take(type),
         Ledger(program, Quanta[round], curr_time', PlaceOf', DueOf', curr_burst', rem_time', waited', tat',
                idle_time', Len(ready_queue'))
  PROVE  BooksInv'
<1>1. TurnInv'
  BY TurnNextInv DEF BooksInv
<1>2. PICK p : p = eve.process_id
  OBVIOUS
<1>3. /\ TimePasses(curr_time, DueOf[p], PlaceOf, waited, waited', idle_time, idle_time')
      /\ waited' = [r \in Procs |-> waited'[r]] /\ p \in Procs
  BY <1>2, BooksTell, TakeTells
<1>4. waited' \in [Procs -> Nat]
  <2>1. \A r \in Procs : waited'[r] \in Nat
    <3>1. \A r \in Procs : waited[r] \in Nat
      BY DEF BooksInv
    <3>2. DueOf[p] \in Nat
      BY <1>3, BooksTell
    <3>. QED BY <1>3, <3>1, <3>2 DEF TimePasses
  <2>2. PICK f : f = waited'
    OBVIOUS
  <2>. QED BY <1>3, <2>1, <2>2
<1>5. (\A i \in DOMAIN Quanta : Places(Quanta[i]) <= MAXP)'
  <2>1. \A i \in DOMAIN Quanta : Places(Quanta[i]) <= MAXP
    BY DEF BooksInv
  <2>. QED BY <2>1 DEF Places, Portions
<1>6. Ledger(program', Quanta[round'], curr_time', PlaceOf', DueOf', curr_burst', rem_time', waited', tat',
             idle_time', Len(ready_queue'))
  OBVIOUS
<1>. QED BY <1>1, <1>4, <1>5, <1>6 DEF BooksInv

LEMMA BooksNextInv == BooksInv /\ [Next]_vars => BooksInv'
<1>. SUFFICES ASSUME BooksInv, [Next]_vars PROVE BooksInv'
  OBVIOUS
<1>0. tat \in [Procs -> Nat]
  BY DEF BooksInv
<1>1. CASE NextRound
  BY <1>1, NextRoundBalances
<1>2. ASSUME NEW type \in {"arrival", "io_done", "timeout"}, Take(type),
             NEW run, run = (IF type = "timeout" THEN NONE ELSE run_proc), Enqueue(run)
      PROVE  BooksInv'
  <2>1. UNCHANGED <<program, round, curr_burst, tat>>
    BY <1>2 DEF Enqueue
  <2>2. Ledger(program, Quanta[round], curr_time', PlaceOf', DueOf', curr_burst, rem_time', waited', tat,
               idle_time', Len(ready_queue'))
    BY <1>2, EnqueueBalances
  <2>3. Ledger(program, Quanta[round], curr_time', PlaceOf', DueOf', curr_burst', rem_time', waited', tat',
               idle_time', Len(ready_queue'))
    BY <2>1, <2>2
  <2>. QED BY <1>0, <1>2, <2>1, <2>3, TurnBalances
<1>3. CASE Arrival
  BY <1>2, <1>3 DEF Arrival
<1>4. CASE IoDone
  BY <1>2, <1>4 DEF IoDone
<1>5. CASE Timeout
  BY <1>2, <1>5 DEF Timeout
<1>6. CASE Exit
  <2>1. UNCHANGED <<program, round, curr_burst>> /\ Take("burst_end")
    BY <1>6 DEF Exit
  <2>2. /\ Ledger(program, Quanta[round], curr_time', PlaceOf', DueOf', curr_burst, rem_time', waited', tat',
                  idle_time', Len(ready_queue'))
        /\ tat' \in [Procs -> Nat]
    BY <1>6, ExitBalances
  <2>3. Ledger(program, Quanta[round], curr_time', PlaceOf', DueOf', curr_burst', rem_time', waited', tat',
               idle_time', Len(ready_queue'))
    BY <2>1, <2>2
  <2>. QED BY <2>1, <2>2, <2>3, TurnBalances
<1>7. CASE StartIO
  <2>1. UNCHANGED <<program, round, tat>> /\ Take("burst_end")
    BY <1>7 DEF StartIO
  <2>2. Ledger(program, Quanta[round], curr_time', PlaceOf', DueOf', curr_burst', rem_time', waited', tat,
               idle_time', Len(ready_queue'))
    BY <1>7, StartIOBalances
  <2>3. Ledger(program, Quanta[round], curr_time', PlaceOf', DueOf', curr_burst', rem_time', waited', tat',
               idle_time', Len(ready_queue'))
    BY <2>1, <2>2
  <2>. QED BY <1>0, <2>1, <2>3, TurnBalances
<1>8. CASE UNCHANGED vars
  <2>1. /\ UNCHANGED <<program, round, event_heap, ready_queue, r_frnt, run_proc,
                       curr_time, idle_time, curr_burst, rem_time, tat, state, waited>>
    BY <1>8 DEF vars, clocks, procs
  <2>2. PlaceOf' = PlaceOf /\ DueOf' = DueOf
    BY <2>1 DEF PlaceOf, DueOf, EventOf
  <2>3. TurnInv'
    BY TurnNextInv DEF BooksInv
  <2>4. (\A i \in DOMAIN Quanta : Places(Quanta[i]) <= MAXP)'
    BY <2>1 DEF Places, Portions, BooksInv
  <2>5. Ledger(program', Quanta[round'], curr_time', PlaceOf', DueOf', curr_burst', rem_time', waited', tat',
               idle_time', Len(ready_queue'))
    BY <2>1, <2>2 DEF BooksInv
  <2>6. tat' \in [Procs -> Nat] /\ waited' \in [Procs -> Nat]
    BY <2>1 DEF BooksInv
  <2>. QED BY <2>3, <2>4, <2>5, <2>6 DEF BooksInv
<1>. QED BY <1>1, <1>3, <1>4, <1>5, <1>6, <1>7, <1>8 DEF Next

-----------------------------------------------------------------------------
(* What the books show.                                                    *)

LEMMA BooksAreTyped == BooksInv => TypeOK
<1>. SUFFICES ASSUME BooksInv PROVE TypeOK
  OBVIOUS
<1>1. /\ program \in [Procs -> Programs] /\ round \in 1 .. Len(Quanta) /\ curr_time \in Nat
      /\ rem_time \in [Procs -> Nat] /\ curr_burst \in [Procs -> Nat \ {0}]
      /\ OneRunsIn(PlaceOf) /\ PlaceOf \in [Procs -> Stages] /\ DueOf \in [Procs -> Nat]
  BY BooksTell, SameProcs DEF BooksInv, TurnInv, RRInv, RR!TypeOK
<1>2. /\ Holds(event_heap, ToSet(event_heap)) /\ ToSet(event_heap) = EndsOf(PlaceOf, DueOf, rem_time)
      /\ run_proc \in Procs \cup {NONE} /\ ready_queue \in Seq(Procs) /\ r_frnt \in 0 .. Len(ready_queue)
      /\ state = [p \in Procs |-> StateOf(PlaceOf[p])]
  BY DEF BooksInv, TurnInv, HeapTells, Tells, RunsIn
<1>3. event_heap \in Seq(Events)
  <2>1. ToSet(event_heap) \subseteq Events
    <3>1. Orderly(EndsOf(PlaceOf, DueOf, rem_time))
      BY <1>1, EndsAreOrderly
    <3>. QED BY <1>2, <3>1 DEF Orderly
  <2>2. event_heap \in Seq(ToSet(event_heap))
    BY <1>2, HoldsIsSet
  <2>. QED BY <2>1, <2>2
<1>4. DOMAIN Quanta = 1 .. Len(Quanta)
  BY WorkloadAssumption
<1>5. idle_time \in Nat /\ tat \in [Procs -> Nat] /\ waited \in [Procs -> Nat]
  BY BooksTell DEF BooksInv
<1>6. state \in [Procs -> {"READY", "RUNNING", "WAITING", "FINISHED"}]
  <2>1. \A p \in Procs : StateOf(PlaceOf[p]) \in {"READY", "RUNNING", "WAITING", "FINISHED"}
    BY <1>1 DEF StateOf, Stages
  <2>. QED BY <1>2, <2>1
<1>7. \A p \in Procs : curr_burst[p] \in DOMAIN program[p].cpu
  <2>. SUFFICES ASSUME NEW p \in Procs PROVE curr_burst[p] \in DOMAIN program[p].cpu
    OBVIOUS
  <2>1. curr_burst[p] \in 1 .. Len(program[p].cpu) /\ program[p] \in Programs
    BY BooksTell DEF Right
  <2>2. program[p] \in [arrival : Nat, cpu : Seq(Nat \ {0}), io : Seq(Nat \ {0})]
    BY <2>1, WorkloadAssumption
  <2>3. program[p].cpu \in Seq(Nat \ {0})
    BY <2>2
  <2>. QED BY <2>1, <2>3
<1>. QED BY <1>1, <1>2, <1>3, <1>4, <1>5, <1>6, <1>7 DEF TypeOK, Events

LEMMA MaxOfTwo ==
  ASSUME NEW a \in Nat, NEW b \in Nat, a <= b
  PROVE  Max({a, b}) = b
<1>1. b \in {a, b} /\ \A y \in {a, b} : b >= y
  OBVIOUS
<1>2. \A x \in {a, b} : (\A y \in {a, b} : x >= y) => x = b
  OBVIOUS
<1>3. (CHOOSE x \in {a, b} : \A y \in {a, b} : x >= y) = b
  BY <1>1, <1>2
<1>. QED BY <1>3 DEF Max

\* The end of the present slice is when the running process is due.
LEMMA SliceEndsThen ==
  ASSUME BooksInv
  PROVE  /\ \A p \in Procs : PlaceOf[p] = "running" => SliceEnds = DueOf[p]
         /\ (\A p \in Procs : PlaceOf[p] # "running") => SliceEnds = curr_time
<1>. DEFINE Cpu   == {x \in ToSet(event_heap) : x.event_type \in {"burst_end", "timeout"}}
            Times == {curr_time} \cup {e.time : e \in Cpu}
<1>1. /\ ToSet(event_heap) = {EndOf(p, PlaceOf, DueOf, rem_time) : p \in Started(PlaceOf)}
      /\ PlaceOf \in [Procs -> Stages] /\ DueOf \in [Procs -> Nat] /\ curr_time \in Nat
      /\ \A p \in Procs : PlaceOf[p] = "running" => DueOf[p] >= curr_time
      /\ OneRunsIn(PlaceOf)
  <2>1. TurnInv /\ OneRunsIn(PlaceOf)
    BY BooksTell
  <2>2. ToSet(event_heap) = EndsOf(PlaceOf, DueOf, rem_time)
        /\ PlaceOf \in [Procs -> Stages] /\ DueOf \in [Procs -> Nat]
    BY <2>1 DEF TurnInv, HeapTells, Tells
  <2>3. curr_time \in Nat /\ \A p \in Procs : PlaceOf[p] = "running" => DueOf[p] >= curr_time
    BY <2>1, SameProcs DEF TurnInv, RRInv, RR!TypeOK, RR!CpuInv, RR!NothingIsOverdue, RR!Pending
  <2>. QED BY <2>1, <2>2, <2>3 DEF EndsOf
<1>2. \A p \in Started(PlaceOf) :
        /\ EndOf(p, PlaceOf, DueOf, rem_time).time = DueOf[p] /\ p \in Procs
        /\ EndOf(p, PlaceOf, DueOf, rem_time).event_type \in {"burst_end", "timeout"} <=> PlaceOf[p] = "running"
  <2>. SUFFICES ASSUME NEW p \in Started(PlaceOf)
                PROVE  /\ EndOf(p, PlaceOf, DueOf, rem_time).time = DueOf[p] /\ p \in Procs
                       /\ EndOf(p, PlaceOf, DueOf, rem_time).event_type \in {"burst_end", "timeout"}
                            <=> PlaceOf[p] = "running"
    OBVIOUS
  <2>1. p \in Procs /\ PlaceOf[p] \in {"new", "running", "waiting"}
    BY SameProcs DEF Started
  <2>2. /\ EndOf(p, PlaceOf, DueOf, rem_time).time = DueOf[p]
        /\ EndOf(p, PlaceOf, DueOf, rem_time).event_type = KindOf(PlaceOf[p], rem_time[p])
    BY DEF EndOf, Event
  <2>3. KindOf(PlaceOf[p], rem_time[p]) \in {"burst_end", "timeout"} <=> PlaceOf[p] = "running"
    BY <2>1 DEF KindOf
  <2>. QED BY <2>1, <2>2, <2>3
<1>3. SliceEnds = Max(Times)
  BY DEF SliceEnds
<1>4. \A p \in Procs : PlaceOf[p] = "running" => p \in Started(PlaceOf)
  BY SameProcs DEF Started
<1>5. ASSUME NEW p \in Procs, PlaceOf[p] = "running" PROVE SliceEnds = DueOf[p]
  <2>1. EndOf(p, PlaceOf, DueOf, rem_time) \in Cpu
    BY <1>1, <1>2, <1>4, <1>5
  <2>2. \A e \in Cpu : e = EndOf(p, PlaceOf, DueOf, rem_time)
    BY <1>1, <1>2, <1>5 DEF OneRunsIn
  <2>3. Cpu = {EndOf(p, PlaceOf, DueOf, rem_time)}
    BY <2>1, <2>2, Zenon
  <2>4. EndOf(p, PlaceOf, DueOf, rem_time).time = DueOf[p]
    BY <1>2, <1>4, <1>5
  <2>. HIDE DEF Cpu
  <2>5. Times = {curr_time, DueOf[p]}
    BY <2>3, <2>4
  <2>6. DueOf[p] \in Nat /\ curr_time <= DueOf[p]
    BY <1>1, <1>5
  <2>. QED BY <1>1, <1>3, <2>5, <2>6, MaxOfTwo
<1>6. ASSUME \A p \in Procs : PlaceOf[p] # "running" PROVE SliceEnds = curr_time
  <2>1. Cpu = {}
    BY <1>1, <1>2, <1>6
  <2>. HIDE DEF Cpu
  <2>2. Times = {curr_time, curr_time}
    BY <2>1
  <2>3. curr_time <= curr_time
    BY <1>1
  <2>. QED BY <1>1, <1>3, <2>2, <2>3, MaxOfTwo
<1>. QED BY <1>5, <1>6

LEMMA BooksAreAccounted == BooksInv => TimeIsAccounted
<1>. SUFFICES ASSUME BooksInv PROVE TimeIsAccounted
  OBVIOUS
<1>1. SliceEnds = idle_time + Total([p \in Procs |-> Given(p)])
  <2>1. GivenBy(program, curr_burst, rem_time) = [p \in Procs |-> Given(p)]
    BY DEF GivenBy, GivenTo, Given
  <2>2. /\ \A p \in Procs : PlaceOf[p] = "running"
             => DueOf[p] = idle_time + Total(GivenBy(program, curr_burst, rem_time))
        /\ (\A p \in Procs : PlaceOf[p] # "running")
             => curr_time = idle_time + Total(GivenBy(program, curr_burst, rem_time))
    BY DEF BooksInv, Ledger
  <2>3. /\ \A p \in Procs : PlaceOf[p] = "running" => SliceEnds = DueOf[p]
        /\ (\A p \in Procs : PlaceOf[p] # "running") => SliceEnds = curr_time
    BY SliceEndsThen
  <2>. QED BY <2>1, <2>2, <2>3
<1>2. ASSUME NEW p \in Procs, state[p] = "FINISHED"
      PROVE  tat[p] - Sum(program[p].cpu) - Sum(program[p].io) = waited[p]
  <2>1. PlaceOf[p] = "finished"
    BY <1>2 DEF PlaceOf
  <2>2. /\ program[p] \in Programs
        /\ curr_burst[p] \in 1 .. Len(program[p].cpu) /\ waited[p] \in Nat
        /\ tat[p] = Spent(program[p], curr_burst[p], rem_time[p]) + waited[p] - program[p].arrival
        /\ curr_burst[p] = Len(program[p].cpu) /\ rem_time[p] = 0
    BY <2>1, BooksTell DEF Right
  <2>3. /\ program[p].arrival \in Nat /\ Len(program[p].io) = Len(program[p].cpu) - 1
        /\ SumTo(program[p].cpu, curr_burst[p]) \in Nat /\ SumTo(program[p].io, curr_burst[p] - 1) \in Nat
    BY <2>2, BooksTell, LineAddsUp
  <2>4. /\ Sum(program[p].cpu) = SumTo(program[p].cpu, curr_burst[p])
        /\ Sum(program[p].io) = SumTo(program[p].io, curr_burst[p] - 1)
    BY <2>2, <2>3 DEF Sum
  <2>. QED BY <2>2, <2>3, <2>4 DEF Spent
<1>. QED BY <1>1, <1>2 DEF TimeIsAccounted

LEMMA TakenAtMost ==
  ASSUME NEW line, NEW q, NEW now, NEW stage, NEW end, NEW b, NEW rest, NEW wt, NEW tt,
         line \in Programs, q \in Nat \ {0}, Right(line, q, now, stage, end, b, rest, wt, tt)
  PROVE  /\ Taken(line, q, stage, b, rest) <= Sum(PortionsOf(line, q))
         /\ Sum(PortionsOf(line, q)) \in Int
         /\ stage = "finished" => Taken(line, q, stage, b, rest) = Sum(PortionsOf(line, q))
<1>1. b \in 1 .. Len(line.cpu) /\ rest \in 0 .. line.cpu[b]
  BY DEF Right
<1>2. PICK x, y, z : /\ x = SumTo(PortionsOf(line, q), b - 1) /\ y = Slices(line.cpu[b], q)
                     /\ z = Sum(PortionsOf(line, q))
  OBVIOUS
<1>3. /\ x \in Nat /\ SumTo(PortionsOf(line, q), b) = x + y /\ SumTo(PortionsOf(line, q), b) <= z
      /\ line.cpu[b] \in Nat
  BY <1>1, <1>2, LineAddsUp
<1>4. PICK u : u = line.cpu[b] - rest
  OBVIOUS
<1>5. u \in Nat /\ u <= line.cpu[b] /\ (rest = 0 => u = line.cpu[b])
  BY <1>1, <1>3, <1>4
<1>6. Slices(u, q) \in Nat /\ y \in Nat /\ Slices(u, q) <= y
  BY <1>2, <1>3, <1>5, SlicesGrow
<1>7. Len(PortionsOf(line, q)) = Len(line.cpu)
  <2>1. line.cpu \in Seq(Nat \ {0})
    <3>1. line \in [arrival : Nat, cpu : Seq(Nat \ {0}), io : Seq(Nat \ {0})]
      BY WorkloadAssumption
    <3>. QED BY <3>1
  <2>2. PICK n : n = Len(line.cpu) /\ n \in Nat /\ DOMAIN line.cpu = 1 .. n
    BY <2>1
  <2>3. PICK s, T : s = PortionsOf(line, q) /\ T = {Slices(line.cpu[i], q) : i \in 1 .. n}
    OBVIOUS
  <2>4. s \in [1 .. n -> T]
    BY <2>2, <2>3 DEF PortionsOf
  <2>5. s \in Seq(T)
    BY <2>2, <2>4
  <2>6. Len(s) = n
    BY <2>2, <2>4, <2>5
  <2>. QED BY <2>2, <2>3, <2>6
<1>8. \E m : m \in Nat /\ m = z
  <2>1. PICK c : c = Len(line.cpu)
    OBVIOUS
  <2>2. c \in 1 .. Len(line.cpu)
    BY <1>1, <2>1, LineAddsUp
  <2>3. /\ SumTo(PortionsOf(line, q), c - 1) \in Nat
        /\ SumTo(PortionsOf(line, q), c) = SumTo(PortionsOf(line, q), c - 1) + Slices(line.cpu[c], q)
        /\ line.cpu[c] \in Nat
    BY <2>2, LineAddsUp
  <2>4. Slices(line.cpu[c], q) \in Nat
    BY <2>3, SlicesAreNat
  <2>. QED BY <1>2, <1>7, <2>1, <2>3, <2>4 DEF Sum
<1>9. z \in Nat
  BY <1>8
<1>10. Taken(line, q, stage, b, rest) = x + Slices(u, q) + (IF stage = "ready" THEN 1 ELSE 0)
  BY <1>2, <1>4 DEF Taken
<1>11. stage = "ready" => Slices(u, q) + 1 <= y
  <2>. SUFFICES ASSUME stage = "ready" PROVE Slices(u, q) + 1 <= y
    OBVIOUS
  <2>1. rest > 0
    BY DEF Right
  <2>2. PICK m \in Nat : line.cpu[b] - rest = q * m
    BY <2>1 DEF Right
  <2>3. PICK t : t = (IF rest < q THEN rest ELSE q)
    OBVIOUS
  <2>4. t \in 1 .. q /\ t \in 0 .. q /\ t <= rest /\ t # 0 /\ 0 \in 0 .. q
    BY <1>1, <1>3, <2>1, <2>3
  <2>5. q * m \in Nat /\ u = q * m + 0 /\ q * m + t \in Nat /\ q * m + t <= line.cpu[b]
    BY <1>1, <1>3, <1>4, <2>2, <2>4
  <2>6. Slices(q * m + t, q) = m + 1 /\ Slices(q * m + 0, q) = m
    BY <2>4, PartOfSlice
  <2>7. Slices(q * m + t, q) <= y
    BY <1>2, <1>3, <2>5, SlicesGrow
  <2>. QED BY <2>5, <2>6, <2>7
<1>12. Taken(line, q, stage, b, rest) <= z
  BY <1>3, <1>6, <1>9, <1>10, <1>11
<1>13. stage = "finished" => Taken(line, q, stage, b, rest) = z
  <2>. SUFFICES ASSUME stage = "finished" PROVE Taken(line, q, stage, b, rest) = z
    OBVIOUS
  <2>1. b = Len(line.cpu) /\ rest = 0
    BY DEF Right
  <2>2. z = x + y
    BY <1>2, <1>3, <1>7, <2>1 DEF Sum
  <2>3. Slices(u, q) = y
    BY <1>2, <1>5, <2>1
  <2>. QED BY <1>3, <1>6, <1>10, <2>2, <2>3
<1>. QED BY <1>2, <1>9, <1>12, <1>13

LEMMA BooksFit == BooksInv => ReadyQueueFits
<1>. SUFFICES ASSUME BooksInv PROVE ReadyQueueFits
  OBVIOUS
<1>1. PICK q : q = Quanta[round]
  OBVIOUS
<1>2. q \in Nat \ {0} /\ Len(ready_queue) \in Nat
  BY <1>1, BooksTell
<1>3. PICK f, g : /\ f = TakenBy(program, q, PlaceOf, curr_burst, rem_time)
                  /\ g = [p \in Procs |-> Sum(Portions(p, q))]
  OBVIOUS
<1>4. Len(ready_queue) = Total(f) /\ Places(q) = Total(g)
  BY <1>1, <1>3 DEF BooksInv, Ledger, Places
<1>5. \A p \in Procs : /\ f[p] \in Int /\ g[p] \in Int /\ f[p] <= g[p]
                       /\ PlaceOf[p] = "finished" => g[p] = f[p]
  <2>. SUFFICES ASSUME NEW p \in Procs
                PROVE  /\ f[p] \in Int /\ g[p] \in Int /\ f[p] <= g[p]
                       /\ PlaceOf[p] = "finished" => g[p] = f[p]
    OBVIOUS
  <2>1. /\ Right(program[p], q, curr_time, PlaceOf[p], DueOf[p], curr_burst[p], rem_time[p], waited[p], tat[p])
        /\ program[p] \in Programs
    BY <1>1, BooksTell
  <2>2. f[p] = Taken(program[p], q, PlaceOf[p], curr_burst[p], rem_time[p])
    BY <1>3 DEF TakenBy
  <2>3. g[p] = Sum(PortionsOf(program[p], q))
    BY <1>3 DEF Portions, PortionsOf
  <2>4. f[p] \in Int
    BY <1>2, <2>1, <2>2, RightAddsUp
  <2>5. f[p] <= g[p] /\ g[p] \in Int /\ (PlaceOf[p] = "finished" => f[p] = g[p])
    BY <1>2, <2>1, <2>2, <2>3, TakenAtMost
  <2>. QED BY <2>4, <2>5
<1>6. Total(f) \in Int /\ Total(g) \in Int /\ Total(f) <= Total(g)
  BY <1>5, TotalAtMost
<1>7. Total(g) <= MAXP
  <2>1. \A i \in DOMAIN Quanta : Places(Quanta[i]) <= MAXP
    BY DEF BooksInv
  <2>2. round \in DOMAIN Quanta
    BY BooksAreTyped DEF TypeOK
  <2>. QED BY <1>1, <1>4, <2>1, <2>2
<1>8. Len(ready_queue) <= MAXP
  BY <1>4, <1>6, <1>7, SchedulerAssumption
<1>9. ASSUME event_heap = <<>> PROVE Len(ready_queue) = Places(q)
  <2>1. TurnInv /\ PlaceOf \in [Procs -> Stages]
    BY BooksTell
  <2>2. Started(PlaceOf) = {}
    <3>1. ToSet(event_heap) = {}
      BY <1>9, <2>1, HoldsIsSet DEF TurnInv, HeapTells
    <3>2. EndsOf(PlaceOf, DueOf, rem_time) = {}
      BY <2>1, <3>1 DEF TurnInv, HeapTells, Tells
    <3>. QED BY <3>2 DEF EndsOf
  <2>3. \A p \in Procs : PlaceOf[p] \notin {"new", "running", "waiting"}
    BY <2>2, SameProcs DEF Started
  <2>4. \A p \in Procs : PlaceOf[p] # "ready"
    <3>1. ReadyOf = <<>>
      BY <2>1, <2>3, SameProcs DEF TurnInv, RRInv, RR!CpuInv, RR!WorkConserving
    <3>2. \A i \in 1 .. Len(ReadyOf) : FALSE
      BY <3>1
    <3>. QED BY <2>1, <3>2, SameProcs DEF TurnInv, RRInv, RR!CpuInv, RR!QueueIsReady
  <2>5. \A p \in Procs : PlaceOf[p] = "finished"
    BY <2>1, <2>3, <2>4 DEF Stages
  <2>6. \A p \in Procs : f[p] \in Int /\ g[p] = f[p]
    BY <1>5, <2>5
  <2>. QED BY <1>4, <2>6, TotalSame
<1>. QED BY <1>1, <1>8, <1>9 DEF ReadyQueueFits

(***************************************************************************)
(* Type correctness of the simulation (schedule.c, lines 19-125).          *)
(***************************************************************************)
THEOREM SchedulerTypes == Spec => []TypeOK
BY BooksAreTyped, BooksInitInv, BooksNextInv, PTL DEF Spec

(***************************************************************************)
(* Idle time and the CPU time given out make up the clock, and the waiting *)
(* time that is printed for a process is the time it was in ready_queue    *)
(* (schedule.c, lines 195-199, 218-224, 268-283).                          *)
(***************************************************************************)
THEOREM TimesAreRight == Spec => []TimeIsAccounted
BY BooksAreAccounted, BooksInitInv, BooksNextInv, PTL DEF Spec

(***************************************************************************)
(* ready_queue stays within its array if all bursts together make no more  *)
(* than MAXP slices, and in the end has taken just as many places as there *)
(* are slices (schedule.c, lines 113-117).                                 *)
(***************************************************************************)
THEOREM TheQueueFits == Spec => []ReadyQueueFits
BY BooksFit, BooksInitInv, BooksNextInv, PTL DEF Spec
==============================================================================
