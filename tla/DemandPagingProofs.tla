------------------------- MODULE DemandPagingProofs -------------------------
(***************************************************************************)
(* Proofs about DemandPaging, for any number of processes, searches and    *)
(* frames and any sizes of arrays: the binary search is right however      *)
(* often it is started again, no process is lost between the two queues,   *)
(* no frame between the tables and the free ones, and the last process     *)
(* that is active is not swapped out.                                      *)
(*                                                                         *)
(* ProcessInOnePlace and FramesPartition count places; the invariants that *)
(* are inductive say which there are.                                      *)
(***************************************************************************)
EXTENDS DemandPaging, FiniteSetTheorems, TLAPS

In(q, p) == \E i \in 1 .. Len(q) : q[i] = p

Distinct(q) == \A i, j \in 1 .. Len(q) : q[i] = q[j] => i = j

Shape ==
  /\ ready_queue \in Seq(Procs) /\ swapped_queue \in Seq(Procs)
  /\ curr_search_cnt \in [Procs -> 0 .. m]
  /\ search_idx \in [Procs -> Int] /\ \A p \in Procs : search_idx[p] \in Indices(p)
  /\ running \in Procs \cup {NONE} /\ L \in Nat /\ R \in Int
  /\ active_processes \in Int

PlaceInv ==
  /\ Distinct(ready_queue) /\ Distinct(swapped_queue)
  /\ \A p \in Procs : ~(In(ready_queue, p) /\ In(swapped_queue, p))
  /\ ~In(ready_queue, running) /\ ~In(swapped_queue, running)
  /\ \A p \in Procs : curr_search_cnt[p] < m <=>
       In(ready_queue, p) \/ In(swapped_queue, p) \/ running = p
  /\ active_processes = Len(ready_queue) + (IF running = NONE THEN 0 ELSE 1)

IInv == Shape /\ PlaceInv /\ SearchIsRight

-----------------------------------------------------------------------------
LEMMA NoneIsNoProcess == NONE \notin Procs
BY PagingAssumption DEF NONE, Procs

\* What is in a queue after one is added at the end.
LEMMA AddLast ==
  ASSUME NEW S, NEW q \in Seq(S), NEW p \in S
  PROVE  /\ Append(q, p) \in Seq(S) /\ Len(Append(q, p)) = Len(q) + 1
         /\ \A x : In(Append(q, p), x) <=> In(q, x) \/ x = p
         /\ Distinct(q) /\ ~In(q, p) => Distinct(Append(q, p))
<1>1. /\ Append(q, p) \in Seq(S) /\ Len(q) \in Nat /\ Len(Append(q, p)) = Len(q) + 1
      /\ Append(q, p)[Len(q) + 1] = p
      /\ \A i \in 1 .. Len(q) : Append(q, p)[i] = q[i]
  OBVIOUS
<1>2. \A i \in 1 .. Len(q) + 1 : i \in 1 .. Len(q) \/ i = Len(q) + 1
  BY <1>1
<1>3. Len(q) + 1 \in 1 .. Len(q) + 1 /\ \A i \in 1 .. Len(q) : i \in 1 .. Len(q) + 1
  BY <1>1
<1>. HIDE DEF In
<1>4. \A x : In(Append(q, p), x) <=> In(q, x) \/ x = p
  BY <1>1, <1>2, <1>3 DEF In
<1>5. Distinct(q) /\ ~In(q, p) => Distinct(Append(q, p))
  BY <1>1, <1>2 DEF In, Distinct
<1>. QED BY <1>1, <1>4, <1>5

\* What is in a queue after the first is taken.
LEMMA TakeFirst ==
  ASSUME NEW S, NEW q \in Seq(S), q # <<>>, Distinct(q)
  PROVE  /\ Head(q) \in S /\ In(q, Head(q))
         /\ Tail(q) \in Seq(S) /\ Len(Tail(q)) = Len(q) - 1
         /\ \A x : In(Tail(q), x) <=> In(q, x) /\ x # Head(q)
         /\ Distinct(Tail(q))
<1>1. /\ Tail(q) \in Seq(S) /\ Len(q) \in Nat /\ Len(q) >= 1 /\ Len(Tail(q)) = Len(q) - 1
      /\ Head(q) = q[1] /\ q[1] \in S
      /\ \A i \in 1 .. Len(q) - 1 : Tail(q)[i] = q[i + 1]
  OBVIOUS
<1>2. In(q, Head(q))
  <2>1. 1 \in 1 .. Len(q)
    BY <1>1
  <2>. QED BY <1>1, <2>1 DEF In
<1>3. Distinct(Tail(q))
  <2>. SUFFICES ASSUME NEW i \in 1 .. Len(q) - 1, NEW j \in 1 .. Len(q) - 1,
                       Tail(q)[i] = Tail(q)[j]
                PROVE  i = j
    BY <1>1 DEF Distinct
  <2>1. q[i + 1] = q[j + 1] /\ i + 1 \in 1 .. Len(q) /\ j + 1 \in 1 .. Len(q)
    BY <1>1
  <2>2. i + 1 = j + 1
    BY <2>1 DEF Distinct
  <2>. QED BY <2>2
<1>4. ASSUME NEW x, In(Tail(q), x) PROVE In(q, x) /\ x # Head(q)
  <2>1. PICK i \in 1 .. Len(q) - 1 : q[i + 1] = x
    BY <1>1, <1>4 DEF In
  <2>2. i + 1 \in 1 .. Len(q) /\ 1 \in 1 .. Len(q) /\ i + 1 # 1
    BY <1>1
  <2>. QED BY <1>1, <2>1, <2>2 DEF In, Distinct
<1>5. ASSUME NEW x, In(q, x), x # Head(q) PROVE In(Tail(q), x)
  <2>1. PICK i \in 1 .. Len(q) : q[i] = x
    BY <1>5 DEF In
  <2>2. i # 1
    BY <1>1, <1>5, <2>1
  <2>3. i - 1 \in 1 .. Len(q) - 1 /\ Tail(q)[i - 1] = q[(i - 1) + 1]
    BY <1>1, <2>2
  <2>. QED BY <1>1, <2>1, <2>3 DEF In
<1>. QED BY <1>1, <1>2, <1>3, <1>4, <1>5

\* What is in two queues put one behind the other.
LEMMA Join ==
  ASSUME NEW S, NEW q \in Seq(S), NEW r \in Seq(S), Distinct(q), Distinct(r),
         \A x : ~(In(q, x) /\ In(r, x))
  PROVE  /\ q \o r \in Seq(S) /\ Distinct(q \o r)
         /\ \A x : In(q \o r, x) <=> In(q, x) \/ In(r, x)
<1>1. /\ q \o r \in Seq(S) /\ Len(q) \in Nat /\ Len(r) \in Nat
      /\ Len(q \o r) = Len(q) + Len(r)
      /\ \A i \in 1 .. Len(q) : (q \o r)[i] = q[i]
      /\ \A i \in 1 .. Len(r) : (q \o r)[Len(q) + i] = r[i]
  OBVIOUS
<1>2. \A i \in 1 .. Len(q \o r) :
        \/ i \in 1 .. Len(q) /\ (q \o r)[i] = q[i]
        \/ i - Len(q) \in 1 .. Len(r) /\ (q \o r)[i] = r[i - Len(q)]
  <2>1. ASSUME NEW i \in 1 .. Len(q \o r), i \notin 1 .. Len(q)
        PROVE  i - Len(q) \in 1 .. Len(r) /\ (q \o r)[i] = r[i - Len(q)]
    <3>1. i - Len(q) \in 1 .. Len(r) /\ i = Len(q) + (i - Len(q))
      BY <1>1, <2>1
    <3>2. (q \o r)[Len(q) + (i - Len(q))] = r[i - Len(q)]
      BY <1>1, <3>1
    <3>. QED BY <3>1, <3>2
  <2>. QED BY <1>1, <2>1
<1>3. \A i \in 1 .. Len(q) : i \in 1 .. Len(q \o r)
  BY <1>1
<1>4. \A i \in 1 .. Len(r) : Len(q) + i \in 1 .. Len(q \o r)
  BY <1>1
<1>5. ASSUME NEW x PROVE In(q \o r, x) <=> In(q, x) \/ In(r, x)
  BY <1>1, <1>2, <1>3, <1>4 DEF In
<1>6. Distinct(q \o r)
  <2>. SUFFICES ASSUME NEW i \in 1 .. Len(q \o r), NEW j \in 1 .. Len(q \o r),
                       (q \o r)[i] = (q \o r)[j]
                PROVE  i = j
    BY DEF Distinct
  <2>1. CASE i \in 1 .. Len(q) /\ j \in 1 .. Len(q)
    BY <1>1, <2>1 DEF Distinct
  <2>2. CASE i - Len(q) \in 1 .. Len(r) /\ j - Len(q) \in 1 .. Len(r)
    <3>1. r[i - Len(q)] = r[j - Len(q)]
      BY <1>1, <1>2, <2>2
    <3>2. i - Len(q) = j - Len(q)
      BY <2>2, <3>1 DEF Distinct
    <3>. QED BY <1>1, <3>2
  <2>3. CASE i \in 1 .. Len(q) /\ j - Len(q) \in 1 .. Len(r)
    <3>1. q[i] = r[j - Len(q)]
      BY <1>1, <1>2, <2>3
    <3>2. In(q, q[i]) /\ In(r, q[i])
      BY <2>3, <3>1 DEF In
    <3>. QED BY <3>2
  <2>4. CASE i - Len(q) \in 1 .. Len(r) /\ j \in 1 .. Len(q)
    <3>1. q[j] = r[i - Len(q)]
      BY <1>1, <1>2, <2>4
    <3>2. In(q, q[j]) /\ In(r, q[j])
      BY <2>4, <3>1 DEF In
    <3>. QED BY <3>2
  <2>. QED BY <1>2, <2>1, <2>2, <2>3, <2>4
<1>. QED BY <1>1, <1>5, <1>6

\* InOrder lists every member of a finite set of numbers once.
LEMMA InOrderLists ==
  ASSUME NEW S \in SUBSET Nat, IsFiniteSet(S)
  PROVE  /\ Cardinality(S) \in Nat /\ DOMAIN InOrder(S) = 1 .. Cardinality(S)
         /\ \A x \in 1 .. Cardinality(S) : InOrder(S)[x] \in S
         /\ \A x, y \in 1 .. Cardinality(S) : InOrder(S)[x] = InOrder(S)[y] => x = y
         /\ \A g \in S : \E x \in 1 .. Cardinality(S) : InOrder(S)[x] = g
<1>. DEFINE upTo(g) == {h \in S : h <= g}
            rank == [g \in S |-> Cardinality(upTo(g))]
            c == Cardinality(S)
<1>1. c \in Nat /\ IsFiniteSet(1 .. c) /\ Cardinality(1 .. c) = c
  BY FS_CardinalityType, FS_Interval
<1>2. ASSUME NEW g \in S
      PROVE  /\ IsFiniteSet(upTo(g)) /\ rank[g] \in 1 .. c
  <2>1. IsFiniteSet(upTo(g)) /\ Cardinality(upTo(g)) <= c
    BY FS_Subset
  <2>2. g \in upTo(g)
    OBVIOUS
  <2>. HIDE DEF upTo, c
  <2>3. Cardinality(upTo(g)) \in Nat /\ Cardinality(upTo(g)) # 0
    BY <2>1, <2>2, FS_CardinalityType, FS_EmptySet
  <2>. QED BY <1>1, <2>1, <2>3
<1>3. ASSUME NEW g \in S, NEW h \in S, g < h PROVE rank[g] < rank[h]
  <2>1. upTo(g) \subseteq upTo(h) /\ h \in upTo(h) /\ h \notin upTo(g)
    <3>1. g \in Nat /\ h \in Nat /\ \A k \in S : k \in Nat
      OBVIOUS
    <3>2. h <= h /\ ~(h <= g) /\ \A k \in S : k <= g => k <= h
      BY <1>3, <3>1
    <3>. QED BY <3>2
  <2>. HIDE DEF upTo, c
  <2>2. /\ Cardinality(upTo(g)) <= Cardinality(upTo(h))
        /\ Cardinality(upTo(g)) # Cardinality(upTo(h))
    BY <1>2, <2>1, FS_Subset
  <2>3. rank[g] \in Nat /\ rank[h] \in Nat
    BY <1>1, <1>2
  <2>. QED BY <2>2, <2>3
<1>. HIDE DEF upTo, c
<1>4. rank \in Injection(S, 1 .. c)
  <2>1. rank \in [S -> 1 .. c]
    BY <1>2
  <2>2. ASSUME NEW g \in S, NEW h \in S, rank[g] = rank[h] PROVE g = h
    <3>1. ~(g < h) /\ ~(h < g)
      BY <1>1, <1>2, <1>3, <2>2
    <3>. QED BY <3>1
  <2>. QED BY <2>1, <2>2 DEF Injection, IsInjective
<1>5. \A x \in 1 .. c : \E g \in S : rank[g] = x
  <2>1. rank \in Surjection(S, 1 .. c)
    BY <1>1, <1>4, FS_Injection DEF c
  <2>. QED BY <2>1 DEF Surjection
<1>6. \A g \in S : rank[g] = Cardinality({h \in S : h <= g})
  BY DEF upTo
<1>. HIDE DEF rank
<1>7. ASSUME NEW x \in 1 .. c PROVE InOrder(S)[x] \in S /\ rank[InOrder(S)[x]] = x
  <2>1. \E g \in S : Cardinality({h \in S : h <= g}) = x
    BY <1>5, <1>6
  <2>2. InOrder(S)[x] = CHOOSE g \in S : Cardinality({h \in S : h <= g}) = x
    BY DEF InOrder, c
  <2>3. /\ InOrder(S)[x] \in S
        /\ Cardinality({h \in S : h <= InOrder(S)[x]}) = x
    BY <2>1, <2>2, Zenon
  <2>. QED BY <1>6, <2>3
<1>8. ASSUME NEW g \in S PROVE InOrder(S)[rank[g]] = g
  <2>1. rank[g] \in 1 .. c
    BY <1>2
  <2>2. /\ InOrder(S)[rank[g]] \in S
        /\ rank[InOrder(S)[rank[g]]] = rank[g]
    BY <1>7, <2>1
  <2>. QED BY <1>4, <2>2 DEF Injection, IsInjective
<1>9. DOMAIN InOrder(S) = 1 .. c
  BY DEF InOrder, c
<1>10. ASSUME NEW x \in 1 .. c, NEW y \in 1 .. c, InOrder(S)[x] = InOrder(S)[y] PROVE x = y
  BY <1>7, <1>10
<1>11. \A g \in S : \E x \in 1 .. c : InOrder(S)[x] = g
  BY <1>2, <1>8
<1>. QED BY <1>1, <1>7, <1>9, <1>10, <1>11 DEF c

\* The bounds close in on an element between them.
LEMMA NarrowKeeps ==
  ASSUME Shape, SearchIsRight, running # NONE, L < R, Narrow
  PROVE  /\ L' \in Nat /\ R' \in Int
         /\ search_idx[running] \in L' .. R' /\ (L' >= R' => L' = search_idx[running])
<1>1. search_idx[running] \in L .. R /\ search_idx[running] \in Int /\ L \in Nat /\ R \in Int
  BY DEF Shape, SearchIsRight
<1>2. Mid \in Nat /\ L <= Mid /\ Mid < R
  BY <1>1 DEF Mid
<1>3. CASE search_idx[running] <= Mid
  BY <1>1, <1>2, <1>3 DEF Narrow
<1>4. CASE ~(search_idx[running] <= Mid)
  BY <1>1, <1>2, <1>4 DEF Narrow
<1>. QED BY <1>3, <1>4

-----------------------------------------------------------------------------
LEMMA InitInv == Init => IInv
<1>. SUFFICES ASSUME Init PROVE IInv
  OBVIOUS
<1>1. /\ n \in Nat /\ m \in Nat /\ m > 0
      /\ ready_queue = [x \in 1 .. n |-> x - 1] /\ ready_queue \in Seq(Procs)
      /\ Len(ready_queue) = n /\ swapped_queue = <<>> /\ Len(swapped_queue) = 0
      /\ swapped_queue \in Seq(Procs)
  <2>1. n \in Nat /\ m \in Nat /\ m > 0
    BY PagingAssumption
  <2>2. ready_queue = [x \in 1 .. n |-> x - 1] /\ swapped_queue = <<>>
    BY DEF Init
  <2>3. \A x \in 1 .. n : x - 1 \in Procs
    BY <2>1 DEF Procs
  <2>4. ready_queue \in [1 .. n -> Procs]
    BY <2>2, <2>3
  <2>5. ready_queue \in Seq(Procs) /\ Len(ready_queue) = n
    BY <2>1, <2>2, <2>4
  <2>6. swapped_queue \in Seq(Procs) /\ Len(swapped_queue) = 0
    BY <2>2
  <2>. QED BY <2>1, <2>2, <2>5, <2>6
<1>2. Shape
  <2>1. \A p \in Procs : search_idx[p] \in Indices(p) /\ search_idx[p] \in Int
    BY PagingAssumption DEF Init, Indices
  <2>2. search_idx \in [Procs -> Int]
    BY <2>1 DEF Init
  <2>. QED BY <1>1, <2>1, <2>2 DEF Init, Shape
<1>3. \A p \in Procs : In(ready_queue, p)
  <2>. SUFFICES ASSUME NEW p \in Procs PROVE In(ready_queue, p)
    OBVIOUS
  <2>1. p + 1 \in 1 .. n /\ (p + 1) - 1 = p
    BY <1>1 DEF Procs
  <2>. QED BY <1>1, <2>1 DEF In
<1>4. ~In(ready_queue, NONE) /\ \A p : ~In(swapped_queue, p)
  BY <1>1 DEF In, NONE
<1>5. Distinct(ready_queue) /\ Distinct(swapped_queue)
  BY <1>1 DEF Distinct
<1>6. PlaceInv
  <2>1. running = NONE /\ active_processes = n /\ \A p \in Procs : curr_search_cnt[p] = 0
    BY DEF Init
  <2>. QED BY <1>1, <1>3, <1>4, <1>5, <2>1 DEF PlaceInv
<1>7. SearchIsRight
  BY DEF Init, SearchIsRight
<1>. QED BY <1>2, <1>6, <1>7 DEF IInv

LEMMA DispatchStep ==
  ASSUME IInv, Dispatch
  PROVE  IInv'
<1>0. Shape /\ PlaceInv
  BY DEF IInv
<1>1. /\ running = NONE /\ ready_queue # <<>> /\ running' = Head(ready_queue)
      /\ ready_queue' = Tail(ready_queue) /\ L' = 0 /\ R' = s[Head(ready_queue)] - 1
      /\ UNCHANGED <<swapped_queue, curr_search_cnt, search_idx, active_processes>>
  BY DEF Dispatch, stats
<1>2. /\ running' \in Procs /\ In(ready_queue, running')
      /\ ready_queue' \in Seq(Procs) /\ Len(ready_queue') = Len(ready_queue) - 1
      /\ \A x : In(ready_queue', x) <=> In(ready_queue, x) /\ x # running'
      /\ Distinct(ready_queue')
  BY <1>0, <1>1, TakeFirst DEF Shape, PlaceInv
<1>3. s[running'] \in Nat \ {0} /\ search_idx[running'] \in 0 .. s[running'] - 1
  BY <1>0, <1>2, PagingAssumption DEF Shape, Indices
<1>4. Shape'
  <2>1. R' \in Int
    BY <1>1, <1>2, <1>3
  <2>. QED BY <1>0, <1>1, <1>2, <2>1, SMTT(30) DEF Shape, Indices
<1>5. SearchIsRight'
  BY <1>1, <1>3 DEF SearchIsRight
<1>6. PlaceInv'
  <2>1. Len(ready_queue) \in Nat
    BY <1>0 DEF Shape
  <2>2. active_processes' = Len(ready_queue') + (IF running' = NONE THEN 0 ELSE 1)
    BY <1>0, <1>1, <1>2, <2>1, NoneIsNoProcess DEF PlaceInv
  <2>. HIDE DEF In, Distinct
  <2>3. ~In(swapped_queue, running')
    BY <1>0, <1>2 DEF PlaceInv
  <2>. QED BY <1>0, <1>1, <1>2, <2>2, <2>3, NoneIsNoProcess DEF PlaceInv
<1>. QED BY <1>4, <1>5, <1>6 DEF IInv

\* A turn of the loop in BS that goes on with the search.
LEMMA TurnStep ==
  ASSUME IInv, Hit \/ Load
  PROVE  IInv'
<1>0. Shape /\ PlaceInv /\ SearchIsRight
  BY DEF IInv
<1>1. /\ running # NONE /\ L < R /\ Narrow
      /\ UNCHANGED <<ready_queue, swapped_queue, curr_search_cnt, search_idx, running,
                     active_processes>>
  BY DEF Hit, Load, stats
<1>2. /\ L' \in Nat /\ R' \in Int
      /\ search_idx[running] \in L' .. R' /\ (L' >= R' => L' = search_idx[running])
  BY <1>0, <1>1, NarrowKeeps
<1>3. Shape'
  BY <1>0, <1>1, <1>2 DEF Shape, Indices
<1>4. PlaceInv'
  BY <1>0, <1>1 DEF PlaceInv, In, Distinct
<1>. QED BY <1>1, <1>2, <1>3, <1>4 DEF IInv, SearchIsRight

LEMMA SwapOutStep ==
  ASSUME IInv, SwapOut
  PROVE  IInv'
<1>0. Shape /\ PlaceInv
  BY DEF IInv
<1>1. /\ running # NONE /\ running \in Procs /\ running' = NONE /\ L' = 0 /\ R' = 0
      /\ active_processes' = active_processes - 1
      /\ swapped_queue' = Append(swapped_queue, running)
      /\ UNCHANGED <<ready_queue, curr_search_cnt, search_idx>>
  BY <1>0 DEF SwapOut, Shape
<1>2. /\ swapped_queue' \in Seq(Procs) /\ Distinct(swapped_queue')
      /\ \A x : In(swapped_queue', x) <=> In(swapped_queue, x) \/ x = running
  BY <1>0, <1>1, AddLast DEF Shape, PlaceInv
<1>3. Shape'
  BY <1>0, <1>1, <1>2 DEF Shape, Indices
<1>4. PlaceInv'
  <2>1. \A q \in Seq(Procs) : ~In(q, NONE)
    BY NoneIsNoProcess DEF In
  <2>2. Len(ready_queue) \in Nat
    BY <1>0 DEF Shape
  <2>. HIDE DEF In, Distinct
  <2>3. ~In(ready_queue, NONE) /\ ~In(swapped_queue', NONE)
    BY <1>0, <1>2, <2>1 DEF Shape
  <2>4. active_processes' = Len(ready_queue) + 0
    BY <1>0, <1>1, <2>2 DEF PlaceInv, Shape
  <2>. QED BY <1>0, <1>1, <1>2, <2>3, <2>4, NoneIsNoProcess DEF PlaceInv
<1>. QED BY <1>1, <1>3, <1>4 DEF IInv, SearchIsRight

LEMMA NextSearchStep ==
  ASSUME IInv, NextSearch
  PROVE  IInv'
<1>0. Shape /\ PlaceInv
  BY DEF IInv
<1>1. /\ running # NONE /\ running \in Procs /\ running' = NONE /\ L' = 0 /\ R' = 0
      /\ curr_search_cnt[running] + 1 # m
      /\ curr_search_cnt' = [curr_search_cnt EXCEPT ![running] = @ + 1]
      /\ \E k \in Indices(running) : search_idx' = [search_idx EXCEPT ![running] = k]
      /\ ready_queue' = Append(ready_queue, running)
      /\ UNCHANGED <<swapped_queue, active_processes>>
  BY <1>0 DEF NextSearch, Found, Shape, stats
<1>2. /\ ready_queue' \in Seq(Procs) /\ Distinct(ready_queue')
      /\ Len(ready_queue') = Len(ready_queue) + 1
      /\ \A x : In(ready_queue', x) <=> In(ready_queue, x) \/ x = running
  BY <1>0, <1>1, AddLast DEF Shape, PlaceInv
<1>3. /\ curr_search_cnt' \in [Procs -> 0 .. m] /\ curr_search_cnt'[running] < m
      /\ \A p \in Procs \ {running} : curr_search_cnt'[p] = curr_search_cnt[p]
  <2>1. curr_search_cnt[running] \in 0 .. m /\ curr_search_cnt[running] < m /\ m \in Nat
    BY <1>0, <1>1, PagingAssumption DEF Shape, PlaceInv
  <2>2. curr_search_cnt[running] + 1 \in 0 .. m /\ curr_search_cnt[running] + 1 < m
    BY <1>1, <2>1
  <2>. QED BY <1>0, <1>1, <2>2 DEF Shape
<1>4. search_idx' \in [Procs -> Int] /\ \A p \in Procs : search_idx'[p] \in Indices(p)
  <2>1. Indices(running) \subseteq Int
    BY <1>1, PagingAssumption DEF Indices
  <2>. QED BY <1>0, <1>1, <2>1 DEF Shape
<1>5. Shape'
  BY <1>0, <1>1, <1>2, <1>3, <1>4 DEF Shape, Indices
<1>6. PlaceInv'
  <2>1. \A q \in Seq(Procs) : ~In(q, NONE)
    BY NoneIsNoProcess DEF In
  <2>2. Len(ready_queue) \in Nat
    BY <1>0 DEF Shape
  <2>. HIDE DEF In, Distinct
  <2>3. ~In(ready_queue', NONE) /\ ~In(swapped_queue, NONE)
    BY <1>0, <1>2, <2>1 DEF Shape
  <2>4. active_processes' = Len(ready_queue') + 0
    BY <1>0, <1>1, <1>2, <2>2 DEF PlaceInv, Shape
  <2>. QED BY <1>0, <1>1, <1>2, <1>3, <2>3, <2>4, NoneIsNoProcess DEF PlaceInv
<1>. QED BY <1>1, <1>5, <1>6 DEF IInv, SearchIsRight

LEMMA FinishStep ==
  ASSUME IInv, Finish
  PROVE  IInv'
<1>0. Shape /\ PlaceInv
  BY DEF IInv
<1>1. /\ running # NONE /\ running \in Procs /\ running' = NONE /\ L' = 0 /\ R' = 0
      /\ curr_search_cnt[running] + 1 = m
      /\ curr_search_cnt' = [curr_search_cnt EXCEPT ![running] = @ + 1]
      /\ UNCHANGED search_idx
      /\ \/ /\ swapped_queue = <<>> /\ active_processes' = active_processes - 1
            /\ UNCHANGED <<ready_queue, swapped_queue>>
         \/ /\ swapped_queue # <<>> /\ active_processes' = active_processes
            /\ ready_queue' = Append(ready_queue, Head(swapped_queue))
            /\ swapped_queue' = Tail(swapped_queue)
  BY <1>0 DEF Finish, Found, Shape
<1>2. /\ curr_search_cnt' \in [Procs -> 0 .. m] /\ ~(curr_search_cnt'[running] < m)
      /\ \A p \in Procs \ {running} : curr_search_cnt'[p] = curr_search_cnt[p]
  <2>1. m \in Nat /\ m \in 0 .. m
    BY PagingAssumption
  <2>. QED BY <1>0, <1>1, <2>1 DEF Shape
<1>3. \A q \in Seq(Procs) : ~In(q, NONE)
  BY NoneIsNoProcess DEF In
<1>4. Len(ready_queue) \in Nat
  BY <1>0 DEF Shape
<1>5. CASE swapped_queue = <<>> /\ active_processes' = active_processes - 1
           /\ UNCHANGED <<ready_queue, swapped_queue>>
  <2>1. Shape'
    BY <1>0, <1>1, <1>2, <1>5 DEF Shape, Indices
  <2>. HIDE DEF In, Distinct
  <2>2. active_processes' = Len(ready_queue') + 0
    BY <1>0, <1>1, <1>4, <1>5 DEF PlaceInv, Shape
  <2>3. PlaceInv'
    BY <1>0, <1>1, <1>2, <1>3, <1>5, <2>2, NoneIsNoProcess DEF PlaceInv, Shape
  <2>. QED BY <1>1, <2>1, <2>3 DEF IInv, SearchIsRight
<1>6. CASE /\ swapped_queue # <<>> /\ active_processes' = active_processes
           /\ ready_queue' = Append(ready_queue, Head(swapped_queue))
           /\ swapped_queue' = Tail(swapped_queue)
  <2>. DEFINE h == Head(swapped_queue)
  <2>1. /\ h \in Procs /\ In(swapped_queue, h) /\ swapped_queue' \in Seq(Procs)
        /\ \A x : In(swapped_queue', x) <=> In(swapped_queue, x) /\ x # h
        /\ Distinct(swapped_queue')
    BY <1>0, <1>6, TakeFirst DEF Shape, PlaceInv
  <2>2. ~In(ready_queue, h)
    BY <1>0, <2>1 DEF PlaceInv
  <2>3. /\ ready_queue' \in Seq(Procs) /\ Distinct(ready_queue')
        /\ Len(ready_queue') = Len(ready_queue) + 1
        /\ \A x : In(ready_queue', x) <=> In(ready_queue, x) \/ x = h
    BY <1>0, <1>6, <2>1, <2>2, AddLast DEF Shape, PlaceInv
  <2>. HIDE DEF h, In, Distinct
  <2>4. Shape'
    BY <1>0, <1>1, <1>2, <1>6, <2>1, <2>3 DEF Shape, Indices
  <2>5. active_processes' = Len(ready_queue') + 0
    BY <1>0, <1>1, <1>4, <1>6, <2>3 DEF PlaceInv, Shape
  <2>6. ~In(ready_queue', NONE) /\ ~In(swapped_queue', NONE)
    BY <1>3, <2>1, <2>3
  <2>7. \A p \in Procs : ~(In(ready_queue', p) /\ In(swapped_queue', p))
    BY <1>0, <2>1, <2>3 DEF PlaceInv
  <2>8. \A p \in Procs : curr_search_cnt'[p] < m <=> In(ready_queue', p) \/ In(swapped_queue', p)
    <3>. SUFFICES ASSUME NEW p \in Procs
                  PROVE  curr_search_cnt'[p] < m <=> In(ready_queue', p) \/ In(swapped_queue', p)
      OBVIOUS
    <3>1. CASE p = running
      BY <1>0, <1>2, <2>1, <2>3, <3>1 DEF PlaceInv
    <3>2. CASE p # running
      BY <1>0, <1>2, <2>1, <2>3, <3>2 DEF PlaceInv
    <3>. QED BY <3>1, <3>2
  <2>9. PlaceInv'
    BY <1>1, <2>1, <2>3, <2>5, <2>6, <2>7, <2>8, NoneIsNoProcess DEF PlaceInv
  <2>. QED BY <1>1, <2>4, <2>9 DEF IInv, SearchIsRight
<1>. QED BY <1>1, <1>5, <1>6

LEMMA NextInv == IInv /\ [Next]_vars => IInv'
<1>. SUFFICES ASSUME IInv, [Next]_vars PROVE IInv'
  OBVIOUS
<1>1. CASE UNCHANGED vars
  BY <1>1 DEF vars, search, stats, IInv, Shape, Indices, PlaceInv, In, Distinct, SearchIsRight
<1>2. CASE Spin
  BY <1>1, <1>2 DEF Spin
<1>. QED BY <1>1, <1>2, DispatchStep, TurnStep, SwapOutStep, NextSearchStep, FinishStep DEF Next

(***************************************************************************)
(* The bounds of the search always hold what it looks for, and it ends     *)
(* there, for arrays of any size and however often it has been given up    *)
(* and started again (demandpaging.c, lines 77-119).                       *)
(***************************************************************************)
THEOREM SearchesAreRight == Spec => []SearchIsRight
<1>1. IInv => SearchIsRight
  BY DEF IInv
<1>. QED BY <1>1, InitInv, NextInv, PTL DEF Spec

(***************************************************************************)
(* A process is in one of the two queues, once, or runs, until it has done *)
(* its searches, and active_processes counts those not swapped out, for    *)
(* any number of processes (demandpaging.c, lines 77-119 and main).        *)
(***************************************************************************)
THEOREM NoProcessIsLost == Spec => []ProcessInOnePlace
<1>1. IInv => ProcessInOnePlace
  <2>. SUFFICES ASSUME IInv PROVE ProcessInOnePlace
    OBVIOUS
  <2>1. ASSUME NEW q \in Seq(Procs), Distinct(q), NEW p \in Procs
        PROVE  Cardinality(Cells(q, p)) = IF In(q, p) THEN 1 ELSE 0
    <3>1. DOMAIN q = 1 .. Len(q)
      OBVIOUS
    <3>2. CASE In(q, p)
      <4>1. PICK i \in 1 .. Len(q) : q[i] = p
        BY <3>2 DEF In
      <4>2. Cells(q, p) = {i}
        BY <2>1, <3>1, <4>1 DEF Cells, Distinct
      <4>. QED BY <3>2, <4>2, FS_Singleton
    <3>3. CASE ~In(q, p)
      <4>1. Cells(q, p) = {}
        BY <3>1, <3>3 DEF Cells, In
      <4>. QED BY <3>3, <4>1, FS_EmptySet
    <3>. QED BY <3>2, <3>3
  <2>2. ASSUME NEW p \in Procs
        PROVE  Cardinality(Cells(ready_queue, p)) + Cardinality(Cells(swapped_queue, p))
                 + (IF running = p THEN 1 ELSE 0) = IF curr_search_cnt[p] < m THEN 1 ELSE 0
    <3>1. /\ Cardinality(Cells(ready_queue, p)) = IF In(ready_queue, p) THEN 1 ELSE 0
          /\ Cardinality(Cells(swapped_queue, p)) = IF In(swapped_queue, p) THEN 1 ELSE 0
      BY <2>1 DEF IInv, Shape, PlaceInv
    <3>. HIDE DEF In
    <3>2. /\ ~(In(ready_queue, p) /\ In(swapped_queue, p))
          /\ running = p => ~In(ready_queue, p) /\ ~In(swapped_queue, p)
          /\ curr_search_cnt[p] < m <=> In(ready_queue, p) \/ In(swapped_queue, p) \/ running = p
      BY DEF IInv, PlaceInv
    <3>. QED BY <3>1, <3>2
  <2>. QED BY <2>2 DEF ProcessInOnePlace, IInv, PlaceInv
<1>. QED BY <1>1, InitInv, NextInv, PTL DEF Spec

-----------------------------------------------------------------------------
(* The frames.                                                             *)

TableOK ==
  /\ free_frames \in Seq(Frames)
  /\ PageTable \in [Procs -> [Pages -> Frames \cup {NONE}]]

FrameInv ==
  /\ Distinct(free_frames)
  /\ \A p \in Procs, g \in Pages : ~In(free_frames, PageTable[p][g])
  /\ \A f \in Frames : In(free_frames, f) \/ \E p \in Procs, g \in Pages : PageTable[p][g] = f
  /\ \A p, q \in Procs, g, h \in Pages :
       Valid(p, g) /\ PageTable[p][g] = PageTable[q][h] => p = q /\ g = h

LastPage(p) == PageOf(s[p] - 1)

\* Pages are valid in processes that can still use them only, and the search
\* asks for none beyond the array.
HolderInv ==
  /\ \A p \in Procs, g \in Pages : Valid(p, g) =>
       curr_search_cnt[p] < m /\ ~In(swapped_queue, p) /\ g <= LastPage(p)
  /\ running # NONE => R < s[running]

PagesInv == IInv /\ TableOK /\ FrameInv /\ HolderInv

LEMMA NoneIsNoFrame == NONE \notin Frames /\ Frames \subseteq Nat /\ Pages \subseteq Nat
BY PagingAssumption DEF NONE, Frames, Pages

\* The page of an element of the array is in the page table.
LEMMA PageIsThere ==
  ASSUME NEW p \in Procs, NEW k \in Nat, k < s[p]
  PROVE  PageOf(k) \in Pages /\ PageOf(k) <= LastPage(p) /\ LastPage(p) \in Nat
<1>1. s[p] \in Nat /\ s[p] >= 1 /\ ELEMS_PER_PAGE \in Nat /\ ELEMS_PER_PAGE > 0
      /\ ESSENTIAL_PAGES \in Nat /\ PAGE_TABLE_SIZE \in Nat /\ PageOf(s[p] - 1) < PAGE_TABLE_SIZE
  BY PagingAssumption
<1>2. k \div ELEMS_PER_PAGE \in Nat /\ (s[p] - 1) \div ELEMS_PER_PAGE \in Nat
  BY <1>1
<1>3. k \div ELEMS_PER_PAGE <= (s[p] - 1) \div ELEMS_PER_PAGE
  BY <1>1
<1>. QED BY <1>1, <1>2, <1>3 DEF PageOf, LastPage, Pages

\* What FramesOf holds.
LEMMA FramesOfAre ==
  ASSUME TableOK, FrameInv, NEW p \in Procs
  PROVE  /\ FramesOf(p) \in Seq(Frames) /\ Distinct(FramesOf(p))
         /\ \A f : In(FramesOf(p), f) <=> \E g \in Pages : Valid(p, g) /\ PageTable[p][g] = f
<1>. DEFINE V == {g \in Pages : PageTable[p][g] # NONE}
            ord == InOrder(V)
            c == Cardinality(V)
            r == FramesOf(p)
<1>1. V \in SUBSET Nat /\ IsFiniteSet(V)
  <2>1. IsFiniteSet(Pages)
    <3>1. 0 \in Int /\ PAGE_TABLE_SIZE - 1 \in Int
      BY PagingAssumption
    <3>. QED BY <3>1, FS_Interval DEF Pages
  <2>2. V \in SUBSET Pages
    OBVIOUS
  <2>. QED BY <2>1, <2>2, FS_Subset, NoneIsNoFrame
<1>. HIDE DEF V
<1>2. /\ c \in Nat /\ DOMAIN ord = 1 .. c
      /\ \A x \in 1 .. c : ord[x] \in V
      /\ \A x, y \in 1 .. c : ord[x] = ord[y] => x = y
      /\ \A g \in V : \E x \in 1 .. c : ord[x] = g
  BY <1>1, InOrderLists
<1>3. r = [x \in 1 .. c |-> PageTable[p][ord[x]]]
  BY <1>2 DEF FramesOf, V
<1>. HIDE DEF ord, c, r
<1>4. \A g : g \in V <=> g \in Pages /\ Valid(p, g)
  BY DEF V, Valid
<1>5. \A g \in V : PageTable[p][g] \in Frames
  BY <1>4 DEF TableOK, Valid
<1>6. r \in Seq(Frames) /\ Len(r) = c
  <2>1. r \in [1 .. c -> Frames]
    BY <1>2, <1>3, <1>5
  <2>. QED BY <1>2, <2>1
<1>7. Distinct(r)
  <2>. SUFFICES ASSUME NEW x \in 1 .. c, NEW y \in 1 .. c, r[x] = r[y] PROVE x = y
    BY <1>6 DEF Distinct
  <2>1. ord[x] = ord[y]
    BY <1>2, <1>3, <1>4 DEF FrameInv
  <2>. QED BY <1>2, <2>1
<1>8. ASSUME NEW f PROVE In(r, f) <=> \E g \in Pages : Valid(p, g) /\ PageTable[p][g] = f
  <2>1. In(r, f) <=> \E x \in 1 .. c : PageTable[p][ord[x]] = f
    BY <1>3, <1>6 DEF In
  <2>2. (\E x \in 1 .. c : PageTable[p][ord[x]] = f) <=> \E g \in V : PageTable[p][g] = f
    BY <1>2
  <2>. QED BY <1>4, <2>1, <2>2
<1>. QED BY <1>6, <1>7, <1>8 DEF r

\* A process gives back all its frames.
LEMMA AllGivenBack ==
  ASSUME TableOK, FrameInv, NEW p \in Procs,
         free_frames' = free_frames \o FramesOf(p),
         PageTable' = [PageTable EXCEPT ![p] = NoPages]
  PROVE  TableOK' /\ FrameInv'
<1>1. /\ free_frames \in Seq(Frames) /\ Distinct(free_frames)
      /\ PageTable \in [Procs -> [Pages -> Frames \cup {NONE}]]
  BY DEF TableOK, FrameInv
<1>2. /\ FramesOf(p) \in Seq(Frames) /\ Distinct(FramesOf(p))
      /\ \A f : In(FramesOf(p), f) <=> \E g \in Pages : Valid(p, g) /\ PageTable[p][g] = f
  BY FramesOfAre
<1>3. \A f : ~(In(free_frames, f) /\ In(FramesOf(p), f))
  BY <1>2 DEF FrameInv
<1>4. /\ free_frames' \in Seq(Frames) /\ Distinct(free_frames')
      /\ \A f : In(free_frames', f) <=>
           In(free_frames, f) \/ \E g \in Pages : Valid(p, g) /\ PageTable[p][g] = f
  <2>. HIDE DEF In, Distinct
  <2>. QED BY <1>1, <1>2, <1>3, Join
<1>5. /\ \A g \in Pages : PageTable'[p][g] = NONE
      /\ \A q \in Procs : q # p => PageTable'[q] = PageTable[q]
      /\ PageTable' \in [Procs -> [Pages -> Frames \cup {NONE}]]
  <2>1. NoPages \in [Pages -> Frames \cup {NONE}] /\ \A g \in Pages : NoPages[g] = NONE
    BY DEF NoPages
  <2>. QED BY <1>1, <2>1
<1>6. ~In(free_frames', NONE)
  BY <1>4, NoneIsNoFrame DEF In
<1>. HIDE DEF In, Distinct
<1>7. ASSUME NEW q \in Procs, NEW g \in Pages PROVE ~In(free_frames', PageTable'[q][g])
  <2>1. CASE q = p
    BY <1>5, <1>6, <2>1
  <2>2. CASE q # p
    BY <1>4, <1>5, <2>2 DEF FrameInv
  <2>. QED BY <2>1, <2>2
<1>8. ASSUME NEW f \in Frames, ~In(free_frames', f)
      PROVE  \E q \in Procs, g \in Pages : PageTable'[q][g] = f
  <2>1. PICK q \in Procs, g \in Pages : PageTable[q][g] = f
    BY <1>4, <1>8 DEF FrameInv
  <2>2. q # p
    BY <1>4, <1>8, <2>1, NoneIsNoFrame DEF Valid
  <2>. QED BY <1>5, <2>1, <2>2
<1>9. ASSUME NEW q \in Procs, NEW o \in Procs, NEW g \in Pages, NEW h \in Pages,
             PageTable'[q][g] # NONE, PageTable'[q][g] = PageTable'[o][h]
      PROVE  q = o /\ g = h
  <2>1. q # p /\ o # p
    BY <1>5, <1>9
  <2>. QED BY <1>5, <1>9, <2>1 DEF FrameInv, Valid
<1>. QED BY <1>4, <1>5, <1>7, <1>8, <1>9 DEF TableOK, FrameInv, Valid


LEMMA PagesInit == Init => PagesInv
<1>. SUFFICES ASSUME Init PROVE PagesInv
  OBVIOUS
<1>. DEFINE e == n * ESSENTIAL_PAGES
            k == TOTAL_FRAMES_USEABLE - e
<1>1. /\ n \in Nat /\ m \in Nat /\ m > 0 /\ ESSENTIAL_PAGES \in Nat /\ TOTAL_FRAMES_USEABLE \in Nat
      /\ e \in Nat /\ k \in Nat /\ Procs = 0 .. n - 1
  <2>1. e \in Nat
    BY PagingAssumption
  <2>. QED BY <2>1, PagingAssumption DEF Procs
<1>2. /\ free_frames = [x \in 1 .. k |-> e + x - 1]
      /\ PageTable = [p \in Procs |-> [g \in Pages |->
                        IF g < ESSENTIAL_PAGES THEN p * ESSENTIAL_PAGES + g ELSE NONE]]
      /\ swapped_queue = <<>> /\ running = NONE /\ curr_search_cnt = [p \in Procs |-> 0]
  BY DEF Init
<1>. HIDE DEF e, k
<1>3. k + e = TOTAL_FRAMES_USEABLE
  BY <1>1 DEF k
\* Process p has the frames from p * ESSENTIAL_PAGES on.
<1>4. ASSUME NEW p \in Procs, NEW g \in Pages, g < ESSENTIAL_PAGES
      PROVE  p * ESSENTIAL_PAGES + g \in 0 .. e - 1
  <2>1. p \in Nat /\ p <= n - 1 /\ g \in Nat
    BY <1>1, NoneIsNoFrame
  <2>2. p * ESSENTIAL_PAGES \in Nat /\ p * ESSENTIAL_PAGES <= (n - 1) * ESSENTIAL_PAGES
    BY <1>1, <2>1
  <2>3. (n - 1) * ESSENTIAL_PAGES = e - ESSENTIAL_PAGES
    BY <1>1 DEF e
  <2>. QED BY <1>1, <1>4, <2>1, <2>2, <2>3
<1>5. TableOK
  <2>1. free_frames \in [1 .. k -> Frames]
    BY <1>1, <1>2, <1>3 DEF Frames
  <2>2. free_frames \in Seq(Frames)
    BY <1>1, <2>1
  <2>3. 0 .. e - 1 \subseteq Frames
    BY <1>1, <1>3 DEF Frames
  <2>. QED BY <1>2, <1>4, <2>2, <2>3 DEF TableOK
<1>6. /\ Len(free_frames) = k /\ Distinct(free_frames)
      /\ \A f : In(free_frames, f) <=> f \in e .. TOTAL_FRAMES_USEABLE - 1
  <2>1. Len(free_frames) = k
    BY <1>1, <1>2
  <2>2. Distinct(free_frames)
    BY <1>1, <1>2, <2>1 DEF Distinct
  <2>3. ASSUME NEW f, In(free_frames, f) PROVE f \in e .. TOTAL_FRAMES_USEABLE - 1
    BY <1>1, <1>2, <1>3, <2>1, <2>3 DEF In
  <2>4. ASSUME NEW f \in e .. TOTAL_FRAMES_USEABLE - 1 PROVE In(free_frames, f)
    <3>1. f - e + 1 \in 1 .. k /\ free_frames[f - e + 1] = f
      BY <1>1, <1>2, <1>3
    <3>. QED BY <2>1, <3>1 DEF In
  <2>. QED BY <2>1, <2>2, <2>3, <2>4
<1>. HIDE DEF In, Distinct
<1>7. FrameInv
  <2>1. ASSUME NEW p \in Procs, NEW g \in Pages PROVE ~In(free_frames, PageTable[p][g])
    <3>1. CASE g < ESSENTIAL_PAGES
      <4>1. PageTable[p][g] \in 0 .. e - 1
        BY <1>2, <1>4, <3>1
      <4>. QED BY <1>1, <1>6, <4>1
    <3>2. CASE ~(g < ESSENTIAL_PAGES)
      <4>1. PageTable[p][g] = NONE
        BY <1>2, <3>2
      <4>. QED BY <1>1, <1>6, <4>1 DEF NONE
    <3>. QED BY <3>1, <3>2
  <2>2. ASSUME NEW f \in Frames, ~In(free_frames, f)
        PROVE  \E p \in Procs, g \in Pages : PageTable[p][g] = f
    <3>1. f \in 0 .. e - 1 /\ f \in Nat
      BY <1>1, <1>3, <1>6, <2>2 DEF Frames
    <3>2. ESSENTIAL_PAGES > 0
      BY <1>1, <3>1 DEF e
    <3>. DEFINE p == f \div ESSENTIAL_PAGES
                g == f % ESSENTIAL_PAGES
    <3>3. /\ p \in Nat /\ g \in 0 .. ESSENTIAL_PAGES - 1
          /\ f = p * ESSENTIAL_PAGES + g
      BY <1>1, <3>1, <3>2
    <3>. HIDE DEF p, g
    <3>4. p < n
      <4>1. SUFFICES ASSUME p >= n PROVE FALSE
        BY <1>1, <3>3
      <4>2. p * ESSENTIAL_PAGES >= n * ESSENTIAL_PAGES
        BY <1>1, <3>3, <4>1
      <4>. QED BY <1>1, <3>1, <3>3, <4>2 DEF e
    <3>5. p \in Procs
      BY <1>1, <3>3, <3>4
    <3>6. g \in Pages /\ g < ESSENTIAL_PAGES
      <4>1. s[p] \in Nat \ {0} /\ PageOf(s[p] - 1) < PAGE_TABLE_SIZE /\ ELEMS_PER_PAGE \in Nat \ {0}
        BY <3>5, PagingAssumption
      <4>2. (s[p] - 1) \div ELEMS_PER_PAGE \in Nat
        BY <4>1
      <4>3. ESSENTIAL_PAGES < PAGE_TABLE_SIZE
        BY <1>1, <4>1, <4>2, PagingAssumption DEF PageOf
      <4>. QED BY <1>1, <3>3, <4>3, PagingAssumption DEF Pages
    <3>7. PageTable[p][g] = f
      BY <1>2, <3>3, <3>5, <3>6
    <3>. QED BY <3>5, <3>6, <3>7
  <2>3. ASSUME NEW p \in Procs, NEW q \in Procs, NEW g \in Pages, NEW h \in Pages,
               Valid(p, g), PageTable[p][g] = PageTable[q][h]
        PROVE  p = q /\ g = h
    <3>1. g < ESSENTIAL_PAGES /\ h < ESSENTIAL_PAGES
      BY <1>2, <2>3 DEF Valid
    <3>2. p * ESSENTIAL_PAGES + g = q * ESSENTIAL_PAGES + h
      BY <1>2, <2>3, <3>1
    <3>3. p \in Nat /\ q \in Nat /\ g \in Nat /\ h \in Nat
      BY <1>1, NoneIsNoFrame
    <3>4. ~(p < q)
      <4>1. SUFFICES ASSUME p < q PROVE FALSE
        OBVIOUS
      <4>2. (p + 1) * ESSENTIAL_PAGES <= q * ESSENTIAL_PAGES
        BY <1>1, <3>3, <4>1
      <4>3. (p + 1) * ESSENTIAL_PAGES = p * ESSENTIAL_PAGES + ESSENTIAL_PAGES
        BY <1>1, <3>3
      <4>. QED BY <1>1, <3>1, <3>2, <3>3, <4>2, <4>3
    <3>5. ~(q < p)
      <4>1. SUFFICES ASSUME q < p PROVE FALSE
        OBVIOUS
      <4>2. (q + 1) * ESSENTIAL_PAGES <= p * ESSENTIAL_PAGES
        BY <1>1, <3>3, <4>1
      <4>3. (q + 1) * ESSENTIAL_PAGES = q * ESSENTIAL_PAGES + ESSENTIAL_PAGES
        BY <1>1, <3>3
      <4>. QED BY <1>1, <3>1, <3>2, <3>3, <4>2, <4>3
    <3>6. p = q
      BY <3>3, <3>4, <3>5
    <3>. QED BY <1>1, <3>2, <3>3, <3>6
  <2>. QED BY <1>6, <2>1, <2>2, <2>3 DEF FrameInv
<1>8. HolderInv
  <2>1. ASSUME NEW p \in Procs, NEW g \in Pages, Valid(p, g)
        PROVE  g <= LastPage(p)
    <3>1. g < ESSENTIAL_PAGES /\ g \in Nat
      BY <1>2, <2>1, NoneIsNoFrame DEF Valid
    <3>2. s[p] \in Nat \ {0} /\ ELEMS_PER_PAGE \in Nat \ {0}
      BY PagingAssumption
    <3>3. (s[p] - 1) \div ELEMS_PER_PAGE \in Nat
      BY <3>2
    <3>. QED BY <1>1, <3>1, <3>3 DEF LastPage, PageOf
  <2>2. \A p : ~In(swapped_queue, p)
    BY <1>2 DEF In
  <2>. QED BY <1>1, <1>2, <2>1, <2>2 DEF HolderInv
<1>. QED BY <1>5, <1>7, <1>8, InitInv DEF PagesInv


\* A step that leaves the frames alone.
LEMMA FramesUntouched ==
  ASSUME TableOK, FrameInv, UNCHANGED <<free_frames, PageTable>>
  PROVE  TableOK' /\ FrameInv'
BY DEF TableOK, FrameInv, In, Distinct, Valid

LEMMA DispatchPages ==
  ASSUME PagesInv, Dispatch
  PROVE  TableOK' /\ FrameInv' /\ HolderInv'
<1>1. Shape /\ TableOK /\ FrameInv /\ HolderInv
  BY DEF PagesInv, IInv
<1>2. TableOK' /\ FrameInv'
  BY <1>1, FramesUntouched DEF Dispatch
<1>3. Head(ready_queue) \in Procs
  BY <1>1 DEF Dispatch, Shape
<1>4. s[running'] \in Nat /\ R' = s[running'] - 1
  BY <1>3, PagingAssumption DEF Dispatch
<1>5. HolderInv'
  BY <1>1, <1>4 DEF Dispatch, HolderInv, Valid, In, LastPage
<1>. QED BY <1>2, <1>5

\* The page looked at is one of the array, and the search stays in the array.
LEMMA TurnStays ==
  ASSUME PagesInv, running # NONE, L < R, Narrow
  PROVE  /\ running \in Procs /\ PageOf(Mid) \in Pages /\ PageOf(Mid) <= LastPage(running)
         /\ R' < s[running]
<1>1. /\ running \in Procs /\ L \in Nat /\ R \in Int /\ R < s[running] /\ s[running] \in Nat
  BY PagingAssumption DEF PagesInv, IInv, Shape, HolderInv
<1>2. Mid \in Nat /\ Mid < R /\ Mid < s[running]
  BY <1>1 DEF Mid
<1>3. PageOf(Mid) \in Pages /\ PageOf(Mid) <= LastPage(running)
  BY <1>1, <1>2, PageIsThere
<1>. QED BY <1>1, <1>2, <1>3 DEF Narrow

LEMMA HitPages ==
  ASSUME PagesInv, Hit
  PROVE  TableOK' /\ FrameInv' /\ HolderInv'
<1>1. TableOK /\ FrameInv /\ HolderInv
  BY DEF PagesInv
<1>2. TableOK' /\ FrameInv'
  BY <1>1, FramesUntouched DEF Hit
<1>3. R' < s[running] /\ running' = running
  BY TurnStays DEF Hit
<1>4. HolderInv'
  BY <1>1, <1>3 DEF Hit, HolderInv, Valid, In, LastPage
<1>. QED BY <1>2, <1>4

LEMMA LoadPages ==
  ASSUME PagesInv, Load
  PROVE  TableOK' /\ FrameInv' /\ HolderInv'
<1>1. Shape /\ PlaceInv /\ TableOK /\ FrameInv /\ HolderInv
  BY DEF PagesInv, IInv
<1>. DEFINE f == Head(free_frames)
            page == PageOf(Mid)
<1>2. /\ running # NONE /\ L < R /\ Narrow /\ PageTable[running][page] = NONE
      /\ free_frames # <<>> /\ free_frames' = Tail(free_frames)
      /\ PageTable' = [PageTable EXCEPT ![running][page] = f]
      /\ UNCHANGED <<swapped_queue, curr_search_cnt, running>>
  BY DEF Load, Valid
<1>3. /\ running \in Procs /\ page \in Pages /\ page <= LastPage(running) /\ R' < s[running]
  BY <1>2, TurnStays
<1>4. /\ f \in Frames /\ In(free_frames, f) /\ free_frames' \in Seq(Frames)
      /\ \A x : In(free_frames', x) <=> In(free_frames, x) /\ x # f
      /\ Distinct(free_frames')
  <2>. HIDE DEF In, Distinct
  <2>. QED BY <1>1, <1>2, TakeFirst DEF TableOK, FrameInv
<1>. HIDE DEF f, page, In, Distinct
<1>5. /\ PageTable' \in [Procs -> [Pages -> Frames \cup {NONE}]]
      /\ PageTable'[running][page] = f
      /\ \A p \in Procs, g \in Pages :
           p # running \/ g # page => PageTable'[p][g] = PageTable[p][g]
  BY <1>1, <1>2, <1>3, <1>4 DEF TableOK
<1>6. f # NONE /\ \A p \in Procs, g \in Pages : PageTable[p][g] # f
  BY <1>1, <1>4, NoneIsNoFrame DEF FrameInv
<1>7. FrameInv'
  <2>1. ASSUME NEW p \in Procs, NEW g \in Pages PROVE ~In(free_frames', PageTable'[p][g])
    <3>1. CASE p = running /\ g = page
      BY <1>4, <1>5, <3>1
    <3>2. CASE p # running \/ g # page
      BY <1>1, <1>4, <1>5, <3>2 DEF FrameInv
    <3>. QED BY <3>1, <3>2
  <2>2. ASSUME NEW x \in Frames, ~In(free_frames', x)
        PROVE  \E p \in Procs, g \in Pages : PageTable'[p][g] = x
    <3>1. CASE x = f
      BY <1>3, <1>5, <3>1
    <3>2. CASE x # f
      <4>1. PICK p \in Procs, g \in Pages : PageTable[p][g] = x
        BY <1>1, <1>4, <2>2, <3>2 DEF FrameInv
      <4>2. p # running \/ g # page
        BY <1>2, <4>1, NoneIsNoFrame
      <4>. QED BY <1>5, <4>1, <4>2
    <3>. QED BY <3>1, <3>2
  <2>3. ASSUME NEW p \in Procs, NEW q \in Procs, NEW g \in Pages, NEW h \in Pages,
               PageTable'[p][g] # NONE, PageTable'[p][g] = PageTable'[q][h]
        PROVE  p = q /\ g = h
    <3>1. CASE p = running /\ g = page
      BY <1>5, <1>6, <2>3, <3>1
    <3>2. CASE q = running /\ h = page
      BY <1>5, <1>6, <2>3, <3>2
    <3>3. CASE (p # running \/ g # page) /\ (q # running \/ h # page)
      BY <1>1, <1>5, <2>3, <3>3 DEF FrameInv, Valid
    <3>. QED BY <3>1, <3>2, <3>3
  <2>. QED BY <1>4, <2>1, <2>2, <2>3 DEF FrameInv, Valid
<1>8. curr_search_cnt[running] < m /\ ~In(swapped_queue, running)
  BY <1>1, <1>3 DEF PlaceInv
<1>9. HolderInv'
  <2>1. ASSUME NEW p \in Procs, NEW g \in Pages, PageTable'[p][g] # NONE
        PROVE  curr_search_cnt[p] < m /\ ~In(swapped_queue, p) /\ g <= LastPage(p)
    <3>1. CASE p = running /\ g = page
      BY <1>3, <1>8, <3>1
    <3>2. CASE p # running \/ g # page
      BY <1>1, <1>5, <2>1, <3>2 DEF HolderInv, Valid
    <3>. QED BY <3>1, <3>2
  <2>. QED BY <1>2, <1>3, <2>1 DEF HolderInv, Valid, LastPage
<1>. QED BY <1>4, <1>5, <1>7, <1>9 DEF TableOK

\* Both steps in which the process gives back its frames.
LEMMA ReleasePages ==
  ASSUME PagesInv, SwapOut \/ Finish
  PROVE  TableOK' /\ FrameInv' /\ HolderInv'
<1>1. Shape /\ PlaceInv /\ TableOK /\ FrameInv /\ HolderInv
  BY DEF PagesInv, IInv
<1>2. /\ running \in Procs /\ running' = NONE
      /\ free_frames' = free_frames \o FramesOf(running)
      /\ PageTable' = [PageTable EXCEPT ![running] = NoPages]
  BY <1>1 DEF SwapOut, Finish, Found, Shape
<1>3. TableOK' /\ FrameInv'
  BY <1>1, <1>2, AllGivenBack
<1>4. ASSUME NEW p \in Procs, NEW g \in Pages, PageTable'[p][g] # NONE
      PROVE  p # running /\ PageTable[p][g] # NONE
  <2>1. NoPages[g] = NONE
    BY DEF NoPages
  <2>. QED BY <1>1, <1>2, <1>4, <2>1 DEF TableOK
<1>5. ASSUME NEW p \in Procs, p # running
      PROVE  /\ curr_search_cnt'[p] = curr_search_cnt[p]
             /\ In(swapped_queue', p) => In(swapped_queue, p)
  <2>1. curr_search_cnt'[p] = curr_search_cnt[p]
    BY <1>1, <1>5 DEF SwapOut, Finish, Shape
  <2>2. CASE swapped_queue' = Append(swapped_queue, running)
    <3>1. In(swapped_queue', p) <=> In(swapped_queue, p) \/ p = running
      <4>. HIDE DEF In
      <4>. QED BY <1>1, <1>2, <2>2, AddLast DEF Shape
    <3>. QED BY <1>5, <2>1, <3>1
  <2>3. CASE swapped_queue # <<>> /\ swapped_queue' = Tail(swapped_queue)
    <3>1. In(swapped_queue', p) => In(swapped_queue, p)
      <4>. HIDE DEF In
      <4>. QED BY <1>1, <2>3, TakeFirst DEF Shape, PlaceInv
    <3>. QED BY <2>1, <3>1
  <2>4. CASE swapped_queue' = swapped_queue
    BY <2>1, <2>4 DEF In
  <2>. QED BY <2>2, <2>3, <2>4 DEF SwapOut, Finish
<1>. HIDE DEF In
<1>6. HolderInv'
  BY <1>1, <1>2, <1>4, <1>5 DEF HolderInv, Valid, LastPage
<1>. QED BY <1>3, <1>6

LEMMA NextSearchPages ==
  ASSUME PagesInv, NextSearch
  PROVE  TableOK' /\ FrameInv' /\ HolderInv'
<1>1. Shape /\ PlaceInv /\ TableOK /\ FrameInv /\ HolderInv
  BY DEF PagesInv, IInv
<1>2. TableOK' /\ FrameInv'
  BY <1>1, FramesUntouched DEF NextSearch
<1>3. /\ running \in Procs /\ running' = NONE /\ curr_search_cnt[running] + 1 # m
      /\ curr_search_cnt' = [curr_search_cnt EXCEPT ![running] = @ + 1]
      /\ UNCHANGED <<swapped_queue, PageTable>>
  BY <1>1 DEF NextSearch, Found, Shape
<1>4. /\ curr_search_cnt[running] \in Nat /\ curr_search_cnt[running] < m /\ m \in Nat
  BY <1>1, <1>3, PagingAssumption DEF Shape, PlaceInv
<1>5. \A p \in Procs : curr_search_cnt[p] < m => curr_search_cnt'[p] < m
  BY <1>1, <1>3, <1>4 DEF Shape
<1>6. HolderInv'
  BY <1>1, <1>3, <1>5 DEF HolderInv, Valid, In, LastPage
<1>. QED BY <1>2, <1>6

LEMMA PagesNext == PagesInv /\ [Next]_vars => PagesInv'
<1>. SUFFICES ASSUME PagesInv, [Next]_vars PROVE PagesInv'
  OBVIOUS
<1>1. IInv'
  BY NextInv DEF PagesInv
<1>2. CASE UNCHANGED vars \/ Spin
  <2>1. UNCHANGED vars
    BY <1>2 DEF Spin
  <2>2. /\ UNCHANGED <<free_frames, PageTable>>
        /\ UNCHANGED <<curr_search_cnt, swapped_queue, running, R>>
    BY <2>1 DEF vars, search
  <2>3. TableOK' /\ FrameInv'
    BY <2>2, FramesUntouched DEF PagesInv
  <2>4. HolderInv'
    BY <2>2 DEF PagesInv, HolderInv, Valid, In, LastPage
  <2>. QED BY <1>1, <2>3, <2>4 DEF PagesInv
<1>3. CASE Dispatch \/ Hit \/ Load \/ SwapOut \/ NextSearch \/ Finish
  BY <1>1, <1>3, DispatchPages, HitPages, LoadPages, ReleasePages, NextSearchPages
     DEF PagesInv
<1>. QED BY <1>2, <1>3 DEF Next

(***************************************************************************)
(* No frame is lost, handed out twice or freed twice, and a process that   *)
(* is swapped out or has ended has none, for any number of processes and   *)
(* frames (demandpaging.c, lines 83-112 and 189-208).                      *)
(***************************************************************************)
THEOREM NoFrameIsLost == Spec => []FramesPartition
<1>1. PagesInv => FramesPartition
  <2>. SUFFICES ASSUME PagesInv PROVE FramesPartition
    OBVIOUS
  <2>1. TableOK /\ FrameInv /\ HolderInv /\ Shape
    BY DEF PagesInv, IInv
  <2>2. ASSUME NEW f \in Frames
        PROVE  Cardinality(Holders(f)) + Cardinality(Cells(free_frames, f)) = 1
    <3>1. f # NONE
      BY NoneIsNoFrame
    <3>2. CASE In(free_frames, f)
      <4>1. PICK i \in 1 .. Len(free_frames) : free_frames[i] = f
        BY <3>2 DEF In
      <4>2. Cells(free_frames, f) = {i}
        BY <2>1, <4>1 DEF Cells, FrameInv, Distinct, TableOK
      <4>3. Holders(f) = {}
        BY <2>1, <3>2 DEF Holders, FrameInv
      <4>4. Cardinality(Cells(free_frames, f)) = 1 /\ Cardinality(Holders(f)) = 0
        BY <4>2, <4>3, FS_Singleton, FS_EmptySet, Zenon
      <4>. QED BY <4>4
    <3>3. CASE ~In(free_frames, f)
      <4>1. Cells(free_frames, f) = {}
        BY <2>1, <3>3 DEF Cells, In, TableOK
      <4>2. PICK p \in Procs, g \in Pages : PageTable[p][g] = f
        BY <2>1, <3>3 DEF FrameInv
      <4>3. \A h \in Holders(f) : h = <<p, g>>
        BY <2>1, <3>1, <4>2 DEF Holders, FrameInv, Valid
      <4>4. <<p, g>> \in Holders(f)
        BY <4>2 DEF Holders
      <4>5. Holders(f) = {<<p, g>>}
        BY <4>3, <4>4
      <4>6. Cardinality(Cells(free_frames, f)) = 0 /\ Cardinality(Holders(f)) = 1
        BY <4>1, <4>5, FS_Singleton, FS_EmptySet, Zenon
      <4>. QED BY <4>6
    <3>. QED BY <3>2, <3>3
  <2>3. ASSUME NEW p \in Procs, Holds(p)
        PROVE  curr_search_cnt[p] < m /\ Cells(swapped_queue, p) = {}
    <3>1. curr_search_cnt[p] < m /\ ~In(swapped_queue, p)
      BY <2>1, <2>3 DEF Holds, HolderInv
    <3>. QED BY <2>1, <3>1 DEF Cells, In, Shape
  <2>. QED BY <2>2, <2>3 DEF FramesPartition
<1>. QED BY <1>1, PagesInit, PagesNext, PTL DEF Spec


(***************************************************************************)
(* The last active process is never swapped out: with all others out of    *)
(* memory, as many frames are free to it as its essential pages and its    *)
(* array need (PagingAssumption).  A process is swapped in only when       *)
(* another one ends, so otherwise the loop of main would turn for ever     *)
(* (demandpaging.c, lines 89-112 and 211-219).                             *)
(***************************************************************************)
THEOREM TheLastStaysIn == Spec => [][SwapOut => ready_queue # <<>>]_vars
<1>1. PagesInv /\ SwapOut => ready_queue # <<>>
  <2>. SUFFICES ASSUME PagesInv, SwapOut, ready_queue = <<>> PROVE FALSE
    OBVIOUS
  <2>. DEFINE last == LastPage(running)
              page == PageOf(Mid)
              others == (0 .. last) \ {page}
              place == [f \in Frames |->
                          CHOOSE g \in others : PageTable[running][g] = f]
  <2>1. Shape /\ PlaceInv /\ TableOK /\ FrameInv /\ HolderInv
    BY DEF PagesInv, IInv
  <2>2. /\ running # NONE /\ L < R /\ PageTable[running][page] = NONE /\ free_frames = <<>>
        /\ running \in Procs
    BY <2>1 DEF SwapOut, Valid, Shape
  <2>3. /\ page \in 0 .. last /\ last \in Nat /\ last + 1 <= TOTAL_FRAMES_USEABLE
        /\ TOTAL_FRAMES_USEABLE \in Nat
    <3>1. /\ L \in Nat /\ R \in Int /\ R < s[running] /\ s[running] \in Nat
      BY <2>1, <2>2, PagingAssumption DEF Shape, HolderInv
    <3>2. Mid \in Nat /\ Mid < s[running]
      BY <2>2, <3>1 DEF Mid
    <3>3. page \in Pages /\ page <= last /\ last \in Nat
      BY <2>2, <3>2, PageIsThere
    <3>4. last + 1 <= TOTAL_FRAMES_USEABLE /\ TOTAL_FRAMES_USEABLE \in Nat
      BY <2>2, PagingAssumption DEF LastPage
    <3>. HIDE DEF page, last
    <3>5. page \in Nat
      BY <3>3, NoneIsNoFrame
    <3>. QED BY <3>3, <3>4, <3>5
  <2>4. ASSUME NEW p \in Procs, NEW g \in Pages, PageTable[p][g] # NONE PROVE p = running
    <3>1. ~In(ready_queue, p)
      BY DEF In
    <3>. QED BY <2>1, <2>4, <3>1 DEF HolderInv, PlaceInv, Valid
  <2>5. ASSUME NEW f \in Frames PROVE \E g \in others : PageTable[running][g] = f
    <3>1. ~In(free_frames, f) /\ f # NONE
      BY <2>2, NoneIsNoFrame DEF In
    <3>2. PICK p \in Procs, g \in Pages : PageTable[p][g] = f
      BY <2>1, <3>1 DEF FrameInv
    <3>3. p = running /\ g <= last /\ g # page
      BY <2>1, <2>2, <2>4, <3>1, <3>2 DEF HolderInv, Valid
    <3>4. g \in 0 .. last
      BY <2>3, <3>3, NoneIsNoFrame
    <3>. QED BY <3>2, <3>3, <3>4
  <2>6. IsFiniteSet(others) /\ Cardinality(others) = last
    <3>1. IsFiniteSet(0 .. last) /\ Cardinality(0 .. last) = last + 1
      BY <2>3, FS_Interval
    <3>. HIDE DEF last, page
    <3>2. IsFiniteSet(others) /\ Cardinality(others) = Cardinality(0 .. last) - 1
      BY <2>3, <3>1, FS_RemoveElement
    <3>. QED BY <2>3, <3>1, <3>2
  <2>. HIDE DEF others, last, page
  <2>7. place \in Injection(Frames, others)
    <3>1. \A f \in Frames : place[f] \in others /\ PageTable[running][place[f]] = f
      BY <2>5
    <3>2. place \in [Frames -> others]
      BY <3>1
    <3>. HIDE DEF place
    <3>. QED BY <3>1, <3>2 DEF Injection, IsInjective
  <2>8. Cardinality(Frames) <= Cardinality(others)
    <3>. HIDE DEF place
    <3>. QED BY <2>6, <2>7, FS_Injection
  <2>9. Cardinality(Frames) = TOTAL_FRAMES_USEABLE
    <3>1. 0 \in Int /\ TOTAL_FRAMES_USEABLE - 1 \in Int /\ 0 <= TOTAL_FRAMES_USEABLE - 1
      BY <2>3
    <3>. QED BY <2>3, <3>1, FS_Interval DEF Frames
  <2>. QED BY <2>3, <2>6, <2>8, <2>9
<1>2. PagesInv /\ [Next]_vars => [SwapOut => ready_queue # <<>>]_vars
  BY <1>1
<1>. QED BY <1>2, PagesInit, PagesNext, PTL DEF Spec

=============================================================================
