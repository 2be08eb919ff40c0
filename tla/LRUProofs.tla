------------------------------ MODULE LRUProofs ------------------------------
(***************************************************************************)
(* Proofs about LRU, for any number of processes, searches and frames, any *)
(* sizes of arrays and any width of the histories: no frame is lost or     *)
(* handed out twice, what the list of free frames remembers of a frame is  *)
(* true, and the page given up is the one used least recently.             *)
(*                                                                         *)
(* FramesPartition counts places; the invariants that are inductive say    *)
(* which there are.  AgeInv is what a history is: the page's last use, as  *)
(* the place of its highest bit.                                           *)
(***************************************************************************)
EXTENDS LRU, FiniteSetTheorems, SequenceTheorems, TLAPS

In(q, x) == \E i \in 1 .. Len(q) : q[i] = x

Distinct(q) == \A i, j \in 1 .. Len(q) : q[i] = q[j] => i = j

\* The list q has an entry for frame f, and for no frame two.
Has(q, f) == \E i \in 1 .. Len(q) : q[i].frame_no = f

Single(q) == \A i, j \in 1 .. Len(q) : q[i].frame_no = q[j].frame_no => i = j

Entry == [frame_no : Frames, last_owner : Procs \cup {NONE}, pg_no : Pages \cup {NONE}]

PageEntry == [frame : Frames \cup {NONE}, ref : BOOLEAN, history : Nat]

Shape ==
  /\ ready_queue \in Seq(Procs) /\ FFLIST \in Seq(Entry)
  /\ PageTable \in [Procs -> [Pages -> PageEntry]]
  /\ curr_search_cnt \in [Procs -> 0 .. m]
  /\ running \in Procs \cup {NONE} /\ L \in Nat /\ R \in Int
  /\ running # NONE => R < s[running]
  /\ DOMAIN content = Frames

PlaceInv ==
  /\ Distinct(ready_queue) /\ ~In(ready_queue, running)
  /\ \A p \in Procs : In(ready_queue, p) \/ running = p => curr_search_cnt[p] < m
  /\ active_processes = Cardinality({p \in Procs : curr_search_cnt[p] < m})

FrameOf(p, g) == PageTable[p][g].frame

FrameInv ==
  /\ Single(FFLIST)
  /\ \A p \in Procs, g \in Pages : ~Has(FFLIST, FrameOf(p, g))
  /\ \A f \in Frames : Has(FFLIST, f) \/ \E p \in Procs, g \in Pages : FrameOf(p, g) = f
  /\ \A p, q \in Procs, g, h \in Pages :
       Valid(p, g) /\ FrameOf(p, g) = FrameOf(q, h) => p = q /\ g = h
  /\ Len(FFLIST) >= NFFMIN

MarkIsTrue(e) == e.last_owner # NONE => content[e.frame_no] = <<e.last_owner, e.pg_no>>

MarksInv ==
  /\ \A e : In(FFLIST, e) => MarkIsTrue(e)
  /\ \A p \in Procs, g \in Pages : Valid(p, g) => content[FrameOf(p, g)] = <<p, g>>

\* The history of a page last used d searches ago.
Fits(h, d) ==
  IF d < BITS THEN 2^(BITS - 1 - d) <= h /\ h < 2^(BITS - d) ELSE h = 0

AgeOK(p, g) ==
  /\ Past(p, g) <= ALL_ONES /\ last_use[p][g] <= curr_search_cnt[p] + 1
  /\ IF last_use[p][g] = curr_search_cnt[p] + 1
       THEN PageTable[p][g].ref /\ Past(p, g) = ALL_ONES
       ELSE Fits(Past(p, g), curr_search_cnt[p] - last_use[p][g])

AgeInv ==
  /\ last_use \in [Procs -> [Pages -> Nat]]
  /\ \A p \in Procs, g \in Pages : Valid(p, g) => AgeOK(p, g)

IInv == Shape /\ PlaceInv /\ FrameInv /\ MarksInv /\ AgeInv

-----------------------------------------------------------------------------
(* Sets of numbers, queues, and lists of frames.                           *)

\* Every set of naturals has a least element.
LEMMA LeastElement ==
  ASSUME NEW T, T \subseteq Nat, T # {}
  PROVE  \E d \in T : \A k \in T : d <= k
<1>1. PICK rel : IsWellFoundedOn(rel, Nat) /\ \A i, j \in Nat : i < j => <<i, j>> \in rel
  <2>1. \A i, j \in Nat : i < j => <<i, j>> \in OpToRel(<, Nat)
    BY DEF OpToRel
  <2>. QED BY <2>1, NatLessThanWellFounded, Zenon
<1>2. IsWellFoundedOn(rel, Nat)
  BY <1>1
<1>3. PICK d \in T : \A k \in T : ~(<<k, d>> \in rel)
  BY <1>2, WFMin, Zenon
<1>4. ASSUME NEW k \in T PROVE d <= k
  <2>1. k \in Nat /\ d \in Nat
    OBVIOUS
  <2>2. ~(k < d)
    BY <1>1, <1>3, <2>1
  <2>. QED BY <2>1, <2>2
<1>. QED BY <1>4

\* What is in a queue after one is added at the end.
LEMMA AddLast ==
  ASSUME NEW S, NEW q \in Seq(S), NEW p \in S
  PROVE  /\ Append(q, p) \in Seq(S) /\ Len(Append(q, p)) = Len(q) + 1
         /\ \A x : In(Append(q, p), x) <=> In(q, x) \/ x = p
         /\ Distinct(q) /\ ~In(q, p) => Distinct(Append(q, p))
<1>1. /\ Append(q, p) \in Seq(S) /\ Len(q) \in Nat /\ Len(Append(q, p)) = Len(q) + 1
      /\ Append(q, p)[Len(q) + 1] = p
      /\ \A i \in 1 .. Len(q) : Append(q, p)[i] = q[i]
  OBVIOUS
<1>2. \A i \in 1 .. Len(q) + 1 : i \in 1 .. Len(q) \/ i = Len(q) + 1
  BY <1>1
<1>3. Len(q) + 1 \in 1 .. Len(q) + 1 /\ \A i \in 1 .. Len(q) : i \in 1 .. Len(q) + 1
  BY <1>1
<1>. HIDE DEF In
<1>4. \A x : In(Append(q, p), x) <=> In(q, x) \/ x = p
  BY <1>1, <1>2, <1>3 DEF In
<1>5. Distinct(q) /\ ~In(q, p) => Distinct(Append(q, p))
  BY <1>1, <1>2 DEF In, Distinct
<1>. QED BY <1>1, <1>4, <1>5

\* What is in a queue after the first is taken.
LEMMA TakeFirst ==
  ASSUME NEW S, NEW q \in Seq(S), q # <<>>, Distinct(q)
  PROVE  /\ Head(q) \in S /\ In(q, Head(q))
         /\ Tail(q) \in Seq(S) /\ Len(Tail(q)) = Len(q) - 1
         /\ \A x : In(Tail(q), x) <=> In(q, x) /\ x # Head(q)
         /\ Distinct(Tail(q))
<1>1. /\ Tail(q) \in Seq(S) /\ Len(q) \in Nat /\ Len(q) >= 1 /\ Len(Tail(q)) = Len(q) - 1
      /\ Head(q) = q[1] /\ q[1] \in S
      /\ \A i \in 1 .. Len(q) - 1 : Tail(q)[i] = q[i + 1]
  OBVIOUS
<1>2. In(q, Head(q))
  <2>1. 1 \in 1 .. Len(q)
    BY <1>1
  <2>. QED BY <1>1, <2>1 DEF In
<1>3. Distinct(Tail(q))
  <2>. SUFFICES ASSUME NEW i \in 1 .. Len(q) - 1, NEW j \in 1 .. Len(q) - 1,
                       Tail(q)[i] = Tail(q)[j]
                PROVE  i = j
    BY <1>1 DEF Distinct
  <2>1. q[i + 1] = q[j + 1] /\ i + 1 \in 1 .. Len(q) /\ j + 1 \in 1 .. Len(q)
    BY <1>1
  <2>2. i + 1 = j + 1
    BY <2>1 DEF Distinct
  <2>. QED BY <2>2
<1>4. ASSUME NEW x, In(Tail(q), x) PROVE In(q, x) /\ x # Head(q)
  <2>1. PICK i \in 1 .. Len(q) - 1 : q[i + 1] = x
    BY <1>1, <1>4 DEF In
  <2>2. i + 1 \in 1 .. Len(q) /\ 1 \in 1 .. Len(q) /\ i + 1 # 1
    BY <1>1
  <2>. QED BY <1>1, <2>1, <2>2 DEF In, Distinct
<1>5. ASSUME NEW x, In(q, x), x # Head(q) PROVE In(Tail(q), x)
  <2>1. PICK i \in 1 .. Len(q) : q[i] = x
    BY <1>5 DEF In
  <2>2. i # 1
    BY <1>1, <1>5, <2>1
  <2>3. i - 1 \in 1 .. Len(q) - 1 /\ Tail(q)[i - 1] = q[(i - 1) + 1]
    BY <1>1, <2>2
  <2>. QED BY <1>1, <2>1, <2>3 DEF In
<1>. QED BY <1>1, <1>2, <1>3, <1>4, <1>5

\* InOrder lists every member of a finite set of numbers once.
LEMMA InOrderLists ==
  ASSUME NEW S \in SUBSET Nat, IsFiniteSet(S)
  PROVE  /\ Cardinality(S) \in Nat /\ DOMAIN InOrder(S) = 1 .. Cardinality(S)
         /\ \A x \in 1 .. Cardinality(S) : InOrder(S)[x] \in S
         /\ \A x, y \in 1 .. Cardinality(S) : InOrder(S)[x] = InOrder(S)[y] => x = y
         /\ \A g \in S : \E x \in 1 .. Cardinality(S) : InOrder(S)[x] = g
<1>. DEFINE upTo(g) == {h \in S : h <= g}
            rank == [g \in S |-> Cardinality(upTo(g))]
            c == Cardinality(S)
<1>1. c \in Nat /\ IsFiniteSet(1 .. c) /\ Cardinality(1 .. c) = c
  BY FS_CardinalityType, FS_Interval
<1>2. ASSUME NEW g \in S
      PROVE  /\ IsFiniteSet(upTo(g)) /\ rank[g] \in 1 .. c
  <2>1. IsFiniteSet(upTo(g)) /\ Cardinality(upTo(g)) <= c
    BY FS_Subset
  <2>2. g \in upTo(g)
    OBVIOUS
  <2>. HIDE DEF upTo, c
  <2>3. Cardinality(upTo(g)) \in Nat /\ Cardinality(upTo(g)) # 0
    BY <2>1, <2>2, FS_CardinalityType, FS_EmptySet
  <2>. QED BY <1>1, <2>1, <2>3
<1>3. ASSUME NEW g \in S, NEW h \in S, g < h PROVE rank[g] < rank[h]
  <2>1. upTo(g) \subseteq upTo(h) /\ h \in upTo(h) /\ h \notin upTo(g)
    <3>1. g \in Nat /\ h \in Nat /\ \A k \in S : k \in Nat
      OBVIOUS
    <3>2. h <= h /\ ~(h <= g) /\ \A k \in S : k <= g => k <= h
      BY <1>3, <3>1
    <3>. QED BY <3>2
  <2>. HIDE DEF upTo, c
  <2>2. /\ Cardinality(upTo(g)) <= Cardinality(upTo(h))
        /\ Cardinality(upTo(g)) # Cardinality(upTo(h))
    BY <1>2, <2>1, FS_Subset
  <2>3. rank[g] \in Nat /\ rank[h] \in Nat
    BY <1>1, <1>2
  <2>. QED BY <2>2, <2>3
<1>. HIDE DEF upTo, c
<1>4. rank \in Injection(S, 1 .. c)
  <2>1. rank \in [S -> 1 .. c]
    BY <1>2
  <2>2. ASSUME NEW g \in S, NEW h \in S, rank[g] = rank[h] PROVE g = h
    <3>1. ~(g < h) /\ ~(h < g)
      BY <1>1, <1>2, <1>3, <2>2
    <3>. QED BY <3>1
  <2>. QED BY <2>1, <2>2 DEF Injection, IsInjective
<1>5. \A x \in 1 .. c : \E g \in S : rank[g] = x
  <2>1. rank \in Surjection(S, 1 .. c)
    BY <1>1, <1>4, FS_Injection DEF c
  <2>. QED BY <2>1 DEF Surjection
<1>6. \A g \in S : rank[g] = Cardinality({h \in S : h <= g})
  BY DEF upTo
<1>. HIDE DEF rank
<1>7. ASSUME NEW x \in 1 .. c PROVE InOrder(S)[x] \in S /\ rank[InOrder(S)[x]] = x
  <2>1. \E g \in S : Cardinality({h \in S : h <= g}) = x
    BY <1>5, <1>6
  <2>2. InOrder(S)[x] = CHOOSE g \in S : Cardinality({h \in S : h <= g}) = x
    BY DEF InOrder, c
  <2>3. /\ InOrder(S)[x] \in S
        /\ Cardinality({h \in S : h <= InOrder(S)[x]}) = x
    BY <2>1, <2>2, Zenon
  <2>. QED BY <1>6, <2>3
<1>8. ASSUME NEW g \in S PROVE InOrder(S)[rank[g]] = g
  <2>1. rank[g] \in 1 .. c
    BY <1>2
  <2>2. /\ InOrder(S)[rank[g]] \in S
        /\ rank[InOrder(S)[rank[g]]] = rank[g]
    BY <1>7, <2>1
  <2>. QED BY <1>4, <2>2 DEF Injection, IsInjective
<1>9. DOMAIN InOrder(S) = 1 .. c
  BY DEF InOrder, c
<1>10. ASSUME NEW x \in 1 .. c, NEW y \in 1 .. c, InOrder(S)[x] = InOrder(S)[y] PROVE x = y
  BY <1>7, <1>10
<1>11. \A g \in S : \E x \in 1 .. c : InOrder(S)[x] = g
  BY <1>2, <1>8
<1>. QED BY <1>1, <1>7, <1>9, <1>10, <1>11 DEF c

\* RemoveAt takes out one element and closes the gap.
LEMMA RemoveAtProperties ==
  ASSUME NEW S, NEW q \in Seq(S), NEW i \in 1 .. Len(q)
  PROVE  /\ RemoveAt(q, i) \in Seq(S)
         /\ Len(RemoveAt(q, i)) = Len(q) - 1
         /\ \A j \in 1 .. Len(q) - 1 :
              RemoveAt(q, i)[j] = IF j < i THEN q[j] ELSE q[j + 1]
<1>. DEFINE a == SubSeq(q, 1, i - 1)
           b == SubSeq(q, i + 1, Len(q))
<1>0. Len(q) \in Nat /\ i \in Nat /\ 1 <= i /\ i <= Len(q)
  OBVIOUS
<1>1. /\ a \in Seq(S) /\ Len(a) = i - 1
      /\ \A j \in 1 .. i - 1 : a[j] = q[j]
  BY <1>0, SubSeqProperties
<1>2. /\ b \in Seq(S) /\ Len(b) = Len(q) - i
      /\ \A j \in 1 .. Len(q) - i : b[j] = q[i + j]
  BY <1>0, SubSeqProperties
<1>3. /\ a \o b \in Seq(S) /\ Len(a \o b) = Len(a) + Len(b)
      /\ \A j \in 1 .. Len(a) + Len(b) :
           (a \o b)[j] = IF j <= Len(a) THEN a[j] ELSE b[j - Len(a)]
  BY <1>1, <1>2, ConcatProperties
<1>. HIDE DEF a, b
<1>4. Len(a \o b) = Len(q) - 1
  BY <1>0, <1>1, <1>2, <1>3
<1>5. ASSUME NEW j \in 1 .. Len(q) - 1
      PROVE  (a \o b)[j] = IF j < i THEN q[j] ELSE q[j + 1]
  BY <1>0, <1>1, <1>2, <1>3
<1>. QED BY <1>3, <1>4, <1>5 DEF RemoveAt, a, b

LEMMA NoneIsNone ==
  /\ NONE \notin Procs /\ NONE \notin Frames /\ NONE \notin Pages
  /\ Procs \subseteq Nat /\ Frames \subseteq Nat /\ Pages \subseteq Nat
  /\ ArrayPages \subseteq Pages
BY LRUAssumption DEF NONE, Procs, Frames, Pages, ArrayPages

LEMMA EntryHas ==
  /\ \A e \in Entry : e.frame_no \in Frames
  /\ \A f \in Frames : Unowned(f) \in Entry /\ Unowned(f).frame_no = f
                       /\ Unowned(f).last_owner = NONE
BY DEF Entry, Unowned

\* The list without the entry at i.
LEMMA TakenOut ==
  ASSUME NEW q \in Seq(Entry), Single(q), NEW i \in 1 .. Len(q), NEW q2,
         q2 = RemoveAt(q, i) \/ (i = 1 /\ q2 = Tail(q))
  PROVE  /\ q2 \in Seq(Entry) /\ Len(q2) = Len(q) - 1 /\ Single(q2) /\ q[i] \in Entry
         /\ Has(q, q[i].frame_no)
         /\ \A f : Has(q2, f) <=> Has(q, f) /\ f # q[i].frame_no
         /\ \A e : In(q2, e) => In(q, e) /\ e.frame_no # q[i].frame_no
<1>1. /\ q2 \in Seq(Entry) /\ Len(q2) = Len(q) - 1 /\ Len(q) \in Nat
      /\ \A j \in 1 .. Len(q) - 1 : q2[j] = IF j < i THEN q[j] ELSE q[j + 1]
  <2>1. CASE q2 = RemoveAt(q, i)
    <3>. DEFINE r == RemoveAt(q, i)
    <3>1. /\ r \in Seq(Entry) /\ Len(r) = Len(q) - 1
          /\ \A j \in 1 .. Len(q) - 1 : r[j] = IF j < i THEN q[j] ELSE q[j + 1]
      BY RemoveAtProperties
    <3>2. q2 = r /\ Len(q) \in Nat
      BY <2>1
    <3>. HIDE DEF r
    <3>. QED BY <3>1, <3>2
  <2>2. CASE i = 1 /\ q2 = Tail(q)
    <3>1. q # <<>>
      OBVIOUS
    <3>2. /\ Tail(q) \in Seq(Entry) /\ Len(Tail(q)) = Len(q) - 1 /\ Len(q) \in Nat
          /\ \A j \in 1 .. Len(q) - 1 : Tail(q)[j] = q[j + 1]
      BY <3>1
    <3>. QED BY <2>2, <3>2
  <2>. QED BY <2>1, <2>2
<1>. DEFINE old(j) == IF j < i THEN j ELSE j + 1
<1>2. \A j \in 1 .. Len(q2) : old(j) \in 1 .. Len(q) /\ old(j) # i /\ q2[j] = q[old(j)]
  BY <1>1
<1>3. \A j, k \in 1 .. Len(q2) : old(j) = old(k) => j = k
  BY <1>1
<1>4. ASSUME NEW k \in 1 .. Len(q), k # i PROVE \E j \in 1 .. Len(q2) : old(j) = k
  <2>1. CASE k < i
    <3>1. k \in 1 .. Len(q2) /\ old(k) = k
      BY <1>1, <2>1
    <3>. QED BY <3>1
  <2>2. CASE k > i
    <3>1. k - 1 \in 1 .. Len(q2) /\ old(k - 1) = k
      BY <1>1, <2>2
    <3>. QED BY <3>1
  <2>. QED BY <1>1, <1>4, <2>1, <2>2
<1>. HIDE DEF old
<1>5. Single(q2)
  <2>. SUFFICES ASSUME NEW j \in 1 .. Len(q2), NEW k \in 1 .. Len(q2),
                       q2[j].frame_no = q2[k].frame_no
                PROVE  j = k
    BY DEF Single
  <2>1. old(j) = old(k)
    BY <1>2 DEF Single
  <2>. QED BY <1>3, <2>1
<1>6. ASSUME NEW f, Has(q2, f) PROVE Has(q, f) /\ f # q[i].frame_no
  BY <1>2, <1>6 DEF Has, Single
<1>7. ASSUME NEW f, Has(q, f), f # q[i].frame_no PROVE Has(q2, f)
  <2>1. PICK k \in 1 .. Len(q) : q[k].frame_no = f
    BY <1>7 DEF Has
  <2>2. PICK j \in 1 .. Len(q2) : old(j) = k
    BY <1>4, <1>7, <2>1
  <2>. QED BY <1>2, <2>1, <2>2 DEF Has
<1>8. ASSUME NEW e, In(q2, e) PROVE In(q, e) /\ e.frame_no # q[i].frame_no
  BY <1>2, <1>8 DEF In, Single
<1>9. q[i] \in Entry /\ Has(q, q[i].frame_no)
  BY DEF Has
<1>. QED BY <1>1, <1>5, <1>6, <1>7, <1>8, <1>9

\* The list with one more entry.
LEMMA PutLast ==
  ASSUME NEW q \in Seq(Entry), Single(q), NEW e \in Entry, ~Has(q, e.frame_no)
  PROVE  /\ Append(q, e) \in Seq(Entry) /\ Len(Append(q, e)) = Len(q) + 1
         /\ Single(Append(q, e))
         /\ \A f : Has(Append(q, e), f) <=> Has(q, f) \/ f = e.frame_no
         /\ \A d : In(Append(q, e), d) <=> In(q, d) \/ d = e
<1>1. /\ Append(q, e) \in Seq(Entry) /\ Len(q) \in Nat /\ Len(Append(q, e)) = Len(q) + 1
      /\ Append(q, e)[Len(q) + 1] = e
      /\ \A i \in 1 .. Len(q) : Append(q, e)[i] = q[i]
  OBVIOUS
<1>2. \A i \in 1 .. Len(q) + 1 : i \in 1 .. Len(q) \/ i = Len(q) + 1
  BY <1>1
<1>3. Len(q) + 1 \in 1 .. Len(q) + 1 /\ \A i \in 1 .. Len(q) : i \in 1 .. Len(q) + 1
  BY <1>1
<1>4. \A f : Has(Append(q, e), f) <=> Has(q, f) \/ f = e.frame_no
  BY <1>1, <1>2, <1>3 DEF Has
<1>5. \A d : In(Append(q, e), d) <=> In(q, d) \/ d = e
  BY <1>1, <1>2, <1>3 DEF In
<1>6. Single(Append(q, e))
  BY <1>1, <1>2 DEF Has, Single
<1>. QED BY <1>1, <1>4, <1>5, <1>6

\* Two lists, one behind the other.
LEMMA Join ==
  ASSUME NEW q \in Seq(Entry), NEW r \in Seq(Entry), Single(q), Single(r),
         \A f : ~(Has(q, f) /\ Has(r, f))
  PROVE  /\ q \o r \in Seq(Entry) /\ Single(q \o r) /\ Len(q \o r) = Len(q) + Len(r)
         /\ \A f : Has(q \o r, f) <=> Has(q, f) \/ Has(r, f)
         /\ \A e : In(q \o r, e) => In(q, e) \/ In(r, e)
<1>1. /\ q \o r \in Seq(Entry) /\ Len(q) \in Nat /\ Len(r) \in Nat
      /\ Len(q \o r) = Len(q) + Len(r)
      /\ \A i \in 1 .. Len(q) : (q \o r)[i] = q[i]
      /\ \A i \in 1 .. Len(r) : (q \o r)[Len(q) + i] = r[i]
  OBVIOUS
<1>2. \A i \in 1 .. Len(q \o r) :
        \/ i \in 1 .. Len(q) /\ (q \o r)[i] = q[i]
        \/ i - Len(q) \in 1 .. Len(r) /\ (q \o r)[i] = r[i - Len(q)]
  <2>1. ASSUME NEW i \in 1 .. Len(q \o r), i \notin 1 .. Len(q)
        PROVE  i - Len(q) \in 1 .. Len(r) /\ (q \o r)[i] = r[i - Len(q)]
    <3>1. i - Len(q) \in 1 .. Len(r) /\ i = Len(q) + (i - Len(q))
      BY <1>1, <2>1
    <3>2. (q \o r)[Len(q) + (i - Len(q))] = r[i - Len(q)]
      BY <1>1, <3>1
    <3>. QED BY <3>1, <3>2
  <2>. QED BY <1>1, <2>1
<1>3. /\ \A i \in 1 .. Len(q) : i \in 1 .. Len(q \o r)
      /\ \A i \in 1 .. Len(r) : Len(q) + i \in 1 .. Len(q \o r)
  BY <1>1
<1>4. ASSUME NEW f PROVE Has(q \o r, f) <=> Has(q, f) \/ Has(r, f)
  BY <1>1, <1>2, <1>3 DEF Has
<1>5. ASSUME NEW e, In(q \o r, e) PROVE In(q, e) \/ In(r, e)
  BY <1>2, <1>5 DEF In
<1>6. Single(q \o r)
  <2>. SUFFICES ASSUME NEW i \in 1 .. Len(q \o r), NEW j \in 1 .. Len(q \o r),
                       (q \o r)[i].frame_no = (q \o r)[j].frame_no
                PROVE  i = j
    BY DEF Single
  <2>1. CASE i \in 1 .. Len(q) /\ j \in 1 .. Len(q)
    BY <1>1, <2>1 DEF Single
  <2>2. CASE i - Len(q) \in 1 .. Len(r) /\ j - Len(q) \in 1 .. Len(r)
    <3>1. r[i - Len(q)].frame_no = r[j - Len(q)].frame_no
      BY <1>1, <1>2, <2>2
    <3>2. i - Len(q) = j - Len(q)
      BY <2>2, <3>1 DEF Single
    <3>. QED BY <1>1, <3>2
  <2>3. CASE i \in 1 .. Len(q) /\ j - Len(q) \in 1 .. Len(r)
    <3>1. q[i].frame_no = r[j - Len(q)].frame_no
      BY <1>1, <1>2, <2>3
    <3>2. Has(q, q[i].frame_no) /\ Has(r, q[i].frame_no)
      BY <2>3, <3>1 DEF Has
    <3>. QED BY <3>2
  <2>4. CASE i - Len(q) \in 1 .. Len(r) /\ j \in 1 .. Len(q)
    <3>1. q[j].frame_no = r[i - Len(q)].frame_no
      BY <1>1, <1>2, <2>4
    <3>2. Has(q, q[j].frame_no) /\ Has(r, q[j].frame_no)
      BY <2>4, <3>1 DEF Has
    <3>. QED BY <3>2
  <2>. QED BY <1>2, <2>1, <2>2, <2>3, <2>4
<1>. QED BY <1>1, <1>4, <1>5, <1>6

\* Any set of positions that is not empty has a last one.
LEMMA LastOne ==
  ASSUME NEW k \in Nat, NEW T \in SUBSET (1 .. k), T # {}
  PROVE  Max(T) \in T
<1>. DEFINE D == {k - i : i \in T}
<1>1. D \subseteq Nat /\ D # {}
  <2>1. \A i \in T : k - i \in Nat
    OBVIOUS
  <2>. QED BY <2>1
<1>2. PICK d \in D : \A x \in D : d <= x
  <2>. HIDE DEF D
  <2>. QED BY <1>1, LeastElement
<1>3. PICK i \in T : d = k - i
  BY <1>2
<1>4. \A j \in T : i >= j
  <2>1. ASSUME NEW j \in T PROVE i >= j
    <3>1. k - i <= k - j /\ i \in Nat /\ j \in Nat
      BY <1>2, <1>3
    <3>. QED BY <3>1
  <2>. QED BY <2>1
<1>. QED BY <1>3, <1>4 DEF Max

-----------------------------------------------------------------------------
(* The pages and the frames.                                               *)

\* The search looks at a page of the array and stays in the array.
LEMMA TurnStays ==
  ASSUME Shape, Looking
  PROVE  /\ running \in Procs /\ Page \in ArrayPages /\ Page \in Pages
         /\ Narrow => L' \in Nat /\ R' \in Int /\ R' < s[running] /\ running' = running
<1>1. /\ running \in Procs /\ running # NONE /\ L < R /\ L \in Nat /\ R \in Int /\ R < s[running]
  BY DEF Shape, Looking
<1>2. /\ s[running] \in Nat /\ s[running] >= 1 /\ ELEMS_PER_PAGE \in Nat /\ ELEMS_PER_PAGE > 0
      /\ ESSENTIAL_PAGES \in Nat /\ PAGE_TABLE_SIZE \in Nat
      /\ PageOf(s[running] - 1) < PAGE_TABLE_SIZE
  BY <1>1, LRUAssumption
<1>3. Mid \in Nat /\ Mid < R
  BY <1>1 DEF Mid
<1>4. Page \in ArrayPages
  <2>1. Mid \div ELEMS_PER_PAGE \in Nat /\ (s[running] - 1) \div ELEMS_PER_PAGE \in Nat
    BY <1>2, <1>3
  <2>2. Mid <= s[running] - 1
    BY <1>1, <1>2, <1>3
  <2>3. Mid \div ELEMS_PER_PAGE <= (s[running] - 1) \div ELEMS_PER_PAGE
    BY <1>2, <1>3, <2>2
  <2>. QED BY <1>2, <2>1, <2>3 DEF Page, PageOf, ArrayPages
<1>5. ASSUME Narrow PROVE L' \in Nat /\ R' \in Int /\ R' < s[running] /\ running' = running
  BY <1>1, <1>2, <1>3, <1>5 DEF Narrow
<1>. QED BY <1>1, <1>4, <1>5, NoneIsNone

\* What Released holds.
LEMMA ReleasedAre ==
  ASSUME Shape, FrameInv, NEW p \in Procs
  PROVE  /\ Released(p) \in Seq(Entry) /\ Single(Released(p))
         /\ \A f : Has(Released(p), f) <=> \E g \in Pages : Valid(p, g) /\ FrameOf(p, g) = f
         /\ \A e : In(Released(p), e) => e.last_owner = NONE
<1>. DEFINE V == {g \in Pages : Valid(p, g)}
            ord == InOrder(V)
            c == Cardinality(V)
            r == Released(p)
<1>1. V \in SUBSET Nat /\ IsFiniteSet(V)
  <2>1. IsFiniteSet(Pages)
    <3>1. 0 \in Int /\ PAGE_TABLE_SIZE - 1 \in Int
      BY LRUAssumption
    <3>. QED BY <3>1, FS_Interval DEF Pages
  <2>2. V \in SUBSET Pages
    OBVIOUS
  <2>. QED BY <2>1, <2>2, FS_Subset, NoneIsNone
<1>. HIDE DEF V
<1>2. /\ c \in Nat /\ DOMAIN ord = 1 .. c
      /\ \A x \in 1 .. c : ord[x] \in V
      /\ \A x, y \in 1 .. c : ord[x] = ord[y] => x = y
      /\ \A g \in V : \E x \in 1 .. c : ord[x] = g
  BY <1>1, InOrderLists
<1>3. r = [x \in 1 .. c |-> Unowned(FrameOf(p, ord[x]))]
  BY <1>2 DEF Released, V, FrameOf
<1>. HIDE DEF ord, c, r
<1>4. \A g : g \in V <=> g \in Pages /\ Valid(p, g)
  BY DEF V
<1>5. \A g \in V : FrameOf(p, g) \in Frames
  BY <1>4 DEF Shape, PageEntry, Valid, FrameOf
<1>6. \A x \in 1 .. c : /\ r[x] \in Entry /\ r[x].frame_no = FrameOf(p, ord[x])
                        /\ r[x].last_owner = NONE
  BY <1>2, <1>3, <1>5, EntryHas
<1>7. r \in Seq(Entry) /\ Len(r) = c
  <2>1. r \in [1 .. c -> Entry]
    BY <1>3, <1>6
  <2>. QED BY <1>2, <2>1
<1>8. Single(r)
  <2>. SUFFICES ASSUME NEW x \in 1 .. c, NEW y \in 1 .. c, r[x].frame_no = r[y].frame_no
                PROVE  x = y
    BY <1>7 DEF Single
  <2>1. ord[x] = ord[y]
    BY <1>2, <1>4, <1>6 DEF FrameInv
  <2>. QED BY <1>2, <2>1
<1>9. ASSUME NEW f PROVE Has(r, f) <=> \E g \in Pages : Valid(p, g) /\ FrameOf(p, g) = f
  <2>1. Has(r, f) <=> \E x \in 1 .. c : FrameOf(p, ord[x]) = f
    BY <1>6, <1>7 DEF Has
  <2>2. (\E x \in 1 .. c : FrameOf(p, ord[x]) = f) <=> \E g \in V : FrameOf(p, g) = f
    BY <1>2
  <2>. QED BY <1>4, <2>1, <2>2
<1>10. \A e : In(r, e) => e.last_owner = NONE
  BY <1>6, <1>7 DEF In
<1>. QED BY <1>7, <1>8, <1>9, <1>10 DEF r

\* The four attempts find an entry of the list.
LEMMA FoundInList ==
  ASSUME Shape, Len(FFLIST) >= NFFMIN, NEW p, NEW g
  PROVE  FoundIndex(p, g) \in 1 .. Len(FFLIST)
<1>1. Len(FFLIST) \in Nat /\ Len(FFLIST) >= 1 /\ RAND \in Nat /\ DOMAIN FFLIST = 1 .. Len(FFLIST)
  BY LRUAssumption DEF Shape
<1>2. (RAND % Len(FFLIST)) + 1 \in 1 .. Len(FFLIST)
  BY <1>1
<1>3. \A T \in SUBSET (1 .. Len(FFLIST)) : T # {} => Max(T) \in 1 .. Len(FFLIST)
  BY <1>1, LastOne
<1>4. /\ SamePage(p, g) \in SUBSET (1 .. Len(FFLIST)) /\ NoOwner \in SUBSET (1 .. Len(FFLIST))
      /\ SameOwner(p) \in SUBSET (1 .. Len(FFLIST))
  BY <1>1 DEF SamePage, NoOwner, SameOwner
<1>. DEFINE pool == IF SamePage(p, g) # {} THEN SamePage(p, g)
                    ELSE IF NoOwner # {} THEN NoOwner ELSE SameOwner(p)
<1>5. pool \in SUBSET (1 .. Len(FFLIST))
  BY <1>4
<1>6. FoundIndex(p, g) = IF pool # {} THEN Max(pool) ELSE (RAND % Len(FFLIST)) + 1
  BY DEF FoundIndex
<1>. HIDE DEF pool
<1>. QED BY <1>2, <1>3, <1>5, <1>6

\* A step that moves no frame.
LEMMA FramesUntouched ==
  ASSUME FrameInv, MarksInv, UNCHANGED <<FFLIST, content>>,
         \A p \in Procs, g \in Pages : FrameOf(p, g)' = FrameOf(p, g)
  PROVE  FrameInv' /\ MarksInv'
<1>1. \A p \in Procs, g \in Pages : Valid(p, g)' <=> Valid(p, g)
  BY DEF Valid, FrameOf
<1>2. FrameInv'
  <2>. HIDE DEF FrameOf, Valid
  <2>. QED BY <1>1 DEF FrameInv
<1>3. MarksInv'
  <2>. HIDE DEF FrameOf, Valid
  <2>. QED BY <1>1 DEF MarksInv, MarkIsTrue
<1>. QED BY <1>2, <1>3

\* Frames that a fault of process who in page pg moves: f, from the list to pg,
\* and the frame of the victim v to the list, if there is a victim.
LEMMA Exchange ==
  ASSUME Shape, FrameInv, MarksInv, Fault, NEW i \in 1 .. Len(FFLIST), NEW q2,
         q2 = RemoveAt(FFLIST, i) \/ (i = 1 /\ q2 = Tail(FFLIST)),
         NEW f, f = FFLIST[i].frame_no,
         NEW who, who = running, NEW pg, pg = Page,
         Len(FFLIST') >= NFFMIN,
         content'[f] = <<who, pg>>,
         \A x \in Frames : x # f => content'[x] = content[x],
         FrameOf(who, pg)' = f,
         \/ /\ FFLIST' = q2
            /\ \A p \in Procs, g \in Pages :
                 p # who \/ g # pg => FrameOf(p, g)' = FrameOf(p, g)
         \/ \E v \in Pages :
              /\ v # pg /\ Valid(who, v) /\ FFLIST' = Append(q2, GivenUp(v))
              /\ FrameOf(who, v)' = NONE
              /\ \A p \in Procs, g \in Pages :
                   p # who \/ (g # pg /\ g # v) => FrameOf(p, g)' = FrameOf(p, g)
  PROVE  FrameInv' /\ MarksInv' /\ FFLIST' \in Seq(Entry)
<1>1. /\ who \in Procs /\ pg \in Pages /\ FrameOf(who, pg) = NONE
      /\ FFLIST \in Seq(Entry) /\ Single(FFLIST)
      /\ \A p \in Procs, g \in Pages : FrameOf(p, g) \in Frames \cup {NONE}
  BY TurnStays DEF Fault, Valid, FrameOf, Shape, FrameInv, PageEntry
<1>2. /\ q2 \in Seq(Entry) /\ Single(q2) /\ f \in Frames /\ Has(FFLIST, f)
      /\ \A x : Has(q2, x) <=> Has(FFLIST, x) /\ x # f
      /\ \A e : In(q2, e) => In(FFLIST, e) /\ e.frame_no # f
  BY <1>1, TakenOut, EntryHas
<1>3. f # NONE /\ \A p \in Procs, g \in Pages : FrameOf(p, g) # f
  BY <1>2, NoneIsNone DEF FrameInv
\* The frame of the victim, or NONE, leaves the table.
<1>4. \E v, fv :
        /\ Single(FFLIST') /\ FFLIST' \in Seq(Entry)
        /\ \A x : Has(FFLIST', x) <=> (Has(FFLIST, x) /\ x # f) \/ (x = fv /\ x # NONE)
        /\ \A e : In(FFLIST', e) => MarkIsTrue(e) /\ e.frame_no # f
        /\ v \in Pages /\ FrameOf(who, v) = fv /\ fv # f
        /\ v # pg => FrameOf(who, v)' = NONE
        /\ \A p \in Procs, g \in Pages :
             p # who \/ (g # pg /\ g # v) => FrameOf(p, g)' = FrameOf(p, g)
  <2>1. CASE /\ FFLIST' = q2
             /\ \A p \in Procs, g \in Pages :
                  p # who \/ g # pg => FrameOf(p, g)' = FrameOf(p, g)
    <3>1. \A e : In(q2, e) => MarkIsTrue(e) /\ e.frame_no # f
      BY <1>2 DEF MarksInv
    <3>. HIDE DEF FrameOf, Has, In, Single, MarkIsTrue
    <3>2. /\ Single(FFLIST') /\ FFLIST' \in Seq(Entry)
          /\ \A x : Has(FFLIST', x) <=> (Has(FFLIST, x) /\ x # f) \/ (x = NONE /\ x # NONE)
          /\ \A e : In(FFLIST', e) => MarkIsTrue(e) /\ e.frame_no # f
          /\ pg \in Pages /\ FrameOf(who, pg) = NONE /\ NONE # f
      BY <1>1, <1>2, <1>3, <2>1, <3>1
    <3>. QED BY <2>1, <3>2
  <2>2. CASE \E v \in Pages :
               /\ v # pg /\ Valid(who, v) /\ FFLIST' = Append(q2, GivenUp(v))
               /\ FrameOf(who, v)' = NONE
               /\ \A p \in Procs, g \in Pages :
                    p # who \/ (g # pg /\ g # v) => FrameOf(p, g)' = FrameOf(p, g)
    <3>1. PICK v \in Pages :
               /\ v # pg /\ Valid(who, v) /\ FFLIST' = Append(q2, GivenUp(v))
               /\ FrameOf(who, v)' = NONE
               /\ \A p \in Procs, g \in Pages :
                    p # who \/ (g # pg /\ g # v) => FrameOf(p, g)' = FrameOf(p, g)
      BY <2>2
    <3>. DEFINE e0 == GivenUp(v)
                fv == FrameOf(who, v)
    <3>2. fv \in Frames /\ fv # NONE /\ ~Has(FFLIST, fv) /\ fv # f
      BY <1>1, <1>3, <3>1 DEF Valid, FrameOf, FrameInv
    <3>3. e0 \in Entry /\ e0.frame_no = fv /\ MarkIsTrue(e0)
      <4>1. e0 = [frame_no |-> fv, last_owner |-> who, pg_no |-> v]
        BY DEF GivenUp, FrameOf
      <4>2. e0 \in Entry
        BY <1>1, <3>2, <4>1 DEF Entry
      <4>3. content[fv] = <<who, v>>
        BY <1>1, <3>1 DEF MarksInv
      <4>. QED BY <4>1, <4>2, <4>3 DEF MarkIsTrue
    <3>4. PICK e : e = e0
      OBVIOUS
    <3>5. FFLIST' = Append(q2, e) /\ e \in Entry /\ e.frame_no = fv /\ MarkIsTrue(e)
      BY <3>1, <3>3, <3>4
    <3>. HIDE DEF e0, fv
    <3>6. /\ FFLIST' \in Seq(Entry) /\ Single(FFLIST')
          /\ \A x : Has(FFLIST', x) <=> Has(q2, x) \/ x = fv
          /\ \A d : In(FFLIST', d) <=> In(q2, d) \/ d = e
      <4>1. ~Has(q2, fv)
        BY <1>2, <3>2
      <4>. HIDE DEF Has, In, Single
      <4>. QED BY <1>2, <3>5, <4>1, PutLast
    <3>7. \A d : In(FFLIST', d) => MarkIsTrue(d) /\ d.frame_no # f
      <4>1. \A d : In(q2, d) => MarkIsTrue(d) /\ d.frame_no # f
        BY <1>2 DEF MarksInv
      <4>. HIDE DEF In, MarkIsTrue
      <4>. QED BY <3>2, <3>5, <3>6, <4>1
    <3>8. \A x : Has(FFLIST', x) <=> (Has(FFLIST, x) /\ x # f) \/ (x = fv /\ x # NONE)
      <4>. HIDE DEF Has
      <4>. QED BY <1>2, <3>2, <3>6
    <3>9. FrameOf(who, v) = fv
      BY DEF fv
    <3>. HIDE DEF Has, In, Single, MarkIsTrue, FrameOf
    <3>. QED BY <3>1, <3>2, <3>6, <3>7, <3>8, <3>9
  <2>. QED BY <2>1, <2>2
<1>5. PICK v, fv :
        /\ Single(FFLIST') /\ FFLIST' \in Seq(Entry)
        /\ \A x : Has(FFLIST', x) <=> (Has(FFLIST, x) /\ x # f) \/ (x = fv /\ x # NONE)
        /\ \A e : In(FFLIST', e) => MarkIsTrue(e) /\ e.frame_no # f
        /\ v \in Pages /\ FrameOf(who, v) = fv /\ fv # f
        /\ v # pg => FrameOf(who, v)' = NONE
        /\ \A p \in Procs, g \in Pages :
             p # who \/ (g # pg /\ g # v) => FrameOf(p, g)' = FrameOf(p, g)
  BY <1>4
<1>6. ~Has(FFLIST, NONE)
  BY <1>1, EntryHas, NoneIsNone DEF Has
\* Every page has the missed one's frame, the one it had, or none.
<1>7. ASSUME NEW p \in Procs, NEW g \in Pages
      PROVE  \/ p = who /\ g = pg /\ FrameOf(p, g)' = f
             \/ FrameOf(p, g)' = NONE
             \/ FrameOf(p, g)' = FrameOf(p, g) /\ (FrameOf(p, g) = fv => fv = NONE)
  <2>. HIDE DEF FrameOf
  <2>1. CASE p = who /\ g = pg
    BY <2>1
  <2>2. CASE p = who /\ g = v /\ g # pg
    BY <1>5, <2>2
  <2>3. CASE p # who \/ (g # pg /\ g # v)
    <3>1. FrameOf(p, g)' = FrameOf(p, g)
      BY <1>5, <2>3
    <3>2. FrameOf(p, g) = fv /\ fv # NONE => p = who /\ g = v
      BY <1>1, <1>5 DEF FrameInv, Valid, FrameOf
    <3>3. FrameOf(p, g) = fv => fv = NONE
      BY <1>1, <1>5, <2>3, <3>2
    <3>. QED BY <3>1, <3>3
  <2>. QED BY <2>1, <2>2, <2>3
<1>. HIDE DEF Has, In, Single, FrameOf, MarkIsTrue
<1>8. ASSUME NEW p \in Procs, NEW g \in Pages PROVE ~Has(FFLIST', FrameOf(p, g)')
  <2>1. ~Has(FFLIST, FrameOf(p, g))
    BY DEF FrameInv
  <2>. QED BY <1>3, <1>5, <1>6, <1>7, <2>1
<1>9. ASSUME NEW x \in Frames, ~Has(FFLIST', x)
       PROVE  \E p \in Procs, g \in Pages : FrameOf(p, g)' = x
  <2>1. CASE x = f
    BY <1>1, <2>1
  <2>2. CASE x # f
    <3>1. ~Has(FFLIST, x) /\ x # NONE /\ x # fv
      BY <1>5, <1>9, <2>2, NoneIsNone
    <3>2. PICK p \in Procs, g \in Pages : FrameOf(p, g) = x
      BY <3>1 DEF FrameInv
    <3>3. p # who \/ (g # pg /\ g # v)
      BY <1>1, <1>5, <3>1, <3>2
    <3>. QED BY <1>5, <3>2, <3>3
  <2>. QED BY <2>1, <2>2
<1>10. ASSUME NEW p \in Procs, NEW q \in Procs, NEW g \in Pages, NEW h \in Pages,
              FrameOf(p, g)' # NONE, FrameOf(p, g)' = FrameOf(q, h)'
       PROVE  p = q /\ g = h
  <2>1. FrameOf(p, g) # f /\ FrameOf(q, h) # f
    BY <1>3
  <2>2. CASE p = who /\ g = pg /\ FrameOf(p, g)' = f
    BY <1>7, <1>10, <2>1, <2>2
  <2>3. CASE FrameOf(p, g)' = FrameOf(p, g)
    <3>1. FrameOf(q, h)' = FrameOf(q, h)
      BY <1>7, <1>10, <2>1, <2>3
    <3>2. FrameOf(p, g) # NONE /\ FrameOf(p, g) = FrameOf(q, h)
      BY <1>10, <2>3, <3>1
    <3>. QED BY <3>2 DEF FrameInv, Valid, FrameOf
  <2>. QED BY <1>7, <1>10, <2>2, <2>3
<1>11. FrameInv'
  <2>1. \A p \in Procs, g \in Pages : Valid(p, g)' <=> FrameOf(p, g)' # NONE
    BY DEF Valid, FrameOf
  <2>. QED BY <1>5, <1>8, <1>9, <1>10, <2>1 DEF FrameInv
<1>12. MarksInv'
  <2>1. ASSUME NEW e, In(FFLIST', e) PROVE MarkIsTrue(e)'
    <3>1. e.frame_no \in Frames
      BY <1>5, <2>1, EntryHas DEF In
    <3>. QED BY <1>5, <2>1, <3>1 DEF MarkIsTrue
  <2>2. ASSUME NEW p \in Procs, NEW g \in Pages, Valid(p, g)'
        PROVE  content'[FrameOf(p, g)'] = <<p, g>>
    <3>1. FrameOf(p, g)' # NONE
      BY <2>2 DEF Valid, FrameOf
    <3>2. CASE p = who /\ g = pg /\ FrameOf(p, g)' = f
      BY <3>2
    <3>3. CASE FrameOf(p, g)' = FrameOf(p, g)
      <4>1. Valid(p, g)
        BY <3>1, <3>3 DEF Valid, FrameOf
      <4>2. content[FrameOf(p, g)] = <<p, g>>
        BY <4>1 DEF MarksInv
      <4>. QED BY <1>1, <1>3, <3>1, <3>3, <4>2
    <3>. QED BY <1>7, <3>1, <3>2, <3>3
  <2>. QED BY <2>1, <2>2 DEF MarksInv
<1>. QED BY <1>5, <1>11, <1>12

-----------------------------------------------------------------------------
(* Powers of two, and the ages of pages.                                   *)

\* The power set of k things has 2^k members.
LEMMA PowersOfTwo ==
  /\ 2^0 = 1 /\ \A k \in Nat : 2^k \in Nat \ {0} /\ 2^(k + 1) = 2 * 2^k
  /\ \A j, k \in Nat : j <= k => 2^j <= 2^k
<1>. DEFINE upTo(k) == 1 .. k
<1>1. ASSUME NEW k \in Nat
      PROVE  /\ IsFiniteSet(SUBSET upTo(k)) /\ Cardinality(SUBSET upTo(k)) = 2^k
             /\ 2^k \in Nat
  <2>1. 1 \in Int /\ k \in Int
    OBVIOUS
  <2>2. IsFiniteSet(upTo(k)) /\ Cardinality(upTo(k)) = k
    BY <2>1, FS_Interval
  <2>. HIDE DEF upTo
  <2>3. IsFiniteSet(SUBSET upTo(k)) /\ Cardinality(SUBSET upTo(k)) = 2^Cardinality(upTo(k))
    BY <2>2, FS_SUBSET, Zenon
  <2>. QED BY <2>2, <2>3, FS_CardinalityType
<1>2. \A k \in Nat : 2^k # 0
  <2>. HIDE DEF upTo
  <2>1. ASSUME NEW k \in Nat PROVE 2^k # 0
    <3>1. {} \in SUBSET upTo(k)
      OBVIOUS
    <3>2. Cardinality(SUBSET upTo(k)) # 0
      BY <1>1, <3>1, FS_EmptySet
    <3>. QED BY <1>1, <3>2
  <2>. QED BY <2>1
<1>3. ASSUME NEW k \in Nat PROVE 2^(k + 1) = 2 * 2^k
  <2>. DEFINE P == SUBSET upTo(k)
              T == SUBSET upTo(k + 1)
              Q == {B \in T : k + 1 \in B}
              add == [A \in P |-> A \cup {k + 1}]
  <2>1. upTo(k + 1) = upTo(k) \cup {k + 1} /\ k + 1 \notin upTo(k) /\ k + 1 \in Nat
    OBVIOUS
  <2>. HIDE DEF upTo
  <2>2. T = P \cup Q /\ P \cap Q = {}
    BY <2>1
  <2>3. add \in Bijection(P, Q)
    <3>1. \A A \in P : A \cup {k + 1} \in Q
      BY <2>1
    <3>2. \A A, B \in P : A \cup {k + 1} = B \cup {k + 1} => A = B
      BY <2>1
    <3>3. \A B \in Q : B \ {k + 1} \in P /\ (B \ {k + 1}) \cup {k + 1} = B
      BY <2>1
    <3>. HIDE DEF P, Q
    <3>4. add \in [P -> Q] /\ \A A \in P : add[A] = A \cup {k + 1}
      BY <3>1
    <3>. HIDE DEF add
    <3>5. add \in Injection(P, Q)
      BY <3>2, <3>4 DEF Injection, IsInjective
    <3>6. add \in Surjection(P, Q)
      BY <3>3, <3>4 DEF Surjection
    <3>. QED BY <3>5, <3>6 DEF Bijection
  <2>4. /\ IsFiniteSet(P) /\ Cardinality(P) = 2^k
        /\ IsFiniteSet(T) /\ Cardinality(T) = 2^(k + 1) /\ 2^k \in Nat
    BY <1>1, <2>1
  <2>. HIDE DEF P, T, Q, add
  <2>5. IsFiniteSet(Q) /\ Cardinality(Q) = Cardinality(P)
    BY <2>3, <2>4, FS_Bijection DEF ExistsBijection
  <2>6. Cardinality(P \cup Q) = Cardinality(P) + Cardinality(Q) - Cardinality(P \cap Q)
    BY <2>4, <2>5, FS_Union
  <2>7. Cardinality(P \cap Q) = 0
    BY <2>2, FS_EmptySet
  <2>. QED BY <2>2, <2>4, <2>5, <2>6, <2>7
<1>4. ASSUME NEW j \in Nat, NEW k \in Nat, j <= k PROVE 2^j <= 2^k
  <2>1. upTo(j) \subseteq upTo(k)
    BY <1>4
  <2>. HIDE DEF upTo
  <2>2. SUBSET upTo(j) \in SUBSET (SUBSET upTo(k))
    BY <2>1
  <2>3. Cardinality(SUBSET upTo(j)) <= Cardinality(SUBSET upTo(k))
    BY <1>1, <2>2, FS_Subset
  <2>. QED BY <1>1, <2>3
<1>5. 2^0 = 1
  <2>1. upTo(0) = {}
    OBVIOUS
  <2>. HIDE DEF upTo
  <2>2. SUBSET upTo(0) = {{}} /\ 0 \in Nat
    BY <2>1
  <2>3. Cardinality(SUBSET upTo(0)) = 1
    BY <2>2, FS_Singleton
  <2>. QED BY <1>1, <2>2, <2>3
<1>. QED BY <1>1, <1>2, <1>3, <1>4, <1>5

\* The bits of a history: all of them, the one on top, and those below.
LEMMA Widths ==
  /\ BITS \in Nat /\ BITS >= 1 /\ TOP_BIT \in Nat /\ TOP_BIT >= 1
  /\ ALL_ONES \in Nat /\ ALL_ONES + 1 = 2^BITS /\ ALL_ONES + 1 = 2 * TOP_BIT
<1>1. BITS \in Nat /\ BITS >= 1 /\ BITS - 1 \in Nat /\ (BITS - 1) + 1 = BITS
  BY LRUAssumption
<1>2. 2^((BITS - 1) + 1) = 2 * 2^(BITS - 1)
  BY <1>1, PowersOfTwo
<1>3. 2^BITS = 2 * 2^(BITS - 1) /\ 2^BITS \in Nat \ {0} /\ 2^(BITS - 1) \in Nat \ {0}
  BY <1>1, <1>2, PowersOfTwo
<1>. QED BY <1>1, <1>3 DEF TOP_BIT, ALL_ONES

\* Shifting the history of a page that was not used adds one to its age.
LEMMA Shifted ==
  ASSUME NEW h \in Nat, NEW d \in Nat, Fits(h, d)
  PROVE  Fits(h \div 2, d + 1)
<1>1. CASE d + 1 < BITS
  <2>. DEFINE low == 2^(BITS - 1 - (d + 1))
              top == 2^(BITS - (d + 1))
  <2>1. BITS - 1 - (d + 1) \in Nat /\ BITS - (d + 1) \in Nat /\ d < BITS
        /\ (BITS - 1 - (d + 1)) + 1 = BITS - 1 - d /\ (BITS - (d + 1)) + 1 = BITS - d
    BY <1>1, Widths
  <2>2. 2^(BITS - 1 - d) = 2 * low /\ 2^(BITS - d) = 2 * top /\ low \in Nat /\ top \in Nat
    BY <2>1, PowersOfTwo
  <2>3. 2 * low <= h /\ h < 2 * top
    BY <2>1, <2>2 DEF Fits
  <2>. HIDE DEF low, top
  <2>4. low <= h \div 2 /\ h \div 2 < top
    BY <2>2, <2>3
  <2>. QED BY <1>1, <2>4 DEF Fits, low, top
<1>2. CASE d + 1 = BITS
  <2>1. BITS - 1 - d = 0 /\ BITS - d = 0 + 1 /\ d < BITS /\ ~(d + 1 < BITS) /\ 0 \in Nat
    BY <1>2, Widths
  <2>2. 2^(0 + 1) = 2 /\ 2^0 = 1
    BY <2>1, PowersOfTwo
  <2>3. 2^(BITS - 1 - d) = 2^0 /\ 2^(BITS - d) = 2^(0 + 1)
    BY <2>1, Zenon
  <2>4. 1 <= h /\ h < 2
    BY <2>1, <2>2, <2>3 DEF Fits
  <2>5. h \div 2 = 0
    BY <2>4
  <2>. QED BY <2>1, <2>5 DEF Fits
<1>3. CASE d >= BITS
  <2>1. h = 0 /\ 0 \div 2 = 0 /\ ~(d + 1 < BITS)
    BY <1>3, Widths DEF Fits
  <2>. QED BY <2>1 DEF Fits
<1>. QED BY <1>1, <1>2, <1>3, Widths

\* Of two pages, the one with the smaller history is not the one used later.
LEMMA LessIsOlder ==
  ASSUME NEW h \in Nat, NEW k \in Nat, NEW d \in Nat, NEW e \in Nat,
         Fits(h, d), Fits(k, e), h <= k
  PROVE  e <= d \/ e >= BITS
<1>. SUFFICES ASSUME d < e, e < BITS PROVE FALSE
  BY Widths
<1>1. d < BITS /\ BITS - e \in Nat /\ BITS - 1 - d \in Nat /\ BITS - e <= BITS - 1 - d
  BY Widths
<1>2. 2^(BITS - 1 - d) <= h /\ k < 2^(BITS - e)
  BY <1>1 DEF Fits
<1>3. 2^(BITS - e) <= 2^(BITS - 1 - d) /\ 2^(BITS - e) \in Nat /\ 2^(BITS - 1 - d) \in Nat
  BY <1>1, PowersOfTwo
<1>. QED BY <1>2, <1>3

\* A step that uses no page and ends no search.
LEMMA AgesUntouched ==
  ASSUME AgeInv, UNCHANGED <<last_use, curr_search_cnt>>,
         \A p \in Procs, g \in Pages : Valid(p, g)' =>
           /\ Valid(p, g) /\ Past(p, g)' = Past(p, g)
           /\ PageTable[p][g].ref => PageTable'[p][g].ref
  PROVE  AgeInv'
<1>1. ASSUME NEW p \in Procs, NEW g \in Pages, Valid(p, g)' PROVE AgeOK(p, g)'
  <2>1. AgeOK(p, g) /\ Past(p, g)' = Past(p, g) /\ (PageTable[p][g].ref => PageTable'[p][g].ref)
    BY <1>1 DEF AgeInv
  <2>. HIDE DEF Past
  <2>. QED BY <2>1 DEF AgeOK
<1>. HIDE DEF Valid, AgeOK
<1>. QED BY <1>1 DEF AgeInv

\* A step that loads page pg of process who.
LEMMA AgesLoaded ==
  ASSUME AgeInv, UNCHANGED curr_search_cnt, NEW who \in Procs, NEW pg \in Pages,
         curr_search_cnt[who] \in Nat,
         last_use' = [last_use EXCEPT ![who][pg] = curr_search_cnt[who] + 1],
         PageTable'[who][pg].ref /\ Past(who, pg)' = ALL_ONES,
         \A p \in Procs, g \in Pages : (p # who \/ g # pg) /\ Valid(p, g)' =>
           Valid(p, g) /\ PageTable'[p][g] = PageTable[p][g]
  PROVE  AgeInv'
<1>1. last_use \in [Procs -> [Pages -> Nat]] /\ curr_search_cnt[who] + 1 \in Nat
  BY DEF AgeInv
<1>2. /\ last_use' \in [Procs -> [Pages -> Nat]]
      /\ last_use'[who][pg] = curr_search_cnt[who] + 1
      /\ \A p \in Procs, g \in Pages : p # who \/ g # pg => last_use'[p][g] = last_use[p][g]
  BY <1>1
<1>3. AgeOK(who, pg)'
  BY <1>1, <1>2, Widths DEF AgeOK
<1>4. ASSUME NEW p \in Procs, NEW g \in Pages, Valid(p, g)', p # who \/ g # pg
      PROVE  AgeOK(p, g)'
  <2>1. AgeOK(p, g) /\ PageTable'[p][g] = PageTable[p][g] /\ last_use'[p][g] = last_use[p][g]
    BY <1>2, <1>4 DEF AgeInv
  <2>. QED BY <2>1 DEF AgeOK, Past
<1>. HIDE DEF Valid, AgeOK
<1>. QED BY <1>2, <1>3, <1>4 DEF AgeInv

-----------------------------------------------------------------------------
(* The steps.                                                              *)

LEMMA DispatchStep ==
  ASSUME IInv, Dispatch
  PROVE  IInv'
<1>0. Shape /\ PlaceInv /\ FrameInv /\ MarksInv /\ AgeInv
  BY DEF IInv
<1>1. /\ running = NONE /\ ready_queue # <<>> /\ running' = Head(ready_queue)
      /\ ready_queue' = Tail(ready_queue) /\ L' = 0 /\ R' = s[Head(ready_queue)] - 1
      /\ UNCHANGED <<FFLIST, PageTable, curr_search_cnt, active_processes, content, last_use>>
  BY DEF Dispatch, history
<1>2. /\ running' \in Procs /\ In(ready_queue, running')
      /\ ready_queue' \in Seq(Procs)
      /\ \A x : In(ready_queue', x) <=> In(ready_queue, x) /\ x # running'
      /\ Distinct(ready_queue')
  BY <1>0, <1>1, TakeFirst DEF Shape, PlaceInv
<1>3. Shape'
  <2>1. s[running'] \in Nat /\ R' = s[running'] - 1
    BY <1>1, <1>2, LRUAssumption
  <2>. QED BY <1>0, <1>1, <1>2, <2>1 DEF Shape
<1>4. PlaceInv'
  <2>. HIDE DEF In, Distinct
  <2>. QED BY <1>0, <1>1, <1>2 DEF PlaceInv
<1>5. FrameInv' /\ MarksInv'
  BY <1>0, <1>1, FramesUntouched DEF FrameOf
<1>6. AgeInv'
  BY <1>0, <1>1, AgesUntouched DEF Valid, Past
<1>. QED BY <1>3, <1>4, <1>5, <1>6 DEF IInv

\* A page that is used stays where it is.
LEMMA HitKeeps ==
  ASSUME Shape, Hit
  PROVE  /\ PageTable' \in [Procs -> [Pages -> PageEntry]]
         /\ \A p \in Procs, g \in Pages :
              /\ PageTable'[p][g].frame = PageTable[p][g].frame
              /\ PageTable'[p][g].history = PageTable[p][g].history
              /\ PageTable[p][g].ref => PageTable'[p][g].ref
<1>1. /\ Looking /\ PageTable' = [PageTable EXCEPT ![running][Page].ref = TRUE]
  BY DEF Hit
<1>2. PICK who \in Procs, pg \in Pages : who = running /\ pg = Page
  BY <1>1, TurnStays
<1>. DEFINE new == [PageTable[who][pg] EXCEPT !.ref = TRUE]
<1>3. /\ PageTable' = [PageTable EXCEPT ![who] = [PageTable[who] EXCEPT ![pg] = new]]
      /\ PageTable \in [Procs -> [Pages -> PageEntry]]
  BY <1>1, <1>2 DEF Shape
<1>4. /\ new \in PageEntry /\ new.frame = PageTable[who][pg].frame
      /\ new.history = PageTable[who][pg].history /\ new.ref = TRUE
  <2>1. PageTable[who][pg] \in PageEntry
    BY <1>3
  <2>. QED BY <2>1 DEF PageEntry
<1>. HIDE DEF new
<1>5. /\ PageTable' \in [Procs -> [Pages -> PageEntry]]
      /\ PageTable'[who][pg] = new
      /\ \A p \in Procs, g \in Pages :
           p # who \/ g # pg => PageTable'[p][g] = PageTable[p][g]
  BY <1>3, <1>4
<1>. QED BY <1>4, <1>5

LEMMA HitStep ==
  ASSUME IInv, Hit
  PROVE  IInv'
<1>0. Shape /\ PlaceInv /\ FrameInv /\ MarksInv /\ AgeInv
  BY DEF IInv
<1>1. /\ Looking /\ Narrow
      /\ UNCHANGED <<ready_queue, FFLIST, curr_search_cnt, active_processes, content, last_use>>
  BY DEF Hit, history
<1>2. /\ running \in Procs /\ Page \in Pages
      /\ L' \in Nat /\ R' \in Int /\ R' < s[running] /\ running' = running
  BY <1>0, <1>1, TurnStays
<1>3. /\ PageTable' \in [Procs -> [Pages -> PageEntry]]
      /\ \A p \in Procs, g \in Pages :
           /\ PageTable'[p][g].frame = PageTable[p][g].frame
           /\ PageTable'[p][g].history = PageTable[p][g].history
           /\ PageTable[p][g].ref => PageTable'[p][g].ref
  BY <1>0, HitKeeps
<1>4. Shape'
  BY <1>0, <1>1, <1>2, <1>3 DEF Shape
<1>5. PlaceInv'
  BY <1>0, <1>1, <1>2 DEF PlaceInv, In, Distinct
<1>6. FrameInv' /\ MarksInv'
  BY <1>0, <1>1, <1>3, FramesUntouched DEF FrameOf
<1>7. AgeInv'
  BY <1>0, <1>1, <1>3, AgesUntouched DEF Valid, Past
<1>. QED BY <1>4, <1>5, <1>6, <1>7 DEF IInv

\* What a fault does to the tables; table is that of the process without its
\* victim, if any.
LEMMA Installed ==
  ASSUME IInv, Fault, NEW f \in Frames, NEW table, table \in [Pages -> PageEntry],
         Install(f, table)
  PROVE  \E who \in Procs, pg \in Pages :
           /\ who = running /\ pg = Page
           /\ PageTable' \in [Procs -> [Pages -> PageEntry]]
           /\ FrameOf(who, pg)' = f /\ PageTable'[who][pg].ref
           /\ Past(who, pg)' = ALL_ONES
           /\ \A g \in Pages : g # pg => PageTable'[who][g] = table[g]
           /\ \A p \in Procs : p # who => PageTable'[p] = PageTable[p]
           /\ content' = [content EXCEPT ![f] = <<who, pg>>]
           /\ last_use' = [last_use EXCEPT ![who][pg] = curr_search_cnt[who] + 1]
           /\ (FFLIST' \in Seq(Entry) => Shape') /\ PlaceInv'
<1>0. Shape /\ PlaceInv
  BY DEF IInv
<1>1. /\ PageTable' = [PageTable EXCEPT ![running] = [table EXCEPT ![Page] = Present(f, TRUE)]]
      /\ content' = [content EXCEPT ![f] = <<running, Page>>]
      /\ last_use' = [last_use EXCEPT ![running][Page] = curr_search_cnt[running] + 1]
      /\ Narrow /\ Looking
      /\ UNCHANGED <<ready_queue, curr_search_cnt, active_processes>>
  BY DEF Install, Fault
<1>2. /\ running \in Procs /\ Page \in Pages
      /\ L' \in Nat /\ R' \in Int /\ R' < s[running] /\ running' = running
  BY <1>0, <1>1, TurnStays
<1>3. PICK who \in Procs, pg \in Pages : who = running /\ pg = Page
  BY <1>2
<1>4. /\ Present(f, TRUE) \in PageEntry /\ Present(f, TRUE).frame = f
      /\ Present(f, TRUE).ref /\ Present(f, TRUE).history = ALL_ONES
  BY Widths DEF Present, PageEntry
<1>5. /\ PageTable' = [PageTable EXCEPT ![who] = [table EXCEPT ![pg] = Present(f, TRUE)]]
      /\ PageTable \in [Procs -> [Pages -> PageEntry]]
  BY <1>0, <1>1, <1>3 DEF Shape
<1>6. [table EXCEPT ![pg] = Present(f, TRUE)] \in [Pages -> PageEntry]
  BY <1>4
<1>7. /\ PageTable' \in [Procs -> [Pages -> PageEntry]]
      /\ PageTable'[who][pg] = Present(f, TRUE)
      /\ \A g \in Pages : g # pg => PageTable'[who][g] = table[g]
      /\ \A p \in Procs : p # who => PageTable'[p] = PageTable[p]
  BY <1>5, <1>6
<1>8. FrameOf(who, pg)' = f /\ PageTable'[who][pg].ref /\ Past(who, pg)' = ALL_ONES
  BY <1>4, <1>7 DEF FrameOf, Past
<1>9. DOMAIN content' = Frames
  BY <1>0, <1>1 DEF Shape
<1>10. FFLIST' \in Seq(Entry) => Shape'
  BY <1>0, <1>1, <1>2, <1>7, <1>9 DEF Shape
<1>11. PlaceInv'
  BY <1>0, <1>1, <1>2 DEF PlaceInv, In, Distinct
<1>. QED BY <1>1, <1>3, <1>7, <1>8, <1>10, <1>11

LEMMA LoadStep ==
  ASSUME IInv, Load
  PROVE  IInv'
<1>0. Shape /\ PlaceInv /\ FrameInv /\ MarksInv /\ AgeInv
  BY DEF IInv
<1>1. /\ Fault /\ Len(FFLIST) > NFFMIN /\ FFLIST' = Tail(FFLIST)
      /\ Install(FFLIST[1].frame_no, PageTable[running])
  BY DEF Load, EnoughFree
<1>2. Len(FFLIST) \in Nat /\ NFFMIN \in Nat /\ 1 \in 1 .. Len(FFLIST)
  BY <1>0, <1>1, LRUAssumption DEF Shape
<1>3. PICK f : f = FFLIST[1].frame_no
  OBVIOUS
<1>4. f \in Frames /\ FFLIST[1] \in Entry
  BY <1>0, <1>2, <1>3, EntryHas DEF Shape
<1>5. Len(FFLIST') >= NFFMIN
  BY <1>0, <1>1, <1>2 DEF Shape
<1>6. running \in Procs /\ PageTable[running] \in [Pages -> PageEntry]
  BY <1>0, <1>1, TurnStays DEF Fault, Shape
<1>7. PICK who \in Procs, pg \in Pages :
        /\ who = running /\ pg = Page
        /\ PageTable' \in [Procs -> [Pages -> PageEntry]]
        /\ FrameOf(who, pg)' = f /\ PageTable'[who][pg].ref
        /\ Past(who, pg)' = ALL_ONES
        /\ \A g \in Pages : g # pg => PageTable'[who][g] = PageTable[running][g]
        /\ \A p \in Procs : p # who => PageTable'[p] = PageTable[p]
        /\ content' = [content EXCEPT ![f] = <<who, pg>>]
        /\ last_use' = [last_use EXCEPT ![who][pg] = curr_search_cnt[who] + 1]
        /\ (FFLIST' \in Seq(Entry) => Shape') /\ PlaceInv'
  <2>1. PICK t : t = PageTable[running]
    OBVIOUS
  <2>2. Install(f, t) /\ t \in [Pages -> PageEntry]
    BY <1>1, <1>3, <1>6, <2>1
  <2>. HIDE DEF Install, FrameOf, Past
  <2>. QED BY <1>1, <1>4, <2>1, <2>2, Installed
<1>8. \A p \in Procs, g \in Pages : p # who \/ g # pg => PageTable'[p][g] = PageTable[p][g]
  BY <1>7
<1>9. FrameInv' /\ MarksInv' /\ FFLIST' \in Seq(Entry)
  <2>1. \A p \in Procs, g \in Pages : p # who \/ g # pg => FrameOf(p, g)' = FrameOf(p, g)
    BY <1>8 DEF FrameOf
  <2>2. PICK i, q2 : i = 1 /\ i \in 1 .. Len(FFLIST) /\ q2 = Tail(FFLIST) /\ f = FFLIST[i].frame_no
    BY <1>2, <1>3
  <2>3. /\ Fault /\ FFLIST' = q2 /\ content'[f] = <<who, pg>>
        /\ \A x \in Frames : x # f => content'[x] = content[x]
        /\ who = running /\ pg = Page /\ FrameOf(who, pg)' = f
    BY <1>0, <1>1, <1>4, <1>7, <2>2 DEF Shape
  <2>. HIDE DEF FrameOf
  <2>. QED BY <1>0, <1>5, <2>1, <2>2, <2>3, Exchange
<1>10. AgeInv'
  <2>1. curr_search_cnt[who] \in Nat /\ UNCHANGED curr_search_cnt
    BY <1>0, <1>1, LRUAssumption DEF Shape, Install
  <2>2. \A p \in Procs, g \in Pages : (p # who \/ g # pg) /\ Valid(p, g)' =>
          Valid(p, g) /\ PageTable'[p][g] = PageTable[p][g]
    BY <1>8 DEF Valid
  <2>. HIDE DEF Valid, Past
  <2>. QED BY <1>0, <1>7, <2>1, <2>2, AgesLoaded
<1>. QED BY <1>7, <1>9, <1>10 DEF IInv

LEMMA ReplaceStep ==
  ASSUME IInv, Replace
  PROVE  IInv'
<1>0. Shape /\ PlaceInv /\ FrameInv /\ MarksInv /\ AgeInv
  BY DEF IInv
<1>1. PICK v \in ArrayPages :
        /\ Fault /\ IsVictim(running, v)
        /\ FFLIST' = Append(RemoveAt(FFLIST, FoundIndex(running, Page)), GivenUp(v))
        /\ Install(FFLIST[FoundIndex(running, Page)].frame_no,
                   [PageTable[running] EXCEPT ![v].frame = NONE])
  BY DEF Replace
<1>2. PICK i, q2, f, table :
        /\ i = FoundIndex(running, Page) /\ q2 = RemoveAt(FFLIST, i)
        /\ f = FFLIST[i].frame_no /\ table = [PageTable[running] EXCEPT ![v].frame = NONE]
  OBVIOUS
<1>3. /\ FFLIST' = Append(q2, GivenUp(v)) /\ Install(f, table)
      /\ v \in Pages /\ Valid(running, v) /\ ~Valid(running, Page) /\ v # Page
      /\ running \in Procs /\ Page \in Pages
  BY <1>0, <1>1, <1>2, NoneIsNone, TurnStays DEF Fault, IsVictim, Candidates
<1>4. i \in 1 .. Len(FFLIST)
  BY <1>0, <1>2, FoundInList DEF FrameInv
<1>5. /\ q2 \in Seq(Entry) /\ Len(q2) = Len(FFLIST) - 1 /\ Len(FFLIST) \in Nat
      /\ FFLIST[i] \in Entry /\ f \in Frames
  <2>1. FFLIST \in Seq(Entry) /\ Single(FFLIST)
    BY <1>0 DEF Shape, FrameInv
  <2>2. q2 \in Seq(Entry) /\ Len(q2) = Len(FFLIST) - 1 /\ FFLIST[i] \in Entry
    <3>. HIDE DEF Single
    <3>. QED BY <1>2, <1>4, <2>1, TakenOut
  <2>. QED BY <1>2, <2>1, <2>2, EntryHas
<1>6. Len(FFLIST') >= NFFMIN
  <2>1. Len(FFLIST') = Len(q2) + 1
    BY <1>3, <1>5
  <2>. QED BY <1>0, <1>5, <2>1 DEF FrameInv
<1>7. /\ table \in [Pages -> PageEntry] /\ table[v].frame = NONE
      /\ \A g \in Pages : g # v => table[g] = PageTable[running][g]
  <2>. DEFINE old == PageTable[running]
              new == [old[v] EXCEPT !.frame = NONE]
  <2>1. old \in [Pages -> PageEntry] /\ table = [old EXCEPT ![v] = new]
    BY <1>0, <1>2, <1>3 DEF Shape
  <2>2. new \in PageEntry /\ new.frame = NONE
    <3>1. old[v] \in PageEntry
      BY <1>3, <2>1
    <3>. QED BY <3>1 DEF PageEntry
  <2>. HIDE DEF old, new
  <2>3. /\ table \in [Pages -> PageEntry] /\ table[v] = new
        /\ \A g \in Pages : g # v => table[g] = old[g]
    BY <1>3, <2>1, <2>2
  <2>. QED BY <2>2, <2>3 DEF old
<1>8. PICK who \in Procs, pg \in Pages :
        /\ who = running /\ pg = Page
        /\ PageTable' \in [Procs -> [Pages -> PageEntry]]
        /\ FrameOf(who, pg)' = f /\ PageTable'[who][pg].ref
        /\ Past(who, pg)' = ALL_ONES
        /\ \A g \in Pages : g # pg => PageTable'[who][g] = table[g]
        /\ \A p \in Procs : p # who => PageTable'[p] = PageTable[p]
        /\ content' = [content EXCEPT ![f] = <<who, pg>>]
        /\ last_use' = [last_use EXCEPT ![who][pg] = curr_search_cnt[who] + 1]
        /\ (FFLIST' \in Seq(Entry) => Shape') /\ PlaceInv'
  <2>. HIDE DEF Install, FrameOf, Past
  <2>. QED BY <1>1, <1>3, <1>5, <1>7, Installed
<1>9. /\ FrameOf(who, v)' = NONE
      /\ \A p \in Procs, g \in Pages :
           p # who \/ (g # pg /\ g # v) => PageTable'[p][g] = PageTable[p][g]
  BY <1>3, <1>7, <1>8 DEF FrameOf
<1>10. FrameInv' /\ MarksInv' /\ FFLIST' \in Seq(Entry)
  <2>1. \A p \in Procs, g \in Pages :
          p # who \/ (g # pg /\ g # v) => FrameOf(p, g)' = FrameOf(p, g)
    BY <1>9 DEF FrameOf
  <2>2. /\ Fault /\ content'[f] = <<who, pg>>
        /\ \A x \in Frames : x # f => content'[x] = content[x]
    BY <1>0, <1>1, <1>5, <1>8 DEF Shape
  <2>3. \E w \in Pages :
          /\ w # pg /\ Valid(who, w) /\ FFLIST' = Append(q2, GivenUp(w))
          /\ FrameOf(who, w)' = NONE
          /\ \A p \in Procs, g \in Pages :
               p # who \/ (g # pg /\ g # w) => FrameOf(p, g)' = FrameOf(p, g)
    <3>1. v \in Pages /\ v # pg /\ Valid(who, v)
      BY <1>3, <1>8
    <3>. HIDE DEF FrameOf, Valid
    <3>. QED BY <1>3, <1>9, <2>1, <3>1
  <2>4. /\ i \in 1 .. Len(FFLIST) /\ q2 = RemoveAt(FFLIST, i) /\ f = FFLIST[i].frame_no
        /\ who = running /\ pg = Page /\ FrameOf(who, pg)' = f
    BY <1>2, <1>4, <1>8
  <2>. HIDE DEF FrameOf, Valid
  <2>. QED BY <1>0, <1>6, <2>2, <2>3, <2>4, Exchange
<1>11. AgeInv'
  <2>1. curr_search_cnt[who] \in Nat /\ UNCHANGED curr_search_cnt
    BY <1>0, <1>3, LRUAssumption DEF Shape, Install
  <2>2. \A p \in Procs, g \in Pages : (p # who \/ g # pg) /\ Valid(p, g)' =>
          Valid(p, g) /\ PageTable'[p][g] = PageTable[p][g]
    BY <1>9 DEF Valid, FrameOf
  <2>. HIDE DEF Valid, Past
  <2>. QED BY <1>0, <1>8, <2>1, <2>2, AgesLoaded
<1>. QED BY <1>8, <1>10, <1>11 DEF IInv

LEMMA GiveUpStep ==
  ASSUME IInv, GiveUp
  PROVE  IInv'
<1>0. Shape /\ PlaceInv /\ FrameInv /\ MarksInv /\ AgeInv
  BY DEF IInv
<1>1. /\ running' = NONE /\ L' = 0 /\ R' = 0
      /\ UNCHANGED <<ready_queue, FFLIST, PageTable, curr_search_cnt, active_processes,
                     content, last_use>>
  BY DEF GiveUp, history
<1>2. Shape'
  BY <1>0, <1>1 DEF Shape
<1>3. PlaceInv'
  <2>1. ~In(ready_queue, NONE)
    BY <1>0, NoneIsNone DEF In, Shape
  <2>2. \A p \in Procs : p # NONE
    BY NoneIsNone
  <2>. HIDE DEF In, Distinct
  <2>. QED BY <1>0, <1>1, <2>1, <2>2 DEF PlaceInv
<1>4. FrameInv' /\ MarksInv'
  BY <1>0, <1>1, FramesUntouched DEF FrameOf
<1>5. AgeInv'
  BY <1>0, <1>1, AgesUntouched DEF Valid, Past
<1>. QED BY <1>2, <1>3, <1>4, <1>5 DEF IInv

\* The search that ends is counted.
LEMMA SearchCounted ==
  ASSUME Shape, PlaceInv, Found, LeaveSearch
  PROVE  /\ running \in Procs /\ running' = NONE /\ L' = 0 /\ R' = 0
         /\ curr_search_cnt[running] \in Nat /\ curr_search_cnt[running] < m
         /\ curr_search_cnt' \in [Procs -> 0 .. m]
         /\ curr_search_cnt'[running] = curr_search_cnt[running] + 1
         /\ \A p \in Procs \ {running} : curr_search_cnt'[p] = curr_search_cnt[p]
<1>1. /\ running \in Procs /\ running' = NONE /\ L' = 0 /\ R' = 0
      /\ curr_search_cnt' = [curr_search_cnt EXCEPT ![running] = curr_search_cnt[running] + 1]
  BY DEF Found, LeaveSearch, Shape
<1>2. curr_search_cnt[running] \in 0 .. m /\ curr_search_cnt[running] < m /\ m \in Nat
  BY <1>1, LRUAssumption DEF Shape, PlaceInv
<1>3. curr_search_cnt[running] + 1 \in 0 .. m
  BY <1>2
<1>. QED BY <1>1, <1>2, <1>3 DEF Shape

LEMMA NextSearchStep ==
  ASSUME IInv, NextSearch
  PROVE  IInv'
<1>0. Shape /\ PlaceInv /\ FrameInv /\ MarksInv /\ AgeInv
  BY DEF IInv
<1>1. /\ Found /\ LeaveSearch /\ curr_search_cnt[running] + 1 # m
      /\ PageTable' = [PageTable EXCEPT
           ![running] = [g \in Pages |-> Aged(PageTable[running][g])]]
      /\ last_use' = [last_use EXCEPT ![running] = [g \in Pages |->
           IF Valid(running, g) /\ PageTable[running][g].ref
             THEN curr_search_cnt[running] + 1 ELSE last_use[running][g]]]
      /\ ready_queue' = Append(ready_queue, running)
      /\ UNCHANGED <<FFLIST, active_processes, content>>
  BY DEF NextSearch, LastSearch
<1>2. /\ running \in Procs /\ running' = NONE /\ L' = 0 /\ R' = 0
      /\ curr_search_cnt[running] \in Nat /\ curr_search_cnt[running] < m
      /\ curr_search_cnt' \in [Procs -> 0 .. m]
      /\ curr_search_cnt'[running] = curr_search_cnt[running] + 1
      /\ \A p \in Procs \ {running} : curr_search_cnt'[p] = curr_search_cnt[p]
  BY <1>0, <1>1, SearchCounted
<1>3. PICK who \in Procs : who = running
  BY <1>2
<1>4. \A e \in PageEntry :
        /\ Aged(e) \in PageEntry /\ Aged(e).frame = e.frame
        /\ e.frame # NONE => Aged(e).history = (e.history \div 2) + (IF e.ref THEN TOP_BIT ELSE 0)
  <2>. SUFFICES ASSUME NEW e \in PageEntry
                PROVE  /\ Aged(e) \in PageEntry /\ Aged(e).frame = e.frame
                       /\ e.frame # NONE =>
                            Aged(e).history = (e.history \div 2) + (IF e.ref THEN TOP_BIT ELSE 0)
    OBVIOUS
  <2>. DEFINE h == (e.history \div 2) + (IF e.ref THEN TOP_BIT ELSE 0)
  <2>1. h \in Nat
    <3>1. e.history \in Nat /\ e.history \div 2 \in Nat /\ TOP_BIT \in Nat
      BY Widths DEF PageEntry
    <3>. QED BY <3>1
  <2>2. e.frame # NONE => Aged(e) = [e EXCEPT !.ref = FALSE, !.history = h]
    BY DEF Aged
  <2>3. e.frame = NONE => Aged(e) = e
    BY DEF Aged
  <2>. HIDE DEF h
  <2>4. ASSUME e.frame # NONE
        PROVE  Aged(e) \in PageEntry /\ Aged(e).frame = e.frame /\ Aged(e).history = h
    BY <2>1, <2>2, <2>4 DEF PageEntry
  <2>. QED BY <2>3, <2>4 DEF h
<1>. HIDE DEF Aged
<1>5. /\ PageTable' \in [Procs -> [Pages -> PageEntry]]
      /\ \A g \in Pages : PageTable'[who][g] = Aged(PageTable[who][g])
      /\ \A p \in Procs : p # who => PageTable'[p] = PageTable[p]
  <2>. DEFINE aged == [g \in Pages |-> Aged(PageTable[running][g])]
  <2>1. PageTable \in [Procs -> [Pages -> PageEntry]]
    BY <1>0 DEF Shape
  <2>2. aged \in [Pages -> PageEntry] /\ \A g \in Pages : aged[g] = Aged(PageTable[who][g])
    BY <1>2, <1>3, <1>4, <2>1
  <2>3. PageTable' = [PageTable EXCEPT ![who] = aged]
    BY <1>1, <1>3
  <2>. HIDE DEF aged
  <2>. QED BY <2>1, <2>2, <2>3
<1>6. \A p \in Procs, g \in Pages : FrameOf(p, g)' = FrameOf(p, g)
  <2>1. \A p \in Procs, g \in Pages : PageTable[p][g] \in PageEntry
    BY <1>0 DEF Shape
  <2>2. \A g \in Pages : PageTable'[who][g].frame = PageTable[who][g].frame
    BY <1>4, <1>5, <2>1
  <2>. QED BY <1>5, <2>2 DEF FrameOf
<1>7. /\ ready_queue' \in Seq(Procs) /\ Distinct(ready_queue')
      /\ \A x : In(ready_queue', x) <=> In(ready_queue, x) \/ x = running
  BY <1>0, <1>1, <1>2, AddLast DEF Shape, PlaceInv
<1>8. Shape'
  BY <1>0, <1>1, <1>2, <1>5, <1>7 DEF Shape
<1>9. PlaceInv'
  <2>1. ~In(ready_queue', NONE)
    BY <1>7, NoneIsNone DEF In
  <2>2. \A p \in Procs : curr_search_cnt'[p] < m <=> curr_search_cnt[p] < m
    <3>1. curr_search_cnt'[running] < m
      BY <1>1, <1>2, LRUAssumption
    <3>. QED BY <1>2, <3>1
  <2>3. {p \in Procs : curr_search_cnt'[p] < m} = {p \in Procs : curr_search_cnt[p] < m}
    BY <2>2
  <2>4. \A p \in Procs : p # NONE
    BY NoneIsNone
  <2>. HIDE DEF In, Distinct
  <2>. QED BY <1>0, <1>1, <1>2, <1>7, <2>1, <2>2, <2>3, <2>4 DEF PlaceInv
<1>10. FrameInv' /\ MarksInv'
  <2>. HIDE DEF FrameOf
  <2>. QED BY <1>0, <1>1, <1>6, FramesUntouched
<1>11. last_use \in [Procs -> [Pages -> Nat]] /\ curr_search_cnt \in [Procs -> 0 .. m]
  BY <1>0 DEF AgeInv, Shape
<1>12. /\ last_use' \in [Procs -> [Pages -> Nat]]
       /\ \A g \in Pages : last_use'[who][g] =
            IF Valid(who, g) /\ PageTable[who][g].ref
              THEN curr_search_cnt[who] + 1 ELSE last_use[who][g]
       /\ \A p \in Procs : p # who => last_use'[p] = last_use[p]
  <2>. DEFINE used == [g \in Pages |-> IF Valid(running, g) /\ PageTable[running][g].ref
                                         THEN curr_search_cnt[running] + 1
                                         ELSE last_use[running][g]]
  <2>1. used \in [Pages -> Nat]
    BY <1>2, <1>11
  <2>2. last_use' = [last_use EXCEPT ![who] = used]
    BY <1>1, <1>3
  <2>3. \A g \in Pages : used[g] = IF Valid(who, g) /\ PageTable[who][g].ref
                                     THEN curr_search_cnt[who] + 1 ELSE last_use[who][g]
    BY <1>3
  <2>. HIDE DEF used
  <2>. QED BY <1>11, <2>1, <2>2, <2>3
<1>13. ASSUME NEW g \in Pages, Valid(who, g)' PROVE AgeOK(who, g)'
  <2>. DEFINE c == curr_search_cnt[who]
              h == Past(who, g)
              d == c - last_use[who][g]
  <2>1. Valid(who, g)
    BY <1>6, <1>13 DEF Valid, FrameOf
  <2>2. AgeOK(who, g) /\ PageTable[who][g] \in PageEntry
    BY <1>0, <2>1 DEF AgeInv, Shape
  <2>3. /\ h \in Nat /\ h <= ALL_ONES /\ c \in Nat /\ curr_search_cnt'[who] = c + 1
        /\ last_use[who][g] \in Nat /\ last_use[who][g] <= c + 1
    BY <1>2, <1>3, <1>11, <2>2 DEF AgeOK, PageEntry, Past
  <2>4. Past(who, g)' = (h \div 2) + (IF PageTable[who][g].ref THEN TOP_BIT ELSE 0)
    BY <1>4, <1>5, <2>1, <2>2 DEF Past, Valid
  <2>5. h \div 2 \in Nat /\ h \div 2 <= h /\ h \div 2 < TOP_BIT
    <3>. HIDE DEF h
    <3>1. h < 2 * TOP_BIT
      BY <2>3, Widths
    <3>. QED BY <2>3, <3>1, Widths
  <2>6. CASE PageTable[who][g].ref
    <3>1. last_use'[who][g] = c + 1 /\ Past(who, g)' = (h \div 2) + TOP_BIT
      BY <1>12, <2>1, <2>4, <2>6
    <3>. HIDE DEF h, c
    <3>2. Fits((h \div 2) + TOP_BIT, 0)
      <4>1. BITS - 1 - 0 = BITS - 1 /\ BITS - 0 = BITS /\ 0 < BITS
        BY Widths
      <4>2. 2^(BITS - 1 - 0) = TOP_BIT /\ 2^(BITS - 0) = 2 * TOP_BIT
        BY <4>1, Widths DEF TOP_BIT
      <4>. QED BY <2>5, <4>1, <4>2, Widths DEF Fits
    <3>3. (h \div 2) + TOP_BIT <= ALL_ONES
      BY <2>5, Widths
    <3>4. curr_search_cnt'[who] - last_use'[who][g] = 0 /\ c + 1 # (c + 1) + 1
          /\ c + 1 <= (c + 1) + 1
      BY <2>3, <3>1
    <3>. HIDE DEF Past
    <3>. QED BY <2>3, <3>1, <3>2, <3>3, <3>4 DEF AgeOK
  <2>7. CASE ~PageTable[who][g].ref
    <3>1. last_use'[who][g] = last_use[who][g] /\ Past(who, g)' = h \div 2
      BY <1>12, <2>1, <2>4, <2>5, <2>7
    <3>2. last_use[who][g] # c + 1 /\ Fits(h, d)
      BY <2>2, <2>7 DEF AgeOK
    <3>3. d \in Nat /\ curr_search_cnt'[who] - last_use'[who][g] = d + 1
          /\ last_use[who][g] # (c + 1) + 1 /\ last_use[who][g] <= (c + 1) + 1
      BY <2>3, <3>1, <3>2
    <3>. HIDE DEF h, c, d
    <3>4. Fits(h \div 2, d + 1)
      BY <2>3, <3>2, <3>3, Shifted
    <3>5. h \div 2 <= ALL_ONES
      BY <2>3, <2>5, Widths
    <3>. HIDE DEF Past
    <3>. QED BY <2>3, <3>1, <3>3, <3>4, <3>5 DEF AgeOK
  <2>. QED BY <2>6, <2>7
<1>14. ASSUME NEW p \in Procs, NEW g \in Pages, p # who, Valid(p, g)' PROVE AgeOK(p, g)'
  <2>1. PageTable'[p] = PageTable[p] /\ last_use'[p] = last_use[p]
        /\ curr_search_cnt'[p] = curr_search_cnt[p]
    BY <1>2, <1>3, <1>5, <1>12, <1>14
  <2>2. AgeOK(p, g)
    BY <1>0, <1>14, <2>1 DEF AgeInv, Valid
  <2>. QED BY <2>1, <2>2 DEF AgeOK, Past
<1>15. AgeInv'
  <2>. HIDE DEF Valid, AgeOK
  <2>. QED BY <1>12, <1>13, <1>14 DEF AgeInv
<1>. QED BY <1>8, <1>9, <1>10, <1>15 DEF IInv

LEMMA FinishStep ==
  ASSUME IInv, Finish
  PROVE  IInv'
<1>0. Shape /\ PlaceInv /\ FrameInv /\ MarksInv /\ AgeInv
  BY DEF IInv
<1>1. /\ Found /\ LeaveSearch /\ curr_search_cnt[running] + 1 = m
      /\ FFLIST' = FFLIST \o Released(running)
      /\ PageTable' = [PageTable EXCEPT ![running] = [g \in Pages |-> Absent]]
      /\ active_processes' = active_processes - 1
      /\ UNCHANGED <<ready_queue, content, last_use>>
  BY DEF Finish, LastSearch, history
<1>2. /\ running \in Procs /\ running' = NONE /\ L' = 0 /\ R' = 0
      /\ curr_search_cnt[running] \in Nat /\ curr_search_cnt[running] < m
      /\ curr_search_cnt' \in [Procs -> 0 .. m]
      /\ curr_search_cnt'[running] = curr_search_cnt[running] + 1
      /\ \A p \in Procs \ {running} : curr_search_cnt'[p] = curr_search_cnt[p]
  BY <1>0, <1>1, SearchCounted
<1>3. PICK who \in Procs : who = running
  BY <1>2
<1>4. /\ Released(who) \in Seq(Entry) /\ Single(Released(who))
      /\ \A f : Has(Released(who), f) <=> \E g \in Pages : Valid(who, g) /\ FrameOf(who, g) = f
      /\ \A e : In(Released(who), e) => e.last_owner = NONE
  BY <1>0, ReleasedAre
<1>5. /\ FFLIST \in Seq(Entry) /\ Single(FFLIST) /\ Len(FFLIST) \in Nat
      /\ \A f : ~(Has(FFLIST, f) /\ Has(Released(who), f))
  <2>1. FFLIST \in Seq(Entry) /\ Len(FFLIST) \in Nat /\ Single(FFLIST)
    BY <1>0 DEF Shape, FrameInv
  <2>2. \A f : Has(Released(who), f) => ~Has(FFLIST, f)
    <3>. HIDE DEF Has, FrameOf
    <3>. QED BY <1>0, <1>4 DEF FrameInv
  <2>. QED BY <2>1, <2>2
<1>6. /\ FFLIST' \in Seq(Entry) /\ Single(FFLIST') /\ Len(FFLIST') >= Len(FFLIST)
      /\ \A f : Has(FFLIST', f) <=>
           Has(FFLIST, f) \/ \E g \in Pages : Valid(who, g) /\ FrameOf(who, g) = f
      /\ \A e : In(FFLIST', e) => In(FFLIST, e) \/ e.last_owner = NONE
  <2>1. PICK r : r = Released(who)
    OBVIOUS
  <2>2. FFLIST' = FFLIST \o r /\ r \in Seq(Entry) /\ Len(r) \in Nat
    BY <1>1, <1>3, <1>4, <2>1
  <2>. HIDE DEF Has, In, Single, FrameOf
  <2>3. /\ FFLIST \o r \in Seq(Entry) /\ Single(FFLIST \o r)
        /\ Len(FFLIST \o r) = Len(FFLIST) + Len(r)
        /\ \A f : Has(FFLIST \o r, f) <=> Has(FFLIST, f) \/ Has(r, f)
        /\ \A e : In(FFLIST \o r, e) => In(FFLIST, e) \/ In(r, e)
    BY <1>4, <1>5, <2>1, Join
  <2>4. Len(FFLIST') >= Len(FFLIST)
    BY <1>5, <2>2, <2>3
  <2>. QED BY <1>4, <2>1, <2>2, <2>3, <2>4
<1>7. /\ PageTable' \in [Procs -> [Pages -> PageEntry]]
      /\ \A g \in Pages : FrameOf(who, g)' = NONE
      /\ \A p \in Procs : p # who => PageTable'[p] = PageTable[p]
  <2>1. Absent \in PageEntry /\ Absent.frame = NONE
    BY DEF Absent, PageEntry
  <2>2. PageTable \in [Procs -> [Pages -> PageEntry]]
    BY <1>0 DEF Shape
  <2>. QED BY <1>1, <1>3, <2>1, <2>2 DEF FrameOf
<1>8. Shape'
  BY <1>0, <1>1, <1>2, <1>6, <1>7 DEF Shape
<1>9. PlaceInv'
  <2>. DEFINE left == {p \in Procs : curr_search_cnt[p] < m}
  <2>1. ~(curr_search_cnt'[running] < m)
    BY <1>1, <1>2
  <2>2. {p \in Procs : curr_search_cnt'[p] < m} = left \ {running}
    BY <1>2, <2>1
  <2>3. IsFiniteSet(left)
    <3>1. 0 \in Int /\ n - 1 \in Int
      BY LRUAssumption
    <3>2. IsFiniteSet(Procs)
      BY <3>1, FS_Interval DEF Procs
    <3>. QED BY <3>2, FS_Subset
  <2>4. running \in left
    BY <1>2
  <2>5. active_processes = Cardinality(left)
    BY <1>0 DEF PlaceInv
  <2>. HIDE DEF left
  <2>6. active_processes' = Cardinality(left \ {running})
    BY <1>1, <2>3, <2>4, <2>5, FS_RemoveElement
  <2>7. ~In(ready_queue, NONE)
    BY <1>0, NoneIsNone DEF In, Shape
  <2>8. \A p \in Procs : p # NONE
    BY NoneIsNone
  <2>9. \A p \in Procs : In(ready_queue, p) => curr_search_cnt'[p] < m
    <3>. HIDE DEF In
    <3>. QED BY <1>0, <1>2 DEF PlaceInv
  <2>. HIDE DEF In, Distinct
  <2>10. Distinct(ready_queue') /\ ~In(ready_queue', running')
    BY <1>0, <1>1, <1>2, <2>7 DEF PlaceInv
  <2>. QED BY <1>1, <1>2, <2>2, <2>6, <2>8, <2>9, <2>10 DEF PlaceInv
<1>10. \A p \in Procs, g \in Pages : p # who => FrameOf(p, g)' = FrameOf(p, g)
  BY <1>7 DEF FrameOf
<1>11. ~Has(FFLIST', NONE)
  BY <1>6, EntryHas, NoneIsNone DEF Has
<1>. HIDE DEF Has, In, Single, FrameOf
<1>12. ASSUME NEW p \in Procs, NEW g \in Pages PROVE ~Has(FFLIST', FrameOf(p, g)')
  <2>1. CASE p = who
    BY <1>7, <1>11, <2>1
  <2>2. CASE p # who
    <3>1. ~Has(FFLIST, FrameOf(p, g))
      BY <1>0 DEF FrameInv
    <3>2. \A h \in Pages : Valid(who, h) => FrameOf(who, h) # FrameOf(p, g)
      BY <1>0, <2>2 DEF FrameInv
    <3>. QED BY <1>6, <1>10, <2>2, <3>1, <3>2
  <2>. QED BY <2>1, <2>2
<1>13. ASSUME NEW f \in Frames, ~Has(FFLIST', f)
       PROVE  \E p \in Procs, g \in Pages : FrameOf(p, g)' = f
  <2>1. PICK p \in Procs, g \in Pages : FrameOf(p, g) = f
    BY <1>0, <1>6, <1>13 DEF FrameInv
  <2>2. p # who
    <3>1. f # NONE
      BY NoneIsNone
    <3>. QED BY <1>6, <1>13, <2>1, <3>1 DEF Valid, FrameOf
  <2>. QED BY <1>10, <2>1, <2>2
<1>14. ASSUME NEW p \in Procs, NEW q \in Procs, NEW g \in Pages, NEW h \in Pages,
              FrameOf(p, g)' # NONE, FrameOf(p, g)' = FrameOf(q, h)'
       PROVE  p = q /\ g = h
  <2>1. p # who /\ q # who
    BY <1>7, <1>14
  <2>2. FrameOf(p, g) # NONE /\ FrameOf(p, g) = FrameOf(q, h)
    BY <1>10, <1>14, <2>1
  <2>. QED BY <1>0, <2>2 DEF FrameInv, Valid, FrameOf
<1>15. \A p \in Procs, g \in Pages : Valid(p, g)' <=> FrameOf(p, g)' # NONE
  BY DEF Valid, FrameOf
<1>16. FrameInv'
  <2>1. Len(FFLIST') >= NFFMIN
    <3>1. Len(FFLIST) >= NFFMIN /\ NFFMIN \in Nat /\ Len(FFLIST') \in Nat
      BY <1>0, <1>6, LRUAssumption DEF FrameInv
    <3>. QED BY <1>5, <1>6, <3>1
  <2>. QED BY <1>6, <1>12, <1>13, <1>14, <1>15, <2>1 DEF FrameInv
<1>17. MarksInv'
  <2>1. ASSUME NEW e, In(FFLIST', e) PROVE MarkIsTrue(e)'
    BY <1>0, <1>1, <1>6, <2>1 DEF MarksInv, MarkIsTrue
  <2>2. ASSUME NEW p \in Procs, NEW g \in Pages, Valid(p, g)'
        PROVE  content'[FrameOf(p, g)'] = <<p, g>>
    <3>1. p # who /\ FrameOf(p, g)' = FrameOf(p, g)
      BY <1>7, <1>10, <1>15, <2>2
    <3>2. Valid(p, g)
      BY <1>15, <2>2, <3>1 DEF Valid, FrameOf
    <3>. QED BY <1>0, <1>1, <3>1, <3>2 DEF MarksInv
  <2>. QED BY <2>1, <2>2 DEF MarksInv
<1>18. AgeInv'
  <2>1. ASSUME NEW p \in Procs, NEW g \in Pages, Valid(p, g)' PROVE AgeOK(p, g)'
    <3>1. p # who
      BY <1>7, <1>15, <2>1
    <3>2. /\ PageTable'[p] = PageTable[p] /\ last_use' = last_use
          /\ curr_search_cnt'[p] = curr_search_cnt[p]
      BY <1>1, <1>2, <1>3, <1>7, <3>1
    <3>3. AgeOK(p, g)
      BY <1>0, <2>1, <3>2 DEF AgeInv, Valid
    <3>. QED BY <3>2, <3>3 DEF AgeOK, Past
  <2>. HIDE DEF Valid, AgeOK
  <2>. QED BY <1>0, <1>1, <2>1 DEF AgeInv
<1>. QED BY <1>8, <1>9, <1>16, <1>17, <1>18 DEF IInv

\* Quotient and remainder are unique.
LEMMA DivisionIsUnique ==
  ASSUME NEW E \in Nat, NEW p \in Nat, NEW q \in Nat, NEW g \in Nat, NEW h \in Nat,
         g < E, h < E, p * E + g = q * E + h
  PROVE  p = q /\ g = h
<1>1. ~(p < q)
  <2>1. SUFFICES ASSUME p < q PROVE FALSE
    OBVIOUS
  <2>2. (p + 1) * E <= q * E
    BY <2>1
  <2>3. (p + 1) * E = p * E + E
    OBVIOUS
  <2>. QED BY <2>2, <2>3
<1>2. ~(q < p)
  <2>1. SUFFICES ASSUME q < p PROVE FALSE
    OBVIOUS
  <2>2. (q + 1) * E <= p * E
    BY <2>1
  <2>3. (q + 1) * E = q * E + E
    OBVIOUS
  <2>. QED BY <2>2, <2>3
<1>3. p = q
  BY <1>1, <1>2
<1>. QED BY <1>3

LEMMA InitInv == Init => IInv
<1>. SUFFICES ASSUME Init PROVE IInv
  OBVIOUS
<1>. DEFINE e == n * ESSENTIAL_PAGES
            k == TOTAL_FRAMES_USEABLE - e
<1>1. /\ n \in Nat /\ n > 0 /\ m \in Nat /\ m > 0 /\ ESSENTIAL_PAGES \in Nat
      /\ TOTAL_FRAMES_USEABLE \in Nat /\ NFFMIN \in Nat /\ e + NFFMIN <= TOTAL_FRAMES_USEABLE
      /\ e \in Nat /\ k \in Nat /\ Procs = 0 .. n - 1 /\ PAGE_TABLE_SIZE \in Nat
  <2>1. e \in Nat
    BY LRUAssumption
  <2>. QED BY <2>1, LRUAssumption DEF Procs
<1>2. /\ FFLIST = [x \in 1 .. k |-> Unowned(e + x - 1)]
      /\ PageTable = [p \in Procs |-> [g \in Pages |->
           IF g < ESSENTIAL_PAGES THEN Present(p * ESSENTIAL_PAGES + g, FALSE) ELSE Absent]]
      /\ ready_queue = [x \in 1 .. n |-> x - 1]
      /\ curr_search_cnt = [p \in Procs |-> 0] /\ active_processes = n
      /\ running = NONE /\ L = 0 /\ R = 0
      /\ content = [f \in Frames |-> IF f < e
                      THEN <<f \div ESSENTIAL_PAGES, f % ESSENTIAL_PAGES>> ELSE <<NONE, NONE>>]
      /\ last_use = [p \in Procs |-> [g \in Pages |-> 0]]
  BY DEF Init
<1>3. k + e = TOTAL_FRAMES_USEABLE
  BY <1>1
\* Process p has the frames from p * ESSENTIAL_PAGES on.
<1>4. ASSUME NEW p \in Procs, NEW g \in Pages, g < ESSENTIAL_PAGES
      PROVE  p * ESSENTIAL_PAGES + g \in 0 .. e - 1 /\ p \in Nat /\ g \in Nat
  <2>1. p \in Nat /\ p <= n - 1 /\ g \in Nat
    BY <1>1, NoneIsNone
  <2>2. p * ESSENTIAL_PAGES \in Nat /\ p * ESSENTIAL_PAGES <= (n - 1) * ESSENTIAL_PAGES
    BY <1>1, <2>1
  <2>3. (n - 1) * ESSENTIAL_PAGES = e - ESSENTIAL_PAGES
    BY <1>1
  <2>. HIDE DEF e
  <2>. QED BY <1>1, <1>4, <2>1, <2>2, <2>3
<1>. HIDE DEF e, k
<1>5. 0 .. e - 1 \subseteq Frames
  BY <1>1, <1>3 DEF Frames
<1>6. ASSUME NEW p \in Procs, NEW g \in Pages
      PROVE  /\ PageTable[p][g] \in PageEntry
             /\ g < ESSENTIAL_PAGES =>
                  FrameOf(p, g) = p * ESSENTIAL_PAGES + g /\ Past(p, g) = ALL_ONES
             /\ ~(g < ESSENTIAL_PAGES) => FrameOf(p, g) = NONE
  <2>1. CASE g < ESSENTIAL_PAGES
    <3>1. PageTable[p][g] = Present(p * ESSENTIAL_PAGES + g, FALSE)
      BY <1>2, <2>1
    <3>2. p * ESSENTIAL_PAGES + g \in Frames
      BY <1>4, <1>5, <2>1
    <3>. QED BY <2>1, <3>1, <3>2, Widths DEF Present, PageEntry, FrameOf, Past
  <2>2. CASE ~(g < ESSENTIAL_PAGES)
    <3>1. PageTable[p][g] = Absent
      BY <1>2, <2>2
    <3>. QED BY <2>2, <3>1 DEF Absent, PageEntry, FrameOf
  <2>. QED BY <2>1, <2>2
<1>7. \A x \in 1 .. k : e + x - 1 \in Frames /\ FFLIST[x] = Unowned(e + x - 1)
  BY <1>1, <1>2, <1>3 DEF Frames
<1>8. \A x \in 1 .. k : /\ FFLIST[x] \in Entry /\ FFLIST[x].frame_no = e + x - 1
                        /\ FFLIST[x].last_owner = NONE
  BY <1>7, EntryHas
<1>9. FFLIST \in Seq(Entry) /\ Len(FFLIST) = k
  <2>1. FFLIST \in [1 .. k -> Entry]
    BY <1>2, <1>8
  <2>2. FFLIST \in Seq(Entry)
    BY <1>1, <2>1
  <2>3. DOMAIN FFLIST = 1 .. k /\ k \in Nat
    BY <1>1, <1>2
  <2>. QED BY <2>2, <2>3
<1>10. ready_queue \in Seq(Procs) /\ Len(ready_queue) = n
  <2>1. \A x \in 1 .. n : x - 1 \in Procs
    BY <1>1
  <2>2. ready_queue \in [1 .. n -> Procs]
    BY <1>2, <2>1
  <2>. QED BY <1>1, <1>2, <2>2
<1>11. Shape
  <2>1. PageTable \in [Procs -> [Pages -> PageEntry]]
    BY <1>2, <1>6
  <2>2. curr_search_cnt \in [Procs -> 0 .. m] /\ DOMAIN content = Frames
    BY <1>1, <1>2
  <2>3. running = NONE /\ running \in Procs \cup {NONE} /\ L \in Nat /\ R \in Int
    BY <1>2
  <2>. QED BY <1>9, <1>10, <2>1, <2>2, <2>3 DEF Shape
<1>12. PlaceInv
  <2>1. Distinct(ready_queue)
    BY <1>1, <1>2, <1>10 DEF Distinct
  <2>2. ~In(ready_queue, NONE)
    BY <1>10, NoneIsNone DEF In
  <2>3. \A p \in Procs : curr_search_cnt[p] < m
    BY <1>1, <1>2
  <2>4. {p \in Procs : curr_search_cnt[p] < m} = Procs
    BY <2>3
  <2>5. Cardinality(Procs) = n
    <3>1. 0 \in Int /\ n - 1 \in Int /\ 0 <= n - 1
      BY <1>1
    <3>2. Cardinality(0 .. n - 1) = (n - 1) - 0 + 1
      BY <3>1, FS_Interval
    <3>. QED BY <1>1, <3>2
  <2>. HIDE DEF In, Distinct
  <2>. QED BY <1>2, <2>1, <2>2, <2>3, <2>4, <2>5 DEF PlaceInv
<1>13. /\ Single(FFLIST)
       /\ \A f : Has(FFLIST, f) <=> f \in e .. TOTAL_FRAMES_USEABLE - 1
  <2>1. Single(FFLIST)
    BY <1>1, <1>8, <1>9 DEF Single
  <2>2. ASSUME NEW f, Has(FFLIST, f) PROVE f \in e .. TOTAL_FRAMES_USEABLE - 1
    BY <1>1, <1>3, <1>8, <1>9, <2>2 DEF Has
  <2>3. ASSUME NEW f \in e .. TOTAL_FRAMES_USEABLE - 1 PROVE Has(FFLIST, f)
    <3>1. f - e + 1 \in 1 .. k /\ e + (f - e + 1) - 1 = f
      BY <1>1, <1>3
    <3>2. FFLIST[f - e + 1].frame_no = f
      BY <1>8, <3>1
    <3>. QED BY <1>9, <3>1, <3>2 DEF Has
  <2>. QED BY <2>1, <2>2, <2>3
\* The frame of an essential page holds it, and each of the first frames is one's.
<1>14. ASSUME NEW p \in Procs, NEW g \in Pages, g < ESSENTIAL_PAGES
       PROVE  content[p * ESSENTIAL_PAGES + g] = <<p, g>>
  <2>1. PICK f : f = p * ESSENTIAL_PAGES + g
    OBVIOUS
  <2>2. f \in 0 .. e - 1 /\ f \in Nat /\ f < e /\ f \in Frames /\ p \in Nat /\ g \in Nat
        /\ ESSENTIAL_PAGES > 0
    BY <1>1, <1>4, <1>5, <1>14, <2>1
  <2>3. content[f] = <<f \div ESSENTIAL_PAGES, f % ESSENTIAL_PAGES>>
    BY <1>2, <2>2
  <2>4. PICK u, w : u = f \div ESSENTIAL_PAGES /\ w = f % ESSENTIAL_PAGES
    OBVIOUS
  <2>5. u \in Nat /\ w \in 0 .. ESSENTIAL_PAGES - 1 /\ f = u * ESSENTIAL_PAGES + w
    BY <1>1, <2>2, <2>4
  <2>6. p = u /\ g = w
    <3>1. w \in Nat /\ w < ESSENTIAL_PAGES /\ p * ESSENTIAL_PAGES + g = u * ESSENTIAL_PAGES + w
      BY <1>1, <2>1, <2>5
    <3>. QED BY <1>1, <1>14, <2>2, <2>5, <3>1, DivisionIsUnique
  <2>. QED BY <2>1, <2>3, <2>4, <2>6
<1>15. ASSUME NEW f \in 0 .. e - 1 PROVE \E p \in Procs, g \in Pages : FrameOf(p, g) = f
  <2>1. f \in Nat /\ f < e /\ ESSENTIAL_PAGES > 0
    BY <1>1 DEF e
  <2>. DEFINE p == f \div ESSENTIAL_PAGES
              g == f % ESSENTIAL_PAGES
  <2>2. /\ p \in Nat /\ g \in 0 .. ESSENTIAL_PAGES - 1
        /\ f = p * ESSENTIAL_PAGES + g
    BY <1>1, <2>1
  <2>. HIDE DEF p, g
  <2>3. p < n
    <3>1. SUFFICES ASSUME p >= n PROVE FALSE
      BY <1>1, <2>2
    <3>2. p * ESSENTIAL_PAGES >= n * ESSENTIAL_PAGES
      BY <1>1, <2>2, <3>1
    <3>. QED BY <1>1, <2>1, <2>2, <3>2 DEF e
  <2>4. p \in Procs
    BY <1>1, <2>2, <2>3
  <2>5. g \in Pages /\ g < ESSENTIAL_PAGES
    <3>1. s[p] \in Nat \ {0} /\ PageOf(s[p] - 1) < PAGE_TABLE_SIZE /\ ELEMS_PER_PAGE \in Nat \ {0}
      BY <2>4, LRUAssumption
    <3>2. (s[p] - 1) \div ELEMS_PER_PAGE \in Nat
      BY <3>1
    <3>3. ESSENTIAL_PAGES < PAGE_TABLE_SIZE
      BY <1>1, <3>1, <3>2 DEF PageOf
    <3>. QED BY <1>1, <2>2, <3>3 DEF Pages
  <2>. QED BY <1>6, <2>2, <2>4, <2>5
<1>. HIDE DEF Has, Single, FrameOf
<1>16. FrameInv
  <2>1. ASSUME NEW p \in Procs, NEW g \in Pages PROVE ~Has(FFLIST, FrameOf(p, g))
    <3>1. CASE g < ESSENTIAL_PAGES
      <4>1. FrameOf(p, g) \in 0 .. e - 1
        BY <1>4, <1>6, <3>1
      <4>. QED BY <1>1, <1>13, <4>1
    <3>2. CASE ~(g < ESSENTIAL_PAGES)
      <4>1. FrameOf(p, g) = NONE
        BY <1>6, <3>2
      <4>. QED BY <1>1, <1>13, <4>1 DEF NONE
    <3>. QED BY <3>1, <3>2
  <2>2. ASSUME NEW f \in Frames, ~Has(FFLIST, f)
        PROVE  \E p \in Procs, g \in Pages : FrameOf(p, g) = f
    <3>1. f \in 0 .. e - 1
      BY <1>1, <1>3, <1>13, <2>2 DEF Frames
    <3>. QED BY <1>15, <3>1
  <2>3. ASSUME NEW p \in Procs, NEW q \in Procs, NEW g \in Pages, NEW h \in Pages,
               FrameOf(p, g) # NONE, FrameOf(p, g) = FrameOf(q, h)
        PROVE  p = q /\ g = h
    <3>1. g < ESSENTIAL_PAGES /\ h < ESSENTIAL_PAGES
      BY <1>6, <2>3
    <3>2. p * ESSENTIAL_PAGES + g = q * ESSENTIAL_PAGES + h
      BY <1>6, <2>3, <3>1
    <3>3. p \in Nat /\ q \in Nat /\ g \in Nat /\ h \in Nat
      BY <1>4, <3>1
    <3>. QED BY <1>1, <3>1, <3>2, <3>3, DivisionIsUnique
  <2>4. Len(FFLIST) >= NFFMIN
    BY <1>1, <1>3, <1>9
  <2>. QED BY <1>13, <2>1, <2>2, <2>3, <2>4 DEF FrameInv, Valid, FrameOf
<1>17. ASSUME NEW p \in Procs, NEW g \in Pages, Valid(p, g) PROVE g < ESSENTIAL_PAGES
  BY <1>6, <1>17 DEF Valid, FrameOf
<1>18. MarksInv
  <2>1. ASSUME NEW x, In(FFLIST, x) PROVE MarkIsTrue(x)
    BY <1>8, <1>9, <2>1 DEF In, MarkIsTrue
  <2>. QED BY <1>6, <1>14, <1>17, <2>1 DEF MarksInv
<1>19. AgeInv
  <2>1. last_use \in [Procs -> [Pages -> Nat]]
    BY <1>2
  <2>2. Fits(ALL_ONES, 0)
    <3>1. BITS - 1 - 0 = BITS - 1 /\ BITS - 0 = BITS /\ 0 < BITS
      BY Widths
    <3>2. 2^(BITS - 1 - 0) = TOP_BIT /\ 2^(BITS - 0) = ALL_ONES + 1
      BY <3>1, Widths DEF TOP_BIT
    <3>. QED BY <3>1, <3>2, Widths DEF Fits
  <2>3. ASSUME NEW p \in Procs, NEW g \in Pages, Valid(p, g) PROVE AgeOK(p, g)
    <3>1. Past(p, g) = ALL_ONES /\ last_use[p][g] = 0 /\ curr_search_cnt[p] = 0
      BY <1>2, <1>6, <1>17, <2>3
    <3>. HIDE DEF Past, Fits
    <3>. QED BY <2>2, <3>1, Widths DEF AgeOK
  <2>. QED BY <2>1, <2>3 DEF AgeInv
<1>. QED BY <1>11, <1>12, <1>16, <1>18, <1>19 DEF IInv

LEMMA NextInv == IInv /\ [Next]_vars => IInv'
<1>. SUFFICES ASSUME IInv, [Next]_vars PROVE IInv'
  OBVIOUS
<1>1. CASE UNCHANGED vars
  <2>1. /\ UNCHANGED <<ready_queue, FFLIST, PageTable, curr_search_cnt, active_processes>>
        /\ UNCHANGED <<running, L, R, content, last_use>>
    BY <1>1 DEF vars, search, history
  <2>2. Shape' /\ PlaceInv'
    BY <2>1 DEF IInv, Shape, PlaceInv, In, Distinct
  <2>3. FrameInv' /\ MarksInv'
    BY <2>1, FramesUntouched DEF IInv, FrameOf
  <2>4. AgeInv'
    BY <2>1, AgesUntouched DEF IInv, Valid, Past
  <2>. QED BY <2>2, <2>3, <2>4 DEF IInv
<1>. QED BY <1>1, DispatchStep, HitStep, LoadStep, ReplaceStep, GiveUpStep, NextSearchStep,
            FinishStep DEF Next

-----------------------------------------------------------------------------
(***************************************************************************)
(* No frame is lost or handed out twice, whatever get_frame and            *)
(* page_replacement_algo choose, and the reserve is kept, for any number   *)
(* of processes and frames (LRU.c, lines 107-166, 229-246, 251-266).       *)
(***************************************************************************)
THEOREM NoFrameIsLost == Spec => []FramesPartition
<1>1. IInv => FramesPartition
  <2>. SUFFICES ASSUME IInv PROVE FramesPartition
    OBVIOUS
  <2>1. Shape /\ PlaceInv /\ FrameInv
    BY DEF IInv
  <2>2. ASSUME NEW f \in Frames
        PROVE  Cardinality(Holders(f)) + Cardinality(Entries(f)) = 1
    <3>1. f # NONE /\ DOMAIN FFLIST = 1 .. Len(FFLIST)
      BY <2>1, NoneIsNone DEF Shape
    <3>2. CASE Has(FFLIST, f)
      <4>1. PICK i \in 1 .. Len(FFLIST) : FFLIST[i].frame_no = f
        BY <3>2 DEF Has
      <4>2. Entries(f) = {i}
        BY <2>1, <3>1, <4>1 DEF Entries, FrameInv, Single
      <4>3. Holders(f) = {}
        BY <2>1, <3>2 DEF Holders, FrameInv, FrameOf
      <4>4. Cardinality(Entries(f)) = 1 /\ Cardinality(Holders(f)) = 0
        BY <4>2, <4>3, FS_Singleton, FS_EmptySet, Zenon
      <4>. QED BY <4>4
    <3>3. CASE ~Has(FFLIST, f)
      <4>1. Entries(f) = {}
        BY <3>1, <3>3 DEF Entries, Has
      <4>2. PICK p \in Procs, g \in Pages : FrameOf(p, g) = f
        BY <2>1, <3>3 DEF FrameInv
      <4>3. \A h \in Holders(f) : h = <<p, g>>
        BY <2>1, <3>1, <4>2 DEF Holders, FrameInv, Valid, FrameOf
      <4>4. <<p, g>> \in Holders(f)
        BY <4>2 DEF Holders, FrameOf
      <4>5. Holders(f) = {<<p, g>>}
        BY <4>3, <4>4
      <4>6. Cardinality(Entries(f)) = 0 /\ Cardinality(Holders(f)) = 1
        BY <4>1, <4>5, FS_Singleton, FS_EmptySet, Zenon
      <4>. QED BY <4>6
    <3>. QED BY <3>2, <3>3
  <2>. QED BY <2>1, <2>2 DEF FramesPartition, FrameInv, PlaceInv
<1>. QED BY <1>1, InitInv, NextInv, PTL DEF Spec

(***************************************************************************)
(* A free frame holds the page it is marked with, and a valid page is what *)
(* its frame holds, for any number of processes and frames (LRU.c, lines   *)
(* 110-118, 158-160, 231).                                                 *)
(***************************************************************************)
THEOREM MarksStayTrue == Spec => []MarksAreTrue
<1>1. IInv => MarksAreTrue
  <2>. SUFFICES ASSUME IInv PROVE MarksAreTrue
    OBVIOUS
  <2>1. ASSUME NEW i \in DOMAIN FFLIST PROVE MarkIsTrue(FFLIST[i])
    <3>1. In(FFLIST, FFLIST[i])
      BY DEF IInv, Shape, In
    <3>. QED BY <3>1 DEF IInv, MarksInv
  <2>. QED BY <2>1 DEF IInv, MarksInv, MarksAreTrue, MarkIsTrue, FrameOf
<1>. QED BY <1>1, InitInv, NextInv, PTL DEF Spec

\* A page leaves the table of the running process as the victim only.
LEMMA OnlyVictimsLeave ==
  ASSUME IInv, Next, NEW p \in Procs, NEW v \in Pages, Evicts(p, v)
  PROVE  IsVictim(p, v)
<1>0. Shape /\ FrameInv
  BY DEF IInv
<1>1. running = p /\ running' = p /\ Valid(p, v) /\ ~Valid(p, v)' /\ p # NONE
  BY NoneIsNone DEF Evicts
<1>2. ~(Dispatch \/ GiveUp \/ NextSearch \/ Finish \/ (Done /\ UNCHANGED vars))
  BY <1>1 DEF Dispatch, GiveUp, NextSearch, Finish, LeaveSearch, Done
<1>3. ~Hit
  BY <1>0, <1>1, HitKeeps DEF Valid
\* A fault leaves the page alone, or it is the victim's entry that goes.
<1>4. ASSUME NEW f \in Frames, NEW table, table \in [Pages -> PageEntry], Fault,
             Install(f, table)
      PROVE  table[v].frame = NONE
  <2>1. PICK who \in Procs, pg \in Pages :
          /\ who = running /\ FrameOf(who, pg)' = f
          /\ \A g \in Pages : g # pg => PageTable'[who][g] = table[g]
    <3>. HIDE DEF Install, FrameOf
    <3>. QED BY <1>4, Installed
  <2>2. v # pg
    BY <1>1, <1>4, <2>1, NoneIsNone DEF Valid, FrameOf
  <2>. QED BY <1>1, <2>1, <2>2 DEF Valid
<1>5. PageTable[p] \in [Pages -> PageEntry] /\ PageTable[p][v].frame # NONE
  BY <1>0, <1>1 DEF Shape, Valid
<1>6. \A i \in 1 .. Len(FFLIST) : FFLIST[i].frame_no \in Frames
  BY <1>0, EntryHas DEF Shape
<1>7. ~Load
  <2>. SUFFICES ASSUME Load PROVE FALSE
    OBVIOUS
  <2>1. Len(FFLIST) \in Nat /\ NFFMIN \in Nat /\ Len(FFLIST) > NFFMIN
    BY <1>0, LRUAssumption DEF Shape, Load, EnoughFree
  <2>2. FFLIST[1].frame_no \in Frames
    BY <1>6, <2>1
  <2>. QED BY <1>1, <1>4, <1>5, <2>2 DEF Load
<1>8. ASSUME Replace PROVE IsVictim(p, v)
  <2>1. PICK w \in ArrayPages :
          /\ Fault /\ IsVictim(running, w)
          /\ Install(FFLIST[FoundIndex(running, Page)].frame_no,
                     [PageTable[running] EXCEPT ![w].frame = NONE])
    BY <1>8 DEF Replace
  <2>2. PICK f, table : /\ f = FFLIST[FoundIndex(running, Page)].frame_no
                        /\ table = [PageTable[p] EXCEPT ![w].frame = NONE]
    OBVIOUS
  <2>3. Install(f, table)
    BY <1>1, <2>1, <2>2
  <2>4. f \in Frames
    BY <1>0, <1>6, <2>2, FoundInList DEF FrameInv
  <2>. DEFINE new == [PageTable[p][w] EXCEPT !.frame = NONE]
  <2>5. w \in Pages /\ new \in PageEntry
    <3>1. w \in Pages /\ PageTable[p][w] \in PageEntry
      BY <1>5, NoneIsNone
    <3>. QED BY <3>1 DEF PageEntry
  <2>6. table = [PageTable[p] EXCEPT ![w] = new]
    BY <2>2
  <2>. HIDE DEF new
  <2>7. table \in [Pages -> PageEntry] /\ (v # w => table[v] = PageTable[p][v])
    BY <1>5, <2>5, <2>6
  <2>8. v = w
    BY <1>4, <1>5, <2>1, <2>3, <2>4, <2>7
  <2>. QED BY <1>1, <2>1, <2>8
<1>. QED BY <1>2, <1>3, <1>7, <1>8 DEF Next

(***************************************************************************)
(* The page given up is never one that was loaded in the same search, and  *)
(* none of the array was last used longer ago, but for uses more than BITS *)
(* searches ago, which are all alike: for histories of any width, any      *)
(* number of searches and pages of any size (LRU.c, lines 93-104, 275-309).*)
(***************************************************************************)
THEOREM TheLeastRecentGoes == Spec => VictimIsLeastRecent
<1>. DEFINE Least(p, v) ==
       /\ v \in ArrayPages
       /\ last_use[p][v] <= curr_search_cnt[p]
       /\ \A g \in ArrayPages : Valid(p, g) =>
            \/ last_use[p][v] <= last_use[p][g]
            \/ last_use[p][g] <= curr_search_cnt[p] - BITS
<1>1. ASSUME IInv, NEW p \in Procs, NEW v \in Pages, IsVictim(p, v)
      PROVE  Least(p, v)
  <2>1. /\ last_use \in [Procs -> [Pages -> Nat]] /\ curr_search_cnt[p] \in Nat
        /\ \A g \in Pages : Valid(p, g) => AgeOK(p, g)
        /\ \A g \in Pages : Past(p, g) \in Nat
    BY <1>1, LRUAssumption DEF IInv, AgeInv, Shape, PageEntry, Past
  <2>. DEFINE c == curr_search_cnt[p]
              Age(g) == c - last_use[p][g]
  <2>2. v \in ArrayPages /\ Valid(p, v) /\ Past(p, v) < ALL_ONES
    BY <1>1 DEF IsVictim, Candidates
  <2>3. last_use[p][v] \in Nat /\ last_use[p][v] <= c /\ Fits(Past(p, v), Age(v)) /\ Age(v) \in Nat
    <3>1. AgeOK(p, v) /\ last_use[p][v] \in Nat /\ Past(p, v) # ALL_ONES
      BY <2>1, <2>2, Widths
    <3>2. last_use[p][v] # c + 1 /\ last_use[p][v] <= c + 1 /\ Fits(Past(p, v), Age(v))
      BY <3>1 DEF AgeOK
    <3>. QED BY <2>1, <3>1, <3>2
  <2>4. ASSUME NEW g \in ArrayPages, Valid(p, g)
        PROVE  last_use[p][v] <= last_use[p][g] \/ last_use[p][g] <= c - BITS
    <3>1. /\ g \in Pages /\ AgeOK(p, g) /\ last_use[p][g] \in Nat
          /\ Past(p, g) \in Nat /\ Past(p, v) \in Nat
      BY <2>1, <2>4, NoneIsNone
    <3>2. CASE last_use[p][g] = c + 1
      BY <2>1, <2>3, <3>1, <3>2
    <3>3. CASE last_use[p][g] # c + 1
      <4>1. Fits(Past(p, g), Age(g)) /\ Age(g) \in Nat
        BY <2>1, <3>1, <3>3 DEF AgeOK
      <4>2. Past(p, v) <= Past(p, g)
        <5>1. CASE g \in Candidates(p)
          BY <1>1, <3>1, <5>1 DEF IsVictim
        <5>2. CASE g \notin Candidates(p)
          BY <2>2, <2>4, <3>1, <5>2, Widths DEF Candidates
        <5>. QED BY <5>1, <5>2
      <4>. HIDE DEF Age
      <4>3. Age(g) <= Age(v) \/ Age(g) >= BITS
        BY <2>3, <3>1, <4>1, <4>2, LessIsOlder
      <4>. QED BY <2>1, <2>3, <3>1, <4>3, Widths DEF Age
    <3>. QED BY <3>2, <3>3
  <2>. QED BY <2>2, <2>3, <2>4
<1>2. IInv /\ [Next]_vars =>
        [\A p \in Procs, v \in Pages : Evicts(p, v) => Least(p, v)]_vars
  <2>. HIDE DEF Least
  <2>. QED BY <1>1, OnlyVictimsLeave
<1>. QED BY <1>2, InitInv, NextInv, PTL DEF Spec, VictimIsLeastRecent
=============================================================================
