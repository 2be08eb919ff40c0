--------------------------- MODULE BoatingProofs ---------------------------
(***************************************************************************)
(* A visitor that was let through always finds a boat, rides are shared by *)
(* two and counted once, and main goes on only when they are over: for any *)
(* number of boats and visitors, and every interleaving.                   *)
(***************************************************************************)
EXTENDS Boating, FiniteSetTheorems, TLAPS

LEMMA Kinds ==
  /\ \A b \in Boats : b \in Threads /\ b \notin Riders /\ b # MAIN /\ b # NOBODY /\ b \in 1 .. m
  /\ \A r \in Riders : r \in Threads /\ r \notin Boats /\ r # MAIN /\ r # NOBODY
  /\ MAIN \in Threads /\ MAIN \notin Boats /\ MAIN \notin Riders /\ NOBODY \notin Riders
  /\ \A t \in Threads : t \in Boats \/ t \in Riders \/ t = MAIN
  /\ m \in Nat /\ n \in Nat
BY BoatingAssumption DEF Boats, Riders, Threads, MAIN, NOBODY

LEMMA SubsetsAreFinite ==
  ASSUME NEW S, S \subseteq Boats \/ S \subseteq Riders
  PROVE  IsFiniteSet(S) /\ Cardinality(S) \in Nat
<1>1. IsFiniteSet(Boats) /\ IsFiniteSet(Riders)
  BY Kinds, FS_Interval DEF Boats, Riders
<1>2. IsFiniteSet(S)
  BY <1>1, FS_Subset
<1>3. QED
  BY <1>2, FS_CardinalityType

LEMMA OneMore ==
  ASSUME NEW S, NEW T, NEW x, S \subseteq Boats \/ S \subseteq Riders,
         x \notin S, T = S \cup {x}
  PROVE  Cardinality(T) = Cardinality(S) + 1
BY SubsetsAreFinite, FS_AddElement

LEMMA OneLess ==
  ASSUME NEW S, NEW T, NEW x, S \subseteq Boats \/ S \subseteq Riders,
         x \in S, T = S \ {x}
  PROVE  Cardinality(T) = Cardinality(S) - 1
BY SubsetsAreFinite, FS_RemoveElement

LEMMA NoMore ==
  ASSUME NEW S, NEW T, S \subseteq Boats \/ S \subseteq Riders, T \subseteq S
  PROVE  Cardinality(T) <= Cardinality(S)
BY SubsetsAreFinite, FS_Subset

LEMMA SetTypes ==
  /\ Searching \subseteq Riders /\ Sleeping \subseteq Riders
  /\ Calling \subseteq Boats /\ Free \subseteq Boats
BY DEF Searching, Sleeping, Calling, Free

LEMMA SetTypesAfter ==
  /\ Searching' \subseteq Riders /\ Sleeping' \subseteq Riders
  /\ Calling' \subseteq Boats /\ Free' \subseteq Boats
BY DEF Searching, Sleeping, Calling, Free

\* SearchInv holds of boat 0 because of the counts: the sets it compares are all
\* that search and all that are free.
LEMMA SearchHolds ==
  ASSUME TypeOK', CountInv',
         \A k \in 1 .. m : Cardinality({r \in Searching' : i'[r] > k})
                             <= Cardinality({b \in Free' : b > k})
  PROVE  SearchInv'
<1>1. /\ {r \in Searching' : i'[r] > 0} = Searching'
      /\ {b \in Free' : b > 0} = Free'
  <2>1. \A r \in Searching' : i'[r] \in 1 .. m + 1
    BY SetTypesAfter DEF TypeOK
  <2>2. \A b \in Free' : b \in 1 .. m
    BY SetTypesAfter DEF Boats
  <2>3. \A r \in Searching' : i'[r] > 0
    BY <2>1, Kinds
  <2>4. \A b \in Free' : b > 0
    BY <2>2, Kinds
  <2>5. QED
    BY <2>3, <2>4
<1>2. Cardinality(Searching') <= Cardinality(Free')
  <2>1. /\ Cardinality(Searching') \in Nat /\ Cardinality(Sleeping') \in Nat
        /\ Cardinality(Calling') \in Nat /\ Cardinality(Free') \in Nat
    BY SetTypesAfter, SubsetsAreFinite
  <2>2. rider' \in Int
    BY DEF TypeOK
  <2>3. /\ Cardinality(Sleeping') = IF rider' < 0 THEN -rider' ELSE 0
        /\ Cardinality(Free') = rider' + Cardinality(Sleeping')
                                  + Cardinality(Searching') + Cardinality(Calling')
    BY DEF CountInv
  <2>4. QED
    BY <2>1, <2>2, <2>3
<1>3. ASSUME NEW k \in 0 .. m
      PROVE  Cardinality({r \in Searching' : i'[r] > k})
               <= Cardinality({b \in Free' : b > k})
  <2>1. CASE k = 0
    BY <1>1, <1>2, <2>1
  <2>2. CASE k # 0
    <3>1. k \in 1 .. m
      BY <2>2, Kinds
    <3>2. QED
      BY <3>1
  <2>3. QED
    BY <2>1, <2>2
<1>4. QED
  BY <1>3 DEF SearchInv

\* The usual case: past boat 1 the same search and the same boats are free.
LEMMA SearchFrame ==
  ASSUME TypeOK', CountInv', SearchInv, Free' = Free,
         \A k \in 1 .. m : {r \in Searching' : i'[r] > k} = {r \in Searching : i[r] > k}
  PROVE  SearchInv'
<1>1. \A k \in 1 .. m : k \in 0 .. m
  BY Kinds
<1>2. QED
  BY <1>1, SearchHolds DEF SearchInv

-----------------------------------------------------------------------------
LEMMA FindInit == Init => FindInv
<1> SUFFICES ASSUME Init PROVE FindInv
  OBVIOUS
<1>1. TypeOK
  BY Kinds DEF Init, TypeOK, Places, NOBODY
<1>2. BoardInv
  BY Kinds DEF Init, BoardInv, Aboard
<1>3. Searching = {} /\ Sleeping = {} /\ Calling = {} /\ Free = {}
  BY Kinds DEF Init, Searching, Sleeping, Calling, Free
<1>4. CountInv
  BY <1>3, FS_EmptySet DEF CountInv, Init
<1>5. SearchInv
  <2>1. ASSUME NEW k \in 0 .. m
        PROVE  {r \in Searching : i[r] > k} = {} /\ {b \in Free : b > k} = {}
    BY <1>3
  <2>2. QED
    BY <2>1, FS_EmptySet DEF SearchInv
<1>6. QED
  BY <1>1, <1>2, <1>4, <1>5 DEF FindInv

\* A step that moves nobody in or out of the sets that are counted.
LEMMA CountFrame ==
  ASSUME CountInv, SearchInv, rider' = rider,
         Searching' = Searching, Sleeping' = Sleeping, Calling' = Calling, Free' = Free,
         \A r \in Searching : i'[r] = i[r]
  PROVE  CountInv' /\ SearchInv'
<1>1. CountInv'
  BY DEF CountInv
<1>2. \A k \in 0 .. m : {r \in Searching' : i'[r] > k} = {r \in Searching : i[r] > k}
  OBVIOUS
<1>3. SearchInv'
  BY <1>2 DEF SearchInv
<1>4. QED
  BY <1>1, <1>3

-----------------------------------------------------------------------------
(* The steps of a boat.                                                    *)

LEMMA InitBarrierStep ==
  ASSUME FindInv, NEW b \in Boats, InitBarrier(b)
  PROVE  FindInv'
<1>0. TypeOK /\ BoardInv /\ CountInv /\ SearchInv
  BY DEF FindInv
<1>1. /\ pc[b] = "init" /\ pc' = [pc EXCEPT ![b] = "P"] /\ BB' = [BB EXCEPT ![b] = {}]
      /\ UNCHANGED <<rider, boat, BA, BC, EOS, remaining_visitors, i, boat_index, rider_id>>
  BY DEF InitBarrier, Goto, shared, locals
<1>2. /\ pc'[b] = "P" /\ \A t \in Threads \ {b} : pc'[t] = pc[t]
      /\ BB'[b] = {} /\ \A c \in Boats \ {b} : BB'[c] = BB[c]
  BY <1>0, <1>1, Kinds DEF TypeOK
<1>3. TypeOK'
  BY <1>0, <1>1, Kinds DEF TypeOK, Places
<1>4. BoardInv'
  BY <1>0, <1>1, <1>2, Kinds DEF BoardInv, Aboard, TypeOK
<1>5. CountInv' /\ SearchInv'
  <2>1. /\ Searching' = Searching /\ Sleeping' = Sleeping
        /\ Calling' = Calling /\ Free' = Free
    BY <1>1, <1>2, Kinds DEF Searching, Sleeping, Calling, Free
  <2>2. QED
    BY <1>0, <1>1, <2>1, CountFrame
<1>6. QED
  BY <1>3, <1>4, <1>5 DEF FindInv

LEMMA InitFreedStep ==
  ASSUME FindInv, NEW b \in Boats, InitFreed(b)
  PROVE  FindInv'
<1>0. TypeOK /\ BoardInv /\ CountInv /\ SearchInv
  BY DEF FindInv
<1>1. /\ pc[b] = "init" /\ pc' = [pc EXCEPT ![b] = "P"]
      /\ UNCHANGED <<rider, boat, BA, BC, BB, EOS, remaining_visitors, i, boat_index, rider_id>>
  BY DEF InitFreed, Goto, shared, locals
<1>2. pc'[b] = "P" /\ \A t \in Threads \ {b} : pc'[t] = pc[t]
  BY <1>0, <1>1, Kinds DEF TypeOK
<1>3. TypeOK'
  BY <1>0, <1>1, Kinds DEF TypeOK, Places
<1>4. BoardInv'
  BY <1>0, <1>1, <1>2, Kinds DEF BoardInv, Aboard, TypeOK
<1>5. CountInv' /\ SearchInv'
  <2>1. /\ Searching' = Searching /\ Sleeping' = Sleeping
        /\ Calling' = Calling /\ Free' = Free
    BY <1>1, <1>2, Kinds DEF Searching, Sleeping, Calling, Free
  <2>2. QED
    BY <1>0, <1>1, <2>1, CountFrame
<1>6. QED
  BY <1>3, <1>4, <1>5 DEF FindInv

LEMMA WaitForRiderStep ==
  ASSUME FindInv, NEW b \in Boats, WaitForRider(b)
  PROVE  FindInv'
<1>0. TypeOK /\ BoardInv /\ CountInv /\ SearchInv
  BY DEF FindInv
<1>1. /\ pc[b] = "P" /\ boat' = boat - 1
      /\ pc' = [pc EXCEPT ![b] = IF boat - 1 < 0 THEN "asleep" ELSE "ready"]
      /\ UNCHANGED <<rider, BA, BC, BB, EOS, remaining_visitors, i, boat_index, rider_id>>
  BY DEF WaitForRider, P, Goto, shared, locals
<1>2. pc'[b] \in {"asleep", "ready"} /\ \A t \in Threads \ {b} : pc'[t] = pc[t]
  BY <1>0, <1>1, Kinds DEF TypeOK
<1>3. TypeOK'
  BY <1>0, <1>1, Kinds DEF TypeOK, Places
<1>4. BoardInv'
  BY <1>0, <1>1, <1>2, Kinds DEF BoardInv, Aboard, TypeOK
<1>5. CountInv' /\ SearchInv'
  <2>1. /\ Searching' = Searching /\ Sleeping' = Sleeping
        /\ Calling' = Calling /\ Free' = Free
    BY <1>1, <1>2, Kinds DEF Searching, Sleeping, Calling, Free
  <2>2. QED
    BY <1>0, <1>1, <2>1, CountFrame
<1>6. QED
  BY <1>3, <1>4, <1>5 DEF FindInv

\* One free boat more, and one boat more that is about to call.
LEMMA BecomeAvailableStep ==
  ASSUME FindInv, NEW b \in Boats, BecomeAvailable(b)
  PROVE  FindInv'
<1>0. TypeOK /\ BoardInv /\ CountInv /\ SearchInv
  BY DEF FindInv
<1>1. /\ pc[b] = "ready" /\ pc' = [pc EXCEPT ![b] = "V"]
      /\ BA' = [BA EXCEPT ![b] = 1] /\ BC' = [BC EXCEPT ![b] = NOBODY]
      /\ UNCHANGED <<rider, boat, BB, EOS, remaining_visitors, i, boat_index, rider_id>>
  BY DEF BecomeAvailable, Goto, locals
<1>2. /\ pc'[b] = "V" /\ \A t \in Threads \ {b} : pc'[t] = pc[t]
      /\ BA'[b] = 1 /\ BC'[b] = NOBODY
      /\ \A c \in Boats \ {b} : BA'[c] = BA[c] /\ BC'[c] = BC[c]
  BY <1>0, <1>1, Kinds DEF TypeOK
<1>3. TypeOK'
  BY <1>0, <1>1, Kinds DEF TypeOK, Places
<1>4. b \notin EOS /\ BA[b] = 0
  BY <1>0, <1>1 DEF BoardInv
<1>5. BoardInv'
  BY <1>0, <1>1, <1>2, <1>4, Kinds DEF BoardInv, Aboard, TypeOK
<1>6. /\ Searching' = Searching /\ Sleeping' = Sleeping
      /\ Calling' = Calling \cup {b} /\ b \notin Calling
      /\ Free' = Free \cup {b} /\ b \notin Free
  BY <1>1, <1>2, <1>4, Kinds DEF Searching, Sleeping, Calling, Free
<1>7. CountInv'
  <2>1. /\ Cardinality(Free') = Cardinality(Free) + 1
        /\ Cardinality(Calling') = Cardinality(Calling) + 1
    BY <1>6, SetTypes, OneMore
  <2>2. /\ Cardinality(Searching) \in Nat /\ Cardinality(Sleeping) \in Nat
        /\ Cardinality(Calling) \in Nat /\ Cardinality(Free) \in Nat
    BY SetTypes, SubsetsAreFinite
  <2>3. QED
    BY <1>0, <1>1, <1>6, <2>1, <2>2 DEF CountInv, TypeOK
<1>8. SearchInv'
  <2>1. SUFFICES ASSUME NEW k \in 0 .. m
                 PROVE  Cardinality({r \in Searching' : i'[r] > k})
                          <= Cardinality({c \in Free' : c > k})
    BY DEF SearchInv
  <2> DEFINE A == {r \in Searching : i[r] > k}
             F == {c \in Free : c > k}
             G == {c \in Free' : c > k}
  <2>2. F \subseteq G /\ G \subseteq Boats /\ F \subseteq Boats /\ A \subseteq Riders
    BY <1>6, SetTypes
  <2>3. {r \in Searching' : i'[r] > k} = A
    BY <1>1, <1>6
  <2>4. Cardinality(A) <= Cardinality(F)
    BY <1>0 DEF SearchInv
  <2> HIDE DEF A, F, G
  <2>5. Cardinality(F) <= Cardinality(G)
    BY <2>2, NoMore
  <2>6. /\ Cardinality(A) \in Nat /\ Cardinality(F) \in Nat /\ Cardinality(G) \in Nat
    BY <2>2, SubsetsAreFinite
  <2>7. Cardinality(A) <= Cardinality(G)
    BY <2>4, <2>5, <2>6
  <2>8. QED
    BY <2>3, <2>7 DEF G
<1>9. QED
  BY <1>3, <1>5, <1>7, <1>8 DEF FindInv

\* The signal of CallRider wakes visitor u, or finds rider positive and nobody
\* asleep: both keep the balance of CountInv.
LEMMA CallRiderStep ==
  ASSUME FindInv, NEW b \in Boats, CallRider(b)
  PROVE  FindInv'
<1>0. TypeOK /\ BoardInv /\ CountInv /\ SearchInv
  BY DEF FindInv
<1>1. /\ pc[b] = "V" /\ rider' = rider + 1
      /\ UNCHANGED <<boat, BA, BC, BB, EOS, remaining_visitors, i, boat_index, rider_id>>
      /\ \/ /\ rider + 1 <= 0
            /\ \E u \in Sleeping : pc' = [pc EXCEPT ![b] = "board", ![u] = "search"]
         \/ /\ ~(rider + 1 <= 0 /\ Sleeping # {})
            /\ pc' = [pc EXCEPT ![b] = "board"]
  BY DEF CallRider, V, Goto, shared, locals, Sleeping
<1>2. /\ Calling' = Calling \ {b} /\ b \in Calling /\ Free' = Free
  <2>1. Free' = Free
    BY <1>1 DEF Free
  <2>2. pc'[b] = "board" /\ \A c \in Boats \ {b} : pc'[c] = pc[c]
    BY <1>0, <1>1, Kinds, SetTypes DEF TypeOK
  <2>3. QED
    BY <1>1, <2>1, <2>2 DEF Calling
<1>3. Cardinality(Calling') = Cardinality(Calling) - 1
  BY <1>2, SetTypes, OneLess
<1>4. /\ Cardinality(Searching) \in Nat /\ Cardinality(Sleeping) \in Nat
      /\ Cardinality(Calling) \in Nat /\ Cardinality(Free) \in Nat
  BY SetTypes, SubsetsAreFinite
<1>5. ASSUME rider + 1 <= 0, NEW u \in Sleeping,
             pc' = [pc EXCEPT ![b] = "board", ![u] = "search"]
      PROVE  FindInv'
  <2>1. /\ u \in Riders /\ pc[u] = "asleep" /\ pc'[b] = "board" /\ pc'[u] = "search"
        /\ \A t \in Threads \ {b, u} : pc'[t] = pc[t]
    BY <1>0, <1>5, Kinds DEF TypeOK, Sleeping
  <2>2. TypeOK'
    BY <1>0, <1>1, <1>5, <2>1, Kinds DEF TypeOK, Places
  <2>3. i[u] = 1
    BY <1>0, <2>1 DEF BoardInv
  <2>4. BoardInv'
    BY <1>0, <1>1, <2>1, Kinds DEF BoardInv, Aboard, TypeOK
  <2>5. /\ Searching' = Searching \cup {u} /\ u \notin Searching
        /\ Sleeping' = Sleeping \ {u}
    BY <2>1, Kinds DEF Searching, Sleeping
  <2>6. /\ Cardinality(Searching') = Cardinality(Searching) + 1
        /\ Cardinality(Sleeping') = Cardinality(Sleeping) - 1
    BY <2>5, SetTypes, OneMore, OneLess
  <2>7. CountInv'
    BY <1>0, <1>1, <1>2, <1>3, <1>4, <1>5, <2>6 DEF CountInv, TypeOK
  <2>8. \A k \in 1 .. m : {r \in Searching' : i'[r] > k} = {r \in Searching : i[r] > k}
    <3>1. \A k \in 1 .. m : ~(i'[u] > k)
      BY <1>1, <2>3, Kinds
    <3>2. QED
      BY <1>1, <2>5, <3>1
  <2>9. SearchInv'
    BY <1>0, <1>2, <2>2, <2>7, <2>8, SearchFrame
  <2>10. QED
    BY <2>2, <2>4, <2>7, <2>9 DEF FindInv
<1>6. ASSUME ~(rider + 1 <= 0 /\ Sleeping # {}), pc' = [pc EXCEPT ![b] = "board"]
      PROVE  FindInv'
  <2>1. pc'[b] = "board" /\ \A t \in Threads \ {b} : pc'[t] = pc[t]
    BY <1>0, <1>6, Kinds DEF TypeOK
  <2>2. TypeOK'
    BY <1>0, <1>1, <1>6, Kinds DEF TypeOK, Places
  <2>3. BoardInv'
    BY <1>0, <1>1, <2>1, Kinds DEF BoardInv, Aboard, TypeOK
  <2>4. Searching' = Searching /\ Sleeping' = Sleeping
    BY <2>1, <1>1, Kinds DEF Searching, Sleeping
  <2>5. rider >= 0
    <3>1. Sleeping = {} => Cardinality(Sleeping) = 0
      BY FS_EmptySet
    <3>2. QED
      BY <1>0, <1>6, <3>1 DEF CountInv, TypeOK
  <2>6. CountInv'
    BY <1>0, <1>1, <1>2, <1>3, <1>4, <2>4, <2>5 DEF CountInv, TypeOK
  <2>7. SearchInv'
    BY <1>0, <1>1, <1>2, <2>2, <2>4, <2>6, SearchFrame
  <2>8. QED
    BY <2>2, <2>3, <2>6, <2>7 DEF FindInv
<1>7. QED
  BY <1>1, <1>5, <1>6

\* Boat b, or a visitor that has taken it, comes to the barrier of b.
LEMMA BoardStep ==
  ASSUME FindInv, NEW b \in Boats, NEW t \in Threads,
         t = b \/ (t \in Riders /\ boat_index[t] = b), Board(t, b)
  PROVE  FindInv'
<1>0. TypeOK /\ BoardInv /\ CountInv /\ SearchInv
  BY DEF FindInv
<1>1. /\ pc[t] = "board"
      /\ UNCHANGED <<rider, boat, BA, BC, EOS, remaining_visitors, i, boat_index, rider_id>>
      /\ \/ /\ BB[b] = {} /\ pc' = [pc EXCEPT ![t] = "in_barrier"]
            /\ BB' = [BB EXCEPT ![b] = {t}]
         \/ /\ BB[b] # {} /\ BB' = [BB EXCEPT ![b] = {}]
            /\ pc' = [u \in Threads |-> IF u \in BB[b] \cup {t}
                                          THEN IF u \in Boats THEN "start" ELSE "ride"
                                          ELSE pc[u]]
  BY DEF Board, Meet, Waiting, shared, locals
<1>2. ASSUME BB[b] = {}, pc' = [pc EXCEPT ![t] = "in_barrier"], BB' = [BB EXCEPT ![b] = {t}]
      PROVE  FindInv'
  <2>1. /\ pc'[t] = "in_barrier" /\ \A u \in Threads \ {t} : pc'[u] = pc[u]
        /\ BB'[b] = {t} /\ \A c \in Boats \ {b} : BB'[c] = BB[c]
    BY <1>0, <1>2, Kinds DEF TypeOK
  <2>2. TypeOK'
    BY <1>0, <1>1, <1>2, Kinds DEF TypeOK, Places
  <2>3. BoardInv'
    BY <1>0, <1>1, <2>1, Kinds DEF BoardInv, Aboard, TypeOK
  <2>4. /\ Searching' = Searching /\ Sleeping' = Sleeping
        /\ Calling' = Calling /\ Free' = Free
    BY <1>1, <2>1, Kinds DEF Searching, Sleeping, Calling, Free
  <2>5. QED
    BY <1>0, <1>1, <2>2, <2>3, <2>4, CountFrame DEF FindInv
<1>3. ASSUME BB[b] # {}, BB' = [BB EXCEPT ![b] = {}],
             pc' = [u \in Threads |-> IF u \in BB[b] \cup {t}
                                        THEN IF u \in Boats THEN "start" ELSE "ride"
                                        ELSE pc[u]]
      PROVE  FindInv'
  <2>1. \A u \in BB[b] : /\ pc[u] = "in_barrier" /\ u # t
                         /\ u = b \/ (u \in Riders /\ boat_index[u] = b /\ BC[b] = u)
    BY <1>0, <1>1 DEF BoardInv, Aboard
  <2>2. t = b \/ (t \in Riders /\ boat_index[t] = b /\ BC[b] = t)
    BY <1>0, <1>1 DEF BoardInv, Aboard
  <2>3. PICK r \in Riders : /\ boat_index[r] = b /\ BC[b] = r /\ BB[b] \cup {t} = {b, r}
                            /\ pc[r] \in {"board", "in_barrier"}
                            /\ pc[b] \in {"board", "in_barrier"}
    <3>1. PICK u \in BB[b] : TRUE
      BY <1>3
    <3>2. CASE t = b
      <4>1. BB[b] = {u} /\ u \in Riders /\ boat_index[u] = b /\ BC[b] = u
        BY <2>1, <3>1, <3>2
      <4>2. QED
        BY <1>1, <2>1, <3>1, <3>2, <4>1
    <3>3. CASE t \in Riders /\ boat_index[t] = b /\ BC[b] = t
      <4>1. BB[b] = {b}
        BY <2>1, <3>1, <3>3
      <4>2. QED
        BY <1>1, <2>1, <3>1, <3>3, <4>1
    <3>4. QED
      BY <2>2, <3>2, <3>3
  <2>4. /\ pc'[b] = "start" /\ pc'[r] = "ride"
        /\ \A u \in Threads \ {b, r} : pc'[u] = pc[u]
        /\ BB'[b] = {} /\ \A c \in Boats \ {b} : BB'[c] = BB[c]
    BY <1>0, <1>3, <2>3, Kinds DEF TypeOK
  <2>5. b \notin EOS /\ BA[b] = 1
    BY <1>0, <2>3 DEF BoardInv, Aboard
  <2>6. TypeOK'
    <3>1. pc' \in [Threads -> Places]
      BY <1>0, <1>3 DEF TypeOK, Places
    <3>2. BB' \in [Boats -> SUBSET Threads]
      BY <1>0, <1>3 DEF TypeOK
    <3>3. QED
      BY <1>0, <1>1, <3>1, <3>2 DEF TypeOK
  <2>7. BoardInv'
    BY <1>0, <1>1, <2>3, <2>4, <2>5, Kinds DEF BoardInv, Aboard, TypeOK
  <2>8. /\ Searching' = Searching /\ Sleeping' = Sleeping
        /\ Calling' = Calling /\ Free' = Free
    BY <1>1, <2>3, <2>4, Kinds DEF Searching, Sleeping, Calling, Free
  <2>9. QED
    BY <1>0, <1>1, <2>6, <2>7, <2>8, CountFrame DEF FindInv
<1>4. QED
  BY <1>1, <1>2, <1>3

LEMMA StartRideStep ==
  ASSUME FindInv, NEW b \in Boats, StartRide(b)
  PROVE  FindInv'
<1>0. TypeOK /\ BoardInv /\ CountInv /\ SearchInv
  BY DEF FindInv
<1>1. /\ pc[b] = "start" /\ pc' = [pc EXCEPT ![b] = "ride"]
      /\ BA' = [BA EXCEPT ![b] = 0] /\ rider_id' = [rider_id EXCEPT ![b] = BC[b]]
      /\ UNCHANGED <<rider, boat, BC, BB, EOS, remaining_visitors, i, boat_index>>
  BY DEF StartRide, Goto
<1>2. /\ pc'[b] = "ride" /\ \A t \in Threads \ {b} : pc'[t] = pc[t]
      /\ BA'[b] = 0 /\ \A c \in Boats \ {b} : BA'[c] = BA[c]
  BY <1>0, <1>1, Kinds DEF TypeOK
<1>3. TypeOK'
  BY <1>0, <1>1, Kinds DEF TypeOK, Places
<1>4. BoardInv'
  BY <1>0, <1>1, <1>2, Kinds DEF BoardInv, Aboard, TypeOK
<1>5. CountInv' /\ SearchInv'
  <2>1. b \notin Free
    BY <1>0, <1>1 DEF BoardInv, Free
  <2>2. /\ Searching' = Searching /\ Sleeping' = Sleeping
        /\ Calling' = Calling /\ Free' = Free
    BY <1>1, <1>2, <2>1, Kinds DEF Searching, Sleeping, Calling, Free
  <2>3. QED
    BY <1>0, <1>1, <2>2, CountFrame
<1>6. QED
  BY <1>3, <1>4, <1>5 DEF FindInv

LEMMA EndRideStep ==
  ASSUME FindInv, NEW b \in Boats, EndRide(b)
  PROVE  FindInv'
<1>0. TypeOK /\ BoardInv /\ CountInv /\ SearchInv
  BY DEF FindInv
<1>1. /\ pc[b] = "ride" /\ remaining_visitors' = remaining_visitors - 1
      /\ pc' = [pc EXCEPT ![b] = IF remaining_visitors = 1 THEN "eos" ELSE "P"]
      /\ UNCHANGED <<rider, boat, BA, BC, BB, EOS, i, boat_index, rider_id>>
  BY DEF EndRide, Goto, shared, locals
<1>2. pc'[b] \in {"eos", "P"} /\ \A t \in Threads \ {b} : pc'[t] = pc[t]
  BY <1>0, <1>1, Kinds DEF TypeOK
<1>3. TypeOK'
  BY <1>0, <1>1, Kinds DEF TypeOK, Places
<1>4. BoardInv'
  BY <1>0, <1>1, <1>2, Kinds DEF BoardInv, Aboard, TypeOK
<1>5. CountInv' /\ SearchInv'
  <2>1. /\ Searching' = Searching /\ Sleeping' = Sleeping
        /\ Calling' = Calling /\ Free' = Free
    BY <1>1, <1>2, Kinds DEF Searching, Sleeping, Calling, Free
  <2>2. QED
    BY <1>0, <1>1, <2>1, CountFrame
<1>6. QED
  BY <1>3, <1>4, <1>5 DEF FindInv

\* A boat or main comes to EOS: no boat is free that was not, for its BA is 0.
LEMMA MeetEOSStep ==
  ASSUME FindInv, NEW t \in Boats \cup {MAIN}, MeetEOS(t)
  PROVE  FindInv'
<1>0. TypeOK /\ BoardInv /\ CountInv /\ SearchInv
  BY DEF FindInv
<1>1. /\ pc[t] = "eos"
      /\ UNCHANGED <<rider, boat, BA, BC, BB, remaining_visitors, i, boat_index, rider_id>>
      /\ \/ /\ EOS = {} /\ pc' = [pc EXCEPT ![t] = "in_barrier"] /\ EOS' = {t}
         \/ /\ EOS # {} /\ EOS' = {}
            /\ pc' = [u \in Threads |-> IF u \in EOS \cup {t}
                                          THEN IF u = MAIN THEN "cleanup" ELSE "done"
                                          ELSE pc[u]]
  BY DEF MeetEOS, Meet, Waiting, shared, locals
<1>2. EOS \subseteq Boats \cup {MAIN} /\ \A u \in EOS : pc[u] = "in_barrier"
  BY <1>0 DEF BoardInv
<1>3. t \in Threads /\ t \notin Riders
  BY Kinds
<1>4. \A u \in Threads \ (EOS \cup {t}) : pc'[u] = pc[u]
  BY <1>0, <1>1 DEF TypeOK
<1>5. \A u \in EOS \cup {t} :
        \/ pc'[u] \in {"cleanup", "done"} /\ EOS' = {}
        \/ pc'[u] = "in_barrier" /\ EOS' = {t} /\ EOS = {} /\ u = t
  <2>1. CASE EOS = {}
    <3>1. pc'[t] = "in_barrier" /\ EOS' = {t}
      BY <1>0, <1>1, <1>3, <2>1 DEF TypeOK
    <3>2. QED
      BY <2>1, <3>1
  <2>2. CASE EOS # {}
    <3>1. EOS \cup {t} \subseteq Threads
      BY <1>2, <1>3, Kinds
    <3>2. \A u \in EOS \cup {t} : pc'[u] = IF u = MAIN THEN "cleanup" ELSE "done"
      <4>1. pc' = [u \in Threads |-> IF u \in EOS \cup {t}
                                       THEN IF u = MAIN THEN "cleanup" ELSE "done"
                                       ELSE pc[u]]
        BY <1>1, <2>2
      <4>2. QED
        BY <3>1, <4>1, Zenon
    <3>3. EOS' = {}
      BY <1>1, <2>2
    <3>4. QED
      BY <3>2, <3>3
  <2>3. QED
    BY <2>1, <2>2
<1>6. TypeOK'
  <2>1. pc' \in [Threads -> Places]
    BY <1>0, <1>1, <1>3 DEF TypeOK, Places
  <2>2. EOS' \subseteq Threads
    BY <1>1, <1>3
  <2>3. QED
    BY <1>0, <1>1, <2>1, <2>2 DEF TypeOK
<1>7. /\ \A u \in EOS \cup {t} : u \in Boats => BA[u] = 0
      /\ \A u \in EOS \cup {t} : pc[u] \in {"eos", "in_barrier"}
  BY <1>0, <1>1, <1>2 DEF BoardInv
<1>8. BoardInv'
  BY <1>0, <1>1, <1>2, <1>3, <1>4, <1>5, <1>7, Kinds DEF BoardInv, Aboard, TypeOK
<1>9. CountInv' /\ SearchInv'
  <2>1. /\ Searching' = Searching /\ Sleeping' = Sleeping
        /\ Calling' = Calling /\ Free' = Free
    BY <1>1, <1>2, <1>3, <1>4, <1>5, <1>7, Kinds DEF Searching, Sleeping, Calling, Free
  <2>2. QED
    BY <1>0, <1>1, <2>1, CountFrame
<1>10. QED
  BY <1>6, <1>8, <1>9 DEF FindInv

-----------------------------------------------------------------------------
(* The steps of a visitor.                                                 *)

LEMMA CallBoatStep ==
  ASSUME FindInv, NEW r \in Riders, CallBoat(r)
  PROVE  FindInv'
<1>0. TypeOK /\ BoardInv /\ CountInv /\ SearchInv
  BY DEF FindInv
<1>1. /\ pc[r] = "sightseeing" /\ boat' = boat + 1
      /\ UNCHANGED <<rider, BA, BC, BB, EOS, remaining_visitors, i, boat_index, rider_id>>
      /\ \/ \E u \in Boats : pc[u] = "asleep" /\ pc' = [pc EXCEPT ![r] = "P", ![u] = "ready"]
         \/ pc' = [pc EXCEPT ![r] = "P"]
  BY DEF CallBoat, V, Goto, shared, locals
<1>2. /\ pc'[r] = "P"
      /\ \A t \in Threads \ {r} : \/ pc'[t] = pc[t]
                                  \/ t \in Boats /\ pc[t] = "asleep" /\ pc'[t] = "ready"
  BY <1>0, <1>1, Kinds DEF TypeOK
<1>3. TypeOK'
  BY <1>0, <1>1, Kinds DEF TypeOK, Places
<1>4. BoardInv'
  BY <1>0, <1>1, <1>2, Kinds DEF BoardInv, Aboard, TypeOK
<1>5. CountInv' /\ SearchInv'
  <2>1. /\ Searching' = Searching /\ Sleeping' = Sleeping
        /\ Calling' = Calling /\ Free' = Free
    BY <1>1, <1>2, Kinds DEF Searching, Sleeping, Calling, Free
  <2>2. QED
    BY <1>0, <1>1, <2>1, CountFrame
<1>6. QED
  BY <1>3, <1>4, <1>5 DEF FindInv

\* One call is used up: by a visitor that sleeps, or one that may search.
LEMMA WaitForBoatStep ==
  ASSUME FindInv, NEW r \in Riders, WaitForBoat(r)
  PROVE  FindInv'
<1>0. TypeOK /\ BoardInv /\ CountInv /\ SearchInv
  BY DEF FindInv
<1>1. /\ pc[r] = "P" /\ rider' = rider - 1
      /\ pc' = [pc EXCEPT ![r] = IF rider - 1 < 0 THEN "asleep" ELSE "search"]
      /\ UNCHANGED <<boat, BA, BC, BB, EOS, remaining_visitors, i, boat_index, rider_id>>
  BY DEF WaitForBoat, P, Goto, shared, locals
<1>2. /\ pc'[r] = IF rider - 1 < 0 THEN "asleep" ELSE "search"
      /\ \A t \in Threads \ {r} : pc'[t] = pc[t]
  BY <1>0, <1>1, Kinds DEF TypeOK
<1>3. TypeOK'
  BY <1>0, <1>1, Kinds DEF TypeOK, Places
<1>4. BoardInv'
  BY <1>0, <1>1, <1>2, Kinds DEF BoardInv, Aboard, TypeOK
<1>5. i[r] = 1 /\ rider \in Int
  BY <1>0, <1>1 DEF BoardInv, TypeOK
<1>6. /\ Cardinality(Searching) \in Nat /\ Cardinality(Sleeping) \in Nat
      /\ Cardinality(Calling) \in Nat /\ Cardinality(Free) \in Nat
  BY SetTypes, SubsetsAreFinite
<1>7. Calling' = Calling /\ Free' = Free
  BY <1>1, <1>2, Kinds DEF Calling, Free
<1>8. CASE rider - 1 < 0
  <2>1. /\ Searching' = Searching
        /\ Sleeping' = Sleeping \cup {r} /\ r \notin Sleeping
    BY <1>1, <1>2, <1>8, Kinds DEF Searching, Sleeping
  <2>2. Cardinality(Sleeping') = Cardinality(Sleeping) + 1
    BY <2>1, SetTypes, OneMore
  <2>3. CountInv'
    BY <1>0, <1>1, <1>5, <1>6, <1>7, <1>8, <2>1, <2>2 DEF CountInv
  <2>4. SearchInv'
    BY <1>0, <1>1, <1>3, <1>7, <2>1, <2>3, SearchFrame
  <2>5. QED
    BY <1>3, <1>4, <2>3, <2>4 DEF FindInv
<1>9. CASE ~(rider - 1 < 0)
  <2>1. /\ Searching' = Searching \cup {r} /\ r \notin Searching
        /\ Sleeping' = Sleeping
    BY <1>1, <1>2, <1>9, Kinds DEF Searching, Sleeping
  <2>2. Cardinality(Searching') = Cardinality(Searching) + 1
    BY <2>1, SetTypes, OneMore
  <2>3. CountInv'
    BY <1>0, <1>1, <1>5, <1>6, <1>7, <1>9, <2>1, <2>2 DEF CountInv
  <2>4. \A k \in 1 .. m : {s \in Searching' : i'[s] > k} = {s \in Searching : i[s] > k}
    <3>1. \A k \in 1 .. m : ~(i'[r] > k)
      BY <1>1, <1>5, Kinds
    <3>2. QED
      BY <1>1, <2>1, <3>1
  <2>5. SearchInv'
    BY <1>0, <1>3, <1>7, <2>3, <2>4, SearchFrame
  <2>6. QED
    BY <1>3, <1>4, <2>3, <2>5 DEF FindInv
<1>10. QED
  BY <1>8, <1>9

\* The visitor takes the boat it looks at: one less searches, one less is free,
\* both of them past the same boats.
LEMMA TakeStep ==
  ASSUME FindInv, NEW r \in Riders, Search(r), BA[i[r]] = 1, BC[i[r]] = NOBODY
  PROVE  FindInv'
<1>0. TypeOK /\ BoardInv /\ CountInv /\ SearchInv
  BY DEF FindInv
<1> DEFINE b == i[r]
<1>1. /\ pc[r] = "search" /\ b <= m /\ boat_index' = [boat_index EXCEPT ![r] = b]
      /\ BC' = [BC EXCEPT ![b] = r] /\ pc' = [pc EXCEPT ![r] = "board"]
      /\ UNCHANGED <<rider, boat, BA, BB, EOS, remaining_visitors, i, rider_id>>
  BY DEF Search, Goto
<1>2. b \in Boats /\ BA[b] = 1 /\ BC[b] = NOBODY
  <2>1. b \in 1 .. m + 1
    BY <1>0 DEF TypeOK
  <2>2. QED
    BY <1>1, <2>1, Kinds DEF Boats
<1> HIDE DEF b
<1>3. /\ pc'[r] = "board" /\ \A t \in Threads \ {r} : pc'[t] = pc[t]
      /\ BC'[b] = r /\ \A c \in Boats \ {b} : BC'[c] = BC[c]
      /\ boat_index'[r] = b /\ \A s \in Riders \ {r} : boat_index'[s] = boat_index[s]
  BY <1>0, <1>1, <1>2, Kinds DEF TypeOK
<1>4. TypeOK'
  BY <1>0, <1>1, <1>2, Kinds DEF TypeOK, Places
<1>5. b \notin EOS /\ pc[b] \in {"V", "board", "in_barrier"}
  BY <1>0, <1>2 DEF BoardInv
<1>6. BoardInv'
  BY <1>0, <1>1, <1>2, <1>3, <1>5, Kinds DEF BoardInv, Aboard, TypeOK
<1>7. /\ Searching' = Searching \ {r} /\ r \in Searching
      /\ Sleeping' = Sleeping /\ Calling' = Calling
      /\ Free' = Free \ {b} /\ b \in Free
  BY <1>1, <1>2, <1>3, Kinds DEF Searching, Sleeping, Calling, Free
<1>8. CountInv'
  <2>1. /\ Cardinality(Free') = Cardinality(Free) - 1
        /\ Cardinality(Searching') = Cardinality(Searching) - 1
    BY <1>7, SetTypes, OneLess
  <2>2. /\ Cardinality(Searching) \in Nat /\ Cardinality(Sleeping) \in Nat
        /\ Cardinality(Calling) \in Nat /\ Cardinality(Free) \in Nat
    BY SetTypes, SubsetsAreFinite
  <2>3. QED
    BY <1>0, <1>1, <1>7, <2>1, <2>2 DEF CountInv, TypeOK
<1>9. SearchInv'
  <2>1. ASSUME NEW k \in 1 .. m
        PROVE  Cardinality({s \in Searching' : i'[s] > k})
                 <= Cardinality({c \in Free' : c > k})
    <3> DEFINE A == {s \in Searching : i[s] > k}
               F == {c \in Free : c > k}
               B == {s \in Searching' : i'[s] > k}
               G == {c \in Free' : c > k}
    <3>1. Cardinality(A) <= Cardinality(F)
      BY <1>0, Kinds DEF SearchInv
    <3>2. A \subseteq Riders /\ F \subseteq Boats
      BY SetTypes
    <3>3. Cardinality(A) \in Nat /\ Cardinality(F) \in Nat
      BY <3>2, SubsetsAreFinite
    <3>4. CASE b > k
      <4>1. r \in A /\ B = A \ {r} /\ b \in F /\ G = F \ {b}
        BY <1>1, <1>7, <3>4 DEF b
      <4> HIDE DEF A, B, F, G
      <4>2. Cardinality(B) = Cardinality(A) - 1 /\ Cardinality(G) = Cardinality(F) - 1
        BY <3>2, <4>1, OneLess
      <4>3. Cardinality(B) <= Cardinality(G)
        BY <3>1, <3>3, <4>2
      <4>4. QED
        BY <4>3 DEF B, G
    <3>5. CASE ~(b > k)
      <4>1. B = A /\ G = F
        BY <1>1, <1>7, <3>5 DEF b
      <4>2. QED
        BY <3>1, <4>1
    <3>6. QED
      BY <3>4, <3>5
  <2>2. QED
    BY <1>4, <1>8, <2>1, SearchHolds
<1>10. QED
  BY <1>4, <1>6, <1>8, <1>9 DEF FindInv

\* The boat it looks at, number k, is not free: it is now among those that have
\* searched the first k in vain, and was among those that had searched k - 1; the
\* free boats past k are those past k - 1.
LEMMA MissStep ==
  ASSUME FindInv, NEW r \in Riders, Search(r), ~(BA[i[r]] = 1 /\ BC[i[r]] = NOBODY)
  PROVE  FindInv'
<1>0. TypeOK /\ BoardInv /\ CountInv /\ SearchInv
  BY DEF FindInv
<1>1. /\ pc[r] = "search" /\ i[r] <= m /\ i' = [i EXCEPT ![r] = @ + 1]
      /\ UNCHANGED <<pc, rider, boat, BA, BC, BB, EOS, remaining_visitors, boat_index, rider_id>>
  BY DEF Search
<1>2. /\ i[r] \in 1 .. m /\ i'[r] = i[r] + 1 /\ \A s \in Riders \ {r} : i'[s] = i[s]
  <2>1. i[r] \in 1 .. m + 1
    BY <1>0 DEF TypeOK
  <2>2. QED
    BY <1>0, <1>1, <2>1, Kinds DEF TypeOK
<1>3. TypeOK'
  <2>1. i[r] + 1 \in 1 .. m + 1
    BY <1>2, Kinds
  <2>2. i' \in [Riders -> 1 .. m + 1]
    BY <1>0, <1>1, <2>1 DEF TypeOK
  <2>3. QED
    BY <1>0, <1>1, <2>2 DEF TypeOK
<1>4. BoardInv'
  BY <1>0, <1>1, <1>2, Kinds DEF BoardInv, Aboard, TypeOK
<1>5. /\ Searching' = Searching /\ Sleeping' = Sleeping
      /\ Calling' = Calling /\ Free' = Free
  BY <1>1 DEF Searching, Sleeping, Calling, Free
<1>6. CountInv'
  BY <1>0, <1>1, <1>5 DEF CountInv
<1>7. i[r] \notin Free
  BY DEF Free
<1>8. SearchInv'
  <2>1. ASSUME NEW k \in 1 .. m
        PROVE  Cardinality({s \in Searching' : i'[s] > k})
                 <= Cardinality({c \in Free' : c > k})
    <3>1. CASE k = i[r]
      <4> DEFINE A == {s \in Searching : i[s] > k - 1}
                 B == {s \in Searching' : i'[s] > k}
      <4>1. B \subseteq A
        <5>1. \A s \in Searching : i[s] \in Int
          BY <1>0, SetTypes DEF TypeOK
        <5>2. QED
          BY <1>2, <1>5, <3>1, <5>1, SetTypes
      <4>2. {c \in Free' : c > k} = {c \in Free : c > k - 1}
        <5>1. k \in Int /\ \A c \in Free : c \in Int /\ c # k
          BY <1>7, <3>1, SetTypes, Kinds DEF Boats
        <5>2. \A c \in Free : c > k <=> c > k - 1
          BY <5>1
        <5>3. QED
          BY <1>5, <5>2
      <4>3. k - 1 \in 0 .. m
        BY Kinds
      <4>4. Cardinality(A) <= Cardinality({c \in Free : c > k - 1})
        BY <1>0, <4>3 DEF SearchInv
      <4>5. A \subseteq Riders /\ B \subseteq Riders /\ {c \in Free : c > k - 1} \subseteq Boats
        BY SetTypes, SetTypesAfter
      <4>6. /\ Cardinality(A) \in Nat /\ Cardinality(B) \in Nat
            /\ Cardinality({c \in Free : c > k - 1}) \in Nat
        BY <4>5, SubsetsAreFinite
      <4>7. Cardinality(B) <= Cardinality(A)
        BY <4>1, <4>5, NoMore
      <4>8. Cardinality(B) <= Cardinality({c \in Free : c > k - 1})
        BY <4>4, <4>6, <4>7
      <4>9. QED
        BY <4>2, <4>8
    <3>2. CASE k # i[r]
      <4>1. {s \in Searching' : i'[s] > k} = {s \in Searching : i[s] > k}
        BY <1>2, <1>5, <3>2, SetTypes
      <4>2. k \in 0 .. m
        OBVIOUS
      <4>3. QED
        BY <1>0, <1>5, <4>1, <4>2 DEF SearchInv
    <3>3. QED
      BY <3>1, <3>2
  <2>2. QED
    BY <1>3, <1>6, <2>1, SearchHolds
<1>9. QED
  BY <1>3, <1>4, <1>6, <1>8 DEF FindInv

LEMMA LeaveStep ==
  ASSUME FindInv, NEW r \in Riders, Leave(r)
  PROVE  FindInv'
<1>0. TypeOK /\ BoardInv /\ CountInv /\ SearchInv
  BY DEF FindInv
<1>1. /\ pc[r] = "ride" /\ pc' = [pc EXCEPT ![r] = "done"]
      /\ UNCHANGED <<rider, boat, BA, BC, BB, EOS, remaining_visitors, i, boat_index, rider_id>>
  BY DEF Leave, Goto, shared, locals
<1>2. pc'[r] = "done" /\ \A t \in Threads \ {r} : pc'[t] = pc[t]
  BY <1>0, <1>1, Kinds DEF TypeOK
<1>3. TypeOK'
  BY <1>0, <1>1, Kinds DEF TypeOK, Places
<1>4. BoardInv'
  BY <1>0, <1>1, <1>2, Kinds DEF BoardInv, Aboard, TypeOK
<1>5. CountInv' /\ SearchInv'
  <2>1. /\ Searching' = Searching /\ Sleeping' = Sleeping
        /\ Calling' = Calling /\ Free' = Free
    BY <1>1, <1>2, Kinds DEF Searching, Sleeping, Calling, Free
  <2>2. QED
    BY <1>0, <1>1, <2>1, CountFrame
<1>6. QED
  BY <1>3, <1>4, <1>5 DEF FindInv

\* main goes on from "cleanup" or from "returning".
LEMMA CleanupStep ==
  ASSUME FindInv, NEW to \in {"returning", "done"}, Cleanup \/ Return,
         pc' = [pc EXCEPT ![MAIN] = to]
  PROVE  FindInv'
<1>0. TypeOK /\ BoardInv /\ CountInv /\ SearchInv
  BY DEF FindInv
<1>1. /\ pc[MAIN] \in {"cleanup", "returning"}
      /\ UNCHANGED <<rider, boat, BA, BC, BB, EOS, remaining_visitors, i, boat_index, rider_id>>
  BY DEF Cleanup, Return, shared, locals
<1>2. pc'[MAIN] = to /\ \A t \in Threads \ {MAIN} : pc'[t] = pc[t]
  BY <1>0, <1>1, Kinds DEF TypeOK
<1>3. TypeOK'
  BY <1>0, <1>1, Kinds DEF TypeOK, Places
<1>4. BoardInv'
  BY <1>0, <1>1, <1>2, Kinds DEF BoardInv, Aboard, TypeOK
<1>5. CountInv' /\ SearchInv'
  <2>1. /\ Searching' = Searching /\ Sleeping' = Sleeping
        /\ Calling' = Calling /\ Free' = Free
    BY <1>1, <1>2, Kinds DEF Searching, Sleeping, Calling, Free
  <2>2. QED
    BY <1>0, <1>1, <2>1, CountFrame
<1>6. QED
  BY <1>3, <1>4, <1>5 DEF FindInv

-----------------------------------------------------------------------------
LEMMA FindStep == FindInv /\ [Next]_vars => FindInv'
<1> SUFFICES ASSUME FindInv, [Next]_vars PROVE FindInv'
  OBVIOUS
<1>1. CASE MainStep
  <2>1. CASE Cleanup
    <3>1. pc' = [pc EXCEPT ![MAIN] = "returning"]
      BY <2>1 DEF Cleanup, Goto
    <3>2. QED
      BY <2>1, <3>1, CleanupStep
  <2>2. CASE Return
    <3>1. pc' = [pc EXCEPT ![MAIN] = "done"]
      BY <2>2 DEF Return, Goto
    <3>2. QED
      BY <2>2, <3>1, CleanupStep
  <2>3. QED
    BY <1>1, <2>1, <2>2, MeetEOSStep DEF MainStep
<1>2. ASSUME NEW b \in Boats, BoatStep(b) PROVE FindInv'
  BY <1>2, Kinds, InitBarrierStep, InitFreedStep, WaitForRiderStep, BecomeAvailableStep, CallRiderStep,
     BoardStep, StartRideStep, EndRideStep, MeetEOSStep DEF BoatStep
<1>3. ASSUME NEW r \in Riders, RiderStep(r) PROVE FindInv'
  BY <1>3, Kinds, CallBoatStep, WaitForBoatStep, TakeStep, MissStep, BoardStep, LeaveStep
     DEF RiderStep
<1>4. CASE UNCHANGED vars
  <2>1. TypeOK /\ BoardInv /\ CountInv /\ SearchInv
    BY DEF FindInv
  <2>2. UNCHANGED <<pc, rider, boat, BA, BC, BB, EOS, remaining_visitors, i,
                    boat_index, rider_id>>
    BY <1>4 DEF vars, shared, locals
  <2>3. TypeOK'
    BY <2>1, <2>2 DEF TypeOK
  <2>4. BoardInv'
    BY <2>1, <2>2 DEF BoardInv, Aboard
  <2>5. /\ Searching' = Searching /\ Sleeping' = Sleeping
        /\ Calling' = Calling /\ Free' = Free
    BY <2>2 DEF Searching, Sleeping, Calling, Free
  <2>6. CountInv' /\ SearchInv'
    BY <2>1, <2>2, <2>5, CountFrame
  <2>7. QED
    BY <2>3, <2>4, <2>6 DEF FindInv
<1>5. QED
  BY <1>1, <1>2, <1>3, <1>4 DEF Next

-----------------------------------------------------------------------------
(***************************************************************************)
(* The semaphores, the tables of the boats and the searches are always in  *)
(* balance (boating.c:32-53, 76-85, 118-142).                              *)
(***************************************************************************)
THEOREM InBalance == Spec => []FindInv
<1>1. Init => FindInv
  BY FindInit
<1>2. FindInv /\ [Next]_vars => FindInv'
  BY FindStep
<1>3. QED
  BY <1>1, <1>2, PTL DEF Spec

(***************************************************************************)
(* The state of the boats, the visitors and main is well typed.            *)
(***************************************************************************)
THEOREM BoatingTypes == Spec => []TypeOK
<1>1. FindInv => TypeOK
  BY DEF FindInv
<1>2. QED
  BY <1>1, InBalance, PTL

(***************************************************************************)
(* For any number of boats and visitors, a visitor that got past P(&rider) *)
(* finds a boat before its loop over the boats ends (lines 124-142).       *)
(***************************************************************************)
THEOREM EveryRiderFindsABoat == Spec => []RiderFindsBoat
<1>1. FindInv => RiderFindsBoat
  <2> SUFFICES ASSUME FindInv, NEW r \in Riders, pc[r] = "search"
               PROVE  i[r] <= m
    BY DEF RiderFindsBoat
  <2> DEFINE A == {s \in Searching : i[s] > m}
  <2>1. {b \in Free : b > m} = {}
    <3>1. \A b \in Free : b \in 1 .. m
      BY SetTypes DEF Boats
    <3>2. QED
      BY <3>1, Kinds
  <2>2. m \in 0 .. m
    BY Kinds
  <2>3. Cardinality(A) <= 0
    BY <2>1, <2>2, FS_EmptySet DEF FindInv, SearchInv
  <2>4. A \subseteq Riders
    BY SetTypes
  <2>5. IsFiniteSet(A) /\ Cardinality(A) \in Nat
    BY <2>4, SubsetsAreFinite
  <2>6. Cardinality(A) = 0
    BY <2>3, <2>5
  <2>7. A = {}
    BY <2>5, <2>6, FS_EmptySet
  <2>8. r \in Searching
    BY DEF Searching
  <2>9. ~(i[r] > m)
    BY <2>7, <2>8
  <2>10. i[r] \in 1 .. m + 1
    BY DEF FindInv, TypeOK
  <2>11. QED
    BY <2>9, <2>10, Kinds
<1>2. QED
  BY <1>1, InBalance, PTL

-----------------------------------------------------------------------------
(***************************************************************************)
(* The rides and the end of the session: who is in which boat, that the    *)
(* rides are counted, and that they are over when main goes on to free.    *)
(*                                                                         *)
(* The first invariant says whom a boat carries.  The second adds up: the  *)
(* visitors that have not boarded and the rides under way are the rides    *)
(* that remain, and so are the visitors that have not called yet, the      *)
(* calls no boat has answered and the boats that have answered one.  When  *)
(* no ride remains there is therefore no boat on its way to a visitor.     *)
(***************************************************************************)

Moving  == {b \in Boats : pc[b] \in {"start", "ride"}}
Ended   == {b \in Boats : pc[b] \in {"eos", "done"} \/ b \in EOS}
Resting == {b \in Boats : pc[b] = "asleep"}
Seeing  == {r \in Riders : pc[r] = "sightseeing"}
Engaged == {b \in Boats : pc[b] \in {"ready", "V", "board", "start", "ride"} \/ b \in BB[b]}

Carries(b, r) == r \in Riders /\ boat_index[r] = b /\ pc[r] \in {"ride", "done"}

CarryInv ==
  /\ \A b \in Boats : pc[b] \notin {"sightseeing", "search", "cleanup", "returning"}
  /\ \A b \in Boats : pc[b] = "in_barrier" => b \in EOS \/ b \in BB[b]
  /\ \A b \in Boats : pc[b] = "start" => Carries(b, BC[b])
  /\ \A b \in Boats : pc[b] = "ride" => Carries(b, rider_id[b])

LastInv ==
  /\ \A b, c \in Ended : b = c
  /\ Ended # {} => remaining_visitors = 0
  /\ pc[MAIN] \in {"cleanup", "returning", "done"} => \E b \in Boats : pc[b] = "done"

TallyInv ==
  /\ remaining_visitors = Cardinality(Ashore) + Cardinality(Moving)
  /\ Cardinality(Resting) = IF boat < 0 THEN -boat ELSE 0
  /\ remaining_visitors =
       boat + Cardinality(Resting) + Cardinality(Seeing) + Cardinality(Engaged)

RideInv == CarryInv /\ LastInv /\ TallyInv

-----------------------------------------------------------------------------
LEMMA RideSets ==
  /\ Ashore \subseteq Riders /\ Seeing \subseteq Riders
  /\ Moving \subseteq Boats /\ Resting \subseteq Boats /\ Engaged \subseteq Boats
BY DEF Ashore, Seeing, Moving, Resting, Engaged

\* The sizes of the sets are numbers.
LEMMA RideSizes ==
  /\ Cardinality(Ashore) \in Nat /\ Cardinality(Seeing) \in Nat
  /\ Cardinality(Moving) \in Nat /\ Cardinality(Resting) \in Nat
  /\ Cardinality(Engaged) \in Nat
BY RideSets, SubsetsAreFinite

LEMMA RideInit == Init => RideInv
<1> SUFFICES ASSUME Init PROVE RideInv
  OBVIOUS
<1>1. CarryInv /\ LastInv
  BY Kinds DEF Init, CarryInv, LastInv, Ended
<1>2. Ashore = Riders /\ Seeing = Riders /\ Moving = {} /\ Resting = {} /\ Engaged = {}
  BY Kinds DEF Init, Ashore, Seeing, Moving, Resting, Engaged
<1>3. Cardinality(Riders) = n
  <2>1. m + 1 \in Int /\ m + n \in Int /\ m + 1 <= m + n /\ (m + n) - (m + 1) + 1 = n
    BY BoatingAssumption
  <2>2. Cardinality(m + 1 .. m + n) = (m + n) - (m + 1) + 1
    BY <2>1, FS_Interval
  <2>3. QED
    BY <2>1, <2>2 DEF Riders
<1>4. TallyInv
  BY <1>2, <1>3, Kinds, FS_EmptySet DEF TallyInv, Init
<1>5. QED
  BY <1>1, <1>4 DEF RideInv

\* A step that moves nobody in or out of the sets that are counted.
LEMMA TallyFrame ==
  ASSUME TallyInv, boat' = boat, remaining_visitors' = remaining_visitors,
         Ashore' = Ashore, Moving' = Moving, Resting' = Resting, Seeing' = Seeing,
         Engaged' = Engaged
  PROVE  TallyInv'
BY DEF TallyInv

-----------------------------------------------------------------------------
(* The steps that change nothing of this.                                  *)

\* One thread goes from one statement to another of the same kind.
LEMMA QuietStep ==
  ASSUME FindInv, RideInv, NEW t \in Threads, NEW to \in Places,
         pc' = [pc EXCEPT ![t] = to],
         UNCHANGED <<boat, BC, EOS, remaining_visitors, boat_index, rider_id>>,
         \A b \in Boats : b \in BB'[b] <=> b \in BB[b],
         \/ /\ t \in Boats /\ pc[t] \in {"init", "P"} /\ to \in {"init", "P"}
         \/ /\ t \in Boats /\ pc[t] \in {"ready", "V", "board"} /\ to \in {"ready", "V", "board"}
         \/ /\ t \in Riders /\ pc[t] \in {"P", "search", "asleep", "board"}
            /\ to \in {"P", "search", "asleep", "board", "in_barrier"}
         \/ /\ t \in Riders /\ pc[t] = "ride" /\ to = "done"
         \/ /\ t = MAIN /\ pc[t] \in {"cleanup", "returning"} /\ to \in {"returning", "done"}
  PROVE  RideInv'
<1>0. TypeOK /\ CarryInv /\ LastInv /\ TallyInv
  BY DEF FindInv, RideInv
<1>1. pc'[t] = to /\ \A u \in Threads \ {t} : pc'[u] = pc[u]
  BY <1>0 DEF TypeOK
<1>2. /\ \A b \in Boats : \/ pc'[b] = pc[b]
                          \/ pc[b] \in {"init", "P"} /\ pc'[b] \in {"init", "P"}
                          \/ pc[b] \in {"ready", "V", "board"} /\ pc'[b] \in {"ready", "V", "board"}
      /\ \A r \in Riders : \/ pc'[r] = pc[r]
                           \/ /\ pc[r] \in {"P", "search", "asleep", "board"}
                              /\ pc'[r] \in {"P", "search", "asleep", "board", "in_barrier"}
                           \/ pc[r] = "ride" /\ pc'[r] = "done"
      /\ pc'[MAIN] \in {"cleanup", "returning", "done"} =>
           pc[MAIN] \in {"cleanup", "returning", "done"}
  BY <1>1, Kinds
<1>3. CarryInv'
  BY <1>0, <1>2 DEF CarryInv, Carries
<1>4. Ended' = Ended
  BY <1>2 DEF Ended
<1>5. LastInv'
  BY <1>0, <1>2, <1>4 DEF LastInv
<1>6. /\ Ashore' = Ashore /\ Moving' = Moving /\ Resting' = Resting
      /\ Seeing' = Seeing /\ Engaged' = Engaged
  BY <1>2 DEF Ashore, Moving, Resting, Seeing, Engaged
<1>7. QED
  BY <1>0, <1>3, <1>5, <1>6, TallyFrame DEF RideInv

LEMMA InitBarrierRide ==
  ASSUME FindInv, RideInv, NEW b \in Boats, InitBarrier(b)
  PROVE  RideInv'
<1>1. /\ pc[b] = "init" /\ pc' = [pc EXCEPT ![b] = "P"] /\ BB' = [BB EXCEPT ![b] = {}]
      /\ UNCHANGED <<boat, BC, EOS, remaining_visitors, boat_index, rider_id>>
  BY DEF InitBarrier, Goto, shared, locals
<1>2. \A c \in Boats : c \in BB'[c] <=> c \in BB[c]
  <2>1. b \notin BB[b]
    BY <1>1 DEF FindInv, BoardInv
  <2>2. QED
    BY <1>1, <2>1 DEF FindInv, TypeOK
<1>3. b \in Threads /\ "P" \in Places
  BY Kinds DEF Places
<1>4. QED
  BY <1>1, <1>2, <1>3, QuietStep

LEMMA InitFreedRide ==
  ASSUME FindInv, RideInv, NEW b \in Boats, InitFreed(b)
  PROVE  RideInv'
<1>1. /\ pc[b] = "init" /\ pc' = [pc EXCEPT ![b] = "P"]
      /\ UNCHANGED <<boat, BC, BB, EOS, remaining_visitors, boat_index, rider_id>>
  BY DEF InitFreed, Goto, shared, locals
<1>2. b \in Threads /\ "P" \in Places
  BY Kinds DEF Places
<1>3. QED
  BY <1>1, <1>2, QuietStep

LEMMA BecomeAvailableRide ==
  ASSUME FindInv, RideInv, NEW b \in Boats, BecomeAvailable(b)
  PROVE  RideInv'
<1>0. TypeOK /\ CarryInv /\ LastInv /\ TallyInv
  BY DEF FindInv, RideInv
<1>1. /\ pc[b] = "ready" /\ pc' = [pc EXCEPT ![b] = "V"]
      /\ BC' = [BC EXCEPT ![b] = NOBODY]
      /\ UNCHANGED <<boat, BB, EOS, remaining_visitors, boat_index, rider_id>>
  BY DEF BecomeAvailable, Goto, locals
<1>2. /\ pc'[b] = "V" /\ \A t \in Threads \ {b} : pc'[t] = pc[t]
      /\ \A c \in Boats \ {b} : BC'[c] = BC[c]
  BY <1>0, <1>1, Kinds DEF TypeOK
<1>3. CarryInv'
  BY <1>0, <1>1, <1>2, Kinds DEF CarryInv, Carries
<1>4. LastInv'
  BY <1>0, <1>1, <1>2, Kinds DEF LastInv, Ended
<1>5. /\ Ashore' = Ashore /\ Moving' = Moving /\ Resting' = Resting
      /\ Seeing' = Seeing /\ Engaged' = Engaged
  BY <1>1, <1>2, Kinds DEF Ashore, Moving, Resting, Seeing, Engaged
<1>6. QED
  BY <1>0, <1>1, <1>3, <1>4, <1>5, TallyFrame DEF RideInv

LEMMA CallRiderRide ==
  ASSUME FindInv, RideInv, NEW b \in Boats, CallRider(b)
  PROVE  RideInv'
<1>0. TypeOK /\ CarryInv /\ LastInv /\ TallyInv
  BY DEF FindInv, RideInv
<1>1. /\ pc[b] = "V"
      /\ UNCHANGED <<boat, BC, BB, EOS, remaining_visitors, boat_index, rider_id>>
      /\ \/ \E u \in Sleeping : pc' = [pc EXCEPT ![b] = "board", ![u] = "search"]
         \/ pc' = [pc EXCEPT ![b] = "board"]
  BY DEF CallRider, V, Goto, shared, locals, Sleeping
<1>2. /\ pc'[b] = "board" /\ \A c \in Boats \ {b} : pc'[c] = pc[c]
      /\ \A r \in Riders : pc'[r] = pc[r] \/ (pc[r] = "asleep" /\ pc'[r] = "search")
      /\ pc'[MAIN] = pc[MAIN]
  BY <1>0, <1>1, Kinds DEF TypeOK, Sleeping
<1>3. CarryInv'
  BY <1>0, <1>1, <1>2 DEF CarryInv, Carries
<1>4. LastInv'
  BY <1>0, <1>1, <1>2 DEF LastInv, Ended
<1>5. /\ Ashore' = Ashore /\ Moving' = Moving /\ Resting' = Resting
      /\ Seeing' = Seeing /\ Engaged' = Engaged
  BY <1>1, <1>2 DEF Ashore, Moving, Resting, Seeing, Engaged
<1>6. QED
  BY <1>0, <1>1, <1>3, <1>4, <1>5, TallyFrame DEF RideInv

LEMMA StartRideRide ==
  ASSUME FindInv, RideInv, NEW b \in Boats, StartRide(b)
  PROVE  RideInv'
<1>0. TypeOK /\ CarryInv /\ LastInv /\ TallyInv
  BY DEF FindInv, RideInv
<1>1. /\ pc[b] = "start" /\ pc' = [pc EXCEPT ![b] = "ride"]
      /\ rider_id' = [rider_id EXCEPT ![b] = BC[b]]
      /\ UNCHANGED <<boat, BC, BB, EOS, remaining_visitors, boat_index>>
  BY DEF StartRide, Goto
<1>2. /\ pc'[b] = "ride" /\ \A t \in Threads \ {b} : pc'[t] = pc[t]
      /\ rider_id'[b] = BC[b] /\ \A c \in Boats \ {b} : rider_id'[c] = rider_id[c]
  BY <1>0, <1>1, Kinds DEF TypeOK
<1>3. CarryInv'
  BY <1>0, <1>1, <1>2, Kinds DEF CarryInv, Carries
<1>4. LastInv'
  BY <1>0, <1>1, <1>2, Kinds DEF LastInv, Ended
<1>5. /\ Ashore' = Ashore /\ Moving' = Moving /\ Resting' = Resting
      /\ Seeing' = Seeing /\ Engaged' = Engaged
  BY <1>1, <1>2, Kinds DEF Ashore, Moving, Resting, Seeing, Engaged
<1>6. QED
  BY <1>0, <1>1, <1>3, <1>4, <1>5, TallyFrame DEF RideInv

\* A visitor takes a boat: no boat that is on its way, and none it has taken before.
LEMMA TakeRide ==
  ASSUME FindInv, RideInv, NEW r \in Riders, Search(r), BA[i[r]] = 1, BC[i[r]] = NOBODY
  PROVE  RideInv'
<1>0. TypeOK /\ CarryInv /\ LastInv /\ TallyInv
  BY DEF FindInv, RideInv
<1> DEFINE b == i[r]
<1>1. /\ pc[r] = "search" /\ pc' = [pc EXCEPT ![r] = "board"]
      /\ boat_index' = [boat_index EXCEPT ![r] = b] /\ BC' = [BC EXCEPT ![b] = r]
      /\ UNCHANGED <<boat, BB, EOS, remaining_visitors, rider_id>>
  BY DEF Search, Goto
<1>2. /\ pc'[r] = "board" /\ \A t \in Threads \ {r} : pc'[t] = pc[t]
      /\ \A s \in Riders \ {r} : boat_index'[s] = boat_index[s]
      /\ \A c \in Boats : c # b => BC'[c] = BC[c]
  BY <1>0, <1>1, Kinds DEF TypeOK
<1>3. \A c \in Boats : c = b => pc[c] # "start"
  BY <1>0, Kinds DEF CarryInv, Carries
<1> HIDE DEF b
<1>4. CarryInv'
  <2>1. ASSUME NEW c \in Boats, NEW s, Carries(c, s)
        PROVE  Carries(c, s)'
    <3>1. s \in Riders \ {r}
      BY <1>1, <2>1 DEF Carries
    <3>2. QED
      BY <1>2, <2>1, <3>1, Kinds DEF Carries
  <2>2. QED
    BY <1>0, <1>1, <1>2, <1>3, <2>1, Kinds DEF CarryInv
<1>5. LastInv'
  BY <1>0, <1>1, <1>2, Kinds DEF LastInv, Ended
<1>6. /\ Ashore' = Ashore /\ Moving' = Moving /\ Resting' = Resting
      /\ Seeing' = Seeing /\ Engaged' = Engaged
  BY <1>1, <1>2, Kinds DEF Ashore, Moving, Resting, Seeing, Engaged
<1>7. QED
  BY <1>0, <1>1, <1>4, <1>5, <1>6, TallyFrame DEF RideInv

-----------------------------------------------------------------------------
(* The steps that count.                                                   *)

\* The boat rests, for which the semaphore accounts, or answers a call.
LEMMA WaitForRiderRide ==
  ASSUME FindInv, RideInv, NEW b \in Boats, WaitForRider(b)
  PROVE  RideInv'
<1>0. TypeOK /\ CarryInv /\ LastInv /\ TallyInv
  BY DEF FindInv, RideInv
<1>1. /\ pc[b] = "P" /\ boat' = boat - 1
      /\ pc' = [pc EXCEPT ![b] = IF boat - 1 < 0 THEN "asleep" ELSE "ready"]
      /\ UNCHANGED <<BC, BB, EOS, remaining_visitors, boat_index, rider_id>>
  BY DEF WaitForRider, P, Goto, shared, locals
<1>2. /\ pc'[b] = (IF boat - 1 < 0 THEN "asleep" ELSE "ready")
      /\ \A t \in Threads \ {b} : pc'[t] = pc[t]
  BY <1>0, <1>1, Kinds DEF TypeOK
<1>3. CarryInv'
  BY <1>0, <1>1, <1>2, Kinds DEF CarryInv, Carries
<1>4. LastInv'
  BY <1>0, <1>1, <1>2, Kinds DEF LastInv, Ended
<1>5. Ashore' = Ashore /\ Moving' = Moving /\ Seeing' = Seeing
  BY <1>1, <1>2, Kinds DEF Ashore, Moving, Seeing
<1>6. b \notin BB[b]
  BY <1>1 DEF FindInv, BoardInv
<1>7. boat \in Int
  BY <1>0 DEF TypeOK
<1>8. TallyInv'
  <2>1. CASE boat - 1 < 0
    <3>1. Resting' = Resting \cup {b} /\ b \notin Resting /\ Engaged' = Engaged
      BY <1>1, <1>2, <1>6, <2>1, Kinds DEF Resting, Engaged
    <3>2. Cardinality(Resting') = Cardinality(Resting) + 1
      BY <3>1, RideSets, OneMore
    <3>3. QED
      BY <1>0, <1>1, <1>5, <1>7, <2>1, <3>1, <3>2, RideSizes DEF TallyInv
  <2>2. CASE ~(boat - 1 < 0)
    <3>1. Engaged' = Engaged \cup {b} /\ b \notin Engaged /\ Resting' = Resting
      BY <1>1, <1>2, <1>6, <2>2, Kinds DEF Resting, Engaged
    <3>2. Cardinality(Engaged') = Cardinality(Engaged) + 1
      BY <3>1, RideSets, OneMore
    <3>3. QED
      BY <1>0, <1>1, <1>5, <1>7, <2>2, <3>1, <3>2, RideSizes DEF TallyInv
  <2>3. QED
    BY <2>1, <2>2
<1>9. QED
  BY <1>3, <1>4, <1>8 DEF RideInv

\* A call more, which a resting boat answers if there is one.
LEMMA CallBoatRide ==
  ASSUME FindInv, RideInv, NEW r \in Riders, CallBoat(r)
  PROVE  RideInv'
<1>0. TypeOK /\ CarryInv /\ LastInv /\ TallyInv
  BY DEF FindInv, RideInv
<1>1. /\ pc[r] = "sightseeing" /\ boat' = boat + 1
      /\ UNCHANGED <<BC, BB, EOS, remaining_visitors, boat_index, rider_id>>
      /\ \/ \E u \in Resting : boat + 1 <= 0 /\ pc' = [pc EXCEPT ![r] = "P", ![u] = "ready"]
         \/ ~(boat + 1 <= 0 /\ Resting # {}) /\ pc' = [pc EXCEPT ![r] = "P"]
  BY DEF CallBoat, V, Goto, shared, locals, Resting
<1>2. boat \in Int
  BY <1>0 DEF TypeOK
<1>3. ASSUME pc'[r] = "P", \A s \in Riders \ {r} : pc'[s] = pc[s]
      PROVE  /\ Ashore' = Ashore
             /\ Cardinality(Seeing') = Cardinality(Seeing) - 1
  <2>1. Ashore' = Ashore /\ Seeing' = Seeing \ {r} /\ r \in Seeing
    BY <1>1, <1>3 DEF Ashore, Seeing
  <2>2. QED
    BY <2>1, RideSets, OneLess
<1>4. ASSUME NEW u \in Resting, boat + 1 <= 0, pc' = [pc EXCEPT ![r] = "P", ![u] = "ready"]
      PROVE  RideInv'
  <2>1. /\ u \in Boats /\ pc[u] = "asleep" /\ pc'[u] = "ready" /\ pc'[r] = "P"
        /\ \A t \in Threads \ {r, u} : pc'[t] = pc[t]
    BY <1>0, <1>4, Kinds DEF TypeOK, Resting
  <2>2. CarryInv'
    BY <1>0, <1>1, <2>1, Kinds DEF CarryInv, Carries
  <2>3. LastInv'
    BY <1>0, <1>1, <2>1, Kinds DEF LastInv, Ended
  <2>4. u \notin BB[u]
    BY <2>1 DEF FindInv, BoardInv
  <2>5. /\ Moving' = Moving /\ Resting' = Resting \ {u} /\ u \in Resting
        /\ Engaged' = Engaged \cup {u} /\ u \notin Engaged
    BY <1>1, <2>1, <2>4, Kinds DEF Moving, Resting, Engaged
  <2>6. /\ Cardinality(Resting') = Cardinality(Resting) - 1
        /\ Cardinality(Engaged') = Cardinality(Engaged) + 1
    BY <2>5, RideSets, OneMore, OneLess
  <2>7. Ashore' = Ashore /\ Cardinality(Seeing') = Cardinality(Seeing) - 1
    BY <1>3, <2>1, Kinds
  <2>8. TallyInv'
    BY <1>0, <1>1, <1>2, <1>4, <2>5, <2>6, <2>7, RideSizes DEF TallyInv
  <2>9. QED
    BY <2>2, <2>3, <2>8 DEF RideInv
<1>5. ASSUME ~(boat + 1 <= 0 /\ Resting # {}), pc' = [pc EXCEPT ![r] = "P"]
      PROVE  RideInv'
  <2>1. pc'[r] = "P" /\ \A t \in Threads \ {r} : pc'[t] = pc[t]
    BY <1>0, <1>5, Kinds DEF TypeOK
  <2>2. CarryInv'
    BY <1>0, <1>1, <2>1, Kinds DEF CarryInv, Carries
  <2>3. LastInv'
    BY <1>0, <1>1, <2>1, Kinds DEF LastInv, Ended
  <2>4. Moving' = Moving /\ Resting' = Resting /\ Engaged' = Engaged
    BY <1>1, <2>1, Kinds DEF Moving, Resting, Engaged
  <2>5. Ashore' = Ashore /\ Cardinality(Seeing') = Cardinality(Seeing) - 1
    BY <1>3, <2>1, Kinds
  <2>6. boat >= 0
    <3>1. Resting = {} => Cardinality(Resting) = 0
      BY FS_EmptySet
    <3>2. QED
      BY <1>0, <1>2, <1>5, <3>1 DEF TallyInv
  <2>7. TallyInv'
    BY <1>0, <1>1, <1>2, <2>4, <2>5, <2>6, RideSizes DEF TallyInv
  <2>8. QED
    BY <2>2, <2>3, <2>7 DEF RideInv
<1>6. QED
  BY <1>1, <1>4, <1>5

\* The visitor goes from the shore to a ride, and its boat with it.
LEMMA BoardRide ==
  ASSUME FindInv, RideInv, NEW b \in Boats, NEW t \in Threads,
         t = b \/ (t \in Riders /\ boat_index[t] = b), Board(t, b)
  PROVE  RideInv'
<1>0. TypeOK /\ BoardInv /\ CarryInv /\ LastInv /\ TallyInv
  BY DEF FindInv, RideInv
<1>1. /\ pc[t] = "board"
      /\ UNCHANGED <<boat, BC, EOS, remaining_visitors, boat_index, rider_id>>
      /\ \/ /\ BB[b] = {} /\ pc' = [pc EXCEPT ![t] = "in_barrier"]
            /\ BB' = [BB EXCEPT ![b] = {t}]
         \/ /\ BB[b] # {} /\ BB' = [BB EXCEPT ![b] = {}]
            /\ pc' = [u \in Threads |-> IF u \in BB[b] \cup {t}
                                          THEN IF u \in Boats THEN "start" ELSE "ride"
                                          ELSE pc[u]]
  BY DEF Board, Meet, Waiting, shared, locals
<1>2. ASSUME BB[b] = {}, pc' = [pc EXCEPT ![t] = "in_barrier"], BB' = [BB EXCEPT ![b] = {t}]
      PROVE  RideInv'
  <2>1. /\ pc'[t] = "in_barrier" /\ \A u \in Threads \ {t} : pc'[u] = pc[u]
        /\ BB'[b] = {t} /\ \A c \in Boats \ {b} : BB'[c] = BB[c]
    BY <1>0, <1>2, Kinds DEF TypeOK
  <2>2. CarryInv'
    BY <1>0, <1>1, <1>2, <2>1, Kinds DEF CarryInv, Carries
  <2>3. LastInv'
    BY <1>0, <1>1, <2>1, Kinds DEF LastInv, Ended
  <2>4. /\ Ashore' = Ashore /\ Moving' = Moving /\ Resting' = Resting /\ Seeing' = Seeing
    BY <1>1, <2>1, Kinds DEF Ashore, Moving, Resting, Seeing
  <2>5. Engaged' = Engaged
    BY <1>1, <1>2, <2>1, Kinds DEF Engaged
  <2>6. QED
    BY <1>0, <1>1, <2>2, <2>3, <2>4, <2>5, TallyFrame DEF RideInv
<1>3. ASSUME BB[b] # {}, BB' = [BB EXCEPT ![b] = {}],
             pc' = [u \in Threads |-> IF u \in BB[b] \cup {t}
                                        THEN IF u \in Boats THEN "start" ELSE "ride"
                                        ELSE pc[u]]
      PROVE  RideInv'
  <2>1. \A u \in BB[b] : /\ pc[u] = "in_barrier" /\ u # t
                         /\ u = b \/ (u \in Riders /\ boat_index[u] = b /\ BC[b] = u)
    BY <1>0, <1>1 DEF BoardInv, Aboard
  <2>2. t = b \/ (t \in Riders /\ boat_index[t] = b /\ BC[b] = t)
    BY <1>0, <1>1 DEF BoardInv, Aboard
  <2>3. PICK r \in Riders : /\ boat_index[r] = b /\ BC[b] = r /\ BB[b] \cup {t} = {b, r}
                            /\ pc[r] \in {"board", "in_barrier"}
                            /\ b = t \/ b \in BB[b]
    <3>1. PICK u \in BB[b] : TRUE
      BY <1>3
    <3>2. CASE t = b
      <4>1. BB[b] = {u} /\ u \in Riders /\ boat_index[u] = b /\ BC[b] = u
        BY <2>1, <3>1, <3>2
      <4>2. QED
        BY <1>1, <2>1, <3>1, <3>2, <4>1
    <3>3. CASE t \in Riders /\ boat_index[t] = b /\ BC[b] = t
      <4>1. BB[b] = {b}
        BY <2>1, <3>1, <3>3
      <4>2. QED
        BY <1>1, <2>1, <3>1, <3>3, <4>1
    <3>4. QED
      BY <2>2, <3>2, <3>3
  <2>4. /\ pc'[b] = "start" /\ pc'[r] = "ride"
        /\ \A u \in Threads \ {b, r} : pc'[u] = pc[u]
        /\ BB'[b] = {} /\ \A c \in Boats \ {b} : BB'[c] = BB[c]
    BY <1>0, <1>3, <2>3, Kinds DEF TypeOK
  <2>5. pc[b] \in {"board", "in_barrier"} /\ b \notin EOS
    BY <1>0, <1>1, <2>1, <2>3 DEF BoardInv
  <2>6. CarryInv'
    BY <1>0, <1>1, <2>3, <2>4, Kinds DEF CarryInv, Carries
  <2>7. LastInv'
    BY <1>0, <1>1, <2>4, <2>5, Kinds DEF LastInv, Ended
  <2>8. /\ Resting' = Resting /\ Seeing' = Seeing /\ Engaged' = Engaged
        /\ Ashore' = Ashore \ {r} /\ r \in Ashore
        /\ Moving' = Moving \cup {b} /\ b \notin Moving
    BY <1>1, <2>3, <2>4, <2>5, Kinds DEF Ashore, Moving, Resting, Seeing, Engaged
  <2>9. /\ Cardinality(Ashore') = Cardinality(Ashore) - 1
        /\ Cardinality(Moving') = Cardinality(Moving) + 1
    BY <2>8, RideSets, OneMore, OneLess
  <2>10. TallyInv'
    BY <1>0, <1>1, <2>8, <2>9, RideSizes DEF TallyInv
  <2>11. QED
    BY <2>6, <2>7, <2>10 DEF RideInv
<1>4. QED
  BY <1>1, <1>2, <1>3

\* A ride less.  If it was the last, nobody is ashore and no other boat moves:
\* no boat has ended the session before, and none will after.
LEMMA EndRideRide ==
  ASSUME FindInv, RideInv, NEW b \in Boats, EndRide(b)
  PROVE  RideInv'
<1>0. TypeOK /\ BoardInv /\ CarryInv /\ LastInv /\ TallyInv
  BY DEF FindInv, RideInv
<1>1. /\ pc[b] = "ride" /\ remaining_visitors' = remaining_visitors - 1
      /\ pc' = [pc EXCEPT ![b] = IF remaining_visitors = 1 THEN "eos" ELSE "P"]
      /\ UNCHANGED <<boat, BC, BB, EOS, boat_index, rider_id>>
  BY DEF EndRide, Goto, shared, locals
<1>2. /\ pc'[b] = (IF remaining_visitors = 1 THEN "eos" ELSE "P")
      /\ \A t \in Threads \ {b} : pc'[t] = pc[t]
  BY <1>0, <1>1, Kinds DEF TypeOK
<1>3. CarryInv'
  BY <1>0, <1>1, <1>2, Kinds DEF CarryInv, Carries
<1>4. b \notin BB[b] /\ b \notin EOS
  BY <1>0, <1>1 DEF BoardInv
<1>5. /\ Ashore' = Ashore /\ Resting' = Resting /\ Seeing' = Seeing
      /\ Moving' = Moving \ {b} /\ b \in Moving
      /\ Engaged' = Engaged \ {b} /\ b \in Engaged
  BY <1>1, <1>2, <1>4, Kinds DEF Ashore, Moving, Resting, Seeing, Engaged
<1>6. /\ Cardinality(Moving') = Cardinality(Moving) - 1
      /\ Cardinality(Engaged') = Cardinality(Engaged) - 1
  BY <1>5, RideSets, OneLess
<1>7. remaining_visitors \in Int /\ boat \in Int
  BY <1>0 DEF TypeOK
<1>8. TallyInv'
  BY <1>0, <1>1, <1>5, <1>6, <1>7, RideSizes DEF TallyInv
<1>9. LastInv'
  <2>1. Cardinality(Moving) # 0
    <3>1. IsFiniteSet(Moving)
      BY RideSets, SubsetsAreFinite
    <3>2. QED
      BY <1>5, <3>1, FS_EmptySet
  <2>2. remaining_visitors # 0
    BY <1>0, <2>1, RideSizes DEF TallyInv
  <2>3. Ended = {}
    BY <1>0, <2>2 DEF LastInv
  <2>4. Ended' = IF remaining_visitors = 1 THEN {b} ELSE {}
    BY <1>1, <1>2, <1>4, <2>3, Kinds DEF Ended
  <2>5. /\ \A c, d \in Ended' : c = d
        /\ Ended' # {} => remaining_visitors' = 0
    BY <1>1, <2>4
  <2>6. pc'[MAIN] = pc[MAIN] /\ \A c \in Boats : pc[c] = "done" => pc'[c] = "done"
    BY <1>1, <1>2, Kinds
  <2>7. QED
    BY <1>0, <2>5, <2>6 DEF LastInv
<1>10. QED
  BY <1>3, <1>8, <1>9 DEF RideInv

\* The boat of the last ride and main meet at EOS: no other boat comes there.
LEMMA MeetEOSRide ==
  ASSUME FindInv, RideInv, NEW t \in Boats \cup {MAIN}, MeetEOS(t)
  PROVE  RideInv'
<1>0. TypeOK /\ BoardInv /\ CarryInv /\ LastInv /\ TallyInv
  BY DEF FindInv, RideInv
<1>1. /\ pc[t] = "eos"
      /\ UNCHANGED <<boat, BC, BB, remaining_visitors, boat_index, rider_id>>
      /\ \/ /\ EOS = {} /\ pc' = [pc EXCEPT ![t] = "in_barrier"] /\ EOS' = {t}
         \/ /\ EOS # {} /\ EOS' = {}
            /\ pc' = [u \in Threads |-> IF u \in EOS \cup {t}
                                          THEN IF u = MAIN THEN "cleanup" ELSE "done"
                                          ELSE pc[u]]
  BY DEF MeetEOS, Meet, Waiting, shared, locals
<1>2. /\ EOS \subseteq Boats \cup {MAIN} /\ \A u \in EOS : pc[u] = "in_barrier" /\ u \in Threads
      /\ t \in Threads /\ t \notin Riders /\ t \notin EOS
      /\ \A u \in EOS : u \notin Riders /\ (u \in Boats => u \notin BB[u])
      /\ t \in Boats => t \notin BB[t]
  <2>1. \A u \in Boats : u \in BB[u] => u \notin EOS /\ pc[u] = "in_barrier"
    BY <1>0 DEF BoardInv
  <2>2. QED
    BY <1>0, <1>1, <2>1, Kinds DEF BoardInv
<1>3. CASE EOS = {}
  <2>1. /\ pc'[t] = "in_barrier" /\ \A u \in Threads \ {t} : pc'[u] = pc[u]
        /\ EOS' = {t}
    BY <1>0, <1>1, <1>2, <1>3 DEF TypeOK
  <2>2. CarryInv'
    BY <1>0, <1>1, <1>2, <1>3, <2>1, Kinds DEF CarryInv, Carries
  <2>3. Ended' = Ended
    BY <1>1, <1>2, <1>3, <2>1, Kinds DEF Ended
  <2>4. LastInv'
    BY <1>0, <1>1, <1>2, <2>1, <2>3, Kinds DEF LastInv
  <2>5. /\ Ashore' = Ashore /\ Moving' = Moving /\ Resting' = Resting
        /\ Seeing' = Seeing /\ Engaged' = Engaged
    BY <1>1, <1>2, <2>1, Kinds DEF Ashore, Moving, Resting, Seeing, Engaged
  <2>6. QED
    BY <1>0, <1>1, <2>2, <2>4, <2>5, TallyFrame DEF RideInv
<1>4. CASE EOS # {}
  <2>1. /\ EOS' = {} /\ \A u \in Threads \ (EOS \cup {t}) : pc'[u] = pc[u]
        /\ \A u \in EOS \cup {t} : pc'[u] = IF u = MAIN THEN "cleanup" ELSE "done"
    <3>1. pc' = [u \in Threads |-> IF u \in EOS \cup {t}
                                     THEN IF u = MAIN THEN "cleanup" ELSE "done"
                                     ELSE pc[u]]
      BY <1>1, <1>4
    <3>2. EOS \cup {t} \subseteq Threads
      BY <1>2
    <3>3. QED
      BY <1>1, <1>4, <3>1, <3>2, Zenon
  <2>2. CarryInv'
    <3>1. \A c \in Boats : pc'[c] \in {"start", "ride", "in_barrier"} =>
            c \notin EOS /\ pc[c] = pc'[c]
      BY <1>2, <2>1, Kinds
    <3>2. \A r \in Riders : pc'[r] = pc[r]
      BY <1>2, <2>1, Kinds
    <3>3. \A c \in Boats : pc'[c] \in {pc[c], "done"}
      BY <1>2, <2>1, Kinds
    <3>4. QED
      BY <1>0, <1>1, <3>1, <3>2, <3>3 DEF CarryInv, Carries
  <2>3. Ended' = Ended
    BY <1>1, <1>2, <2>1, Kinds DEF Ended
  <2>4. \E b \in Boats : pc'[b] = "done"
    <3>1. PICK u \in EOS : TRUE
      BY <1>4
    <3>2. CASE t = MAIN
      <4>1. u \in Boats /\ u # MAIN
        BY <1>2, <3>1, <3>2, Kinds
      <4>2. QED
        BY <2>1, <4>1
    <3>3. CASE t \in Boats
      BY <2>1, <3>3, Kinds
    <3>4. QED
      BY <3>2, <3>3
  <2>5. LastInv'
    BY <1>0, <1>1, <2>3, <2>4 DEF LastInv
  <2>6. /\ Ashore' = Ashore /\ Moving' = Moving /\ Resting' = Resting
        /\ Seeing' = Seeing /\ Engaged' = Engaged
    <3>1. \A c \in Boats : c \in EOS \cup {t} =>
            pc[c] \in {"eos", "in_barrier"} /\ pc'[c] = "done" /\ c \notin BB[c]
      BY <1>1, <1>2, <2>1, Kinds
    <3>2. \A c \in Boats : c \notin EOS \cup {t} => pc'[c] = pc[c]
      BY <2>1, Kinds
    <3>3. \A r \in Riders : pc'[r] = pc[r]
      BY <1>2, <2>1, Kinds
    <3>4. QED
      BY <1>1, <3>1, <3>2, <3>3 DEF Ashore, Moving, Resting, Seeing, Engaged
  <2>7. QED
    BY <1>0, <1>1, <2>2, <2>5, <2>6, TallyFrame DEF RideInv
<1>5. QED
  BY <1>3, <1>4

-----------------------------------------------------------------------------
LEMMA RideStep == FindInv /\ RideInv /\ [Next]_vars => RideInv'
<1> SUFFICES ASSUME FindInv, RideInv, [Next]_vars PROVE RideInv'
  OBVIOUS
<1>1. ASSUME Cleanup \/ Return PROVE RideInv'
  <2>1. /\ pc[MAIN] \in {"cleanup", "returning"}
        /\ UNCHANGED <<boat, BC, BB, EOS, remaining_visitors, boat_index, rider_id>>
    BY <1>1 DEF Cleanup, Return, shared, locals
  <2>2. \/ pc' = [pc EXCEPT ![MAIN] = "returning"]
        \/ pc' = [pc EXCEPT ![MAIN] = "done"]
    BY <1>1 DEF Cleanup, Return, Goto
  <2>3. MAIN \in Threads /\ "returning" \in Places /\ "done" \in Places
    BY Kinds DEF Places
  <2>4. CASE pc' = [pc EXCEPT ![MAIN] = "returning"]
    BY <2>1, <2>3, <2>4, QuietStep
  <2>5. CASE pc' = [pc EXCEPT ![MAIN] = "done"]
    BY <2>1, <2>3, <2>5, QuietStep
  <2>6. QED
    BY <2>2, <2>4, <2>5
<1>2. ASSUME NEW b \in Boats, BoatStep(b) PROVE RideInv'
  BY <1>2, Kinds, InitBarrierRide, InitFreedRide, WaitForRiderRide, BecomeAvailableRide, CallRiderRide,
     BoardRide, StartRideRide, EndRideRide, MeetEOSRide DEF BoatStep
<1>3. ASSUME NEW r \in Riders, WaitForBoat(r) PROVE RideInv'
  <2>1. /\ pc[r] = "P"
        /\ pc' = [pc EXCEPT ![r] = IF rider - 1 < 0 THEN "asleep" ELSE "search"]
        /\ UNCHANGED <<boat, BC, BB, EOS, remaining_visitors, boat_index, rider_id>>
    BY <1>3 DEF WaitForBoat, P, Goto, shared, locals
  <2>2. r \in Threads /\ "asleep" \in Places /\ "search" \in Places
    BY Kinds DEF Places
  <2>3. CASE rider - 1 < 0
    <3>1. pc' = [pc EXCEPT ![r] = "asleep"]
      BY <2>1, <2>3
    <3>2. QED
      BY <2>1, <2>2, <3>1, QuietStep
  <2>4. CASE ~(rider - 1 < 0)
    <3>1. pc' = [pc EXCEPT ![r] = "search"]
      BY <2>1, <2>4
    <3>2. QED
      BY <2>1, <2>2, <3>1, QuietStep
  <2>5. QED
    BY <2>3, <2>4
<1>4. ASSUME NEW r \in Riders, Leave(r) PROVE RideInv'
  <2>1. /\ pc[r] = "ride" /\ pc' = [pc EXCEPT ![r] = "done"]
        /\ UNCHANGED <<boat, BC, BB, EOS, remaining_visitors, boat_index, rider_id>>
    BY <1>4 DEF Leave, Goto, shared, locals
  <2>2. r \in Threads /\ "done" \in Places
    BY Kinds DEF Places
  <2>3. QED
    BY <2>1, <2>2, QuietStep
<1>5. ASSUME UNCHANGED <<pc, boat, BC, BB, EOS, remaining_visitors, boat_index, rider_id>>
      PROVE  RideInv'
  BY <1>5 DEF RideInv, CarryInv, Carries, LastInv, TallyInv, Ended, Ashore, Moving,
     Resting, Seeing, Engaged
<1>6. ASSUME NEW r \in Riders, RiderStep(r) PROVE RideInv'
  <2>1. CASE Search(r)
    <3>1. CASE BA[i[r]] = 1 /\ BC[i[r]] = NOBODY
      BY <2>1, <3>1, TakeRide
    <3>2. CASE ~(BA[i[r]] = 1 /\ BC[i[r]] = NOBODY)
      BY <1>5, <2>1, <3>2 DEF Search
    <3>3. QED
      BY <3>1, <3>2
  <2>2. QED
    BY <1>3, <1>4, <1>6, <2>1, Kinds, CallBoatRide, BoardRide DEF RiderStep
<1>7. CASE UNCHANGED vars
  BY <1>5, <1>7 DEF vars, shared, locals
<1>8. ASSUME MeetEOS(MAIN) PROVE RideInv'
  BY <1>8, MeetEOSRide
<1>9. QED
  BY <1>1, <1>2, <1>6, <1>7, <1>8 DEF Next, MainStep

LEMMA RideAlways == Spec => [](FindInv /\ RideInv)
<1>1. Init => RideInv
  BY RideInit
<1>2. FindInv /\ RideInv /\ [Next]_vars => RideInv'
  BY RideStep
<1>3. QED
  BY <1>1, <1>2, InBalance, PTL DEF Spec

(***************************************************************************)
(* A boat and the one visitor that took it meet at the barrier of the      *)
(* boat, and no visitor is carried by two boats (boating.c:76-85, 141).    *)
(***************************************************************************)
THEOREM RidesAreShared == Spec => []RideIsShared
<1>1. FindInv /\ RideInv => RideIsShared
  <2> SUFFICES ASSUME FindInv, RideInv PROVE RideIsShared
    OBVIOUS
  <2>0. TypeOK /\ BoardInv /\ CarryInv
    BY DEF FindInv, RideInv
  <2>1. \A b \in Boats : \A t \in BB[b] :
          t = b \/ (t \in Riders /\ boat_index[t] = b /\ BC[b] = t)
    BY <2>0 DEF BoardInv, Aboard
  <2>2. \A r, s \in Riders :
          Aboard(r) /\ Aboard(s) /\ boat_index[r] = boat_index[s] => r = s
    BY <2>0 DEF BoardInv
  <2>3. \A b \in Boats : pc[b] = "ride" => Carries(b, rider_id[b])
    BY <2>0 DEF CarryInv
  <2>4. \A b \in Boats : pc[b] = "ride" =>
          /\ rider_id[b] \in Riders
          /\ boat_index[rider_id[b]] = b /\ pc[rider_id[b]] \in {"ride", "done"}
          /\ \A c \in Boats \ {b} : pc[c] = "ride" => rider_id[c] # rider_id[b]
    BY <2>3 DEF Carries
  <2>5. QED
    BY <2>1, <2>2, <2>4 DEF RideIsShared
<1>2. QED
  BY <1>1, RideAlways, PTL

(***************************************************************************)
(* The rides that remain are the visitors ashore and the rides under way,  *)
(* and one boat at most ends the session (boating.c:96-104, 165).           *)
(***************************************************************************)
THEOREM RidesAreTallied == Spec => []RidesAreCounted
<1>1. FindInv /\ RideInv => RidesAreCounted
  <2> SUFFICES ASSUME FindInv, RideInv PROVE RidesAreCounted
    OBVIOUS
  <2>1. remaining_visitors =
          Cardinality(Ashore) + Cardinality({b \in Boats : pc[b] \in {"start", "ride"}})
    BY DEF RideInv, TallyInv, Moving
  <2> DEFINE E == {b \in Boats : pc[b] = "eos" \/ (pc[b] = "in_barrier" /\ b \in EOS)}
  <2>2. E \subseteq Ended /\ \A b, c \in Ended : b = c
    BY DEF RideInv, LastInv, Ended
  <2>3. E = {} \/ \E b \in E : E = {b}
    BY <2>2
  <2> HIDE DEF E
  <2>4. Cardinality(E) <= 1
    <3>1. E = {} => Cardinality(E) = 0
      BY FS_EmptySet
    <3>2. ASSUME NEW b \in E, E = {b} PROVE Cardinality(E) = 1
      BY <3>2, FS_Singleton
    <3>3. QED
      BY <2>3, <3>1, <3>2
  <2>5. QED
    BY <2>1, <2>4 DEF RidesAreCounted, E
<1>2. QED
  BY <1>1, RideAlways, PTL

(***************************************************************************)
(* When main cancels, destroys and frees, every visitor has been in a      *)
(* boat, all calls are answered and no boat is between its wait for a      *)
(* visitor and the end of the ride, for any number of boats and visitors   *)
(* (boating.c:96-104, 213-241).  Boats that wait, or have not begun, are   *)
(* still there, and may use what is freed.                                 *)
(***************************************************************************)
THEOREM EndOfSession == Spec => []RidesAreOver
<1>1. FindInv /\ RideInv => RidesAreOver
  <2> SUFFICES ASSUME FindInv, RideInv, pc[MAIN] \in {"cleanup", "returning"}
               PROVE  /\ \A r \in Riders : pc[r] \in {"ride", "done"}
                      /\ \A b \in Boats : BB[b] = {} /\ pc[b] \in {"init", "P", "asleep", "done"}
                      /\ rider = 0 /\ boat = -Cardinality(Resting)
    BY DEF RidesAreOver, Resting
  <2>0. TypeOK /\ BoardInv /\ CarryInv /\ LastInv /\ TallyInv
    BY DEF FindInv, RideInv
  <2>1. PICK d \in Boats : pc[d] = "done"
    BY <2>0 DEF LastInv
  <2>2. d \in Ended /\ remaining_visitors = 0
    BY <2>0, <2>1 DEF LastInv, Ended
  <2>3. boat \in Int
    BY <2>0 DEF TypeOK
  <2>4. /\ Cardinality(Ashore) = 0 /\ Cardinality(Engaged) = 0 /\ Cardinality(Moving) = 0
    BY <2>0, <2>2, <2>3, RideSizes DEF TallyInv
  <2>5. Ashore = {} /\ Engaged = {}
    BY <2>4, RideSets, SubsetsAreFinite, FS_EmptySet
  <2>6. \A r \in Riders : pc[r] \in {"ride", "done"}
    BY <2>5 DEF Ashore
  <2>7. \A b \in Boats : pc[b] # "eos" /\ b \notin EOS
    <3>1. ASSUME NEW b \in Boats, pc[b] = "eos" \/ b \in EOS PROVE FALSE
      <4>1. b \in Ended
        BY <3>1 DEF Ended
      <4>2. b = d
        BY <2>0, <2>2, <4>1 DEF LastInv
      <4>3. pc[b] # "done"
        BY <2>0, <3>1 DEF BoardInv
      <4>4. QED
        BY <2>1, <4>2, <4>3
    <3>2. QED
      BY <3>1
  <2>8. \A b \in Boats : BB[b] = {} /\ pc[b] # "in_barrier"
    <3>1. \A b \in Boats : b \notin BB[b]
      BY <2>5 DEF Engaged
    <3>2. \A b \in Boats : \A t \in BB[b] : t \in Riders /\ pc[t] = "in_barrier"
      BY <2>0, <3>1 DEF BoardInv
    <3>3. QED
      BY <2>0, <2>6, <2>7, <3>1, <3>2 DEF CarryInv
  <2>9. \A b \in Boats : pc[b] \notin {"ready", "V", "board", "start", "ride"}
    BY <2>5 DEF Engaged
  <2>10. \A b \in Boats : pc[b] \notin {"sightseeing", "search", "cleanup", "returning"}
    BY <2>0 DEF CarryInv
  <2>11. \A b \in Boats : pc[b] \in {"init", "P", "asleep", "done"}
    BY <2>0, <2>7, <2>8, <2>9, <2>10, Kinds DEF TypeOK, Places
  <2>12. rider = 0
    <3>1. Free = {} /\ Searching = {} /\ Sleeping = {} /\ Calling = {}
      BY <2>0, <2>6, <2>11 DEF BoardInv, Free, Searching, Sleeping, Calling
    <3>2. CountInv /\ rider \in Int
      BY <2>0 DEF FindInv, TypeOK
    <3>3. QED
      BY <3>1, <3>2, FS_EmptySet DEF CountInv
  <2>13. boat = -Cardinality(Resting)
    BY <2>0, <2>2, <2>3, <2>4, RideSizes DEF TallyInv
  <2>14. QED
    BY <2>6, <2>8, <2>11, <2>12, <2>13
<1>2. QED
  BY <1>1, RideAlways, PTL
=============================================================================
