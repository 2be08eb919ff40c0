------------------------------ MODULE Boating ------------------------------
(***************************************************************************)
(* LA7/boating.c: visitors take a ride in one of a few boats.  A visitor   *)
(* announces itself on the semaphore boat and waits for a boat on the      *)
(* semaphore rider; a boat does the opposite.  The visitor then looks for  *)
(* an available boat in the shared arrays, and the two meet at the boat's  *)
(* barrier.  The boat that ends the last ride meets main at EOS.           *)
(*                                                                         *)
(* A thread is sequential (pc).  What happens under a mutex without        *)
(* blocking is one step, so the visitor's search is one step per boat.     *)
(* Boats are 1 .. m; visitor r of the code is number m + r here, so that   *)
(* boats, visitors and main can share one pc.                              *)
(***************************************************************************)
EXTENDS Integers, FiniteSets

CONSTANTS m,   \* boats
          n    \* visitors

ASSUME BoatingAssumption == m \in Nat \ {0} /\ n \in Nat \ {0}

Boats   == 1 .. m
Riders  == m + 1 .. m + n
MAIN    == 0
Threads == Boats \cup Riders \cup {MAIN}
NOBODY  == -1

VARIABLES
  pc,                  \* the statement each thread is at
  rider, boat,         \* values of the two semaphores
  BA, BC,              \* boat available; visitor that took it, or NOBODY
  BB,                  \* who waits at the barrier of each boat
  EOS,                 \* who waits at the barrier "end of session"
  remaining_visitors,  \* rides not ended yet
  i,                   \* for each visitor, the boat its search is at
  boat_index,          \* for each visitor, the boat it found
  rider_id             \* for each boat, the visitor it carries

shared == <<BA, BC>>
locals == <<i, boat_index, rider_id>>
vars   == <<pc, rider, boat, shared, BB, EOS, remaining_visitors, locals>>

Init ==
  /\ pc = [t \in Threads |-> IF t \in Boats THEN "init"
                             ELSE IF t \in Riders THEN "sightseeing" ELSE "eos"]
  /\ rider = 0 /\ boat = 0
  /\ BA = [b \in Boats |-> 0] /\ BC = [b \in Boats |-> NOBODY]
  /\ BB = [b \in Boats |-> {}] /\ EOS = {}
  /\ remaining_visitors = n
  /\ i = [r \in Riders |-> 1]
  /\ boat_index = [r \in Riders |-> NOBODY]
  /\ rider_id = [b \in Boats |-> NOBODY]

\* main returns after EOS, and the process ends whatever its threads do.
Running == pc[MAIN] # "done"

Goto(t, place) == pc' = [pc EXCEPT ![t] = place]

-----------------------------------------------------------------------------
(* The semaphores, as functions P and V of the code.                       *)

\* P by thread t: the wait for the signal is an `if', not a `while'.
P(t, value, next) == Goto(t, IF value - 1 < 0 THEN "asleep" ELSE next)

\* Mutant of V: `<' for `<=' where it tests for sleepers.
VLess(t, after, value, sleepers, next) ==
  LET asleep == {u \in sleepers : pc[u] = "asleep"}
  IN  IF value + 1 < 0 /\ asleep # {}
        THEN \E u \in asleep : pc' = [pc EXCEPT ![t] = after, ![u] = next]
        ELSE Goto(t, after)

\* V by thread t: if the value says that somebody sleeps, one of the threads in
\* `sleepers' that do, if any, goes on at `next'.
V(t, after, value, sleepers, next) ==
  LET asleep == {u \in sleepers : pc[u] = "asleep"}
  IN  IF value + 1 <= 0 /\ asleep # {}
        THEN \E u \in asleep : pc' = [pc EXCEPT ![t] = after, ![u] = next]
        ELSE Goto(t, after)

\* Party t comes to a barrier for two: it waits, or both go on,
\* each at the place that next has for it.
Meet(t, there, next) ==
  pc' = IF there = {}
          THEN [pc EXCEPT ![t] = "in_barrier"]
          ELSE [u \in Threads |-> IF u \in there \cup {t} THEN next[u] ELSE pc[u]]

Waiting(t, there) == IF there = {} THEN {t} ELSE {}

-----------------------------------------------------------------------------
(* BoatThread.                                                             *)

\* The boat makes its barrier afresh.
InitBarrier(b) ==
  /\ pc[b] = "init" /\ pc[MAIN] # "returning"
  /\ BB' = [BB EXCEPT ![b] = {}]
  /\ Goto(b, "P")
  /\ UNCHANGED <<rider, boat, shared, EOS, remaining_visitors, locals>>

\* A boat that starts only after the rides are over locks bmtx and makes a
\* barrier when main has destroyed the one and freed the other.  What that does
\* is not defined: here it does nothing, and the process may end anyway (Return).
InitFreed(b) ==
  /\ pc[b] = "init" /\ pc[MAIN] = "returning"
  /\ Goto(b, "P")
  /\ UNCHANGED <<rider, boat, shared, BB, EOS, remaining_visitors, locals>>

WaitForRider(b) ==
  /\ pc[b] = "P"
  /\ boat' = boat - 1
  /\ P(b, boat, "ready")
  /\ UNCHANGED <<rider, shared, BB, EOS, remaining_visitors, locals>>

\* Mutant of BecomeAvailable: BC still names the last visitor.
BecomeAvailableKept(b) ==
  /\ pc[b] = "ready"
  /\ BA' = [BA EXCEPT ![b] = 1]
  /\ Goto(b, "V")
  /\ UNCHANGED <<rider, boat, BC, BB, EOS, remaining_visitors, locals>>

BecomeAvailable(b) ==
  /\ pc[b] = "ready"
  /\ BA' = [BA EXCEPT ![b] = 1]
  /\ BC' = [BC EXCEPT ![b] = NOBODY]
  /\ Goto(b, "V")
  /\ UNCHANGED <<rider, boat, BB, EOS, remaining_visitors, locals>>

CallRider(b) ==
  /\ pc[b] = "V"
  /\ rider' = rider + 1
  /\ V(b, "board", rider, Riders, "search")
  /\ UNCHANGED <<boat, shared, BB, EOS, remaining_visitors, locals>>

\* Boat or visitor t comes to the barrier of boat b.
Board(t, b) ==
  /\ pc[t] = "board"
  /\ Meet(t, BB[b], [u \in Threads |-> IF u \in Boats THEN "start" ELSE "ride"])
  /\ BB' = [BB EXCEPT ![b] = Waiting(t, BB[b])]
  /\ UNCHANGED <<rider, boat, shared, EOS, remaining_visitors, locals>>

StartRide(b) ==
  /\ pc[b] = "start"
  /\ rider_id' = [rider_id EXCEPT ![b] = BC[b]]
  /\ BA' = [BA EXCEPT ![b] = 0]
  /\ Goto(b, "ride")
  /\ UNCHANGED <<rider, boat, BC, BB, EOS, remaining_visitors, i, boat_index>>

\* Mutant of EndRide: the last but one ride also ends the session.
EndRideEarly(b) ==
  /\ pc[b] = "ride"
  /\ remaining_visitors' = remaining_visitors - 1
  /\ Goto(b, IF remaining_visitors <= 2 THEN "eos" ELSE "P")
  /\ UNCHANGED <<rider, boat, shared, BB, EOS, locals>>

EndRide(b) ==
  /\ pc[b] = "ride"
  /\ remaining_visitors' = remaining_visitors - 1
  /\ Goto(b, IF remaining_visitors = 1 THEN "eos" ELSE "P")
  /\ UNCHANGED <<rider, boat, shared, BB, EOS, locals>>

\* A boat, or main, comes to EOS.
MeetEOS(t) ==
  /\ pc[t] = "eos"
  /\ Meet(t, EOS, [u \in Threads |-> IF u = MAIN THEN "cleanup" ELSE "done"])
  /\ EOS' = Waiting(t, EOS)
  /\ UNCHANGED <<rider, boat, shared, BB, remaining_visitors, locals>>

BoatStep(b) ==
  \/ InitBarrier(b) \/ InitFreed(b) \/ WaitForRider(b) \/ BecomeAvailable(b)
  \/ CallRider(b) \/ Board(b, b) \/ StartRide(b) \/ EndRide(b) \/ MeetEOS(b)

-----------------------------------------------------------------------------
(* RiderThread.                                                            *)

CallBoat(r) ==
  /\ pc[r] = "sightseeing"
  /\ boat' = boat + 1
  /\ V(r, "P", boat, Boats, "ready")
  /\ UNCHANGED <<rider, shared, BB, EOS, remaining_visitors, locals>>

WaitForBoat(r) ==
  /\ pc[r] = "P"
  /\ rider' = rider - 1
  /\ P(r, rider, "search")
  /\ UNCHANGED <<boat, shared, BB, EOS, remaining_visitors, locals>>

\* Mutant of Search: only BA is tested, not BC.
SearchTaken(r) ==
  /\ pc[r] = "search" /\ i[r] <= m
  /\ IF BA[i[r]] = 1
       THEN /\ boat_index' = [boat_index EXCEPT ![r] = i[r]]
            /\ BC' = [BC EXCEPT ![i[r]] = r]
            /\ Goto(r, "board")
            /\ UNCHANGED i
       ELSE /\ i' = [i EXCEPT ![r] = @ + 1]
            /\ UNCHANGED <<pc, boat_index, BC>>
  /\ UNCHANGED <<rider, boat, BA, BB, EOS, remaining_visitors, rider_id>>

\* One iteration of the loop over the boats, under bmtx: take boat i[r] if it
\* is available, else look at the next.  After the last boat the code goes to
\* the barrier BB[-1], which does not exist: nothing is defined from there on.
Search(r) ==
  /\ pc[r] = "search" /\ i[r] <= m
  /\ IF BA[i[r]] = 1 /\ BC[i[r]] = NOBODY
       THEN /\ boat_index' = [boat_index EXCEPT ![r] = i[r]]
            /\ BC' = [BC EXCEPT ![i[r]] = r]
            /\ Goto(r, "board")
            /\ UNCHANGED i
       ELSE /\ i' = [i EXCEPT ![r] = @ + 1]
            /\ UNCHANGED <<pc, boat_index, BC>>
  /\ UNCHANGED <<rider, boat, BA, BB, EOS, remaining_visitors, rider_id>>

Leave(r) ==
  /\ pc[r] = "ride"
  /\ Goto(r, "done")
  /\ UNCHANGED <<rider, boat, shared, BB, EOS, remaining_visitors, locals>>

RiderStep(r) ==
  \/ CallBoat(r) \/ WaitForBoat(r) \/ Search(r)
  \/ (boat_index[r] \in Boats /\ Board(r, boat_index[r])) \/ Leave(r)

-----------------------------------------------------------------------------
\* Cancel the threads, destroy the barriers and semaphores, free the arrays.  A
\* cancelled thread stops at some later place, or not at all: it is not joined.
Cleanup ==
  /\ pc[MAIN] = "cleanup"
  /\ Goto(MAIN, "returning")
  /\ UNCHANGED <<rider, boat, shared, BB, EOS, remaining_visitors, locals>>

Return ==
  /\ pc[MAIN] = "returning"
  /\ Goto(MAIN, "done")
  /\ UNCHANGED <<rider, boat, shared, BB, EOS, remaining_visitors, locals>>

MainStep == MeetEOS(MAIN) \/ Cleanup \/ Return

Next ==
  \/ /\ Running
     /\ \/ MainStep
        \/ \E b \in Boats : BoatStep(b)
        \/ \E r \in Riders : RiderStep(r)
  \/ ~Running /\ UNCHANGED vars

\* Every thread that can run is run.
Fairness == /\ WF_vars(Running /\ MainStep)
            /\ \A b \in Boats : WF_vars(Running /\ BoatStep(b))
            /\ \A r \in Riders : WF_vars(Running /\ RiderStep(r))

Spec == Init /\ [][Next]_vars /\ Fairness

-----------------------------------------------------------------------------
Places == {"init", "P", "asleep", "ready", "V", "board", "in_barrier", "start",
           "ride", "eos", "sightseeing", "search", "cleanup", "returning", "done"}

TypeOK ==
  /\ pc \in [Threads -> Places]
  /\ rider \in Int /\ boat \in Int
  /\ BA \in [Boats -> {0, 1}] /\ BC \in [Boats -> Riders \cup {NOBODY}]
  /\ BB \in [Boats -> SUBSET Threads] /\ EOS \subseteq Threads
  /\ remaining_visitors \in Int
  /\ i \in [Riders -> 1 .. m + 1]
  /\ boat_index \in [Riders -> Boats \cup {NOBODY}]
  /\ rider_id \in [Boats -> Riders \cup {NOBODY}]

(***************************************************************************)
(* A visitor that got past P(&rider) finds a boat, although other visitors *)
(* take boats while it searches and boats it has passed become available   *)
(* behind it: it never goes to a barrier BB[-1] (lines 124-142).           *)
(***************************************************************************)
RiderFindsBoat == \A r \in Riders : pc[r] = "search" => i[r] <= m

(***************************************************************************)
(* Who meets at the barrier of a boat: only the boat and the one visitor   *)
(* that took it, and the boat carries that visitor (lines 76-85, 141).     *)
(***************************************************************************)
Aboard(r) == pc[r] \in {"board", "in_barrier"}

RideIsShared ==
  /\ \A b \in Boats : \A t \in BB[b] :
       t = b \/ (t \in Riders /\ boat_index[t] = b /\ BC[b] = t)
  /\ \A r, s \in Riders :
       Aboard(r) /\ Aboard(s) /\ boat_index[r] = boat_index[s] => r = s
  /\ \A b \in Boats : pc[b] = "ride" =>
       /\ rider_id[b] \in Riders
       /\ boat_index[rider_id[b]] = b /\ pc[rider_id[b]] \in {"ride", "done"}
       /\ \A c \in Boats \ {b} : pc[c] = "ride" => rider_id[c] # rider_id[b]

(***************************************************************************)
(* remaining_visitors counts the visitors that have not boarded and the    *)
(* boats whose ride has not ended, so that exactly one boat sees it reach  *)
(* zero and main is let through EOS only after the last ride.              *)
(***************************************************************************)
Ashore == {r \in Riders : pc[r] \notin {"ride", "done"}}

RidesAreCounted ==
  /\ remaining_visitors =
       Cardinality(Ashore) + Cardinality({b \in Boats : pc[b] \in {"start", "ride"}})
  /\ Cardinality({b \in Boats : pc[b] = "eos" \/ (pc[b] = "in_barrier" /\ b \in EOS)}) <= 1

(***************************************************************************)
(* When main cancels, destroys and frees (215-241), the rides are really   *)
(* over: every visitor has been in a boat, every call of a visitor or boat *)
(* has been answered, nobody is at a barrier, and each boat has ended, or  *)
(* waits for a visitor that will not come, or is about to, or has not yet  *)
(* begun.  It does not say that what is freed is not used: a boat that     *)
(* waits holds on to boat.mtx, and one that has not begun (InitFreed) even *)
(* uses bmtx and BB (68-70), so that "nothing left in the simulation"      *)
(* (LA7.pdf) fails: with "init" left out of the places below, TLC finds it.*)
(***************************************************************************)
RidesAreOver ==
  pc[MAIN] \in {"cleanup", "returning"} =>
    /\ \A r \in Riders : pc[r] \in {"ride", "done"}
    /\ \A b \in Boats : BB[b] = {} /\ pc[b] \in {"init", "P", "asleep", "done"}
    /\ rider = 0 /\ boat = -Cardinality({b \in Boats : pc[b] = "asleep"})

(***************************************************************************)
(* Every visitor gets its ride and the program ends.                       *)
(***************************************************************************)
Termination == <>(pc[MAIN] = "done")

-----------------------------------------------------------------------------
(***************************************************************************)
(* The inductive invariant behind RiderFindsBoat.                          *)
(***************************************************************************)
Searching == {r \in Riders : pc[r] = "search"}
Sleeping  == {r \in Riders : pc[r] = "asleep"}
Calling   == {b \in Boats : pc[b] = "V"}
Free      == {b \in Boats : BA[b] = 1 /\ BC[b] = NOBODY}

\* Who is in a barrier, and whose boat is whose.
BoardInv ==
  /\ \A b \in Boats : \A t \in BB[b] :
       /\ pc[t] = "in_barrier"
       /\ t = b \/ (t \in Riders /\ boat_index[t] = b)
  /\ \A t \in EOS : pc[t] = "in_barrier" /\ t \in Boats \cup {MAIN}
  /\ \A b \in Boats :
       /\ b \in EOS \/ pc[b] \notin {"V", "board", "in_barrier", "start"} => BA[b] = 0
       /\ pc[b] \in {"V", "board"} \/ b \in BB[b] => BA[b] = 1
       /\ pc[b] = "start" => BC[b] # NOBODY
  /\ \A r \in Riders : Aboard(r) =>
       /\ boat_index[r] \in Boats /\ BC[boat_index[r]] = r /\ BA[boat_index[r]] = 1
       /\ pc[boat_index[r]] \in {"V", "board", "in_barrier"}
  /\ \A r \in Riders : pc[r] \in {"sightseeing", "P", "asleep"} => i[r] = 1

\* The boats that are free are as many as the calls not used yet, the visitors
\* they woke or let through, and the boats about to call.
CountInv ==
  /\ Cardinality(Sleeping) = IF rider < 0 THEN -rider ELSE 0
  /\ Cardinality(Free) =
       rider + Cardinality(Sleeping) + Cardinality(Searching) + Cardinality(Calling)

\* Past any boat k there are at least as many free boats as visitors that have
\* already searched the first k in vain.
SearchInv ==
  \A k \in 0 .. m : Cardinality({r \in Searching : i[r] > k})
                      <= Cardinality({b \in Free : b > k})

FindInv == TypeOK /\ BoardInv /\ CountInv /\ SearchInv
=============================================================================
