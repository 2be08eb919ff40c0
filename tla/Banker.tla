------------------------------- MODULE Banker -------------------------------
(***************************************************************************)
(* The decision procedure of LA8/resource.c: may a queued request be       *)
(* granted now?  `bankers' simulates the grant and then looks for an order *)
(* in which every live thread could still obtain its whole claim.          *)
(*                                                                         *)
(* The file holds the procedure as it is coded (Bankers) and the textbook  *)
(* definition of a safe state (Safe) that it is checked against.           *)
(***************************************************************************)
EXTENDS Integers, SequencesExt, FiniteSetsExt

CONSTANTS N,  \* number of threads, n in the code
          M   \* number of kinds of resources, m in the code

ASSUME NMAssumption == N \in Nat \ {0} /\ M \in Nat \ {0}

Threads == 0 .. N - 1
Kinds   == 0 .. M - 1

\* An amount of each kind of resource.
Vector == [Kinds -> Int]

Plus(a, b)  == [k \in Kinds |-> a[k] + b[k]]
Minus(a, b) == [k \in Kinds |-> a[k] - b[k]]
Fits(a, b)  == \A k \in Kinds : a[k] <= b[k]
Nothing     == [k \in Kinds |-> 0]

-----------------------------------------------------------------------------
(* The procedure, as coded.                                                *)

\* Mutant of Look: the do-while over the kinds stops at the first kind that fits.
LookAtOneKind(s, i, need, has) ==
  IF i \notin s.finish /\ (\E k \in Kinds : need[i][k] <= s.work[k])
    THEN [finish |-> s.finish \cup {i}, work |-> Plus(s.work, has[i])]
    ELSE s

(***************************************************************************)
(* One look at thread i in the while (p) loop: a thread that is not        *)
(* finished and whose need fits in the work vector finishes and gives back *)
(* all it has.                                                             *)
(***************************************************************************)
Look(s, i, need, has) ==
  IF i \notin s.finish /\ Fits(need[i], s.work)
    THEN [finish |-> s.finish \cup {i}, work |-> Plus(s.work, has[i])]
    ELSE s

\* One pass of the loop: a look at each thread in turn.
Pass(s, need, has) ==
  LET look[i \in 0 .. N] == IF i = 0 THEN s ELSE Look(look[i - 1], i - 1, need, has)
  IN  look[N]

(***************************************************************************)
(* The threads that are finished when the loop stops.  Every pass but the  *)
(* last finishes some thread, so N passes reach the state the code's loop  *)
(* stops in.                                                               *)
(***************************************************************************)
Finished(avail, need, has, live) ==
  LET start == [finish |-> Threads \ live, work |-> avail]
      after[p \in 0 .. N] == IF p = 0 THEN start ELSE Pass(after[p - 1], need, has)
  IN  after[N].finish

\* Mutant of Bankers: the grant is not simulated before the loop.
BankersNow(avoid, avail, max_need, alloc, live, t, req) ==
  LET need == [i \in Threads |-> Minus(max_need[i], alloc[i])]
  IN  IF ~Fits(req, avail) THEN -1
      ELSE IF ~avoid THEN 1
      ELSE IF live \subseteq Finished(avail, need, alloc, live) THEN 1 ELSE 0

\* Mutant of Bankers: only the first kind is compared with what is there.
BankersFirstKind(avoid, avail, max_need, alloc, live, t, req) ==
  IF req[0] > avail[0] THEN -1 ELSE 1

(***************************************************************************)
(* The result of `bankers' for the request req of thread t: -1 if the      *)
(* resources are not there, 0 if the grant is refused, 1 if it may be made.*)
(* avoid tells the build with -D_DLAVOID from the one without.             *)
(***************************************************************************)
Bankers(avoid, avail, max_need, alloc, live, t, req) ==
  LET has  == [alloc EXCEPT ![t] = Plus(alloc[t], req)]
      need == [i \in Threads |-> Minus(max_need[i], has[i])]
  IN  IF ~Fits(req, avail) THEN -1
      ELSE IF ~avoid THEN 1
      ELSE IF live \subseteq Finished(Minus(avail, req), need, has, live)
             THEN 1
             ELSE 0

-----------------------------------------------------------------------------
(* What the procedure is meant to decide.                                  *)

\* What is available once the first i threads of the order ord have ended.
AvailableAfter(avail, alloc, ord, i) ==
  LET after[j \in 0 .. i] ==
        IF j = 0 THEN avail ELSE Plus(after[j - 1], alloc[ord[j]])
  IN  after[i]

(***************************************************************************)
(* A state is safe when the live threads can be ordered so that each could *)
(* be given its whole claim from what is available and what the threads    *)
(* before it in the order hold.                                            *)
(***************************************************************************)
Safe(avail, max_need, alloc, live) ==
  \E ord \in SetToSeqs(live) :
    \A i \in 1 .. Len(ord) :
      Fits(Minus(max_need[ord[i]], alloc[ord[i]]),
           AvailableAfter(avail, alloc, ord, i - 1))

SafeAfter(avail, max_need, alloc, live, t, req) ==
  Safe(Minus(avail, req), max_need,
       [alloc EXCEPT ![t] = Plus(alloc[t], req)], live)
=============================================================================
