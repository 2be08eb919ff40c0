--------------------------- MODULE SafeAllocator ---------------------------
(***************************************************************************)
(* What the master thread of LA8/resource.c promises to the user threads,  *)
(* with no mailbox, barrier, queue or condition variable: an allocator     *)
(* that takes units back at once, hands units out only when they are free  *)
(* and, if it avoids deadlock, only when the state after that is safe.     *)
(* Resource implements it.                                                 *)
(***************************************************************************)
EXTENDS Banker

CONSTANTS Total,    \* units of each kind
          MaxNeed,  \* claim of each thread
          Avoiding  \* whether grants must keep the state safe

VARIABLES free,   \* units nobody holds
          holds,  \* units each thread holds
          wants,  \* units each waiting thread waits for
          state   \* "working", "waiting" or "gone"

avars == <<free, holds, wants, state>>

Alive == {t \in Threads : state[t] # "gone"}

Init == /\ free = Total
        /\ holds = [t \in Threads |-> Nothing]
        /\ wants = [t \in Threads |-> Nothing]
        /\ state = [t \in Threads |-> "working"]

Upto(v) == {h \in [Kinds -> UNION {0 .. v[k] : k \in Kinds}] : Fits(h, v)}

\* A working thread gives units back.
GiveBack(t, units) ==
  /\ free' = Plus(free, units)
  /\ holds' = [holds EXCEPT ![t] = Minus(@, units)]

Release(t) ==
  /\ state[t] = "working"
  /\ \E units \in Upto(holds[t]) : GiveBack(t, units)
  /\ UNCHANGED <<wants, state>>

\* It asks for units within its claim, and may give others back meanwhile.
Request(t) ==
  /\ state[t] = "working"
  /\ \E units \in Upto(holds[t]), more \in Upto(Minus(MaxNeed[t], holds[t])) :
       /\ more # Nothing
       /\ \A k \in Kinds : units[k] = 0 \/ more[k] = 0
       /\ GiveBack(t, units)
       /\ wants' = [wants EXCEPT ![t] = more]
  /\ state' = [state EXCEPT ![t] = "waiting"]

Allocate(t) ==
  /\ state[t] = "waiting"
  /\ Fits(wants[t], free)
  /\ Avoiding => SafeAfter(free, MaxNeed, holds, Alive, t, wants[t])
  /\ free' = Minus(free, wants[t])
  /\ holds' = [holds EXCEPT ![t] = Plus(@, wants[t])]
  /\ wants' = [wants EXCEPT ![t] = Nothing]
  /\ state' = [state EXCEPT ![t] = "working"]

Leave(t) ==
  /\ state[t] = "working"
  /\ GiveBack(t, holds[t])
  /\ state' = [state EXCEPT ![t] = "gone"]
  /\ UNCHANGED wants

Next == \E t \in Threads : Release(t) \/ Request(t) \/ Allocate(t) \/ Leave(t)

Spec == Init /\ [][Next]_avars
=============================================================================
