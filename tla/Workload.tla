------------------------------ MODULE Workload ------------------------------
(***************************************************************************)
(* What LA3/schedule.c reads from proc.txt and how often it simulates it.  *)
(***************************************************************************)
EXTENDS Integers, Sequences

CONSTANTS num_proc,  \* how many processes there are
          Programs,  \* lines that proc.txt may have: arrival time and bursts
          Quanta     \* the quantum of each call of schedule: PINF, 10, 5 in the code

\* Their places in proc.txt, which are in the order of ids.
Procs == 0 .. num_proc - 1

(***************************************************************************)
(* A process has one CPU burst more than it has I/O bursts, and every      *)
(* burst takes time (as in the files that genproc.c writes).               *)
(***************************************************************************)
ASSUME WorkloadAssumption ==
  /\ num_proc \in Nat
  /\ Programs \subseteq [arrival : Nat, cpu : Seq(Nat \ {0}), io : Seq(Nat \ {0})]
  /\ \A b \in Programs : Len(b.cpu) = Len(b.io) + 1
  /\ Quanta \in Seq(Nat \ {0}) /\ Quanta # <<>>
=============================================================================
