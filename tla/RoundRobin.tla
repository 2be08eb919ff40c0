----------------------------- MODULE RoundRobin -----------------------------
(***************************************************************************)
(* What the simulation of LA3/schedule.c promises, without its heap of     *)
(* events: processes are new, ready, running, waiting for I/O or finished; *)
(* those that are new, running or waiting have a time at which that ends.  *)
(* The earliest end comes first; of those at one time a timeout comes      *)
(* last, and else the process with the smaller number first.  Scheduler    *)
(* implements it.                                                          *)
(***************************************************************************)
EXTENDS Workload

VARIABLES
  program,  \* of each process
  round,    \* the round of the simulation
  clock,
  place,    \* of each process: new, ready, running, waiting, finished
  due,      \* when that ends, if it is new, running or waiting, and else 0
  burst,    \* its CPU burst
  left,     \* what is left of that burst, the slice it has been given not counted
  ready     \* the processes that are ready, first come first served

rvars == <<program, round, clock, place, due, burst, left, ready>>

StartOfRound(r) ==
  /\ round' = r /\ clock' = 0 /\ ready' = <<>>
  /\ place' = [p \in Procs |-> "new"]
  /\ due' = [p \in Procs |-> program[p].arrival]
  /\ burst' = [p \in Procs |-> 1]
  /\ left' = [p \in Procs |-> program[p].cpu[1]]

Init ==
  /\ program \in [Procs -> Programs]
  /\ round = 1 /\ clock = 0 /\ ready = <<>>
  /\ place = [p \in Procs |-> "new"]
  /\ due = [p \in Procs |-> program[p].arrival]
  /\ burst = [p \in Procs |-> 1]
  /\ left = [p \in Procs |-> program[p].cpu[1]]

Pending == {p \in Procs : place[p] \in {"new", "running", "waiting"}}

TimesOut(p) == place[p] = "running" /\ left[p] > 0

Before(p, r) ==
  \/ due[p] < due[r]
  \/ due[p] = due[r] /\ ~TimesOut(p) /\ TimesOut(r)
  \/ due[p] = due[r] /\ (TimesOut(p) <=> TimesOut(r)) /\ p < r

IsNext(p) == p \in Pending /\ \A r \in Pending \ {p} : Before(p, r)

(***************************************************************************)
(* The CPU after an event at time now that has left it to a process, or to *)
(* nobody: then the first of the queue gets it, for a quantum or for the   *)
(* rest of its burst.                                                      *)
(***************************************************************************)
Slice(p, rest) == IF Quanta[round] < rest[p] THEN Quanta[round] ELSE rest[p]

Settle(now, where, queue, ends, rest) ==
  IF (\E r \in Procs : where[r] = "running") \/ queue = <<>>
    THEN place' = where /\ ready' = queue /\ due' = ends /\ left' = rest
    ELSE LET p == Head(queue)
         IN  /\ place' = [where EXCEPT ![p] = "running"]
             /\ ready' = Tail(queue)
             /\ due' = [ends EXCEPT ![p] = now + Slice(p, rest)]
             /\ left' = [rest EXCEPT ![p] = @ - Slice(p, rest)]

\* A new process arrives, an I/O burst ends, or a slice ends before the burst.
Join(p) ==
  /\ IsNext(p) /\ (place[p] = "running" => TimesOut(p))
  /\ clock' = due[p]
  /\ Settle(due[p], [place EXCEPT ![p] = "ready"], Append(ready, p),
            [due EXCEPT ![p] = 0], left)
  /\ UNCHANGED <<program, round, burst>>

BurstEnds(p) == IsNext(p) /\ place[p] = "running" /\ ~TimesOut(p)

Wait(p) ==
  /\ BurstEnds(p) /\ burst[p] < Len(program[p].cpu)
  /\ clock' = due[p]
  /\ burst' = [burst EXCEPT ![p] = @ + 1]
  /\ Settle(due[p], [place EXCEPT ![p] = "waiting"], ready,
            [due EXCEPT ![p] = @ + program[p].io[burst[p]]],
            [left EXCEPT ![p] = program[p].cpu[burst[p] + 1]])
  /\ UNCHANGED <<program, round>>

Exit(p) ==
  /\ BurstEnds(p) /\ burst[p] = Len(program[p].cpu)
  /\ clock' = due[p]
  /\ Settle(due[p], [place EXCEPT ![p] = "finished"], ready,
            [due EXCEPT ![p] = 0], left)
  /\ UNCHANGED <<program, round, burst>>

\* When nothing is pending the next round begins, from the start.
NextRound ==
  /\ Pending = {} /\ round < Len(Quanta)
  /\ StartOfRound(round + 1)
  /\ UNCHANGED program

Next == NextRound \/ \E p \in Procs : Join(p) \/ Wait(p) \/ Exit(p)

Spec == Init /\ [][Next]_rvars

-----------------------------------------------------------------------------
TypeOK ==
  /\ program \in [Procs -> Programs]
  /\ round \in 1 .. Len(Quanta)
  /\ clock \in Nat
  /\ place \in [Procs -> {"new", "ready", "running", "waiting", "finished"}]
  /\ due \in [Procs -> Nat]
  /\ burst \in [Procs -> Nat \ {0}]
  /\ \A p \in Procs : burst[p] <= Len(program[p].cpu)
  /\ left \in [Procs -> Nat]
  /\ ready \in Seq(Procs)

(***************************************************************************)
(* At most one process runs, so that the events have an order at all; it   *)
(* is idle only when nobody is ready; and the queue holds those that are   *)
(* ready, each once (schedule.c, lines 61-70 and 260-291).                 *)
(***************************************************************************)
OneRuns ==
  \A p, r \in Procs : place[p] = "running" /\ place[r] = "running" => p = r

WorkConserving ==
  ready # <<>> => \E p \in Procs : place[p] = "running"

QueueIsReady ==
  /\ \A p \in Procs : place[p] = "ready" <=> \E i \in 1 .. Len(ready) : ready[i] = p
  /\ \A i, j \in 1 .. Len(ready) : ready[i] = ready[j] => i = j

\* Nothing that is pending is due before now.
NothingIsOverdue == \A p \in Pending : due[p] >= clock

CpuInv == OneRuns /\ WorkConserving /\ QueueIsReady /\ NothingIsOverdue
=============================================================================
