------------------------------ MODULE Scheduler ------------------------------
(***************************************************************************)
(* LA3/schedule.c: a simulation of CPU scheduling by events.  The events   *)
(* to come are in a binary heap, ordered by comp; the ready queue is an    *)
(* array that is only ever appended to.  main simulates the same processes *)
(* three times, with an endless quantum (first come first served) and two  *)
(* shorter ones.                                                           *)
(*                                                                         *)
(* One step is a turn of the loop in schedule: an event, and the process   *)
(* that the CPU then goes to.                                              *)
(***************************************************************************)
EXTENDS Workload, SequencesExt, FiniteSetsExt

CONSTANT MAXP   \* places in ready_queue

ASSUME SchedulerAssumption == MAXP \in Nat

NONE == -1

VARIABLES
  program,      \* what proc.txt has of each process
  round,        \* the call of schedule main has come to
  event_heap, ready_queue, r_frnt,
  curr_time, run_proc, idle_time,
  curr_burst, rem_time, tat, state,  \* of each process
  waited        \* history: time each process has spent in ready_queue

clocks == <<curr_time, idle_time>>
procs  == <<curr_burst, rem_time, tat, state>>
vars   == <<program, round, event_heap, ready_queue, r_frnt, run_proc, clocks, procs, waited>>

Event(p, t, type) == [process_id |-> p, time |-> t, event_type |-> type]

-----------------------------------------------------------------------------
(* The heap: a sequence, the children of place i at 2i and 2i + 1.         *)

\* Mutant of comp: a timeout may come before an arrival.
compById(a, b) ==
  IF a.time # b.time THEN a.time < b.time ELSE a.process_id < b.process_id

Joins == {"arrival", "io_done"}

\* Does a come before b?
comp(a, b) ==
  IF a.time # b.time THEN a.time < b.time
  ELSE IF a.event_type \in Joins /\ b.event_type = "timeout" THEN TRUE
  ELSE IF a.event_type = "timeout" /\ b.event_type \in Joins THEN FALSE
  ELSE a.process_id < b.process_id

Swapped(h, i, j) == [h EXCEPT ![i] = h[j], ![j] = h[i]]

(***************************************************************************)
(* A turn of the loop in insert: the event at place idx rises above its    *)
(* parent if it comes before it.  Else the loop ends; then the turns that  *)
(* follow change nothing, and there are never more than Len(heap).         *)
(***************************************************************************)
Raised(s) ==
  LET par == s.idx \div 2
  IN  IF s.idx > 1 /\ comp(s.heap[s.idx], s.heap[par])
        THEN [heap |-> Swapped(s.heap, s.idx, par), idx |-> par] ELSE s

insert(h, e) ==
  LET size == Len(h) + 1
      after[k \in 0 .. size] ==
        IF k = 0 THEN [heap |-> Append(h, e), idx |-> size] ELSE Raised(after[k - 1])
  IN  after[size].heap

(***************************************************************************)
(* A call of heapify: the event at place idx sinks below the first of its  *)
(* children if that comes before it, and the next call is for the place of *)
(* that child.                                                             *)
(***************************************************************************)
Sunk(s) ==
  LET Smaller(a, b) == IF b <= Len(s.heap) /\ comp(s.heap[b], s.heap[a]) THEN b ELSE a
      sm == Smaller(Smaller(s.idx, 2 * s.idx), 2 * s.idx + 1)
  IN  IF sm = s.idx THEN s ELSE [heap |-> Swapped(s.heap, sm, s.idx), idx |-> sm]

heapify(h, i) ==
  LET after[k \in 0 .. Len(h)] ==
        IF k = 0 THEN [heap |-> h, idx |-> i] ELSE Sunk(after[k - 1])
  IN  after[Len(h)].heap

\* min: what it leaves of the heap, once the first event is taken.
Popped(h) == heapify(Front([h EXCEPT ![1] = h[Len(h)]]), 1)

-----------------------------------------------------------------------------
\* The arrivals, inserted one after the other.
Arrivals ==
  LET heap[k \in 0 .. num_proc] ==
        IF k = 0 THEN <<>>
        ELSE insert(heap[k - 1], Event(k - 1, program[k - 1].arrival, "arrival"))
  IN  heap[num_proc]

FirstBursts == [p \in Procs |-> program[p].cpu[1]]
ForAll(v)   == [p \in Procs |-> v]

\* What the first k of a sequence add up to, all of them, and the same for
\* what each process has.
SumTo(seq, k) ==
  LET sum[i \in 0 .. k] == IF i = 0 THEN 0 ELSE sum[i - 1] + seq[i] IN sum[k]
Sum(seq) == SumTo(seq, Len(seq))
Total(f) == Sum([i \in 1 .. num_proc |-> f[i - 1]])

(***************************************************************************)
(* The places of ready_queue that a round takes: one for each arrival, end *)
(* of I/O and timeout.  Nothing in the code limits them to MAXP: that is a *)
(* condition on proc.txt.                                                  *)
(***************************************************************************)
Slices(b, q) == (b + q - 1) \div q
Portions(p, q) == [i \in DOMAIN program[p].cpu |-> Slices(program[p].cpu[i], q)]
Places(q) == Total([p \in Procs |-> Sum(Portions(p, q))])

\* init, and the beginning of the first call of schedule.
Init ==
  /\ program \in [Procs -> Programs]
  /\ \A i \in DOMAIN Quanta : Places(Quanta[i]) <= MAXP
  /\ round = 1
  /\ event_heap = Arrivals /\ ready_queue = <<>> /\ r_frnt = 0
  /\ curr_time = 0 /\ run_proc = NONE /\ idle_time = 0
  /\ curr_burst = ForAll(1) /\ rem_time = FirstBursts
  /\ tat = ForAll(0) /\ state = ForAll("READY") /\ waited = ForAll(0)

\* Mutant of NextRound: the processes go on from where the last round left them.
NextRoundGoesOn ==
  /\ event_heap = <<>> /\ round < Len(Quanta)
  /\ round' = round + 1
  /\ event_heap' = Arrivals /\ ready_queue' = <<>> /\ r_frnt' = 0
  /\ curr_time' = 0 /\ run_proc' = NONE /\ idle_time' = 0
  /\ state' = ForAll("READY") /\ waited' = ForAll(0)
  /\ UNCHANGED <<program, curr_burst, rem_time, tat>>

\* The next call of schedule; tat keeps its values from the last one.
NextRound ==
  /\ event_heap = <<>> /\ round < Len(Quanta)
  /\ round' = round + 1
  /\ event_heap' = Arrivals /\ ready_queue' = <<>> /\ r_frnt' = 0
  /\ curr_time' = 0 /\ run_proc' = NONE /\ idle_time' = 0
  /\ curr_burst' = ForAll(1) /\ rem_time' = FirstBursts
  /\ state' = ForAll("READY") /\ waited' = ForAll(0)
  /\ UNCHANGED <<program, tat>>

-----------------------------------------------------------------------------
(* A turn of the loop.                                                     *)

Queued(p) == \E i \in r_frnt + 1 .. Len(ready_queue) : ready_queue[i] = p

eve == event_heap[1]

\* Mutant of Take: the time before the first event is not counted as idle.
TakeUncounted(type) ==
  /\ event_heap # <<>> /\ eve.event_type = type
  /\ curr_time' = eve.time
  /\ idle_time' = IF run_proc = NONE /\ curr_time > 0 THEN idle_time + eve.time - curr_time
                                                      ELSE idle_time
  /\ waited' = [p \in Procs |-> IF Queued(p) THEN waited[p] + eve.time - curr_time
                                             ELSE waited[p]]

\* The first event is taken off the heap, and is of this type.
Take(type) ==
  /\ event_heap # <<>> /\ eve.event_type = type
  /\ curr_time' = eve.time
  /\ idle_time' = IF run_proc = NONE /\ curr_time < eve.time THEN idle_time + eve.time - curr_time
                                                             ELSE idle_time
  /\ waited' = [p \in Procs |-> IF Queued(p) THEN waited[p] + eve.time - curr_time
                                             ELSE waited[p]]

Slice(rest) == Min({Quanta[round], rest})

(***************************************************************************)
(* The end of the turn: if run is nobody, the first process of the queue   *)
(* gets the CPU until its slice is over (timeout) or its burst (running).  *)
(***************************************************************************)
Settle(heap, queue, run, rem, st) ==
  /\ ready_queue' = queue
  /\ IF run # NONE \/ r_frnt = Len(queue)
       THEN /\ run_proc' = run /\ r_frnt' = r_frnt
            /\ event_heap' = heap /\ rem_time' = rem /\ state' = st
       ELSE LET p == queue[r_frnt + 1]
                t == Slice(rem[p])
            IN  /\ run_proc' = p /\ r_frnt' = r_frnt + 1
                /\ state' = [st EXCEPT ![p] = "RUNNING"]
                /\ rem_time' = [rem EXCEPT ![p] = @ - t]
                /\ event_heap' = insert(heap, Event(p, eve.time + t,
                                   IF t = rem[p] THEN "burst_end" ELSE "timeout"))

\* enqueue, for an arrival, an end of I/O or a timeout; run is who then runs.
Enqueue(run) ==
  /\ Settle(Popped(event_heap), Append(ready_queue, eve.process_id), run, rem_time,
            [state EXCEPT ![eve.process_id] = "READY"])
  /\ UNCHANGED <<program, round, curr_burst, tat>>

Arrival == Take("arrival") /\ Enqueue(run_proc)
IoDone  == Take("io_done") /\ Enqueue(run_proc)
Timeout == Take("timeout") /\ Enqueue(NONE)

LastBurst(p) == curr_burst[p] = Len(program[p].cpu)

Exit ==
  /\ Take("burst_end") /\ LastBurst(eve.process_id)
  /\ tat' = [tat EXCEPT ![eve.process_id] = eve.time - program[eve.process_id].arrival]
  /\ Settle(Popped(event_heap), ready_queue, NONE, rem_time,
            [state EXCEPT ![eve.process_id] = "FINISHED"])
  /\ UNCHANGED <<program, round, curr_burst>>

StartIO ==
  /\ Take("burst_end") /\ ~LastBurst(eve.process_id)
  /\ LET p == eve.process_id
         b == curr_burst[p]
     IN  /\ curr_burst' = [curr_burst EXCEPT ![p] = b + 1]
         /\ Settle(insert(Popped(event_heap), Event(p, eve.time + program[p].io[b], "io_done")),
                   ready_queue, NONE,
                   [rem_time EXCEPT ![p] = program[p].cpu[b + 1]],
                   [state EXCEPT ![p] = "WAITING"])
  /\ UNCHANGED <<program, round, tat>>

\* main returns.
Done == event_heap = <<>> /\ round = Len(Quanta)

Next == NextRound \/ Arrival \/ IoDone \/ Timeout \/ Exit \/ StartIO
        \/ (Done /\ UNCHANGED vars)

Spec == Init /\ [][Next]_vars /\ WF_vars(Next)

-----------------------------------------------------------------------------
EventTypes == {"arrival", "burst_end", "io_done", "timeout"}

TypeOK ==
  /\ program \in [Procs -> Programs] /\ round \in DOMAIN Quanta
  /\ event_heap \in Seq([process_id : Procs, time : Nat, event_type : EventTypes])
  /\ ready_queue \in Seq(Procs) /\ r_frnt \in 0 .. Len(ready_queue)
  /\ curr_time \in Nat /\ idle_time \in Nat /\ run_proc \in Procs \cup {NONE}
  /\ \A p \in Procs : curr_burst[p] \in DOMAIN program[p].cpu
  /\ rem_time \in [Procs -> Nat] /\ tat \in [Procs -> Nat] /\ waited \in [Procs -> Nat]
  /\ state \in [Procs -> {"READY", "RUNNING", "WAITING", "FINISHED"}]

\* CPU time a process has been given, its present slice to the end included.
Given(p) == SumTo(program[p].cpu, curr_burst[p]) - rem_time[p]

SliceEnds == Max({curr_time} \cup {e.time : e \in {x \in ToSet(event_heap) :
                                        x.event_type \in {"burst_end", "timeout"}}})

(***************************************************************************)
(* The books: idle time and the CPU time given out make up the clock, to   *)
(* the end of the present slice, and the waiting time that is printed for  *)
(* a process, its turnaround time without all its bursts, is the time it   *)
(* has spent in the ready queue (lines 195-199, 218-224, 268-283).         *)
(***************************************************************************)
TimeIsAccounted ==
  /\ SliceEnds = idle_time + Total([p \in Procs |-> Given(p)])
  /\ \A p \in Procs : state[p] = "FINISHED" =>
       tat[p] - Sum(program[p].cpu) - Sum(program[p].io) = waited[p]

(***************************************************************************)
(* The ready queue stays within its array when the bursts of all processes *)
(* together make no more than MAXP slices, and then takes just as many     *)
(* places as there are slices (lines 114-117).                             *)
(***************************************************************************)
ReadyQueueFits ==
  /\ Len(ready_queue) <= MAXP
  /\ event_heap = <<>> => Len(ready_queue) = Places(Quanta[round])

-----------------------------------------------------------------------------
(* A process with an event in the heap ends there what it is doing.        *)

EventOf(p) == {e \in ToSet(event_heap) : e.process_id = p}

PlaceOf ==
  [p \in Procs |-> CASE state[p] = "RUNNING"  -> "running"
                     [] state[p] = "WAITING"  -> "waiting"
                     [] state[p] = "FINISHED" -> "finished"
                     [] state[p] = "READY"    -> IF EventOf(p) = {} THEN "ready" ELSE "new"]

DueOf ==
  [p \in Procs |-> IF EventOf(p) = {} THEN 0 ELSE (CHOOSE e \in EventOf(p) : TRUE).time]

ReadyOf == SubSeq(ready_queue, r_frnt + 1, Len(ready_queue))

RR == INSTANCE RoundRobin WITH
  clock <- curr_time, burst <- curr_burst, left <- rem_time,
  ready <- ReadyOf, place <- PlaceOf, due <- DueOf

(***************************************************************************)
(* Every turn of the loop is one step of RoundRobin: the heap yields the   *)
(* event that comes first, and no process is ever in two places (lines     *)
(* 51-111, 190-291).                                                       *)
(***************************************************************************)
ImplementsRoundRobin == RR!Spec
=============================================================================
