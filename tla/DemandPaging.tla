---------------------------- MODULE DemandPaging ----------------------------
(***************************************************************************)
(* LA9/demandpaging.c: processes run binary searches over arrays of their  *)
(* own, round robin.  The pages of an array are loaded on the first access *)
(* from a queue of free frames; a process that finds none is swapped out,  *)
(* gives up all its frames, and starts that search again after a process   *)
(* has finished and it is swapped in.                                      *)
(*                                                                         *)
(* The program is sequential: one step is a turn of the loop in BS, or     *)
(* what main does between two searches.  The indices to search for are     *)
(* read from a file: any indices, here.                                    *)
(***************************************************************************)
EXTENDS Integers, Sequences, FiniteSets

CONSTANTS n,                \* processes
          m,                \* searches of each process
          s,                \* size of the array of each process
          ELEMS_PER_PAGE, ESSENTIAL_PAGES, PAGE_TABLE_SIZE,
          TOTAL_FRAMES_USEABLE,
          INT8_MAX          \* what deg_multiprog starts with

Procs  == 0 .. n - 1
Pages  == 0 .. PAGE_TABLE_SIZE - 1
Frames == 0 .. TOTAL_FRAMES_USEABLE - 1
NONE   == -1

PageOf(k) == ESSENTIAL_PAGES + (k \div ELEMS_PER_PAGE)

(***************************************************************************)
(* The arrays fit the page table, all processes can be loaded, and each    *)
(* process can have its essential pages and its whole array at once.       *)
(***************************************************************************)
ASSUME PagingAssumption ==
  /\ n \in Nat \ {0} /\ m \in Nat \ {0} /\ s \in [Procs -> Nat \ {0}]
  /\ ELEMS_PER_PAGE \in Nat \ {0} /\ ESSENTIAL_PAGES \in Nat /\ INT8_MAX \in Nat
  /\ PAGE_TABLE_SIZE \in Nat /\ TOTAL_FRAMES_USEABLE \in Nat
  /\ \A p \in Procs : PageOf(s[p] - 1) < PAGE_TABLE_SIZE
  /\ n * ESSENTIAL_PAGES <= TOTAL_FRAMES_USEABLE
  /\ \A p \in Procs : PageOf(s[p] - 1) + 1 <= TOTAL_FRAMES_USEABLE

VARIABLES
  ready_queue, swapped_queue, free_frames,
  PageTable,          \* for each process and page its frame; NONE: not valid
  curr_search_cnt,
  search_idx,         \* what each process searches for in its current search
  running, L, R,      \* the process in BS, and the bounds of its search
  active_processes, swaps, deg_multiprog

search == <<running, L, R>>
stats  == <<active_processes, swaps, deg_multiprog>>
vars   == <<ready_queue, swapped_queue, free_frames, PageTable, curr_search_cnt,
            search_idx, search, stats>>

Indices(p) == 0 .. s[p] - 1

\* All processes are loaded, with their essential pages.
Init ==
  /\ free_frames = [x \in 1 .. TOTAL_FRAMES_USEABLE - n * ESSENTIAL_PAGES |->
                      n * ESSENTIAL_PAGES + x - 1]
  /\ PageTable = [p \in Procs |-> [g \in Pages |->
                    IF g < ESSENTIAL_PAGES THEN p * ESSENTIAL_PAGES + g ELSE NONE]]
  /\ ready_queue = [x \in 1 .. n |-> x - 1] /\ swapped_queue = <<>>
  /\ curr_search_cnt = [p \in Procs |-> 0]
  /\ search_idx \in {f \in [Procs -> UNION {Indices(p) : p \in Procs}] :
                       \A p \in Procs : f[p] \in Indices(p)}
  /\ running = NONE /\ L = 0 /\ R = 0
  /\ active_processes = n /\ swaps = 0 /\ deg_multiprog = INT8_MAX

Least(a, b) == IF a < b THEN a ELSE b

\* The members of a set of numbers, the least one first.
InOrder(S) ==
  [x \in 1 .. Cardinality(S) |->
     CHOOSE g \in S : Cardinality({h \in S : h <= g}) = x]

\* The frames of the valid pages of process p, in the order of its page table.
FramesOf(p) ==
  LET valid == InOrder({g \in Pages : PageTable[p][g] # NONE})
  IN  [x \in DOMAIN valid |-> PageTable[p][valid[x]]]

NoPages == [g \in Pages |-> NONE]

\* main takes the process in front and calls BS.
Dispatch ==
  /\ running = NONE /\ ready_queue # <<>>
  /\ running' = Head(ready_queue)
  /\ ready_queue' = Tail(ready_queue)
  /\ L' = 0 /\ R' = s[Head(ready_queue)] - 1
  /\ UNCHANGED <<swapped_queue, free_frames, PageTable, curr_search_cnt, search_idx, stats>>

-----------------------------------------------------------------------------
(* BS: a turn of the loop looks at the element in the middle.              *)

Mid == (L + R) \div 2

Valid(p, g) == PageTable[p][g] # NONE

Narrow == IF search_idx[running] <= Mid THEN R' = Mid /\ L' = L
                                        ELSE L' = Mid + 1 /\ R' = R

Hit ==
  /\ running # NONE /\ L < R
  /\ Valid(running, PageOf(Mid))
  /\ Narrow
  /\ UNCHANGED <<ready_queue, swapped_queue, free_frames, PageTable, curr_search_cnt,
                 search_idx, running, stats>>

Load ==
  /\ running # NONE /\ L < R
  /\ ~Valid(running, PageOf(Mid)) /\ free_frames # <<>>
  /\ PageTable' = [PageTable EXCEPT ![running][PageOf(Mid)] = Head(free_frames)]
  /\ free_frames' = Tail(free_frames)
  /\ Narrow
  /\ UNCHANGED <<ready_queue, swapped_queue, curr_search_cnt, search_idx, running, stats>>

\* Mutant of SwapOut: the page table is not cleared.
SwapOutKeepsPages ==
  /\ running # NONE /\ L < R
  /\ ~Valid(running, PageOf(Mid)) /\ free_frames = <<>>
  /\ active_processes' = active_processes - 1
  /\ free_frames' = free_frames \o FramesOf(running)
  /\ swapped_queue' = Append(swapped_queue, running)
  /\ swaps' = swaps + 1
  /\ deg_multiprog' = Least(deg_multiprog, active_processes - 1)
  /\ running' = NONE /\ L' = 0 /\ R' = 0
  /\ UNCHANGED <<ready_queue, PageTable, curr_search_cnt, search_idx>>

\* Mutant of SwapOut: the process is put in no queue.
SwapOutForgets ==
  /\ running # NONE /\ L < R
  /\ ~Valid(running, PageOf(Mid)) /\ free_frames = <<>>
  /\ active_processes' = active_processes - 1
  /\ free_frames' = free_frames \o FramesOf(running)
  /\ PageTable' = [PageTable EXCEPT ![running] = NoPages]
  /\ swaps' = swaps + 1
  /\ deg_multiprog' = Least(deg_multiprog, active_processes - 1)
  /\ running' = NONE /\ L' = 0 /\ R' = 0
  /\ UNCHANGED <<ready_queue, swapped_queue, curr_search_cnt, search_idx>>

\* No frame is free: the process gives up all its pages, and its search.
SwapOut ==
  /\ running # NONE /\ L < R
  /\ ~Valid(running, PageOf(Mid)) /\ free_frames = <<>>
  /\ active_processes' = active_processes - 1
  /\ free_frames' = free_frames \o FramesOf(running)
  /\ PageTable' = [PageTable EXCEPT ![running] = NoPages]
  /\ swapped_queue' = Append(swapped_queue, running)
  /\ swaps' = swaps + 1
  /\ deg_multiprog' = Least(deg_multiprog, active_processes - 1)
  /\ running' = NONE /\ L' = 0 /\ R' = 0
  /\ UNCHANGED <<ready_queue, curr_search_cnt, search_idx>>

-----------------------------------------------------------------------------
(* main, after a search that succeeded.                                    *)

Found == running # NONE /\ L >= R

NextSearch ==
  /\ Found /\ curr_search_cnt[running] + 1 # m
  /\ curr_search_cnt' = [curr_search_cnt EXCEPT ![running] = @ + 1]
  /\ \E k \in Indices(running) : search_idx' = [search_idx EXCEPT ![running] = k]
  /\ ready_queue' = Append(ready_queue, running)
  /\ running' = NONE /\ L' = 0 /\ R' = 0
  /\ UNCHANGED <<swapped_queue, free_frames, PageTable, stats>>

\* Mutant of Finish: the process swapped in is not counted as active.
FinishUncounted ==
  /\ Found /\ curr_search_cnt[running] + 1 = m
  /\ curr_search_cnt' = [curr_search_cnt EXCEPT ![running] = @ + 1]
  /\ free_frames' = free_frames \o FramesOf(running)
  /\ PageTable' = [PageTable EXCEPT ![running] = NoPages]
  /\ active_processes' = active_processes - 1
  /\ IF swapped_queue = <<>>
       THEN UNCHANGED <<ready_queue, swapped_queue>>
       ELSE /\ ready_queue' = Append(ready_queue, Head(swapped_queue))
            /\ swapped_queue' = Tail(swapped_queue)
  /\ running' = NONE /\ L' = 0 /\ R' = 0
  /\ UNCHANGED <<search_idx, swaps, deg_multiprog>>

\* The process ends; the first one that was swapped out, if any, is swapped in,
\* with no page, not even the essential ones.
Finish ==
  /\ Found /\ curr_search_cnt[running] + 1 = m
  /\ curr_search_cnt' = [curr_search_cnt EXCEPT ![running] = @ + 1]
  /\ free_frames' = free_frames \o FramesOf(running)
  /\ PageTable' = [PageTable EXCEPT ![running] = NoPages]
  /\ IF swapped_queue = <<>>
       THEN /\ active_processes' = active_processes - 1
            /\ UNCHANGED <<ready_queue, swapped_queue>>
       ELSE /\ ready_queue' = Append(ready_queue, Head(swapped_queue))
            /\ swapped_queue' = Tail(swapped_queue)
            /\ UNCHANGED active_processes
  /\ running' = NONE /\ L' = 0 /\ R' = 0
  /\ UNCHANGED <<search_idx, swaps, deg_multiprog>>

Done == ready_queue = <<>> /\ swapped_queue = <<>> /\ running = NONE

\* The loop of main finds no process that is ready: it ends if none is swapped out
\* either, and else turns for ever.
Spin == running = NONE /\ ready_queue = <<>> /\ UNCHANGED vars

Next == Dispatch \/ Hit \/ Load \/ SwapOut \/ NextSearch \/ Finish \/ Spin

Spec == Init /\ [][Next]_vars /\ WF_vars(Next)

-----------------------------------------------------------------------------
TypeOK ==
  /\ ready_queue \in Seq(Procs) /\ swapped_queue \in Seq(Procs)
  /\ free_frames \in Seq(Frames)
  /\ PageTable \in [Procs -> [Pages -> Frames \cup {NONE}]]
  /\ curr_search_cnt \in [Procs -> 0 .. m]
  /\ \A p \in Procs : search_idx[p] \in Indices(p)
  /\ running \in Procs \cup {NONE} /\ L \in Nat /\ R \in Nat
  /\ active_processes \in 0 .. n /\ swaps \in Nat /\ deg_multiprog \in Nat

(***************************************************************************)
(* Every frame is in the queue of free frames once, or in one page table   *)
(* at one page: none is lost, handed out twice or freed twice, and no page *)
(* is valid in a process that is swapped out or has ended.                 *)
(***************************************************************************)
Holders(f) == {h \in Procs \X Pages : PageTable[h[1]][h[2]] = f}
Cells(q, x) == {i \in DOMAIN q : q[i] = x}

Holds(p) == \E g \in Pages : Valid(p, g)

FramesPartition ==
  /\ \A f \in Frames : Cardinality(Holders(f)) + Cardinality(Cells(free_frames, f)) = 1
  /\ \A p \in Procs : Holds(p) => curr_search_cnt[p] < m /\ Cells(swapped_queue, p) = {}

(***************************************************************************)
(* A process is in exactly one of the two queues or runs until it has done *)
(* its m searches, and active_processes counts those not swapped out.      *)
(***************************************************************************)
ProcessInOnePlace ==
  /\ \A p \in Procs :
       Cardinality(Cells(ready_queue, p)) + Cardinality(Cells(swapped_queue, p))
         + (IF running = p THEN 1 ELSE 0) = IF curr_search_cnt[p] < m THEN 1 ELSE 0
  /\ active_processes = Len(ready_queue) + (IF running = NONE THEN 0 ELSE 1)

(***************************************************************************)
(* The search finds what it looks for, restarted or not (lines 77-119).    *)
(***************************************************************************)
SearchIsRight ==
  running # NONE => search_idx[running] \in L .. R /\ (L >= R => L = search_idx[running])

(***************************************************************************)
(* All searches are done in the end, however often processes were swapped  *)
(* out, and main leaves its loop.                                          *)
(***************************************************************************)
Termination == <>(Done /\ \A p \in Procs : curr_search_cnt[p] = m)
=============================================================================
