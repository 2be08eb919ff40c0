-------------------------------- MODULE LRU --------------------------------
(***************************************************************************)
(* LA10/LRU.c: processes run binary searches round robin, as in LA9, but a *)
(* process that needs a frame when only NFFMIN are free gives one of its   *)
(* own in exchange.  The page it gives up is the one with the least        *)
(* history; the free frames remember which page they last held, and the    *)
(* frame taken from them is chosen in four attempts.                       *)
(*                                                                         *)
(* The program is sequential: a step is a turn of the loop in BS, or what  *)
(* main does between two searches.                                         *)
(***************************************************************************)
EXTENDS Integers, SequencesExt

CONSTANTS n,                \* processes
          m,                \* searches of each process
          s,                \* size of the array of each process
          ELEMS_PER_PAGE, ESSENTIAL_PAGES, PAGE_TABLE_SIZE,
          TOTAL_FRAMES_USEABLE, NFFMIN,
          BITS,             \* width of a history, 16 in the code
          RAND              \* what rand() returns after srand(42)

Procs  == 0 .. n - 1
Pages  == 0 .. PAGE_TABLE_SIZE - 1
Frames == 0 .. TOTAL_FRAMES_USEABLE - 1
NONE   == -1

ArrayPages == ESSENTIAL_PAGES .. PAGE_TABLE_SIZE - 1
PageOf(k)  == ESSENTIAL_PAGES + (k \div ELEMS_PER_PAGE)

(***************************************************************************)
(* The arrays fit the page table, and there are frames for all essential   *)
(* pages besides the NFFMIN that stay free.                                *)
(***************************************************************************)
ASSUME LRUAssumption ==
  /\ n \in Nat \ {0} /\ m \in Nat \ {0} /\ s \in [Procs -> Nat \ {0}]
  /\ ELEMS_PER_PAGE \in Nat \ {0} /\ ESSENTIAL_PAGES \in Nat /\ PAGE_TABLE_SIZE \in Nat
  /\ TOTAL_FRAMES_USEABLE \in Nat /\ NFFMIN \in Nat \ {0}
  /\ BITS \in Nat \ {0} /\ RAND \in Nat
  /\ \A p \in Procs : PageOf(s[p] - 1) < PAGE_TABLE_SIZE
  /\ n * ESSENTIAL_PAGES + NFFMIN <= TOTAL_FRAMES_USEABLE

VARIABLES
  ready_queue,
  FFLIST,             \* the free frames, each with the page it last held
  PageTable,          \* for each process and page: frame (NONE: not valid), ref, history
  curr_search_cnt, active_processes,
  running, search_idx, L, R,   \* the process in BS, what it looks for, and where
  content, last_use   \* history: the page last loaded in each frame, the search
                      \* in which each page was last used (or loaded)

search  == <<running, search_idx, L, R>>
history == <<content, last_use>>
vars    == <<ready_queue, FFLIST, PageTable, curr_search_cnt, active_processes,
             search, history>>

ALL_ONES == 2^BITS - 1
TOP_BIT  == 2^(BITS - 1)

Unowned(f)    == [frame_no |-> f, last_owner |-> NONE, pg_no |-> NONE]
Absent        == [frame |-> NONE, ref |-> FALSE, history |-> 0]
Present(f, r) == [frame |-> f, ref |-> r, history |-> ALL_ONES]

Valid(p, g) == PageTable[p][g].frame # NONE

\* main: the essential pages are loaded from the front of the list.
Init ==
  /\ FFLIST = [x \in 1 .. TOTAL_FRAMES_USEABLE - n * ESSENTIAL_PAGES |->
                 Unowned(n * ESSENTIAL_PAGES + x - 1)]
  /\ PageTable = [p \in Procs |-> [g \in Pages |->
       IF g < ESSENTIAL_PAGES THEN Present(p * ESSENTIAL_PAGES + g, FALSE) ELSE Absent]]
  /\ ready_queue = [x \in 1 .. n |-> x - 1]
  /\ curr_search_cnt = [p \in Procs |-> 0] /\ active_processes = n
  /\ running = NONE /\ search_idx = 0 /\ L = 0 /\ R = 0
  /\ content = [f \in Frames |-> IF f < n * ESSENTIAL_PAGES
                                   THEN <<f \div ESSENTIAL_PAGES, f % ESSENTIAL_PAGES>>
                                   ELSE <<NONE, NONE>>]
  /\ last_use = [p \in Procs |-> [g \in Pages |-> 0]]

\* main takes the process in front and calls BS with its next index.
Dispatch ==
  /\ running = NONE /\ ready_queue # <<>>
  /\ running' = Head(ready_queue) /\ ready_queue' = Tail(ready_queue)
  /\ L' = 0 /\ R' = s[running'] - 1
  /\ search_idx' \in 0 .. R'
  /\ UNCHANGED <<FFLIST, PageTable, curr_search_cnt, active_processes, history>>

-----------------------------------------------------------------------------
(* BS: a turn of the loop looks at the element in the middle.              *)

Mid     == (L + R) \div 2
Page    == PageOf(Mid)
Looking == running # NONE /\ L < R

Narrow == /\ IF search_idx <= Mid THEN R' = Mid /\ L' = L
                                  ELSE L' = Mid + 1 /\ R' = R
          /\ UNCHANGED <<running, search_idx>>

Hit ==
  /\ Looking /\ Valid(running, Page)
  /\ PageTable' = [PageTable EXCEPT ![running][Page].ref = TRUE]
  /\ Narrow
  /\ UNCHANGED <<ready_queue, FFLIST, curr_search_cnt, active_processes, history>>

Fault == Looking /\ ~Valid(running, Page)

\* The page gets frame f; table is the page table without its victim, if any.
Install(f, table) ==
  /\ PageTable' = [PageTable EXCEPT ![running] = [table EXCEPT ![Page] = Present(f, TRUE)]]
  /\ content' = [content EXCEPT ![f] = <<running, Page>>]
  /\ last_use' = [last_use EXCEPT ![running][Page] = curr_search_cnt[running] + 1]
  /\ Narrow
  /\ UNCHANGED <<ready_queue, curr_search_cnt, active_processes>>

EnoughFree == Len(FFLIST) > NFFMIN

\* get_frame: the first free frame, whatever page it last held.
Load ==
  /\ Fault /\ EnoughFree
  /\ FFLIST' = Tail(FFLIST)
  /\ Install(FFLIST[1].frame_no, PageTable[running])

-----------------------------------------------------------------------------
(* page_replacement_algo.                                                  *)

Past(p, g) == PageTable[p][g].history

Candidates(p) == {g \in ArrayPages : Valid(p, g) /\ Past(p, g) < ALL_ONES}

\* The first page of those with the least history.
IsVictim(p, v) ==
  /\ v \in Candidates(p)
  /\ \A g \in Candidates(p) : Past(p, v) < Past(p, g) \/ (Past(p, v) = Past(p, g) /\ v <= g)

\* The attempts, from the end of the list: the same page of the same process,
\* a frame without owner, any page of the process, any frame.
SamePage(p, g) == {i \in DOMAIN FFLIST : FFLIST[i].last_owner = p /\ FFLIST[i].pg_no = g}
NoOwner        == {i \in DOMAIN FFLIST : FFLIST[i].last_owner = NONE}
SameOwner(p)   == {i \in DOMAIN FFLIST : FFLIST[i].last_owner = p}

FoundIndex(p, g) ==
  LET pool == IF SamePage(p, g) # {} THEN SamePage(p, g)
              ELSE IF NoOwner # {} THEN NoOwner ELSE SameOwner(p)
  IN  IF pool # {} THEN Max(pool) ELSE (RAND % Len(FFLIST)) + 1

\* Mutant of GivenUp: the frame is marked with the page it is exchanged for.
GivenUpAs(v) ==
  [frame_no |-> PageTable[running][v].frame, last_owner |-> running, pg_no |-> Page]

\* What the list remembers of the victim's frame.
GivenUp(v) ==
  [frame_no |-> PageTable[running][v].frame, last_owner |-> running, pg_no |-> v]

\* Mutant of Replace: the victim keeps its valid bit.
ReplaceKeepsValid ==
  /\ Fault /\ ~EnoughFree
  /\ \E v \in ArrayPages :
       /\ IsVictim(running, v)
       /\ FFLIST' = Append(RemoveAt(FFLIST, FoundIndex(running, Page)), GivenUp(v))
       /\ Install(FFLIST[FoundIndex(running, Page)].frame_no, PageTable[running])

Replace ==
  /\ Fault /\ ~EnoughFree
  /\ \E v \in ArrayPages :
       /\ IsVictim(running, v)
       /\ FFLIST' = Append(RemoveAt(FFLIST, FoundIndex(running, Page)), GivenUp(v))
       /\ Install(FFLIST[FoundIndex(running, Page)].frame_no,
                  [PageTable[running] EXCEPT ![v].frame = NONE])

\* There is no victim: BS returns 1 and main forgets the process, which keeps
\* its frames.
GiveUp ==
  /\ Fault /\ ~EnoughFree /\ Candidates(running) = {}
  /\ running' = NONE /\ search_idx' = 0 /\ L' = 0 /\ R' = 0
  /\ UNCHANGED <<ready_queue, FFLIST, PageTable, curr_search_cnt, active_processes, history>>

-----------------------------------------------------------------------------
(* The end of a search, in BS and in main.                                 *)

Found      == running # NONE /\ L >= R
LastSearch == curr_search_cnt[running] + 1 = m

\* Mutant of Aged: the history is shifted the other way.
AgedUpwards(e) ==
  IF e.frame = NONE THEN e
  ELSE [e EXCEPT !.ref = FALSE,
                 !.history = (2 * @ + (IF e.ref THEN 1 ELSE 0)) % (2 * TOP_BIT)]

\* A valid page's history is shifted and its reference bit moved in on top.
Aged(e) ==
  IF e.frame = NONE THEN e
  ELSE [e EXCEPT !.ref = FALSE,
                 !.history = (@ \div 2) + (IF e.ref THEN TOP_BIT ELSE 0)]

LeaveSearch ==
  /\ curr_search_cnt' = [curr_search_cnt EXCEPT ![running] = @ + 1]
  /\ running' = NONE /\ search_idx' = 0 /\ L' = 0 /\ R' = 0

NextSearch ==
  /\ Found /\ ~LastSearch
  /\ PageTable' = [PageTable EXCEPT ![running] = [g \in Pages |-> Aged(@[g])]]
  /\ last_use' = [last_use EXCEPT ![running] = [g \in Pages |->
       IF Valid(running, g) /\ PageTable[running][g].ref
         THEN curr_search_cnt[running] + 1 ELSE @[g]]]
  /\ ready_queue' = Append(ready_queue, running)
  /\ LeaveSearch
  /\ UNCHANGED <<FFLIST, active_processes, content>>

\* The members of a set of numbers, the least one first.
InOrder(S) ==
  [x \in 1 .. Cardinality(S) |->
     CHOOSE g \in S : Cardinality({h \in S : h <= g}) = x]

\* Mutant of Released: the essential pages are not released.
ReleasedArray(p) ==
  LET held == InOrder({g \in ArrayPages : Valid(p, g)})
  IN  [x \in DOMAIN held |-> Unowned(PageTable[p][held[x]].frame)]

\* finish_process: the frames of all valid pages, in the order of the pages.
Released(p) ==
  LET held == InOrder({g \in Pages : Valid(p, g)})
  IN  [x \in DOMAIN held |-> Unowned(PageTable[p][held[x]].frame)]

Finish ==
  /\ Found /\ LastSearch
  /\ FFLIST' = FFLIST \o Released(running)
  /\ PageTable' = [PageTable EXCEPT ![running] = [g \in Pages |-> Absent]]
  /\ active_processes' = active_processes - 1
  /\ LeaveSearch
  /\ UNCHANGED <<ready_queue, history>>

\* main leaves its loop.
Done == running = NONE /\ ready_queue = <<>>

Next == Dispatch \/ Hit \/ Load \/ Replace \/ GiveUp \/ NextSearch \/ Finish
        \/ (Done /\ UNCHANGED vars)

Spec == Init /\ [][Next]_vars /\ WF_vars(Next)

-----------------------------------------------------------------------------
TypeOK ==
  /\ ready_queue \in Seq(Procs)
  /\ FFLIST \in Seq([frame_no : Frames, last_owner : Procs \cup {NONE},
                     pg_no : ArrayPages \cup {NONE}])
  /\ PageTable \in [Procs -> [Pages -> [frame : Frames \cup {NONE}, ref : BOOLEAN,
                                        history : 0 .. ALL_ONES]]]
  /\ curr_search_cnt \in [Procs -> 0 .. m] /\ active_processes \in 0 .. n
  /\ running \in Procs \cup {NONE} /\ search_idx \in Nat /\ L \in Nat /\ R \in Nat

Holders(f)  == {h \in Procs \X Pages : PageTable[h[1]][h[2]].frame = f}
Entries(f)  == {i \in DOMAIN FFLIST : FFLIST[i].frame_no = f}
Dropped(p)  == curr_search_cnt[p] < m /\ p # running /\ ~Contains(ready_queue, p)

(***************************************************************************)
(* Every frame is once in the list of free frames or once in a page table, *)
(* those of the processes that main forgot included; the reserve of NFFMIN *)
(* frames is never used up; and active_processes goes on counting those    *)
(* that were forgotten (lines 107-166, 229-246, 251-266, 377).             *)
(***************************************************************************)
FramesPartition ==
  /\ \A f \in Frames : Cardinality(Holders(f)) + Cardinality(Entries(f)) = 1
  /\ Len(FFLIST) >= NFFMIN
  /\ active_processes = Cardinality({p \in Procs : curr_search_cnt[p] < m})

(***************************************************************************)
(* A free frame that is marked with a page still holds that page, and a    *)
(* valid page is what its frame holds: the exchange in the first attempt   *)
(* never brings back anything else, although get_frame takes marked frames *)
(* too, and a page loaded by get_frame leaves an older mark behind         *)
(* (lines 110-118, 158-160, 231).                                          *)
(***************************************************************************)
MarksAreTrue ==
  /\ \A i \in DOMAIN FFLIST : FFLIST[i].last_owner # NONE =>
       content[FFLIST[i].frame_no] = <<FFLIST[i].last_owner, FFLIST[i].pg_no>>
  /\ \A p \in Procs, g \in Pages : Valid(p, g) =>
       content[PageTable[p][g].frame] = <<p, g>>

(***************************************************************************)
(* The page given up is one whose last use, as of the searches completed,  *)
(* is at least as long ago as that of every other page of the array (uses  *)
(* more than BITS searches ago are all alike), and never one that was      *)
(* loaded in the same search (lines 93-104, 275-309).                      *)
(***************************************************************************)
Evicts(p, g) == running = p /\ running' = p /\ Valid(p, g) /\ ~Valid(p, g)'

VictimIsLeastRecent ==
  [][\A p \in Procs, v \in Pages : Evicts(p, v) =>
       /\ v \in ArrayPages
       /\ last_use[p][v] <= curr_search_cnt[p]
       /\ \A g \in ArrayPages : Valid(p, g) =>
            \/ last_use[p][v] <= last_use[p][g]
            \/ last_use[p][g] <= curr_search_cnt[p] - BITS]_vars

(***************************************************************************)
(* main leaves its loop, and by then each process has done its m searches  *)
(* or was forgotten for want of a victim; if one was, the list is shorter  *)
(* by its frames for ever (lines 373-385).                                 *)
(***************************************************************************)
Termination ==
  <>[](/\ Done
       /\ \A p \in Procs : curr_search_cnt[p] = m \/ Dropped(p)
       /\ (\A p \in Procs : ~Dropped(p)) <=> Len(FFLIST) = TOTAL_FRAMES_USEABLE)
=============================================================================
