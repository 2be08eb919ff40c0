# Models of the OS laboratory programs

The repository holds eleven laboratory assignments (`LA1` to `LA11`), each a
small C program, or a few that run together: threads with mutexes, condition
variables and barriers, processes with semaphores and shared memory, pipes,
signals, and simulations of an operating system's memory and CPU.  This
directory models those programs in TLA+, checks them with TLC on small
instances, and proves the most important invariants with TLAPS for instances
of any size.  What a program should do is taken from its comments, its messages
and its structure; the assignments are PDFs, and are quoted where a program
disagrees with its own (`LA6.pdf`, `LA7.pdf`, section 6).

## 1. The parts of the system

The programs of different assignments do not interact.  "Hard" names what makes
a part hard to test, "right" what makes it correct.

**LA8 `resource.c`: resource allocation with and without deadlock avoidance.**
State: a mailbox `reqc` guarded by `rmtx` and the barriers `REQB` and `ACK[t]`;
vectors `available`, matrices `alloc` and `need`, a queue of waiting requests,
per thread a flag `ready_reqs[t]` and a condition variable.  `N` threads read
their requests from files and post them; the master takes one at a time, serves
releases and exits at once, queues the rest, and after each goes over the queue
once and grants what it can - under `-D_DLAVOID` only what the banker's algorithm
finds safe.
Hard: one mailbox, two barriers and a condition variable between two parties;
the master works on a private copy while the thread goes on; the pass over the
queue changes the tables it tests.
Right: requests are neither lost nor doubled nor mixed up; nothing grantable is
left behind; the tables agree; with avoidance all states are safe and all
threads end.

**LA7 `boating.c`: visitors and boats.**  State: two hand-made counting
semaphores `rider` and `boat` (value, mutex, condition variable), the arrays
`BA`, `BC`, `BB` (available, taken by, barrier) under `bmtx`, and
`remaining_visitors`.  Boats and visitors announce themselves to each other by
the semaphores, a visitor then searches the arrays for an available boat in one
pass, the two meet at the barrier, and the boat that ends the last ride meets
`main` at `EOS`.
Hard: the semaphores only balance numbers; *which* boat a visitor gets is
settled by a search that races with other visitors and with boats coming back;
`main` frees everything while threads still exist.
Right: the search never comes back empty-handed, a boat carries one visitor,
rides are counted once, `main` goes on only when all rides are over, and the
session ends.  That nobody uses what was freed is not so (section 6).

**LA6 `cook.c`, `waiter.c`, `customer.c`: a restaurant.**  State: one segment of
shared memory with a clock, counters, a queue per waiter and a queue of orders,
under `sem_mutex`, and semaphores for cooks, waiters and customers.
Hard: a wakeup carries no reason; what to do is read from marks that others may
have overwritten meanwhile; every party moves the common clock.
Right: tables, debts, orders and wakeups are counted correctly; no customer is
served twice; all parties go home.

**LA9 `demandpaging.c`: demand paging simulation.**  State: a queue of free
frames, a page table per process, a queue of ready and a queue of swapped-out
processes.  Processes do binary searches round robin; a fault takes a frame; a
process that finds none is swapped out, gives up all its frames, and restarts
its search when another process has ended.
Right: frames are neither lost nor doubled; a process is in one place; a
restarted search finds its index; it does not come to all that remain being
swapped out.

**LA10 `LRU.c`: page replacement.**  State: as in LA9, but the free frames are a
list that remembers which page each last held, a page has a reference bit and a
history that ages with every search, and a process that needs a frame when only
`NFFMIN` are left gives one of its own in exchange, chosen in four attempts.
Hard: marks that outlive what they say; ties and saturation of the histories; a
process for which there is no victim is dropped by `main` with all its frames.
Right: frames are neither lost nor doubled, a mark is true, the page given up is
the least recently used one, and everything ends.

**LA5 `leader.c`, `follower.c`: adding up in turns.**  State: a segment `M` of
shared memory with the number of followers wanted, joined, the turn, and a
number of each party; the leader's hash table of sums.  No lock: who may write
is said by the turn `M[2]`, and all wait by spinning.
Hard: the followers' ids are handed out by an unprotected counter; cells read
twice; the farewell and the removal of the segment; a failing `fork`, Ctrl-C.
Right: one writer at a time, complete rounds, the first repeated sum is noticed,
nobody uses the segment after it is removed, and everybody ends.

**LA4 `coordinator.c`, `block.c`: foodoku.**  Nine block processes and a
coordinator.  State: per block the pipe it reads, the block as given (`A`) and
now (`B`); in the coordinator the board, the solution and whether a game is on.
A block that is to put a digit asks two neighbours in its row and then two in
its column, and reads their answers from the same pipe in which commands and
other blocks' questions arrive.
Hard: answers, questions and commands mix in that pipe, and `scanf` of something
that is no number reads nothing; two neighbours ask each other at once; commands
for the previous placement's board are still on their way.
Right: a block takes for an answer only what is one; the board on the screen has
no digit twice; the given digits stay; no block listens for ever.

**LA3 `schedule.c`: CPU scheduling by events.**  State: a heap of events, a
ready queue that is only appended to, per process its burst, remaining time and
state.  The same processes are simulated three times, first come first served
and with two quanta.  `22CS30016_Omkar.c` is the same program without comments.
Hard: events at the same time, a comparison that is an order only for the heaps
that occur, a ready queue that never wraps.
Right: the events come in the right order, the CPU is never idle while someone
is ready, the times that are printed add up.

**LA2 `parent.c`, `child.c`, `dummy.c`: a ball game by signals.**  The parent
throws a ball to its children in turn; they catch or miss it, print in a chain,
and the last one kills a dummy process the parent waits for.  All state is
changed in signal handlers.
Hard: a handler runs between any two steps, also of another handler (the
parent's nest two deep at most unless a signal comes too early), equal signals merge, and start-up relies on `sleep(3)`.
Right: there is one ball, no signal merges with another, each row is complete,
the parent's and the children's scores agree, one player wins.

**LA1 `rebuild.c`** rebuilds dependencies by a recursion of processes in which
every process waits for each child before it starts the next; the visited marks
are in a file.  One process runs at a time: nothing is interleaved, and it is
not modelled.  **LA11 `findall.c`** walks a directory tree: input and output
only, not modelled.  `Material/`, `LA*/Material*/`, `LA2/signal`,
`LA1/sample_code_process` are course handouts.

## 2. How the project is laid out

| modules | part | state |
|---|---|---|
| `Banker`, `Resource`, `SafeAllocator`, `MCResource`, `ResourceProofs` | LA8 | all operations, both builds; every safety property and the refinement proved |
| `Boating`, `MCBoating`, `BoatingProofs` | LA7 | all operations; every safety property proved |
| `LeaderFollower`, `MCLeaderFollower`, `LeaderFollowerProofs` | LA5 | all operations; every safety property proved |
| `Restaurant`, `MCRestaurant`, `RestaurantProofs` | LA6 | all processes; types and every safety property proved |
| `DemandPaging`, `MCDemandPaging`, `DemandPagingProofs` | LA9 | all operations; every safety property proved |
| `LRU`, `MCLRU`, `LRUProofs` | LA10 | all operations; every safety property proved |
| `Workload`, `Scheduler`, `RoundRobin`, `MCScheduler`, `SchedulerProofs` | LA3 | all operations; every safety property and the refinement proved |
| `Foodoku`, `MCFoodoku` | LA4 | all commands and messages; model-checked |
| `BallGame`, `BallGameProofs`, `MCBallGame` | LA2 | all handlers, late starters; every safety property proved |

Composition: `Resource` EXTENDS `Banker` (the master calls `bankers`) and
implements `SafeAllocator`.  `Scheduler` and `RoundRobin` EXTEND `Workload`
(what `proc.txt` holds), and `Scheduler` implements `RoundRobin`.  The
refinement mappings are at the end of `Resource` and of `Scheduler`.  The other
parts stand alone, as their programs do.

Left for later: theorems about `Foodoku`, which TLC checks.

## 3. The modules

### Banker, Resource, SafeAllocator (LA8)

`Banker` is `bankers()` as a function on the tables, without recursion
operators: `Pass` goes over the threads once, and `Finished` is what as many
passes as there are threads have finished; both are recursive functions.  `BankersIsExact` compares it, in every state
the program reaches, with the definition of a safe state: some order of the
threads exists in which each can get what it still needs.

`Resource` has a `pc` for every thread and for the master.  A thread posts
(`rmtx`, mailbox, `REQB`, `ACK`), waits if it asked for resources, and ends after
`EXIT`.  The master copies the request, serves it (`Serve`), and goes over the
queue one request per step (`Grant`, `Skip`, `EndPass`), so that threads run between any
two of them.  Requests are not fixed in advance: a thread may draw any request
its input file could contain.  `alloc` is taken as zero at the start (see the
hazard at resource.c:355).  `LedgersAgree` relates a thread's own count to the
master's tables; that units are neither made nor lost is shown by the refinement.

`SafeAllocator` is what the program promises, in four actions: release, request,
allocate (only what is free and, when avoiding deadlocks, only into a safe
state) and leave.  `ImplementsAllocator` maps the tables of the
program to it; the view of a thread changes when the master serves or grants,
not when the thread posts or wakes up.

### Boating (LA7)

A thread's step is what it does under one mutex without blocking; the visitor's
search is one step per boat, because it unlocks `bmtx` between them.  `P` and
`V` follow the code: `P` decrements and sleeps if the value is negative, `V`
increments and wakes one sleeper.  `Cleanup` is everything that `main` cancels,
destroys and frees, and `Return` ends the model: `main` returns and the process
with it, whatever the threads are doing.  Between the two a boat that starts
only then sets up a barrier in freed memory, under a destroyed mutex
(`InitFreed`, boating.c:68-70); it is taken to get as far as `P`.

### LeaderFollower (LA5)

Every access to a cell that another process may write is a step of its own: the
three initial writes of the leader, `ReadCount`/`Join`/`Fork` of a run of the
program `follower`, `Look`/`Decide`/`Write`/`PassOn`/`Leave` of a follower.
Spinning is a guard.  The leader's addition is one step, since nobody writes
while it has the turn (that is what `OneAtATime` says).  The hash table keeps
its probing, although no probe ever leaves its home place: the code's sums are at
most 99 + 9 * 100 = 999 and the table has 1000 places (`LeaderAssumption` asks for a place for each).  `written` is a history variable for the property only.
`OVERLAP` says how the user runs `follower`: FALSE, after the leader's prompt and
one run after the other; TRUE, at any time.

### Restaurant (LA6)

A step is a section between `WAIT(sem_mutex)` and `SIGNAL(sem_mutex)`, together
with the wait on the process's own semaphore before it.  Sleeping takes any
time.  Orders are records; a queue in shared memory is the sequence of cells
between front and back, and reading past the back (the code does not test for
it) gives a cell that was never written and counts the overrun.  `TIME` is the
code's clock in minutes, set in the way each process sets it, backwards
included.

### DemandPaging (LA9)

The program is sequential; a step is one turn of the loop in `BS` or what
`main` does between two searches.  `SwapOut` and `Finish` are whole: all frames
given back, flags cleared, counters updated, the next process swapped in.
`Spin` is `main`'s loop with nothing to run, which would be a livelock of the
program: `Termination` says that it does not come to that.

### LRU (LA10)

Sequential as well, with the same steps.  A page table entry has a frame, a
reference bit and a history of `BITS` bits (16 in the code); the list of free
frames is a sequence of records with the page each last held.  `Load` is
`get_frame`; `Replace` is `page_replacement_algo` whole: victim, the four
attempts in order (`FoundIndex`; the last one uses `rand()`, whose value after
`srand(42)` is the constant `RAND`), exchange.  `GiveUp` is the case without a
victim.  `NextSearch` ages the histories.  `content` (the page a frame was last
loaded with) and `last_use` are history variables: `MarksAreTrue` and
`VictimIsLeastRecent` compare what the program remembers with them.  `Released`,
like `FramesOf` in `DemandPaging`, lists the frames of a table in the order of
the pages by rank (`InOrder`), which needs no recursion.

### Workload, Scheduler, RoundRobin (LA3)

A step of `Scheduler` is a turn of the loop in `schedule`: the first event of
the heap, what it does to its process, and the dispatch that follows.  The heap
is kept as the code keeps it, an array with `heapify` and sifting up; `comp` is
the code's comparison.  A turn of the loop in `insert` is `Raised`, a call of
`heapify` is `Sunk`; they are repeated as often as the heap has places, which is
at least as often as the code does, and a turn after the last changes nothing.
The three calls of `schedule` are three rounds, with what carries over from one
to the next (`tat` does, nothing else).  `ready_queue` is the whole array with
the front index, so that its places count.

`RoundRobin` is the machine without heap or array: a process is new, ready,
running, waiting or finished, each with the time at which that ends, and the
earliest end comes first, a timeout after all others of that time.
`Scheduler!ImplementsRoundRobin` maps the heap to those times.

### Foodoku (LA4)

A line written to a pipe is one message.  The coordinator reads a command and
puts what it sends in `outbox`, one message a step (`Write`), so that blocks run
between any two of them; a block asks one neighbour per step and reads one
answer per step.  A block that listens and finds something else than an answer
does what `scanf` does: it reads nothing, keeps what was in the variable, and
leaves the message in the pipe.  `newboard` draws one of `Boards`; `S` holds
`Junk` before the first.  `overlapped` remembers whether the user gave a command
while a placement was under way: the properties about answers hold only if not,
and `OneGame` and `NobodyIsLeftListening` hold in any case.

### BallGame (LA2)

A process is its pending signals (a set: equal ones merge) and a stack of
handlers, each at a place in its code; a handler starts between any two steps,
unless it handles the same signal, and returns to what it interrupted.
In the parent the next answer can interrupt a handler that has thrown the ball
and not returned yet.  `LATE` children may sleep longer than the parent: a
handler that runs in one of them sees `id` and `n` zero, and `early` remembers
it.

A definition whose comment calls it a mutant of another is a plausible bug of
that operation (a dropped test, a forgotten reset, a swapped order); it is in no
specification, and serves to show that a property notices when the operation is
replaced by it.

Every module states its types in `TypeOK`.  No run spends a property on it: it
holds on the instances of section 4, and the proof modules prove it where their
invariants rest on it.

## 4. The runs

| run | expects | checks | instance |
|---|---|---|---|
| `resource_avoid` | pass | `RequestHasOneHome`, `LedgersAgree`, `AlwaysSafe`, `NothingGrantableIsLeft`, `BankersIsExact`, `ImplementsAllocator` | 3 threads, one unit of each of 2 kinds, one thread without a claim to the first, input files of 2, 1 and 1 requests |
| `resource_live` | pass | `Termination` | 2 threads, 2 kinds of 1 and 2 units, files of 1 and 2 requests |
| `boating` | pass | `RiderFindsBoat`, `RideIsShared`, `RidesAreCounted`, `RidesAreOver`, `Termination` | 3 boats, 3 visitors |
| `restaurant` | pass | `TablesAreCounted`, `UnservedAreCounted`, `OrderInOnePlace`, `NoWakeupIsLost`, `WaitersFollowCooks` | 2 cooks, 2 waiters, 2 tables, 3 customers around closing time |
| `restaurant_finish` | violation | `AllFinish` | the same with 2 customers, the second at closing time |
| `demandpaging` | pass | `FramesPartition`, `ProcessInOnePlace`, `Termination` | 3 processes, 2 searches each, 5 frames |
| `lru` | pass | `FramesPartition`, `MarksAreTrue`, `VictimIsLeastRecent`, `Termination` | 2 processes with 8 and 7 pages, 5 searches each, 11 frames of which 2 in reserve, histories of 2 bits |
| `leader_follower` | pass | `OneAtATime`, `RoundIsComplete`, `FirstRepetitionEnds`, `EveryoneHasLeft`, `Termination` | 3 followers from 2 runs, one follower too many, 4 sums in 4 places |
| `leader_overlap` | violation | `IdsAreDistinct` | 2 followers from 2 overlapping runs |
| `scheduler` | pass | `TimeIsAccounted`, `ReadyQueueFits`, `ImplementsRoundRobin` | 4 processes, each with one of 8 lines of `proc.txt`, quanta infinite, 2 and 1 |
| `foodoku` | pass | `NothingIsMixedUp`, `BoardIsValid`, `OneGame`, `NobodyIsLeftListening` | 9 blocks of 2 x 2 cells, two games, 3 placements to try in each, commands to the cost of 5 |
| `ballgame` | pass | `OneBall`, `RowIsComplete`, `ScoresAgree`, `Termination` | 3 children, of which the last may start late |

What they show, beyond that no property fails:

* `resource_avoid`: the order in which requests, barriers and wakeups interleave
  never shows in what is allocated: the program is the four actions of
  `SafeAllocator`.  `bankers` calls a state safe exactly when it is.
* `boating`: with any interleaving of searches each visitor admitted finds a
  boat in one pass, and when `main` cancels and frees every visitor has had its
  ride and nobody is at a barrier.  The boats may be anywhere a boat can be
  without a visitor, not yet started included (section 6).
* `restaurant`: the counts survive overwritten marks, reads past the back and the
  clock going back; only the cooks' going home does not (`restaurant_finish`).
* `lru`: although free frames keep their marks while they are taken by
  `get_frame`, a mark is never out of date; the history decides as the true
  order of use does, up to the `BITS` searches it can see; a process that is
  forgotten takes its frames along for ever and nothing else goes wrong.
* `scheduler`: whatever coincides (in the inputs that fit `MAXP`), the heap hands out the
  events in the order of `RoundRobin`; the waiting times that are printed are the times in the queue.
* `foodoku`: if the user waits for each placement, answers are never confused
  and no invalid board arises; if not, a block may take something else for an
  answer, but the given digits stay and nobody listens for ever.
* `ballgame`: with everybody awake in time no signal is lost, although nothing
  but the rules of the game keeps equal signals apart.

**Why the bounds are enough.**  `resource_avoid`: claims that together exceed the
units, in two kinds, so that unsafe but available requests occur, a safe order
exists only one way round, requests wait behind each other, and one pass over
the queue can grant two; one thread has two requests, so that it comes back.
`resource_live` has two kinds of which one has two units because only there a
request can have both signs.  `boating`: with three visitors and three boats a
visitor can be overtaken in its search while a boat it has passed comes back,
which takes two of each; the third boat and visitor make the third wakeup
independent.  `leader_follower`: in a ring of three the first, a middle and the
last follower differ; there are four sums and four places, each sum with a
place of its own, as in the code; every sum occurs, and the first that comes
again does so after one to four different ones.  `restaurant`: the arrivals (minutes 202, 204, 239)
put two customers at one waiter and close the restaurant (minute 240) while
orders are under way; `OVERRUN` = 2 reads past the back per queue are followed,
more are cut off.  `demandpaging`: five frames, three essential pages, arrays of
four, three and four pages: every process can run alone, no two together.
`INT8_MAX` is the code's start value of `deg_multiprog`; unlike the queues and
tables it is not scaled down.  `lru`: a search of eight pages touches at most
three, the two processes come to the reserve in their third searches, all four
attempts occur, five searches are more than the two that a history of
`BITS` = 2 bits tells apart, and a process without a victim occurs.
`scheduler`: bursts shorter than, as long as and longer than the quanta, arrivals
at the same or different times, I/O that ends with other events; of the inputs,
those with at most `MAXP` = 10 slices are taken, and some have just as many.
`foodoku`: each block has two neighbours in its row and two in its column, as in
the code.  The three placements mean something else in each game: in the first
one is accepted, one refused for the digit in its row, one for the digit in its
block; in the second one is refused for the digit in its column, one as its cell
is given, and one accepted.  Each refusal is by one test alone, so that without
that test `BoardIsValid` or `OneGame` fails, and the first and third are in
blocks that ask each other.  The model begins before the first game or with the
second on (`Started`); the first is reached by `n`.
The costs (4 for
`s`, 3 for `n`, 2 for `p` and `q`) and `MAXCMDS` = 5 then allow two placements at
once or one after the other, a placement while the board changes to that of the
other game or before the end, and the solution shown with and without a game.  `ballgame`: of three children the player thrown to, the next and
one that is out can all differ, and the ring is passed more than once.

**Fairness.**  Threads and processes are scheduled by the kernel, so each has
weak fairness on its own steps; nothing is assumed about which of two
contenders gets a mutex or which sleeper a signal wakes.  DemandPaging, LRU and
Scheduler are sequential programs: weak fairness of the next step.  Nobody has
to start a run of `follower`, interrupt the leader, make `fork` fail, or give
foodoku a command.  In BallGame a child misses with a chance of one in five at
each throw: strong fairness of `Miss` stands for that it does not catch for ever.
The violation of `AllFinish` is found under fairness for every process.

**Deadlock.**  Checking is on except where the system may really stop:
LeaderFollower (an id without a follower), Restaurant (see findings) and
BallGame (a signal that comes too early may be lost, and the game with it).

## 5. What is proved

For every value of the constants that the named assumptions admit
(`ResourceAssumption`, `BoatingAssumption`, `LeaderAssumption`,
`RestaurantAssumption`, `PagingAssumption`, `LRUAssumption`, `WorkloadAssumption`,
`SchedulerAssumption`, `BallGameAssumption`):

* `ResourceProofs`, about tables of any size and no program: `FinishedIsEnough`,
  that the loop of `bankers` finishes all live threads exactly if every set of
  live threads has one whose need the others leave enough for (`Enough`), and
  `BankersDecides`, that so its answer is the one `SafeAfter` asks for.  `Enough`
  is the middle between the loop, which looks at the threads in order and again,
  and the definition, which speaks of some order.  That every pass but the last
  finishes somebody, and what the holdings of a set add up to, are inductions
  over a number; they are done by hand, from the least number that would be a
  counterexample (`LeastElement`; `LeastNumber` in `LeaderFollowerProofs`).
* `ResourceProofs`, the hand-over: types, `CopyIsWhatWasPosted`,
  `RequestHasOneHome`.  The
  inductive invariant is `HandoverInv`: `TypeOK` with who holds `rmtx`
  (`LockInv`), who stands at which barrier (`BarrierInv`), and that mailbox and
  copy hold what the thread at the mailbox posted (`MailboxInv`).  Neither of the
  two properties is inductive: that the copy is right rests on nobody else
  being able to reach `REQB`.  What `bankers` answers plays no part.
* `ResourceProofs`, the tables: `LedgersAgree` and `BankersIsExact` from
  `LedgerInv`, which adds to the hand-over that a request lies within what its
  thread may still claim (`AmountsInv`), that nobody holds more than its claim
  (`ClaimsInv`), and that a thread that asked to leave is in no queue
  (`ExitInv`), so that the master gives back all that a leaving thread has and
  nothing is granted to it afterwards.  `AlwaysSafe` and `NothingGrantableIsLeft` from
  `TablesInv`, which adds `AlwaysSafe` itself and `PassInv`: of the requests before the one
  the pass is at none can be granted now.  The second is kept although grants
  change the tables behind the pass, because a grant takes what a request
  needed and, seen from a safe state, lets nobody finish who could not before.
  What is given back without asking `bankers` keeps the tables safe, as any
  order that worked still works.
* `ResourceProofs`, the refinement: `Spec => ImplementsAllocator`, each step of
  threads and master a step of `SafeAllocator` or none.
* `BoatingProofs`: types and `RiderFindsBoat`.  The inductive invariant is
  `FindInv` = `TypeOK`, `BoardInv` (a boat's arrays and place agree), `CountInv`
  (free boats = calls not used + visitors let through and searching + boats
  about to call) and `SearchInv` (beyond each boat there are at least as many
  free boats as visitors that search beyond it).  `CountInv` gives a newly
  searching visitor its boat; `SearchInv` keeps it while others overtake.
* `BoatingProofs`, the rides, on top of that: `RideIsShared`, `RidesAreCounted`,
  `RidesAreOver`.  `RideInv` says whom a boat carries (`CarryInv`) and counts the
  remaining rides in two ways (`TallyInv`): as visitors ashore and rides under
  way, and as visitors that have not called, calls not answered and boats that
  have answered.  When no ride remains no boat is on its way to a visitor, which
  is why the one boat that finds the counter at zero is the last (`LastInv`), and
  why at `main`'s cleanup the boats left over are asleep, about to be, or not
  started (`EndOfSession`); not that they leave alone what is freed.
* `RestaurantProofs`: types, `TablesAreCounted`, `UnservedAreCounted`,
  `OrderInOnePlace`, `NoWakeupIsLost`.  None is inductive alone.  `StageInv` says
  what an order tells of its customer in each place it can be - in the waiter's
  queue or hands not signalled yet, from the cooks' queue on signalled once -,
  `CountsInv` what each number in the shared memory counts, `ClockInv` that the
  latest arrival exists.  `UnservedAreCounted` gives the waiters a reason to
  stay, and only with it `NoWakeupIsLost` is kept when one goes home.
  Overwritten marks and reads past the back are included.
* `LeaderFollowerProofs`, under `OVERLAP = FALSE`: `OneAtATime`,
  `RoundIsComplete`, `EveryoneHasLeft` and `FirstRepetitionEnds`.  The inductive invariant `IInv` says
  that one run of `follower` joins at a time and `M[1]` is what it read
  (`JoinInv`), that ids are distinct (`IdInv`), what each value of `M[2]` implies
  for the leader and followers (`TurnInv`), and how far the round has come
  (`RoundInv`).  `LeftInv` adds for the farewell who has gone already.
  `SumInv` adds that the table holds sums, each in its home place and counted
  once (`TableInv`), that who has written in this round has left a number
  from 1 to `FOLLOWER_MAX` (`NumbersInv`), and that the leader closes with a sum
  in the table (`CloseInv`).  The sum of a complete round is one of at most
  `TABLE` that follow each other (`SumBounds`, by induction over the parts of
  `0 .. n`, and `SumsAreFewer`); so two different sums have different home places
  (`HomesDiffer`), a probe ends where it begins (`ProbeEnds`), and that place is
  free exactly if the sum is new (`NewSum`).
  Interrupts and failing forks are included.  `IdsDoNotCollide` says that under
  the condition ids are distinct; without it they are not, which is the run
  `leader_overlap`.
* `DemandPagingProofs`: `SearchIsRight` (a search begun again after a swap still
  narrows to its index), `ProcessInOnePlace` and `FramesPartition`.  The inductive
  invariant says which place a process or a frame is in, without counting
  (`PlaceInv`, `FrameInv`), and that only a process that may run has pages, of its
  array and no others (`HolderInv`).  `TheLastStaysIn`: a process is swapped out
  only while another is ready.  With all others out, all frames are the running
  process's own, one for each page but the one it misses, and `PagingAssumption`
  has a frame for each page; so the loop of `main` never turns with nobody to
  run, the safety that `Termination` rests on.
* `LRUProofs`: `FramesPartition`, `MarksAreTrue` and `VictimIsLeastRecent`.
  `FrameInv` says where the frames are, `MarksInv` what they hold; a fault, with
  or without a victim, is one lemma about both (`Exchange`).  `AgeInv` says what a
  history is: all ones for a page loaded in this search, else a number whose
  highest bit tells how many searches ago the page was last used (`Fits`), 0 if
  that is `BITS` or more.  That 2^(k+1) is twice 2^k, which no prover here knows,
  is counted on the subsets of `1 .. k` (`PowersOfTwo`).
* `BallGameProofs`, up to the first signal that reaches a sleeping child:
  `OneBall`, `RowIsComplete`, `ScoresAgree`, for any number of children.  The
  three parts of the invariant need each other: the ball is with the current
  player, on its way back, or with the parent (`BallInv`), so rows do not
  overlap; in a row the turn goes from child to child and the dummy lives until
  the last has it (`TurnInv`); and the current player's score is told by where
  the ball and the turn are (`Unprinted`), while all others' are those of the
  parent (`ScoreInv`).  `EndInv` and `CountInv` give the one winner.  All handlers
  but the newest of a process are about to return (`ParentShape`, `ChildShape`),
  which is why nesting does no harm.  `NobodyIsLate`: with nobody late there is
  no such signal.
* `SchedulerProofs`, for any processes, programs and quanta: types, the refinement
  of `RoundRobin` (`TheHeapIsRoundRobin`), `TimeIsAccounted` and `ReadyQueueFits`.
  - The heap.  `Lists` says that an array holds the events of a set, each once,
    `IsHeap` that none comes before its parent.  `comp` is an order on a set with
    at most one end of a CPU burst or slice (`Orderly`) and need not be one with
    two, so every lemma about `insert` and `min` asks for that; under it `min` yields an
    event that no other comes before, and both keep the heap.
  - The refinement.  `HeapTells` says that the events in the heap are those of
    the places and times to which the heap is mapped, so they are `Orderly`; a
    turn handles the event that `RoundRobin` would and then dispatches as it
    does.  `CpuInv` of `RoundRobin` (the CPU is busy while anyone is ready, runs
    one process at a time, the queue holds exactly the ready ones once, nothing
    is overdue) is proved there and so holds of the heap.
  - The books.  `Right` says of one process that the time its event is due is its
    arrival, the CPU and I/O time it has had and its wait, and `Ledger` adds up
    for all: the places of `ready_queue` are those they have taken, one for each
    slice (`Taken`), and the clock is what they were given and the idle time.  A
    turn changes one line of the ledger, and the sums over all processes by as
    much.  That a sum over a sequence grows with its parts is by induction over
    the parts of `0 .. n` (`InductionUpTo`).

Only model-checked: everything about liveness and fairness, which is beyond the
prover; `NobodyIsLeftListening`, which speaks of what is ENABLED; and the other
three properties of `Foodoku` (`NothingIsMixedUp`, `BoardIsValid`, `OneGame`), for
which no proof was attempted.

## 6. Findings

* `restaurant_finish`: the cooks leave when it is late and *their* queue is
  empty; an order that a waiter has taken and not placed yet is never cooked, and
  its customer, its waiter and the `main`s of `waiter` and `customer` wait for ever
  (that of `cook` returns).
* `leader_overlap`: two runs of `follower` that read `M[1]` before either writes
  it give the same id to two followers; so does a run that joins before the
  leader has set `M[1]` to zero.
* `boating`: `main` joins nobody.  LA7.pdf says that at `EOS` "there is nothing
  left in the simulation, so the main thread deletes the synchronization and
  mutual-exclusion resources"; but a boat that has not run yet then locks the
  destroyed `bmtx` and sets up a barrier in the freed `BB` (boating.c:68-70), and
  idle boats still wait on the destroyed `boat`.  The run passes, as `RidesAreOver`
  lists the places where boats may still be; leave "init" out of them, and TLC
  shows in a moment a boat that is about to use what was freed.
* `restaurant`: `PO` is not what the comment at line 33 of the three files says,
  "used by customers for how many are waiting to place order" (LA6.pdf says the
  same).  A customer adds one when seated, the waiter takes one off when it
  serves, not when it takes the order: `PO` counts the customers that are seated
  and not served, which is what `UnservedAreCounted` states and what the waiters' going
  home relies on.

Seen while modelling and kept in the models as the code has them: a second cook
overwrites the mark `FR` of a waiter, so the first customer is served late or
not at all; `COOK_ORDERS` can become -1 when the clock goes back while the cooks
leave; a process that is swapped in does not get its essential pages back;
`deg_multiprog` stays at its start value 127 if nothing was ever swapped out; a
leader that is interrupted, or an id whose `fork` failed, leaves followers
spinning; `LRU.c` forgets a process that has no victim without counting it out
or freeing its frames; `coordinator.c` assigns where it should compare, so `s`
before the first `n` sends what the stack holds (`Junk`); a block that is asked
while it listens leaves the question unread and its own answer undefined, and
the answer that comes later is taken for a command.

## 7. What is left out

Printing and its wording, waiting times of threads, random generators (any value
in their range is possible), reading of input files (any legal content), failing
system calls other than `fork` in LA5, the programs that generate input.

* LA1 and LA11 (section 1) and the handouts: nothing in them is interleaved or
  keeps state beyond one traversal.
* `resource.c`: `get_request_node`, `dequeue` and `free_queue`, which no thread
  calls while others run.  The build without `-D_DLAVOID` is in the model
  (`DLAVOID` = FALSE) and in the theorems; the runs use the other one.
* `boating.c`: returns of `pthread_cond_wait` without a signal.  `P` does not test
  its value again, and with one a visitor would search where no boat is free.
* `waiter.c`: the overlap of one waiter's queue with the next one's, after a
  hundred reads too many.
* `demandpaging.c`, `LRU.c`: the statistics of accesses and faults, and inputs with
  more processes than frames for their essential pages, which `main` does not
  test (`PagingAssumption`, `LRUAssumption`).
* `leader.c`: a second leader, refused by `shmget`; Ctrl-C before the segment
  exists.
* `schedule.c`: the averages printed at the end.  `ReadyQueueFits` states what
  `MAXP` = 2000 must cover: the slices of all bursts, and `Init` admits no input
  that has more.  The 100 processes that `genproc.c` writes unless told otherwise
  do have more: about 3200 slices at the quantum 5 (from 1786 to 5606 in 2000
  inputs drawn as it draws them, over 2000 in 99.5 of a hundred) and about 1840
  at the quantum 10 (over 2000 in 31 of a hundred).  So with its default input
  `schedule` normally writes past `ready_queue`, which is not modelled.
* `block.c`, `boardgen.c`: how a board is drawn, `xterm`, the drawing of a block.
* `parent.c`, `child.c`: a signal before `signal` was called, or in the middle of
  reading `childpid.txt`; failures of `fork`, `exec` and `fopen`.
