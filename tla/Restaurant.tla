----------------------------- MODULE Restaurant -----------------------------
(***************************************************************************)
(* LA6: cook.c, waiter.c and customer.c, three programs whose processes    *)
(* share one segment of memory and four sets of System V semaphores.  A    *)
(* customer that finds a table queues at a waiter; the waiter places its   *)
(* order with the cooks and, when a cook has marked the food as ready,     *)
(* serves it.  TIME is a number in the shared memory that every process    *)
(* moves; sleeping takes any time, so processes run at any speed.          *)
(*                                                                         *)
(* All work on the shared memory is between WAIT(sem_mutex) and            *)
(* SIGNAL(sem_mutex), and such a section is one step here, with the WAIT   *)
(* on the process's own semaphore that stands right before it.             *)
(***************************************************************************)
EXTENDS Integers, Sequences, FiniteSets

CONSTANTS Cooks,     \* the cook processes, COOKS of them
          WAITERS,   \* number of waiters
          TABLES,    \* tables at the start
          Arrivals,  \* customers.txt: a sequence of [time, count]
          OVERRUN    \* bound: reads past the back of a queue that are followed

TIMECLOSE == 240

Waiters   == 0 .. WAITERS - 1
Customers == 1 .. Len(Arrivals)

ASSUME RestaurantAssumption ==
  /\ IsFiniteSet(Cooks) /\ Cooks # {}
  /\ WAITERS \in Nat \ {0} /\ TABLES \in Nat /\ OVERRUN \in Nat
  /\ Arrivals \in Seq([time : Nat, count : Nat \ {0}])

VARIABLES
  TIME, EMPTY_TABLES, WAITER_NEXT, COOK_ORDERS, WORKING_COOKS,
  cook_queue,          \* the cells from COOK_QUEUE_FRONT to COOK_QUEUE_BACK
  FR, PO, LEAVE,       \* for each waiter: food ready, orders open, leave
  queue,               \* for each waiter: the cells from its F to its B
  sem_cook, sem_waiter, sem_customer,
  cook, waiter, customer,    \* where each process is
  cook_job, waiter_job,      \* the order it works at, and its curr_time
  waiter_to_serve, served_time,   \* locals of the customers
  arrived,             \* customers that main of customer.c has started
  removed              \* main has removed shared memory and semaphores

cooks_vars    == <<COOK_ORDERS, WORKING_COOKS, cook_queue, sem_cook>>
waiters_vars  == <<FR, PO, LEAVE, queue, sem_waiter>>
customer_vars == <<EMPTY_TABLES, WAITER_NEXT, customer, waiter_to_serve, served_time>>
main_vars     == <<arrived, removed>>
vars == <<TIME, cooks_vars, waiters_vars, customer_vars, sem_customer,
          cook, waiter, cook_job, waiter_job, main_vars>>

Later(t) == IF t >= TIME THEN t ELSE TIME

Order(w, c, k) == [waiter |-> w, customer |-> c, count |-> k]
NoOrder        == Order(0, 0, 0)

Job(order, start) == [order |-> order, start |-> start]
NoJob             == Job(NoOrder, 0)

(***************************************************************************)
(* A queue in the shared memory is written at its back and read at its     *)
(* front, and neither looks at the other.  The segment is zero where       *)
(* nothing was written, so that a read past the back gives an order of     *)
(* customer 0, who does not exist; overrun counts the cells that the front *)
(* is ahead: as many are written behind it later, and never read.          *)
(***************************************************************************)
EmptyQueue    == [cells |-> <<>>, overrun |-> 0]
Front(q)      == IF q.cells = <<>> THEN NoOrder ELSE Head(q.cells)
Dequeue(q)    == IF q.cells = <<>> THEN [q EXCEPT !.overrun = @ + 1]
                                   ELSE [q EXCEPT !.cells = Tail(@)]
MayRead(q)    == q.cells # <<>> \/ q.overrun < OVERRUN
Enqueue(q, o) == IF q.overrun > 0 THEN [q EXCEPT !.overrun = @ - 1]
                                  ELSE [q EXCEPT !.cells = Append(@, o)]

Init ==
  /\ TIME = 0 /\ EMPTY_TABLES = TABLES /\ WAITER_NEXT = 0
  /\ COOK_ORDERS = 0 /\ WORKING_COOKS = Cardinality(Cooks)
  /\ cook_queue = EmptyQueue
  /\ FR = [w \in Waiters |-> 0] /\ PO = [w \in Waiters |-> 0]
  /\ LEAVE = [w \in Waiters |-> 0]
  /\ queue = [w \in Waiters |-> EmptyQueue]
  /\ sem_cook = 0 /\ sem_waiter = [w \in Waiters |-> 0]
  /\ sem_customer = [c \in Customers |-> 0]
  /\ cook = [k \in Cooks |-> "idle"] /\ waiter = [w \in Waiters |-> "idle"]
  /\ customer = [c \in Customers |-> "away"]
  /\ cook_job = [k \in Cooks |-> NoJob] /\ waiter_job = [w \in Waiters |-> NoJob]
  /\ waiter_to_serve = [c \in Customers |-> 0]
  /\ served_time = [c \in Customers |-> 0]
  /\ arrived = 0 /\ removed = FALSE

\* SIGNAL to customer c; nobody waits on the semaphore of customer 0.
SignalCustomer(c) ==
  sem_customer' = [d \in Customers |-> sem_customer[d] + (IF d = c THEN 1 ELSE 0)]

SignalWaiters(S) ==
  sem_waiter' = [w \in Waiters |-> sem_waiter[w] + (IF w \in S THEN 1 ELSE 0)]

-----------------------------------------------------------------------------
(* The cooks.                                                              *)

Closing(time) == time > TIMECLOSE /\ COOK_ORDERS = 0

\* Mutant of GoHome: the last cook sets LEAVE but wakes no waiter for it.
GoHomeQuietly(k, S) ==
  LET last == WORKING_COOKS = 1
  IN  /\ cook' = [cook EXCEPT ![k] = "done"]
      /\ WORKING_COOKS' = WORKING_COOKS - 1
      /\ LEAVE' = IF last THEN [w \in Waiters |-> 1] ELSE LEAVE
      /\ SignalWaiters(S)

\* A cook leaves after it signalled the waiters S; the last one tells all waiters
\* to leave.
GoHome(k, S) ==
  LET last == WORKING_COOKS = 1
  IN  /\ cook' = [cook EXCEPT ![k] = "done"]
      /\ WORKING_COOKS' = WORKING_COOKS - 1
      /\ LEAVE' = IF last THEN [w \in Waiters |-> 1] ELSE LEAVE
      /\ sem_waiter' = [w \in Waiters |->
           sem_waiter[w] + (IF w \in S THEN 1 ELSE 0) + (IF last THEN 1 ELSE 0)]

\* A cook is woken and there is nothing left to cook.
CookLeaves(k) ==
  /\ ~removed /\ cook[k] = "idle" /\ sem_cook > 0
  /\ Closing(TIME)
  /\ GoHome(k, {})
  /\ sem_cook' = sem_cook - 1
  /\ UNCHANGED <<TIME, COOK_ORDERS, cook_queue, FR, PO, queue,
                 customer_vars, sem_customer, waiter, cook_job, waiter_job, main_vars>>

\* It takes the order in front of the queue, whether there is one or not.
TakeOrder(k) ==
  /\ ~removed /\ cook[k] = "idle" /\ sem_cook > 0
  /\ ~Closing(TIME) /\ MayRead(cook_queue)
  /\ sem_cook' = sem_cook - 1
  /\ cook_job' = [cook_job EXCEPT ![k] = Job(Front(cook_queue), TIME)]
  /\ cook_queue' = Dequeue(cook_queue)
  /\ COOK_ORDERS' = COOK_ORDERS - 1
  /\ cook' = [cook EXCEPT ![k] = "cooking"]
  /\ UNCHANGED <<TIME, WORKING_COOKS, waiters_vars, customer_vars,
                 sem_customer, waiter, waiter_job, main_vars>>

\* The food is ready: the cook marks it for the waiter, and leaves if it is late
\* and no order is queued, waking the other cook so that it can leave too.
FinishOrder(k) ==
  /\ ~removed /\ cook[k] = "cooking"
  /\ LET o == cook_job[k].order
         t == Later(cook_job[k].start + 5 * o.count)
     IN  /\ TIME' = t
         /\ FR' = [FR EXCEPT ![o.waiter] = o.customer]
         /\ IF Closing(t)
              THEN /\ GoHome(k, {o.waiter})
                   /\ sem_cook' = sem_cook + (IF WORKING_COOKS = 1 THEN 0 ELSE 1)
              ELSE /\ cook' = [cook EXCEPT ![k] = "idle"]
                   /\ SignalWaiters({o.waiter})
                   /\ UNCHANGED <<WORKING_COOKS, LEAVE, sem_cook>>
  /\ cook_job' = [cook_job EXCEPT ![k] = NoJob]
  /\ UNCHANGED <<COOK_ORDERS, cook_queue, PO, queue, customer_vars, sem_customer, waiter,
                 waiter_job, main_vars>>

CookStep(k) == CookLeaves(k) \/ TakeOrder(k) \/ FinishOrder(k)

-----------------------------------------------------------------------------
(* The waiters.                                                            *)

Woken(w) == ~removed /\ waiter[w] = "idle" /\ sem_waiter[w] > 0

Told(w) == PO[w] = 0 /\ LEAVE[w] = 1

Heard(w) == sem_waiter' = [sem_waiter EXCEPT ![w] = @ - 1]

WaiterLeaves(w) ==
  /\ Woken(w) /\ Told(w)
  /\ Heard(w)
  /\ waiter' = [waiter EXCEPT ![w] = "done"]
  /\ UNCHANGED <<TIME, cooks_vars, FR, PO, LEAVE, queue, customer_vars, sem_customer,
                 cook, cook_job, waiter_job, main_vars>>

\* Mutant of Serve: the mark stays.
ServeKeepsMark(w) ==
  /\ Woken(w) /\ ~Told(w) /\ FR[w] # 0
  /\ Heard(w)
  /\ PO' = [PO EXCEPT ![w] = @ - 1]
  /\ SignalCustomer(FR[w])
  /\ UNCHANGED <<TIME, cooks_vars, FR, LEAVE, queue, customer_vars, cook, waiter,
                 cook_job, waiter_job, main_vars>>

Serve(w) ==
  /\ Woken(w) /\ ~Told(w) /\ FR[w] # 0
  /\ Heard(w)
  /\ FR' = [FR EXCEPT ![w] = 0]
  /\ PO' = [PO EXCEPT ![w] = @ - 1]
  /\ SignalCustomer(FR[w])
  /\ UNCHANGED <<TIME, cooks_vars, LEAVE, queue, customer_vars, cook, waiter,
                 cook_job, waiter_job, main_vars>>

\* Mutant of TakeFromCustomer: PO drops here already, as the comment beside PO_U
\* has it, and so counts who waits to place an order.
TakeAndDropPO(w) ==
  /\ Woken(w) /\ ~Told(w) /\ FR[w] = 0 /\ MayRead(queue[w])
  /\ Heard(w)
  /\ waiter_job' = [waiter_job EXCEPT ![w] =
                      Job([Front(queue[w]) EXCEPT !.waiter = w], TIME)]
  /\ queue' = [queue EXCEPT ![w] = Dequeue(@)]
  /\ PO' = [PO EXCEPT ![w] = @ - 1]
  /\ waiter' = [waiter EXCEPT ![w] = "placing"]
  /\ UNCHANGED <<TIME, cooks_vars, FR, LEAVE, customer_vars, sem_customer, cook,
                 cook_job, main_vars>>

\* place_order: the front of its own queue, whether there is one or not.
TakeFromCustomer(w) ==
  /\ Woken(w) /\ ~Told(w) /\ FR[w] = 0 /\ MayRead(queue[w])
  /\ Heard(w)
  /\ waiter_job' = [waiter_job EXCEPT ![w] =
                      Job([Front(queue[w]) EXCEPT !.waiter = w], TIME)]
  /\ queue' = [queue EXCEPT ![w] = Dequeue(@)]
  /\ waiter' = [waiter EXCEPT ![w] = "placing"]
  /\ UNCHANGED <<TIME, cooks_vars, FR, PO, LEAVE, customer_vars, sem_customer, cook,
                 cook_job, main_vars>>

\* Mutant of PlaceOrder: a cook is woken only when its queue was empty.
PlaceOrderOneWakeup(w) ==
  /\ ~removed /\ waiter[w] = "placing"
  /\ TIME' = Later(waiter_job[w].start + 1)
  /\ cook_queue' = Enqueue(cook_queue, waiter_job[w].order)
  /\ COOK_ORDERS' = COOK_ORDERS + 1
  /\ SignalCustomer(waiter_job[w].order.customer)
  /\ sem_cook' = sem_cook + (IF COOK_ORDERS = 0 THEN 1 ELSE 0)
  /\ waiter' = [waiter EXCEPT ![w] = "idle"]
  /\ waiter_job' = [waiter_job EXCEPT ![w] = NoJob]
  /\ UNCHANGED <<WORKING_COOKS, waiters_vars, customer_vars, cook, cook_job, main_vars>>

PlaceOrder(w) ==
  /\ ~removed /\ waiter[w] = "placing"
  /\ TIME' = Later(waiter_job[w].start + 1)
  /\ cook_queue' = Enqueue(cook_queue, waiter_job[w].order)
  /\ COOK_ORDERS' = COOK_ORDERS + 1
  /\ SignalCustomer(waiter_job[w].order.customer)
  /\ sem_cook' = sem_cook + 1
  /\ waiter' = [waiter EXCEPT ![w] = "idle"]
  /\ waiter_job' = [waiter_job EXCEPT ![w] = NoJob]
  /\ UNCHANGED <<WORKING_COOKS, waiters_vars, customer_vars, cook, cook_job, main_vars>>

WaiterStep(w) ==
  WaiterLeaves(w) \/ Serve(w) \/ TakeFromCustomer(w) \/ PlaceOrder(w)

-----------------------------------------------------------------------------
(* The customers.                                                          *)

Frame == UNCHANGED <<cooks_vars, cook, waiter, cook_job, waiter_job>>

GoTo(c, place) == customer' = [customer EXCEPT ![c] = place]

\* Late, or no table.
TurnedAway(c) ==
  /\ customer[c] = "arriving" /\ (TIME > TIMECLOSE \/ EMPTY_TABLES = 0)
  /\ GoTo(c, "done")
  /\ Frame
  /\ UNCHANGED <<TIME, waiters_vars, EMPTY_TABLES, WAITER_NEXT, waiter_to_serve,
                 served_time, sem_customer, main_vars>>

TakeTable(c) ==
  /\ customer[c] = "arriving" /\ TIME <= TIMECLOSE /\ EMPTY_TABLES # 0
  /\ LET w == WAITER_NEXT
     IN  /\ waiter_to_serve' = [waiter_to_serve EXCEPT ![c] = w]
         /\ queue' = [queue EXCEPT ![w] = Enqueue(@, Order(w, c, Arrivals[c].count))]
         /\ PO' = [PO EXCEPT ![w] = @ + 1]
         /\ SignalWaiters({w})
  /\ EMPTY_TABLES' = EMPTY_TABLES - 1
  /\ WAITER_NEXT' = (WAITER_NEXT + 1) % WAITERS
  /\ GoTo(c, "ordering")
  /\ Frame
  /\ UNCHANGED <<TIME, FR, LEAVE, served_time, sem_customer, main_vars>>

Signalled(c) == sem_customer[c] > 0 /\ sem_customer' = [sem_customer EXCEPT ![c] = @ - 1]

OrderPlaced(c) ==
  /\ customer[c] = "ordering" /\ Signalled(c)
  /\ GoTo(c, "waiting")
  /\ Frame
  /\ UNCHANGED <<TIME, waiters_vars, EMPTY_TABLES, WAITER_NEXT, waiter_to_serve,
                 served_time, main_vars>>

GetFood(c) ==
  /\ customer[c] = "waiting" /\ Signalled(c)
  /\ served_time' = [served_time EXCEPT ![c] = TIME]
  /\ GoTo(c, "eating")
  /\ Frame
  /\ UNCHANGED <<TIME, waiters_vars, EMPTY_TABLES, WAITER_NEXT, waiter_to_serve, main_vars>>

\* Mutant of FinishEating: the table is not freed.
FinishEatingKeepsTable(c) ==
  /\ customer[c] = "eating"
  /\ TIME' = served_time[c] + 30
  /\ served_time' = [served_time EXCEPT ![c] = 0]
  /\ GoTo(c, "done")
  /\ Frame
  /\ UNCHANGED <<EMPTY_TABLES, waiters_vars, WAITER_NEXT, waiter_to_serve, sem_customer,
                 main_vars>>

\* The only process that sets TIME without looking whether it is later already.
FinishEating(c) ==
  /\ customer[c] = "eating"
  /\ EMPTY_TABLES' = EMPTY_TABLES + 1
  /\ TIME' = served_time[c] + 30
  /\ served_time' = [served_time EXCEPT ![c] = 0]
  /\ GoTo(c, "done")
  /\ Frame
  /\ UNCHANGED <<waiters_vars, WAITER_NEXT, waiter_to_serve, sem_customer, main_vars>>

CustomerStep(c) ==
  TurnedAway(c) \/ TakeTable(c) \/ OrderPlaced(c) \/ GetFood(c) \/ FinishEating(c)

-----------------------------------------------------------------------------
(* main of customer.c.                                                     *)

ClockOf(c) == CHOOSE t \in {Arrivals[d].time : d \in 1 .. c} :
                \A d \in 1 .. c : Arrivals[d].time <= t

\* The next line of the file: main moves TIME on and forks the customer.
Arrive ==
  /\ arrived < Len(Arrivals)
  /\ arrived' = arrived + 1
  /\ TIME' = Later(ClockOf(arrived + 1))
  /\ GoTo(arrived + 1, "arriving")
  /\ UNCHANGED <<cooks_vars, waiters_vars, EMPTY_TABLES, WAITER_NEXT, waiter_to_serve,
                 served_time, sem_customer, cook, waiter, cook_job, waiter_job, removed>>

\* All customers have ended.
Remove ==
  /\ arrived = Len(Arrivals) /\ ~removed /\ \A c \in Customers : customer[c] = "done"
  /\ removed' = TRUE
  /\ UNCHANGED <<TIME, cooks_vars, waiters_vars, customer_vars, sem_customer, cook,
                 waiter, cook_job, waiter_job, arrived>>

\* The semaphores are gone: the next WAIT of a cook or waiter fails, and it exits.
CookExits(k) ==
  /\ removed /\ cook[k] # "done"
  /\ cook' = [cook EXCEPT ![k] = "done"]
  /\ UNCHANGED <<TIME, cooks_vars, waiters_vars, customer_vars, sem_customer, waiter,
                 cook_job, waiter_job, main_vars>>

WaiterExits(w) ==
  /\ removed /\ waiter[w] # "done"
  /\ waiter' = [waiter EXCEPT ![w] = "done"]
  /\ UNCHANGED <<TIME, cooks_vars, waiters_vars, customer_vars, sem_customer, cook,
                 cook_job, waiter_job, main_vars>>

Next ==
  \/ \E k \in Cooks : CookStep(k) \/ CookExits(k)
  \/ \E w \in Waiters : WaiterStep(w) \/ WaiterExits(w)
  \/ \E c \in Customers : CustomerStep(c)
  \/ Arrive \/ Remove

\* Every process that can run is run.
Fairness ==
  /\ \A k \in Cooks : WF_vars(CookStep(k) \/ CookExits(k))
  /\ \A w \in Waiters : WF_vars(WaiterStep(w) \/ WaiterExits(w))
  /\ \A c \in Customers : WF_vars(CustomerStep(c))
  /\ WF_vars(Arrive \/ Remove)

Spec == Init /\ [][Next]_vars /\ Fairness

-----------------------------------------------------------------------------
Orders == [waiter : Waiters, customer : Customers \cup {0}, count : Nat]
Jobs   == [order : Orders, start : Nat]
Queues == [cells : Seq(Orders), overrun : Nat]

TypeOK ==
  /\ TIME \in Nat /\ EMPTY_TABLES \in 0 .. TABLES /\ WAITER_NEXT \in Waiters
  /\ COOK_ORDERS \in Int /\ WORKING_COOKS \in 0 .. Cardinality(Cooks)
  /\ cook_queue \in Queues /\ queue \in [Waiters -> Queues]
  /\ FR \in [Waiters -> Customers \cup {0}] /\ PO \in [Waiters -> Nat]
  /\ LEAVE \in [Waiters -> {0, 1}]
  /\ sem_cook \in Nat /\ sem_waiter \in [Waiters -> Nat]
  /\ sem_customer \in [Customers -> Nat]
  /\ cook \in [Cooks -> {"idle", "cooking", "done"}]
  /\ waiter \in [Waiters -> {"idle", "placing", "done"}]
  /\ customer \in [Customers ->
       {"away", "arriving", "ordering", "waiting", "eating", "done"}]
  /\ cook_job \in [Cooks -> Jobs] /\ waiter_job \in [Waiters -> Jobs]
  /\ waiter_to_serve \in [Customers -> Waiters]
  /\ served_time \in [Customers -> Nat]
  /\ arrived \in 0 .. Len(Arrivals) /\ removed \in BOOLEAN

(***************************************************************************)
(* EMPTY_TABLES is what the seated customers leave, whatever becomes of    *)
(* their orders (customer.c:348, 417-426).                                 *)
(***************************************************************************)
Seated == {c \in Customers : customer[c] \in {"ordering", "waiting", "eating"}}

TablesAreCounted == EMPTY_TABLES = TABLES - Cardinality(Seated)

(***************************************************************************)
(* PO of a waiter is the number of its customers that were not signalled   *)
(* to take their food: a waiter that is told to leave has served all that  *)
(* it had (waiter.c:408), though it may itself take orders that nobody     *)
(* gave and marks may be overwritten.  The comment beside PO_U (line 33)   *)
(* says something else, "how many are waiting to place order": PO does not *)
(* drop when a waiter takes an order, but when it serves (lines 416-441).  *)
(***************************************************************************)
Unserved(c) == \/ customer[c] = "ordering" /\ sem_customer[c] < 2
               \/ customer[c] = "waiting" /\ sem_customer[c] = 0

UnservedAreCounted ==
  \A w \in Waiters :
    PO[w] = Cardinality({c \in Customers : Unserved(c) /\ waiter_to_serve[c] = w})

(***************************************************************************)
(* A customer's order is in one place at most on its way from the waiter's *)
(* queue to the mark, and in none once it is served: nobody is served      *)
(* twice, and food comes after the order was placed.                       *)
(***************************************************************************)
In(q, c) == Cardinality({x \in DOMAIN q.cells : q.cells[x].customer = c})

PlacesOf(c) ==
  LET w == waiter_to_serve[c]
  IN  In(queue[w], c) + In(cook_queue, c)
      + (IF waiter_job[w].order.customer = c THEN 1 ELSE 0)
      + Cardinality({k \in Cooks : cook_job[k].order.customer = c})
      + (IF FR[w] = c THEN 1 ELSE 0)

OrderInOnePlace == \A c \in Customers : PlacesOf(c) <= IF Unserved(c) THEN 1 ELSE 0

(***************************************************************************)
(* There is a wakeup for every order in the cooks' queue, and one for each *)
(* customer in a waiter's queue and for its mark.                          *)
(***************************************************************************)
NoWakeupIsLost ==
  /\ sem_cook >= COOK_ORDERS
  /\ \A w \in Waiters : sem_waiter[w] >= Len(queue[w].cells) + (IF FR[w] = 0 THEN 0 ELSE 1)

(***************************************************************************)
(* When the last cook has left, every waiter that owes nobody food leaves  *)
(* as well.                                                                *)
(***************************************************************************)
WaitersFollowCooks ==
  (WORKING_COOKS = 0) ~> (\A w \in Waiters : waiter[w] = "done" \/ PO[w] > 0)

(***************************************************************************)
(* The processes end, as the two mains that wait for all their children    *)
(* (cook.c:484, waiter.c:493) expect.                                      *)
(***************************************************************************)
AllFinish == <>((\A k \in Cooks : cook[k] = "done") /\ (\A w \in Waiters : waiter[w] = "done"))
=============================================================================
