-------------------------- MODULE RestaurantProofs --------------------------
(***************************************************************************)
(* Proofs about Restaurant, for any number of cooks, waiters and tables    *)
(* and any arrivals, in every interleaving: overwritten marks, reads past  *)
(* the back of a queue and a clock that goes back included.                *)
(*                                                                         *)
(* None of the properties is inductive.  What an order in one of its       *)
(* places says of its customer is StageInv; PO counts the customers that   *)
(* StageInv says are unserved; and only because of that count no wakeup is *)
(* left behind by a waiter that goes home.                                 *)
(***************************************************************************)
EXTENDS Restaurant, FiniteSetTheorems, TLAPS

(***************************************************************************)
(* The types as far as they do not rest on a count.                        *)
(***************************************************************************)
Shape ==
  /\ TIME \in Nat /\ EMPTY_TABLES \in Int /\ WAITER_NEXT \in Waiters
  /\ COOK_ORDERS \in Int /\ WORKING_COOKS \in Int
  /\ cook_queue \in Queues /\ queue \in [Waiters -> Queues]
  /\ FR \in [Waiters -> Customers \cup {0}] /\ PO \in [Waiters -> Int]
  /\ LEAVE \in [Waiters -> {0, 1}]
  /\ sem_cook \in Nat /\ sem_waiter \in [Waiters -> Nat]
  /\ sem_customer \in [Customers -> Nat]
  /\ cook \in [Cooks -> {"idle", "cooking", "done"}]
  /\ waiter \in [Waiters -> {"idle", "placing", "done"}]
  /\ customer \in [Customers ->
       {"away", "arriving", "ordering", "waiting", "eating", "done"}]
  /\ cook_job \in [Cooks -> Jobs] /\ waiter_job \in [Waiters -> Jobs]
  /\ waiter_to_serve \in [Customers -> Waiters]
  /\ served_time \in [Customers -> Nat]
  /\ arrived \in 0 .. Len(Arrivals) /\ removed \in BOOLEAN

(***************************************************************************)
(* The arrivals so far have a latest, which is what the clock of main      *)
(* shows: a maximum of a set that grows by one step by step.               *)
(***************************************************************************)
ClockInv ==
  arrived > 0 =>
    \E d \in 1 .. arrived : \A e \in 1 .. arrived : Arrivals[e].time <= Arrivals[d].time

(***************************************************************************)
(* What the numbers in the shared memory count.                            *)
(***************************************************************************)
AtWork == {k \in Cooks : cook[k] # "done"}

CountsInv ==
  /\ TablesAreCounted /\ EMPTY_TABLES >= 0
  /\ ~removed => WORKING_COOKS = Cardinality(AtWork)
  /\ WORKING_COOKS \in 0 .. Cardinality(Cooks)
  /\ \A c \in Customers : c > arrived => customer[c] = "away"

(***************************************************************************)
(* An order that is not yet placed is its customer's that still waits to   *)
(* be signalled a first time, and one that is placed its customer's that   *)
(* has been signalled once.                                                *)
(***************************************************************************)
Unplaced(c) == c \in Customers /\ customer[c] = "ordering" /\ sem_customer[c] = 0
Placed(c)   == c \in Customers /\ \/ customer[c] = "ordering" /\ sem_customer[c] = 1
                                  \/ customer[c] = "waiting" /\ sem_customer[c] = 0

AtWaiter(w, c) == \E x \in 1 .. Len(queue[w].cells) : queue[w].cells[x].customer = c
AtCooks(c)     == \E x \in 1 .. Len(cook_queue.cells) : cook_queue.cells[x].customer = c

Once(q) == \A x, y \in 1 .. Len(q.cells) :
             q.cells[x].customer = q.cells[y].customer /\ q.cells[x].customer # 0 => x = y

UnplacedAt(w) ==
  /\ Once(queue[w])
  /\ \A x \in 1 .. Len(queue[w].cells) :
       LET c == queue[w].cells[x].customer
       IN  Unplaced(c) /\ waiter_to_serve[c] = w
  /\ LET o == waiter_job[w].order
     IN  o.customer # 0 => /\ Unplaced(o.customer) /\ ~AtWaiter(w, o.customer)
                           /\ waiter_to_serve[o.customer] = w /\ o.waiter = w

UnplacedInv == \A w \in Waiters : UnplacedAt(w)

PlacedInv ==
  /\ Once(cook_queue)
  /\ \A x \in 1 .. Len(cook_queue.cells) :
       LET o == cook_queue.cells[x]
       IN  o.customer # 0 => Placed(o.customer) /\ waiter_to_serve[o.customer] = o.waiter
  /\ \A k \in Cooks :
       LET o == cook_job[k].order
       IN  o.customer # 0 =>
             /\ Placed(o.customer) /\ waiter_to_serve[o.customer] = o.waiter
             /\ ~AtCooks(o.customer)
             /\ \A l \in Cooks \ {k} : cook_job[l].order.customer # o.customer
  /\ \A w \in Waiters :
       FR[w] # 0 => /\ Placed(FR[w]) /\ waiter_to_serve[FR[w]] = w /\ ~AtCooks(FR[w])
                    /\ \A k \in Cooks : cook_job[k].order.customer # FR[w]

FreshInv == \A c \in Customers : customer[c] \in {"away", "arriving"} => sem_customer[c] = 0

StageInv == UnplacedInv /\ PlacedInv /\ FreshInv

-----------------------------------------------------------------------------
LEMMA Base ==
  /\ IsFiniteSet(Cooks) /\ Cooks # {} /\ Cardinality(Cooks) \in Nat
  /\ Len(Arrivals) \in Nat /\ IsFiniteSet(Customers) /\ Customers \subseteq Nat
  /\ 0 \notin Customers /\ TABLES \in Nat /\ OVERRUN \in Nat
  /\ WAITERS \in Nat /\ WAITERS > 0 /\ Waiters \subseteq Nat /\ 0 \in Waiters
  /\ \A c \in Customers : Arrivals[c].time \in Nat /\ Arrivals[c].count \in Nat
<1>1. /\ IsFiniteSet(Cooks) /\ Cooks # {} /\ TABLES \in Nat /\ OVERRUN \in Nat
      /\ WAITERS \in Nat \ {0} /\ Arrivals \in Seq([time : Nat, count : Nat \ {0}])
  BY RestaurantAssumption
<1>2. Cardinality(Cooks) \in Nat
  BY <1>1, FS_CardinalityType
<1>3. Len(Arrivals) \in Nat
  BY <1>1
<1>4. IsFiniteSet(Customers)
  BY <1>3, FS_Interval DEF Customers
<1>5. \A c \in Customers : Arrivals[c] \in [time : Nat, count : Nat \ {0}]
  <2>. DEFINE Lines == [time : Nat, count : Nat \ {0}]
  <2>1. Arrivals \in Seq(Lines)
    BY <1>1
  <2>. HIDE DEF Lines
  <2>2. \A c \in Customers : Arrivals[c] \in Lines
    BY <2>1 DEF Customers
  <2>. QED BY <2>2 DEF Lines
<1>6. Waiters \subseteq Nat /\ 0 \in Waiters
  BY <1>1 DEF Waiters
<1>7. Customers \subseteq Nat /\ 0 \notin Customers
  BY <1>3 DEF Customers
<1>8. \A c \in Customers : Arrivals[c].time \in Nat /\ Arrivals[c].count \in Nat
  BY <1>5
<1>9. WAITERS \in Nat /\ WAITERS > 0
  BY <1>1
<1>. QED BY <1>1, <1>2, <1>3, <1>4, <1>6, <1>7, <1>8, <1>9

\* Orders, jobs and queues.
LEMMA NoOrderTypes ==
  /\ NoOrder \in Orders /\ NoOrder.customer = 0 /\ NoOrder.waiter = 0
  /\ NoJob \in Jobs /\ NoJob.order = NoOrder
  /\ EmptyQueue \in Queues /\ EmptyQueue.cells = <<>> /\ Len(EmptyQueue.cells) = 0
BY Base DEF NoOrder, Order, NoJob, Job, EmptyQueue, Orders, Jobs, Queues

LEMMA EnqueueFacts ==
  ASSUME NEW q \in Queues, NEW o \in Orders
  PROVE  /\ Enqueue(q, o) \in Queues
         /\ Len(Enqueue(q, o).cells) <= Len(q.cells) + 1
         /\ \A x \in 1 .. Len(Enqueue(q, o).cells) :
              Enqueue(q, o).cells[x] = o \/ (x \in 1 .. Len(q.cells) /\ Enqueue(q, o).cells[x] = q.cells[x])
         /\ Once(q) /\ (\A x \in 1 .. Len(q.cells) : q.cells[x].customer = o.customer => o.customer = 0)
              => Once(Enqueue(q, o))
<1>1. q.cells \in Seq(Orders) /\ q.overrun \in Nat /\ Len(q.cells) \in Nat
  BY DEF Queues
<1>2. CASE q.overrun > 0
  <2>1. Enqueue(q, o) = [q EXCEPT !.overrun = @ - 1]
    BY <1>2 DEF Enqueue
  <2>2. Enqueue(q, o).cells = q.cells /\ Enqueue(q, o) \in Queues
    BY <1>1, <1>2, <2>1 DEF Queues
  <2>. QED BY <1>1, <2>2 DEF Once
<1>3. CASE ~(q.overrun > 0)
  <2>1. Enqueue(q, o) = [q EXCEPT !.cells = Append(@, o)]
    BY <1>3 DEF Enqueue
  <2>. DEFINE s == Append(q.cells, o)
  <2>2. Enqueue(q, o).cells = s /\ s \in Seq(Orders) /\ Enqueue(q, o) \in Queues
    BY <1>1, <2>1, SMTT(30) DEF Queues
  <2>3. /\ Len(s) = Len(q.cells) + 1 /\ s[Len(q.cells) + 1] = o
        /\ \A x \in 1 .. Len(q.cells) : s[x] = q.cells[x]
    BY <1>1
  <2>4. \A x \in 1 .. Len(s) : x \in 1 .. Len(q.cells) \/ x = Len(q.cells) + 1
    BY <1>1, <2>3
  <2>. HIDE DEF s
  <2>. QED BY <1>1, <2>2, <2>3, <2>4, SMTT(30) DEF Once
<1>. QED BY <1>2, <1>3

LEMMA DequeueFacts ==
  ASSUME NEW q \in Queues
  PROVE  /\ Dequeue(q) \in Queues /\ Front(q) \in Orders
         /\ \/ q.cells = <<>> /\ Front(q) = NoOrder /\ Dequeue(q).cells = <<>>
            \/ /\ Len(q.cells) > 0 /\ Len(Dequeue(q).cells) = Len(q.cells) - 1
               /\ Front(q) = q.cells[1]
               /\ \A x \in 1 .. Len(Dequeue(q).cells) :
                    x + 1 \in 1 .. Len(q.cells) /\ Dequeue(q).cells[x] = q.cells[x + 1]
         /\ Once(q) => Once(Dequeue(q))
<1>1. q.cells \in Seq(Orders) /\ q.overrun \in Nat /\ Len(q.cells) \in Nat
  BY DEF Queues
<1>2. CASE q.cells = <<>>
  <2>1. Dequeue(q) = [q EXCEPT !.overrun = @ + 1] /\ Front(q) = NoOrder
    BY <1>2 DEF Dequeue, Front
  <2>2. Dequeue(q).cells = q.cells /\ Dequeue(q) \in Queues
    BY <1>1, <2>1 DEF Queues
  <2>. QED BY <1>2, <2>1, <2>2, NoOrderTypes DEF Once
<1>3. CASE q.cells # <<>>
  <2>1. Dequeue(q) = [q EXCEPT !.cells = Tail(@)] /\ Front(q) = Head(q.cells)
    BY <1>3 DEF Dequeue, Front
  <2>. DEFINE s == Tail(q.cells)
  <2>2. Dequeue(q).cells = s /\ s \in Seq(Orders) /\ Dequeue(q) \in Queues
    BY <1>1, <1>3, <2>1 DEF Queues
  <2>3. /\ Len(q.cells) > 0 /\ Len(s) = Len(q.cells) - 1 /\ Head(q.cells) = q.cells[1]
        /\ q.cells[1] \in Orders
        /\ \A x \in 1 .. Len(q.cells) - 1 : s[x] = q.cells[x + 1]
    BY <1>1, <1>3
  <2>4. \A x \in 1 .. Len(s) : x \in Nat /\ x + 1 \in 1 .. Len(q.cells)
    BY <1>1, <2>3
  <2>. HIDE DEF s
  <2>5. Once(q) => Once(Dequeue(q))
    <3>. SUFFICES ASSUME Once(q), NEW x \in 1 .. Len(s), NEW y \in 1 .. Len(s),
                         s[x].customer = s[y].customer, s[x].customer # 0
                  PROVE  x = y
      BY <2>2 DEF Once
    <3>1. x + 1 = y + 1
      BY <2>3, <2>4 DEF Once
    <3>. QED BY <2>4, <3>1
  <2>. QED BY <1>1, <2>1, <2>2, <2>3, <2>4, <2>5
<1>. QED BY <1>2, <1>3

\* The steps, one by one.
LEMMA Steps ==
  ASSUME [Next]_vars
  PROVE  \/ \E k \in Cooks : CookLeaves(k) \/ TakeOrder(k) \/ FinishOrder(k) \/ CookExits(k)
         \/ \E w \in Waiters : \/ WaiterLeaves(w) \/ Serve(w) \/ TakeFromCustomer(w)
                              \/ PlaceOrder(w) \/ WaiterExits(w)
         \/ \E c \in Customers : \/ TurnedAway(c) \/ TakeTable(c) \/ OrderPlaced(c)
                                \/ GetFood(c) \/ FinishEating(c)
         \/ Arrive \/ Remove \/ UNCHANGED vars
BY DEF Next, CookStep, WaiterStep, CustomerStep

-----------------------------------------------------------------------------
(* Shapes, and the clock of main.                                          *)

\* What SIGNAL does to the semaphores, and Later to the clock.
LEMMA SignalTypes ==
  ASSUME Shape, NEW S, NEW k, NEW c
  PROVE  /\ SignalWaiters(S) => sem_waiter' \in [Waiters -> Nat]
         /\ GoHome(k, S) => sem_waiter' \in [Waiters -> Nat]
         /\ SignalCustomer(c) => sem_customer' \in [Customers -> Nat]
<1>1. \A w \in Waiters : sem_waiter[w] \in Nat
  BY DEF Shape
<1>2. \A d \in Customers : sem_customer[d] \in Nat
  BY DEF Shape
<1>3. ASSUME SignalWaiters(S) PROVE sem_waiter' \in [Waiters -> Nat]
  <2>1. \A w \in Waiters : sem_waiter[w] + (IF w \in S THEN 1 ELSE 0) \in Nat
    BY <1>1
  <2>. QED BY <1>3, <2>1 DEF SignalWaiters
<1>4. ASSUME GoHome(k, S) PROVE sem_waiter' \in [Waiters -> Nat]
  <2>. DEFINE last == WORKING_COOKS = 1
  <2>1. sem_waiter' = [w \in Waiters |-> sem_waiter[w] + (IF w \in S THEN 1 ELSE 0)
                                                    + (IF last THEN 1 ELSE 0)]
    BY <1>4 DEF GoHome
  <2>. HIDE DEF last
  <2>2. \A w \in Waiters : sem_waiter[w] + (IF w \in S THEN 1 ELSE 0)
                           + (IF last THEN 1 ELSE 0) \in Nat
    BY <1>1
  <2>. QED BY <2>1, <2>2
<1>5. ASSUME SignalCustomer(c) PROVE sem_customer' \in [Customers -> Nat]
  <2>1. \A d \in Customers : sem_customer[d] + (IF d = c THEN 1 ELSE 0) \in Nat
    BY <1>2
  <2>. QED BY <1>5, <2>1 DEF SignalCustomer
<1>. QED BY <1>3, <1>4, <1>5

LEMMA LaterTypes ==
  ASSUME Shape
  PROVE  /\ \A t \in Nat : Later(t) \in Nat
         /\ \A t, x \in Nat : Later(t + 5 * x) \in Nat
<1>1. \A t \in Nat : Later(t) \in Nat
  BY DEF Shape, Later
<1>2. \A t, x \in Nat : t + 5 * x \in Nat
  OBVIOUS
<1>. QED BY <1>1, <1>2

LEMMA ShapeInit == Init => Shape /\ ClockInv
<1>. SUFFICES ASSUME Init PROVE Shape /\ ClockInv
  OBVIOUS
<1>1. /\ TIME \in Nat /\ EMPTY_TABLES \in Int /\ WAITER_NEXT \in Waiters
      /\ COOK_ORDERS \in Int /\ WORKING_COOKS \in Int /\ sem_cook \in Nat
      /\ arrived \in 0 .. Len(Arrivals)
  <2>1. /\ TIME = 0 /\ EMPTY_TABLES = TABLES /\ WAITER_NEXT = 0 /\ COOK_ORDERS = 0
        /\ WORKING_COOKS = Cardinality(Cooks) /\ sem_cook = 0 /\ arrived = 0
    BY DEF Init
  <2>2. TABLES \in Int /\ Cardinality(Cooks) \in Int /\ 0 \in 0 .. Len(Arrivals) /\ 0 \in Waiters
    BY Base
  <2>. QED BY <2>1, <2>2
<1>2. /\ cook_queue \in Queues /\ queue \in [Waiters -> Queues]
      /\ cook_job \in [Cooks -> Jobs] /\ waiter_job \in [Waiters -> Jobs]
  BY NoOrderTypes DEF Init
<1>3. /\ FR \in [Waiters -> Customers \cup {0}] /\ PO \in [Waiters -> Int]
      /\ LEAVE \in [Waiters -> {0, 1}] /\ sem_waiter \in [Waiters -> Nat]
      /\ cook \in [Cooks -> {"idle", "cooking", "done"}]
      /\ waiter \in [Waiters -> {"idle", "placing", "done"}]
  BY DEF Init
<1>4. /\ sem_customer \in [Customers -> Nat] /\ served_time \in [Customers -> Nat]
      /\ customer \in [Customers ->
           {"away", "arriving", "ordering", "waiting", "eating", "done"}]
      /\ waiter_to_serve \in [Customers -> Waiters]
  BY Base DEF Init
<1>5. ClockInv
  BY DEF Init, ClockInv
<1>6. removed \in BOOLEAN
  BY DEF Init
<1>. QED BY <1>1, <1>2, <1>3, <1>4, <1>5, <1>6 DEF Shape

LEMMA ShapeStep ==
  ASSUME Shape, ClockInv, [Next]_vars
  PROVE  Shape' /\ ClockInv'
<1>1. ASSUME NEW k \in Cooks, CookLeaves(k) PROVE Shape' /\ ClockInv'
  <2>1. cook' \in [Cooks -> {"idle", "cooking", "done"}]
    BY <1>1 DEF Shape, CookLeaves, GoHome, cooks_vars, waiters_vars
  <2>2. WORKING_COOKS' \in Int
    BY <1>1 DEF Shape, CookLeaves, GoHome, cooks_vars, waiters_vars
  <2>3. LEAVE' \in [Waiters -> {0, 1}]
    BY <1>1 DEF Shape, CookLeaves, GoHome, cooks_vars, waiters_vars
  <2>4. sem_waiter' \in [Waiters -> Nat]
    BY <1>1, SignalTypes DEF CookLeaves
  <2>5. sem_cook' \in Nat
    BY <1>1 DEF Shape, CookLeaves, GoHome, cooks_vars, waiters_vars
  <2>6. UNCHANGED <<TIME, EMPTY_TABLES, WAITER_NEXT, COOK_ORDERS, cook_queue, queue, FR,
                  PO, sem_customer, waiter, customer, cook_job, waiter_job,
                  waiter_to_serve, served_time, arrived, removed>>
    BY <1>1 DEF CookLeaves, GoHome, Frame, cooks_vars, waiters_vars, customer_vars, main_vars
  <2>. QED BY <2>1, <2>2, <2>3, <2>4, <2>5, <2>6 DEF Shape, ClockInv
<1>2. ASSUME NEW k \in Cooks, TakeOrder(k) PROVE Shape' /\ ClockInv'
  <2>1. Front(cook_queue) \in Orders /\ Dequeue(cook_queue) \in Queues
    BY DequeueFacts DEF Shape
  <2>2. Job(Front(cook_queue), TIME) \in Jobs
    BY <2>1 DEF Shape, Job, Jobs
  <2>3. sem_cook' \in Nat
    BY <1>2, <2>1, <2>2 DEF Shape, TakeOrder, cooks_vars, waiters_vars
  <2>4. cook_job' \in [Cooks -> Jobs]
    BY <1>2, <2>1, <2>2, NoOrderTypes DEF Shape, TakeOrder, cooks_vars, waiters_vars
  <2>5. cook_queue' \in Queues
    BY <1>2, <2>1, <2>2 DEF Shape, TakeOrder, cooks_vars, waiters_vars
  <2>6. COOK_ORDERS' \in Int
    BY <1>2, <2>1, <2>2 DEF Shape, TakeOrder, cooks_vars, waiters_vars
  <2>7. cook' \in [Cooks -> {"idle", "cooking", "done"}]
    BY <1>2, <2>1, <2>2 DEF Shape, TakeOrder, cooks_vars, waiters_vars
  <2>8. UNCHANGED <<TIME, EMPTY_TABLES, WAITER_NEXT, WORKING_COOKS, queue, FR, PO, LEAVE,
                  sem_waiter, sem_customer, waiter, customer, waiter_job,
                  waiter_to_serve, served_time, arrived, removed>>
    BY <1>2 DEF TakeOrder, Frame, cooks_vars, waiters_vars, customer_vars, main_vars
  <2>. QED BY <2>1, <2>2, <2>3, <2>4, <2>5, <2>6, <2>7, <2>8 DEF Shape, ClockInv
<1>3. ASSUME NEW k \in Cooks, FinishOrder(k) PROVE Shape' /\ ClockInv'
  <2>1. /\ cook_job[k].order.waiter \in Waiters /\ cook_job[k].order.count \in Nat
        /\ cook_job[k].order.customer \in Customers \cup {0} /\ cook_job[k].start \in Nat
    BY DEF Shape, Jobs, Orders
  <2>2. Later(cook_job[k].start + 5 * cook_job[k].order.count) \in Nat
    BY <2>1, LaterTypes
  <2>3. TIME' \in Nat
    BY <1>3, <2>1, <2>2 DEF Shape, FinishOrder, GoHome, SignalWaiters, cooks_vars, waiters_vars
  <2>4. FR' \in [Waiters -> Customers \cup {0}]
    BY <1>3, <2>1, <2>2 DEF Shape, FinishOrder, GoHome, SignalWaiters, cooks_vars, waiters_vars
  <2>5. cook' \in [Cooks -> {"idle", "cooking", "done"}]
    BY <1>3, <2>1, <2>2 DEF Shape, FinishOrder, GoHome, SignalWaiters, cooks_vars, waiters_vars
  <2>6. WORKING_COOKS' \in Int
    BY <1>3, <2>1, <2>2 DEF Shape, FinishOrder, GoHome, SignalWaiters, cooks_vars, waiters_vars
  <2>7. LEAVE' \in [Waiters -> {0, 1}]
    BY <1>3, <2>1, <2>2, SMTT(30) DEF Shape, FinishOrder, GoHome, SignalWaiters, cooks_vars, waiters_vars
  <2>8. sem_waiter' \in [Waiters -> Nat]
    BY <1>3, SignalTypes DEF FinishOrder
  <2>9. sem_cook' \in Nat
    BY <1>3 DEF Shape, FinishOrder
  <2>10. cook_job' \in [Cooks -> Jobs]
    BY <1>3, <2>1, <2>2, NoOrderTypes DEF Shape, FinishOrder, GoHome, SignalWaiters, cooks_vars, waiters_vars
  <2>11. UNCHANGED <<EMPTY_TABLES, WAITER_NEXT, COOK_ORDERS, cook_queue, queue, PO,
                  sem_customer, waiter, customer, waiter_job, waiter_to_serve,
                  served_time, arrived, removed>>
    BY <1>3 DEF FinishOrder, GoHome, SignalWaiters, Frame, cooks_vars, waiters_vars, customer_vars, main_vars
  <2>. QED BY <2>1, <2>2, <2>3, <2>4, <2>5, <2>6, <2>7, <2>8, <2>9, <2>10, <2>11 DEF Shape, ClockInv
<1>4. ASSUME NEW k \in Cooks, CookExits(k) PROVE Shape' /\ ClockInv'
  <2>1. cook' \in [Cooks -> {"idle", "cooking", "done"}]
    BY <1>4 DEF Shape, CookExits, cooks_vars, waiters_vars
  <2>2. UNCHANGED <<TIME, EMPTY_TABLES, WAITER_NEXT, COOK_ORDERS, WORKING_COOKS,
                  cook_queue, queue, FR, PO, LEAVE, sem_cook, sem_waiter, sem_customer,
                  waiter, customer, cook_job, waiter_job, waiter_to_serve, served_time,
                  arrived, removed>>
    BY <1>4 DEF CookExits, Frame, cooks_vars, waiters_vars, customer_vars, main_vars
  <2>. QED BY <2>1, <2>2 DEF Shape, ClockInv
<1>5. ASSUME NEW w \in Waiters, WaiterLeaves(w) PROVE Shape' /\ ClockInv'
  <2>1. sem_waiter' \in [Waiters -> Nat]
    BY <1>5 DEF Shape, WaiterLeaves, Woken, Heard
  <2>2. waiter' \in [Waiters -> {"idle", "placing", "done"}]
    BY <1>5 DEF Shape, WaiterLeaves, Heard, cooks_vars, waiters_vars
  <2>3. UNCHANGED <<TIME, EMPTY_TABLES, WAITER_NEXT, COOK_ORDERS, WORKING_COOKS,
                  cook_queue, queue, FR, PO, LEAVE, sem_cook, sem_customer, cook,
                  customer, cook_job, waiter_job, waiter_to_serve, served_time, arrived,
                  removed>>
    BY <1>5 DEF WaiterLeaves, Heard, Frame, cooks_vars, waiters_vars, customer_vars, main_vars
  <2>. QED BY <2>1, <2>2, <2>3 DEF Shape, ClockInv
<1>6. ASSUME NEW w \in Waiters, Serve(w) PROVE Shape' /\ ClockInv'
  <2>1. sem_waiter' \in [Waiters -> Nat]
    BY <1>6 DEF Shape, Serve, Woken, Heard
  <2>2. FR' \in [Waiters -> Customers \cup {0}]
    BY <1>6 DEF Shape, Serve, Heard, SignalCustomer, cooks_vars, waiters_vars
  <2>3. PO' \in [Waiters -> Int]
    BY <1>6 DEF Shape, Serve, Heard, SignalCustomer, cooks_vars, waiters_vars
  <2>4. sem_customer' \in [Customers -> Nat]
    BY <1>6, SignalTypes DEF Serve
  <2>5. UNCHANGED <<TIME, EMPTY_TABLES, WAITER_NEXT, COOK_ORDERS, WORKING_COOKS,
                  cook_queue, queue, LEAVE, sem_cook, cook, waiter, customer, cook_job,
                  waiter_job, waiter_to_serve, served_time, arrived, removed>>
    BY <1>6 DEF Serve, Heard, SignalCustomer, Frame, cooks_vars, waiters_vars, customer_vars, main_vars
  <2>. QED BY <2>1, <2>2, <2>3, <2>4, <2>5 DEF Shape, ClockInv
<1>7. ASSUME NEW w \in Waiters, TakeFromCustomer(w) PROVE Shape' /\ ClockInv'
  <2>1. Front(queue[w]) \in Orders /\ Dequeue(queue[w]) \in Queues
    BY DequeueFacts DEF Shape
  <2>2. [Front(queue[w]) EXCEPT !.waiter = w] \in Orders
    BY <2>1 DEF Orders
  <2>3. Job([Front(queue[w]) EXCEPT !.waiter = w], TIME) \in Jobs
    BY <2>2 DEF Shape, Job, Jobs
  <2>4. sem_waiter' \in [Waiters -> Nat]
    BY <1>7 DEF Shape, TakeFromCustomer, Woken, Heard
  <2>5. waiter_job' \in [Waiters -> Jobs]
    BY <1>7, <2>1, <2>2, <2>3, NoOrderTypes DEF Shape, TakeFromCustomer, Heard, cooks_vars, waiters_vars
  <2>6. queue' \in [Waiters -> Queues]
    BY <1>7, <2>1, <2>2, <2>3 DEF Shape, TakeFromCustomer, Heard, cooks_vars, waiters_vars
  <2>7. waiter' \in [Waiters -> {"idle", "placing", "done"}]
    BY <1>7, <2>1, <2>2, <2>3 DEF Shape, TakeFromCustomer, Heard, cooks_vars, waiters_vars
  <2>8. UNCHANGED <<TIME, EMPTY_TABLES, WAITER_NEXT, COOK_ORDERS, WORKING_COOKS,
                  cook_queue, FR, PO, LEAVE, sem_cook, sem_customer, cook, customer,
                  cook_job, waiter_to_serve, served_time, arrived, removed>>
    BY <1>7 DEF TakeFromCustomer, Heard, Frame, cooks_vars, waiters_vars, customer_vars, main_vars
  <2>. QED BY <2>1, <2>2, <2>3, <2>4, <2>5, <2>6, <2>7, <2>8 DEF Shape, ClockInv
<1>8. ASSUME NEW w \in Waiters, PlaceOrder(w) PROVE Shape' /\ ClockInv'
  <2>1. waiter_job[w].order \in Orders /\ waiter_job[w].start \in Nat
    BY DEF Shape, Jobs
  <2>2. Enqueue(cook_queue, waiter_job[w].order) \in Queues
    BY <2>1, EnqueueFacts DEF Shape
  <2>3. Later(waiter_job[w].start + 1) \in Nat
    BY <2>1, LaterTypes
  <2>4. TIME' \in Nat
    BY <1>8, <2>1, <2>2, <2>3 DEF Shape, PlaceOrder, SignalCustomer, cooks_vars, waiters_vars
  <2>5. cook_queue' \in Queues
    BY <1>8, <2>1, <2>2, <2>3 DEF Shape, PlaceOrder, SignalCustomer, cooks_vars, waiters_vars
  <2>6. COOK_ORDERS' \in Int
    BY <1>8, <2>1, <2>2, <2>3 DEF Shape, PlaceOrder, SignalCustomer, cooks_vars, waiters_vars
  <2>7. sem_customer' \in [Customers -> Nat]
    BY <1>8, SignalTypes DEF PlaceOrder
  <2>8. sem_cook' \in Nat
    BY <1>8, <2>1, <2>2, <2>3 DEF Shape, PlaceOrder, SignalCustomer, cooks_vars, waiters_vars
  <2>9. waiter' \in [Waiters -> {"idle", "placing", "done"}]
    BY <1>8, <2>1, <2>2, <2>3 DEF Shape, PlaceOrder, SignalCustomer, cooks_vars, waiters_vars
  <2>10. waiter_job' \in [Waiters -> Jobs]
    BY <1>8, <2>1, <2>2, <2>3, NoOrderTypes DEF Shape, PlaceOrder, SignalCustomer, cooks_vars, waiters_vars
  <2>11. UNCHANGED <<EMPTY_TABLES, WAITER_NEXT, WORKING_COOKS, queue, FR, PO, LEAVE,
                  sem_waiter, cook, customer, cook_job, waiter_to_serve, served_time,
                  arrived, removed>>
    BY <1>8 DEF PlaceOrder, SignalCustomer, Frame, cooks_vars, waiters_vars, customer_vars, main_vars
  <2>. QED BY <2>1, <2>2, <2>3, <2>4, <2>5, <2>6, <2>7, <2>8, <2>9, <2>10, <2>11 DEF Shape, ClockInv
<1>9. ASSUME NEW w \in Waiters, WaiterExits(w) PROVE Shape' /\ ClockInv'
  <2>1. waiter' \in [Waiters -> {"idle", "placing", "done"}]
    BY <1>9 DEF Shape, WaiterExits, cooks_vars, waiters_vars
  <2>2. UNCHANGED <<TIME, EMPTY_TABLES, WAITER_NEXT, COOK_ORDERS, WORKING_COOKS,
                  cook_queue, queue, FR, PO, LEAVE, sem_cook, sem_waiter, sem_customer,
                  cook, customer, cook_job, waiter_job, waiter_to_serve, served_time,
                  arrived, removed>>
    BY <1>9 DEF WaiterExits, Frame, cooks_vars, waiters_vars, customer_vars, main_vars
  <2>. QED BY <2>1, <2>2 DEF Shape, ClockInv
<1>10. ASSUME NEW c \in Customers, TurnedAway(c) PROVE Shape' /\ ClockInv'
  <2>1. customer' \in [Customers -> {"away", "arriving", "ordering", "waiting", "eating", "done"}]
    BY <1>10 DEF Shape, TurnedAway, GoTo, cooks_vars, waiters_vars
  <2>2. UNCHANGED <<TIME, EMPTY_TABLES, WAITER_NEXT, COOK_ORDERS, WORKING_COOKS,
                  cook_queue, queue, FR, PO, LEAVE, sem_cook, sem_waiter, sem_customer,
                  cook, waiter, cook_job, waiter_job, waiter_to_serve, served_time,
                  arrived, removed>>
    BY <1>10 DEF TurnedAway, GoTo, Frame, cooks_vars, waiters_vars, customer_vars, main_vars
  <2>. QED BY <2>1, <2>2 DEF Shape, ClockInv
<1>11. ASSUME NEW c \in Customers, TakeTable(c) PROVE Shape' /\ ClockInv'
  <2>1. Order(WAITER_NEXT, c, Arrivals[c].count) \in Orders
    BY Base DEF Shape, Order, Orders
  <2>2. Enqueue(queue[WAITER_NEXT], Order(WAITER_NEXT, c, Arrivals[c].count)) \in Queues
    BY <2>1, EnqueueFacts DEF Shape
  <2>3. (WAITER_NEXT + 1) % WAITERS \in Waiters
    BY Base, SMTT(30) DEF Shape, Waiters
  <2>4. waiter_to_serve' \in [Customers -> Waiters]
    BY <1>11, <2>1, <2>2, <2>3 DEF Shape, TakeTable, GoTo, SignalWaiters, cooks_vars, waiters_vars
  <2>5. queue' \in [Waiters -> Queues]
    BY <1>11, <2>1, <2>2, <2>3 DEF Shape, TakeTable, GoTo, SignalWaiters, cooks_vars, waiters_vars
  <2>6. PO' \in [Waiters -> Int]
    BY <1>11, <2>1, <2>2, <2>3 DEF Shape, TakeTable, GoTo, SignalWaiters, cooks_vars, waiters_vars
  <2>7. sem_waiter' \in [Waiters -> Nat]
    BY <1>11, SignalTypes DEF TakeTable
  <2>8. EMPTY_TABLES' \in Int
    BY <1>11, <2>1, <2>2, <2>3 DEF Shape, TakeTable, GoTo, SignalWaiters, cooks_vars, waiters_vars
  <2>9. WAITER_NEXT' \in Waiters
    BY <1>11, <2>1, <2>2, <2>3 DEF Shape, TakeTable, GoTo, SignalWaiters, cooks_vars, waiters_vars
  <2>10. customer' \in [Customers -> {"away", "arriving", "ordering", "waiting", "eating", "done"}]
    BY <1>11, <2>1, <2>2, <2>3 DEF Shape, TakeTable, GoTo, SignalWaiters, cooks_vars, waiters_vars
  <2>11. UNCHANGED <<TIME, COOK_ORDERS, WORKING_COOKS, cook_queue, FR, LEAVE, sem_cook,
                  sem_customer, cook, waiter, cook_job, waiter_job, served_time,
                  arrived, removed>>
    BY <1>11 DEF TakeTable, GoTo, SignalWaiters, Frame, cooks_vars, waiters_vars, customer_vars, main_vars
  <2>. QED BY <2>1, <2>2, <2>3, <2>4, <2>5, <2>6, <2>7, <2>8, <2>9, <2>10, <2>11 DEF Shape, ClockInv
<1>12. ASSUME NEW c \in Customers, OrderPlaced(c) PROVE Shape' /\ ClockInv'
  <2>1. sem_customer' \in [Customers -> Nat]
    BY <1>12 DEF Shape, OrderPlaced, GoTo, Signalled, cooks_vars, waiters_vars
  <2>2. customer' \in [Customers -> {"away", "arriving", "ordering", "waiting", "eating", "done"}]
    BY <1>12 DEF Shape, OrderPlaced, GoTo, Signalled, cooks_vars, waiters_vars
  <2>3. UNCHANGED <<TIME, EMPTY_TABLES, WAITER_NEXT, COOK_ORDERS, WORKING_COOKS,
                  cook_queue, queue, FR, PO, LEAVE, sem_cook, sem_waiter, cook, waiter,
                  cook_job, waiter_job, waiter_to_serve, served_time, arrived, removed>>
    BY <1>12 DEF OrderPlaced, GoTo, Signalled, Frame, cooks_vars, waiters_vars, customer_vars, main_vars
  <2>. QED BY <2>1, <2>2, <2>3 DEF Shape, ClockInv
<1>13. ASSUME NEW c \in Customers, GetFood(c) PROVE Shape' /\ ClockInv'
  <2>1. sem_customer' \in [Customers -> Nat]
    BY <1>13 DEF Shape, GetFood, GoTo, Signalled, cooks_vars, waiters_vars
  <2>2. served_time' \in [Customers -> Nat]
    BY <1>13 DEF Shape, GetFood, GoTo, Signalled, cooks_vars, waiters_vars
  <2>3. customer' \in [Customers -> {"away", "arriving", "ordering", "waiting", "eating", "done"}]
    BY <1>13 DEF Shape, GetFood, GoTo, Signalled, cooks_vars, waiters_vars
  <2>4. UNCHANGED <<TIME, EMPTY_TABLES, WAITER_NEXT, COOK_ORDERS, WORKING_COOKS,
                  cook_queue, queue, FR, PO, LEAVE, sem_cook, sem_waiter, cook, waiter,
                  cook_job, waiter_job, waiter_to_serve, arrived, removed>>
    BY <1>13 DEF GetFood, GoTo, Signalled, Frame, cooks_vars, waiters_vars, customer_vars, main_vars
  <2>. QED BY <2>1, <2>2, <2>3, <2>4 DEF Shape, ClockInv
<1>14. ASSUME NEW c \in Customers, FinishEating(c) PROVE Shape' /\ ClockInv'
  <2>1. EMPTY_TABLES' \in Int
    BY <1>14 DEF Shape, FinishEating, GoTo, cooks_vars, waiters_vars
  <2>2. TIME' \in Nat
    BY <1>14 DEF Shape, FinishEating, GoTo, cooks_vars, waiters_vars
  <2>3. served_time' \in [Customers -> Nat]
    BY <1>14 DEF Shape, FinishEating, GoTo, cooks_vars, waiters_vars
  <2>4. customer' \in [Customers -> {"away", "arriving", "ordering", "waiting", "eating", "done"}]
    BY <1>14 DEF Shape, FinishEating, GoTo, cooks_vars, waiters_vars
  <2>5. UNCHANGED <<WAITER_NEXT, COOK_ORDERS, WORKING_COOKS, cook_queue, queue, FR, PO,
                  LEAVE, sem_cook, sem_waiter, sem_customer, cook, waiter, cook_job,
                  waiter_job, waiter_to_serve, arrived, removed>>
    BY <1>14 DEF FinishEating, GoTo, Frame, cooks_vars, waiters_vars, customer_vars, main_vars
  <2>. QED BY <2>1, <2>2, <2>3, <2>4, <2>5 DEF Shape, ClockInv
<1>15. ASSUME Arrive PROVE Shape' /\ ClockInv'
  <2>. DEFINE b == arrived + 1
              T == {Arrivals[d].time : d \in 1 .. b}
  <2>1. arrived \in Nat /\ b \in Nat /\ b \in 0 .. Len(Arrivals) /\ arrived' = b
    BY Base, <1>15 DEF Shape, Arrive
  <2>2. /\ \A d \in 1 .. b : d \in Customers /\ (d = b \/ d \in 1 .. arrived)
        /\ b \in 1 .. b /\ \A d \in 1 .. arrived : d \in 1 .. b
    BY Base, <2>1 DEF Customers
  <2>. HIDE DEF b
  <2>3. \A d \in 1 .. b : Arrivals[d].time \in Nat
    BY Base, <2>2
  <2>4. \E d \in 1 .. b : \A e \in 1 .. b : Arrivals[e].time <= Arrivals[d].time
    <3>1. CASE arrived = 0
      <4>1. \A e \in 1 .. b : e = b
        BY <2>1, <2>2, <3>1
      <4>. QED BY <2>2, <2>3, <4>1
    <3>2. CASE arrived > 0
      <4>1. PICK d \in 1 .. arrived : \A e \in 1 .. arrived : Arrivals[e].time <= Arrivals[d].time
        BY <3>2 DEF ClockInv
      <4>2. CASE Arrivals[b].time <= Arrivals[d].time
        <5>1. \A e \in 1 .. b : Arrivals[e].time <= Arrivals[d].time
          BY <2>2, <4>1, <4>2
        <5>. QED BY <2>2, <5>1
      <4>3. CASE ~(Arrivals[b].time <= Arrivals[d].time)
        <5>1. \A e \in 1 .. b : Arrivals[e].time <= Arrivals[b].time
          BY <2>2, <2>3, <4>1, <4>3
        <5>. QED BY <2>2, <5>1
      <4>. QED BY <4>2, <4>3
    <3>. QED BY <2>1, <3>1, <3>2
  <2>5. \E t \in T : \A d \in 1 .. b : Arrivals[d].time <= t
    BY <2>4
  <2>6. ClockOf(b) \in T
    <3>. HIDE DEF T
    <3>1. ClockOf(b) = CHOOSE t \in T : \A d \in 1 .. b : Arrivals[d].time <= t
      BY DEF ClockOf, T
    <3>. QED BY <2>5, <3>1, Zenon
  <2>7. Later(ClockOf(b)) \in Nat
    BY <2>3, <2>6, LaterTypes
  <2>8. TIME' \in Nat /\ arrived' \in 0 .. Len(Arrivals)
    BY <1>15, <2>1, <2>7 DEF Arrive, b
  <2>9. ClockInv'
    BY <2>1, <2>4 DEF ClockInv
  <2>10. customer' \in [Customers -> {"away", "arriving", "ordering", "waiting", "eating", "done"}]
    BY <1>15 DEF Arrive, GoTo, Shape
  <2>11. UNCHANGED <<EMPTY_TABLES, WAITER_NEXT, COOK_ORDERS, WORKING_COOKS, cook_queue,
                   queue, FR, PO, LEAVE, sem_cook, sem_waiter, sem_customer, cook,
                   waiter, cook_job, waiter_job, waiter_to_serve, served_time, removed>>
    BY <1>15 DEF Arrive, cooks_vars, waiters_vars
  <2>. QED BY <2>8, <2>9, <2>10, <2>11 DEF Shape
<1>16. ASSUME Remove PROVE Shape' /\ ClockInv'
  BY <1>16 DEF Shape, ClockInv, Remove, cooks_vars, waiters_vars, customer_vars
<1>17. ASSUME UNCHANGED vars PROVE Shape' /\ ClockInv'
  BY <1>17 DEF Shape, ClockInv, vars, cooks_vars, waiters_vars, customer_vars, main_vars
<1>. QED BY Steps, <1>1, <1>2, <1>3, <1>4, <1>5, <1>6, <1>7, <1>8, <1>9, <1>10, <1>11, <1>12, <1>13, <1>14, <1>15, <1>16, <1>17

-----------------------------------------------------------------------------
(* Tables and cooks.                                                       *)

LEMMA CountsInit == Init => CountsInv
<1>. SUFFICES ASSUME Init PROVE CountsInv
  OBVIOUS
<1>1. EMPTY_TABLES = TABLES /\ WORKING_COOKS = Cardinality(Cooks)
  BY DEF Init
<1>2. Seated = {} /\ AtWork = Cooks
  BY DEF Init, Seated, AtWork
<1>3. Cardinality(Seated) = 0
  BY <1>2, FS_EmptySet
<1>4. \A c \in Customers : customer[c] = "away"
  BY DEF Init
<1>5. TablesAreCounted /\ EMPTY_TABLES >= 0
  BY <1>1, <1>3, Base DEF TablesAreCounted
<1>6. WORKING_COOKS = Cardinality(AtWork) /\ WORKING_COOKS \in 0 .. Cardinality(Cooks)
  BY <1>1, <1>2, Base
<1>. QED BY <1>4, <1>5, <1>6 DEF CountsInv

\* A cook that leaves is one of those at work.
LEMMA GoHomeCounts ==
  ASSUME Shape, CountsInv, ~removed, NEW k \in Cooks, cook[k] # "done", NEW S, GoHome(k, S)
  PROVE  WORKING_COOKS' = Cardinality(AtWork') /\ WORKING_COOKS' \in 0 .. Cardinality(Cooks)
<1>1. AtWork' = AtWork \ {k} /\ k \in AtWork /\ AtWork \subseteq Cooks
  BY DEF GoHome, AtWork, Shape
<1>2. IsFiniteSet(AtWork)
  BY <1>1, Base, FS_Subset
<1>3. Cardinality(AtWork') = Cardinality(AtWork) - 1 /\ IsFiniteSet(AtWork')
  BY <1>1, <1>2, FS_RemoveElement
<1>4. Cardinality(AtWork') \in Nat
  BY <1>3, FS_CardinalityType
<1>5. WORKING_COOKS' = WORKING_COOKS - 1 /\ WORKING_COOKS = Cardinality(AtWork)
  BY DEF GoHome, CountsInv
<1>. QED BY <1>3, <1>4, <1>5, Base DEF CountsInv

LEMMA SeatedIsFinite ==
  IsFiniteSet(Seated) /\ Cardinality(Seated) \in Nat
<1>1. Seated \subseteq Customers
  BY DEF Seated
<1>. QED BY <1>1, Base, FS_Subset, FS_CardinalityType

LEMMA CountsStep ==
  ASSUME Shape, CountsInv, [Next]_vars
  PROVE  CountsInv'
<1>1. ASSUME NEW c \in Customers, TakeTable(c) PROVE CountsInv'
  <2>1. Seated' = Seated \cup {c} /\ c \notin Seated
    BY <1>1 DEF TakeTable, GoTo, Seated, Shape
  <2>2. Cardinality(Seated') = Cardinality(Seated) + 1
    BY <2>1, SeatedIsFinite, FS_AddElement
  <2>3. EMPTY_TABLES' = EMPTY_TABLES - 1 /\ EMPTY_TABLES # 0 /\ EMPTY_TABLES \in Int
    BY <1>1 DEF TakeTable, Shape
  <2>4. TablesAreCounted' /\ EMPTY_TABLES' >= 0
    BY <2>2, <2>3, SeatedIsFinite, Base DEF CountsInv, TablesAreCounted
  <2>5. UNCHANGED <<WORKING_COOKS, cook, removed, arrived>>
    BY <1>1 DEF TakeTable, Frame, cooks_vars, main_vars
  <2>6. \A d \in Customers : d > arrived' => customer'[d] = "away"
    BY <1>1, <2>5 DEF TakeTable, GoTo, CountsInv, Shape
  <2>. QED BY <2>4, <2>5, <2>6 DEF CountsInv, AtWork
<1>2. ASSUME NEW c \in Customers, FinishEating(c) PROVE CountsInv'
  <2>1. Seated' = Seated \ {c} /\ c \in Seated
    BY <1>2 DEF FinishEating, GoTo, Seated, Shape
  <2>2. Cardinality(Seated') = Cardinality(Seated) - 1
    BY <2>1, SeatedIsFinite, FS_RemoveElement
  <2>3. EMPTY_TABLES' = EMPTY_TABLES + 1 /\ EMPTY_TABLES \in Int
    BY <1>2 DEF FinishEating, Shape
  <2>4. TablesAreCounted' /\ EMPTY_TABLES' >= 0
    BY <2>2, <2>3, SeatedIsFinite, Base DEF CountsInv, TablesAreCounted
  <2>5. UNCHANGED <<WORKING_COOKS, cook, removed, arrived>>
    BY <1>2 DEF FinishEating, Frame, cooks_vars, main_vars
  <2>6. \A d \in Customers : d > arrived' => customer'[d] = "away"
    BY <1>2, <2>5 DEF FinishEating, GoTo, CountsInv, Shape
  <2>. QED BY <2>4, <2>5, <2>6 DEF CountsInv, AtWork
<1>3. ASSUME NEW c \in Customers, TurnedAway(c) \/ OrderPlaced(c) \/ GetFood(c) PROVE CountsInv'
  <2>1. Seated' = Seated
    BY <1>3 DEF TurnedAway, OrderPlaced, GetFood, GoTo, Seated, Shape
  <2>2. UNCHANGED <<EMPTY_TABLES, WORKING_COOKS, cook, removed, arrived>>
    BY <1>3 DEF TurnedAway, OrderPlaced, GetFood, Frame, cooks_vars, main_vars
  <2>3. \A d \in Customers : d > arrived' => customer'[d] = "away"
    BY <1>3, <2>2 DEF TurnedAway, OrderPlaced, GetFood, GoTo, CountsInv, Shape
  <2>. QED BY <2>1, <2>2, <2>3 DEF CountsInv, TablesAreCounted, AtWork
<1>4. ASSUME NEW k \in Cooks, CookLeaves(k) \/ FinishOrder(k) PROVE CountsInv'
  <2>1. UNCHANGED <<EMPTY_TABLES, customer, removed, arrived>> /\ ~removed /\ cook[k] # "done"
    BY <1>4 DEF CookLeaves, FinishOrder, customer_vars, main_vars
  <2>2. CASE \E S : GoHome(k, S)
    BY <2>1, <2>2, GoHomeCounts DEF CountsInv, TablesAreCounted, Seated
  <2>3. CASE ~\E S : GoHome(k, S)
    <3>1. cook' = [cook EXCEPT ![k] = "idle"] /\ UNCHANGED WORKING_COOKS
      BY <1>4, <2>3 DEF CookLeaves, FinishOrder
    <3>2. AtWork' = AtWork
      BY <2>1, <3>1 DEF AtWork, Shape
    <3>. QED BY <2>1, <3>1, <3>2 DEF CountsInv, TablesAreCounted, Seated
  <2>. QED BY <2>2, <2>3
<1>5. ASSUME NEW k \in Cooks, TakeOrder(k) PROVE CountsInv'
  <2>1. UNCHANGED <<EMPTY_TABLES, customer, removed, arrived, WORKING_COOKS>>
    BY <1>5 DEF TakeOrder, customer_vars, main_vars
  <2>2. AtWork' = AtWork
    BY <1>5 DEF TakeOrder, AtWork, Shape
  <2>. QED BY <2>1, <2>2 DEF CountsInv, TablesAreCounted, Seated
<1>6. ASSUME NEW k \in Cooks, CookExits(k) PROVE CountsInv'
  <2>1. UNCHANGED <<EMPTY_TABLES, customer, removed, arrived, WORKING_COOKS>> /\ removed
    BY <1>6 DEF CookExits, cooks_vars, customer_vars, main_vars
  <2>. QED BY <2>1 DEF CountsInv, TablesAreCounted, Seated
<1>7. ASSUME NEW w \in Waiters,
             \/ WaiterLeaves(w) \/ Serve(w) \/ TakeFromCustomer(w)
             \/ PlaceOrder(w) \/ WaiterExits(w)
      PROVE  CountsInv'
  <2>1. UNCHANGED <<EMPTY_TABLES, customer, removed, arrived, WORKING_COOKS, cook>>
    BY <1>7 DEF WaiterLeaves, Serve, TakeFromCustomer, PlaceOrder, WaiterExits,
                cooks_vars, customer_vars, main_vars
  <2>. QED BY <2>1 DEF CountsInv, TablesAreCounted, Seated, AtWork
<1>8. ASSUME Arrive PROVE CountsInv'
  <2>1. /\ customer' = [customer EXCEPT ![arrived + 1] = "arriving"] /\ arrived' = arrived + 1
        /\ arrived \in Nat /\ arrived + 1 > arrived
        /\ UNCHANGED <<EMPTY_TABLES, removed, WORKING_COOKS, cook>>
    BY <1>8 DEF Arrive, GoTo, cooks_vars, Shape
  <2>2. Seated' = Seated
    <3>1. arrived + 1 \in Customers => customer[arrived + 1] = "away"
      BY <2>1 DEF CountsInv
    <3>2. \A c \in Customers : customer'[c] = IF c = arrived + 1 THEN "arriving" ELSE customer[c]
      BY <2>1 DEF Shape
    <3>. QED BY <3>1, <3>2 DEF Seated
  <2>3. \A c \in Customers : c > arrived' => customer'[c] = "away"
    BY <2>1, Base DEF CountsInv, Shape
  <2>. QED BY <2>1, <2>2, <2>3 DEF CountsInv, TablesAreCounted, AtWork
<1>9. ASSUME Remove PROVE CountsInv'
  <2>1. UNCHANGED <<EMPTY_TABLES, customer, arrived, WORKING_COOKS, cook>> /\ removed'
    BY <1>9 DEF Remove, cooks_vars, customer_vars
  <2>. QED BY <2>1 DEF CountsInv, TablesAreCounted, Seated
<1>10. ASSUME UNCHANGED vars PROVE CountsInv'
  BY <1>10 DEF CountsInv, TablesAreCounted, Seated, AtWork, vars, cooks_vars, customer_vars, main_vars
<1>. QED BY Steps, <1>1, <1>2, <1>3, <1>4, <1>5, <1>6, <1>7, <1>8, <1>9, <1>10

-----------------------------------------------------------------------------
(* Where an order is.                                                      *)

LEMMA StageInit == Init => StageInv
<1>. SUFFICES ASSUME Init PROVE StageInv
  OBVIOUS
<1>1. \A w \in Waiters : /\ Len(queue[w].cells) = 0 /\ FR[w] = 0
                         /\ waiter_job[w].order.customer = 0
  BY NoOrderTypes DEF Init
<1>2. Len(cook_queue.cells) = 0 /\ \A k \in Cooks : cook_job[k].order.customer = 0
  BY NoOrderTypes DEF Init
<1>3. FreshInv
  BY DEF Init, FreshInv
<1>4. UnplacedInv
  BY <1>1 DEF UnplacedInv, UnplacedAt, Once
<1>5. PlacedInv
  BY <1>1, <1>2 DEF PlacedInv, Once
<1>. QED BY <1>3, <1>4, <1>5 DEF StageInv

\* A waiter's orders are as they were, and so are their customers.
LEMMA UnplacedKept ==
  ASSUME NEW w, UnplacedAt(w), queue'[w] = queue[w], waiter_job'[w] = waiter_job[w],
         \A d \in Customers : Unplaced(d) /\ waiter_to_serve[d] = w =>
           Unplaced(d)' /\ waiter_to_serve'[d] = w
  PROVE  UnplacedAt(w)'
<1>1. \A d : Unplaced(d) => d \in Customers
  BY DEF Unplaced
<1>2. \A d : AtWaiter(w, d)' <=> AtWaiter(w, d)
  BY DEF AtWaiter
<1>3. Once(queue[w])'
  BY DEF UnplacedAt, Once
<1>. QED BY <1>1, <1>2, <1>3 DEF UnplacedAt

\* The same for the orders with the cooks and those that are ready.
LEMMA PlacedKept ==
  ASSUME PlacedInv, UNCHANGED <<cook_queue, cook_job, FR>>,
         \A d \in Customers : Placed(d) => Placed(d)' /\ waiter_to_serve'[d] = waiter_to_serve[d]
  PROVE  PlacedInv'
<1>1. \A d : Placed(d) => Placed(d)' /\ waiter_to_serve'[d] = waiter_to_serve[d]
  BY DEF Placed
<1>2. \A d : AtCooks(d)' <=> AtCooks(d)
  BY DEF AtCooks
<1>3. Once(cook_queue)'
  BY DEF PlacedInv, Once
<1>. QED BY <1>1, <1>2, <1>3 DEF PlacedInv

\* Nothing that StageInv is about changes, but for customers that wait for no signal.
LEMMA StageKept ==
  ASSUME StageInv, UNCHANGED <<queue, waiter_job, cook_queue, cook_job, FR, waiter_to_serve>>,
         \A d \in Customers : /\ Unplaced(d) => Unplaced(d)'
                              /\ Placed(d) => Placed(d)',
         FreshInv'
  PROVE  StageInv'
<1>1. ASSUME NEW w \in Waiters PROVE UnplacedAt(w)'
  BY UnplacedKept DEF StageInv, UnplacedInv
<1>2. PlacedInv'
  BY PlacedKept DEF StageInv
<1>. QED BY <1>1, <1>2 DEF StageInv, UnplacedInv

\* A signal reaches its customer only.
LEMMA SignalFacts ==
  ASSUME Shape, NEW c, SignalCustomer(c)
  PROVE  \A d \in Customers : sem_customer[d] \in Nat /\
           sem_customer'[d] = IF d = c THEN sem_customer[d] + 1 ELSE sem_customer[d]
BY DEF Shape, SignalCustomer

\* Steps of a customer and of main other than taking a table.
LEMMA StageCustomer ==
  ASSUME Shape, CountsInv, StageInv, NEW c \in Customers,
         TurnedAway(c) \/ OrderPlaced(c) \/ GetFood(c) \/ FinishEating(c)
  PROVE  StageInv'
<1>1. UNCHANGED <<queue, waiter_job, cook_queue, cook_job, FR, waiter_to_serve>>
  BY DEF TurnedAway, OrderPlaced, GetFood, FinishEating, Frame, waiters_vars, cooks_vars
<1>2. \A d \in Customers \ {c} : customer'[d] = customer[d] /\ sem_customer'[d] = sem_customer[d]
  BY DEF TurnedAway, OrderPlaced, GetFood, FinishEating, GoTo, Signalled, Shape
<1>3. /\ customer[c] \in {"arriving", "eating"} => sem_customer'[c] = sem_customer[c]
      /\ customer[c] = "arriving" => customer'[c] = "done"
      /\ customer[c] = "eating" => customer'[c] = "done"
      /\ customer[c] = "ordering" =>
           customer'[c] = "waiting" /\ sem_customer[c] > 0 /\ sem_customer'[c] = sem_customer[c] - 1
      /\ customer[c] = "waiting" => customer'[c] = "eating" /\ sem_customer[c] > 0
      /\ customer[c] \in {"arriving", "ordering", "waiting", "eating"}
      /\ sem_customer[c] \in Nat
  BY DEF TurnedAway, OrderPlaced, GetFood, FinishEating, GoTo, Signalled, Shape
<1>4. \A d \in Customers : (Unplaced(d) => Unplaced(d)') /\ (Placed(d) => Placed(d)')
  BY <1>2, <1>3 DEF Unplaced, Placed
<1>5. FreshInv'
  BY <1>2, <1>3 DEF StageInv, FreshInv
<1>. QED BY <1>1, <1>4, <1>5, StageKept

LEMMA StageArrive ==
  ASSUME Shape, CountsInv, StageInv, Arrive
  PROVE  StageInv'
<1>1. UNCHANGED <<queue, waiter_job, cook_queue, cook_job, FR, waiter_to_serve, sem_customer>>
  BY DEF Arrive, waiters_vars, cooks_vars
<1>2. arrived \in Nat /\ arrived + 1 > arrived
  BY DEF Shape
<1>3. arrived + 1 \in Customers => customer[arrived + 1] = "away"
  BY <1>2 DEF CountsInv
<1>4. \A d \in Customers : customer'[d] = IF d = arrived + 1 THEN "arriving" ELSE customer[d]
  BY DEF Arrive, GoTo, Shape
<1>5. \A d \in Customers : (Unplaced(d) => Unplaced(d)') /\ (Placed(d) => Placed(d)')
  BY <1>1, <1>3, <1>4 DEF Unplaced, Placed
<1>6. FreshInv'
  BY <1>1, <1>3, <1>4 DEF StageInv, FreshInv
<1>. QED BY <1>1, <1>5, <1>6, StageKept

LEMMA StageTakeTable ==
  ASSUME Shape, StageInv, NEW c \in Customers, TakeTable(c)
  PROVE  StageInv'
<1>w. PICK w \in Waiters : w = WAITER_NEXT
  BY DEF Shape
<1>o. PICK o : o = Order(w, c, Arrivals[c].count)
  OBVIOUS
<1>1. o \in Orders /\ o.customer = c
  BY <1>o, Base DEF Shape, Order, Orders
<1>2. /\ UNCHANGED <<waiter_job, cook_queue, cook_job, FR, sem_customer>>
      /\ customer[c] = "arriving"
      /\ \A d \in Customers : customer'[d] = IF d = c THEN "ordering" ELSE customer[d]
      /\ \A d \in Customers : waiter_to_serve'[d] = IF d = c THEN w ELSE waiter_to_serve[d]
      /\ \A v \in Waiters : queue'[v] = IF v = w THEN Enqueue(queue[w], o) ELSE queue[v]
  BY <1>w, <1>o DEF TakeTable, GoTo, Frame, cooks_vars, Shape
<1>3. sem_customer[c] = 0
  BY <1>2 DEF StageInv, FreshInv
<1>4. ~Unplaced(c) /\ ~Placed(c) /\ Unplaced(c)'
  BY <1>2, <1>3 DEF Unplaced, Placed
<1>5. \A d \in Customers \ {c} : (Unplaced(d) => Unplaced(d)') /\ (Placed(d) => Placed(d)')
  BY <1>2 DEF Unplaced, Placed
<1>6. \A v \in Waiters \ {w} : UnplacedAt(v)'
  <2>. SUFFICES ASSUME NEW v \in Waiters \ {w} PROVE UnplacedAt(v)'
    OBVIOUS
  <2>1. queue'[v] = queue[v] /\ waiter_job'[v] = waiter_job[v] /\ UnplacedAt(v)
    BY <1>2 DEF StageInv, UnplacedInv
  <2>. QED BY <1>2, <1>4, <1>5, <2>1, UnplacedKept
<1>7. UnplacedAt(w)'
  <2>q. PICK q : q = queue[w]
    OBVIOUS
  <2>r. PICK r : r = Enqueue(q, o)
    OBVIOUS
  <2>1. queue'[w] = r /\ q \in Queues /\ UnplacedAt(w)
    BY <1>1, <1>2, <2>q, <2>r DEF Shape, StageInv, UnplacedInv
  <2>2. \A x \in 1 .. Len(q.cells) : q.cells[x].customer # o.customer
    BY <1>1, <1>4, <2>1, <2>q DEF UnplacedAt
  <2>3. Once(r) /\ \A x \in 1 .. Len(r.cells) :
          r.cells[x] = o \/ (x \in 1 .. Len(q.cells) /\ r.cells[x] = q.cells[x])
    <3>1. Once(q)
      BY <2>1, <2>q DEF UnplacedAt
    <3>. QED BY <1>1, <2>1, <2>2, <2>r, <3>1, EnqueueFacts
  <2>4. Once(queue[w])'
    BY <2>1, <2>3 DEF Once
  <2>5. \A x \in 1 .. Len(r.cells) :
          Unplaced(r.cells[x].customer)' /\ waiter_to_serve'[r.cells[x].customer] = w
    <3>. SUFFICES ASSUME NEW x \in 1 .. Len(r.cells)
                  PROVE  Unplaced(r.cells[x].customer)' /\ waiter_to_serve'[r.cells[x].customer] = w
      OBVIOUS
    <3>1. CASE r.cells[x] = o
      BY <1>1, <1>2, <1>4, <3>1
    <3>2. CASE x \in 1 .. Len(q.cells) /\ r.cells[x] = q.cells[x]
      <4>d. PICK d : d = q.cells[x].customer
        OBVIOUS
      <4>1. Unplaced(d) /\ waiter_to_serve[d] = w /\ d # c /\ d \in Customers
        BY <1>4, <2>1, <2>q, <3>2, <4>d DEF UnplacedAt, Unplaced
      <4>. QED BY <1>2, <1>5, <3>2, <4>1, <4>d
    <3>. QED BY <2>3, <3>1, <3>2
  <2>6. ASSUME NEW d, d = waiter_job[w].order.customer, d # 0
        PROVE  /\ Unplaced(d)' /\ ~AtWaiter(w, d)' /\ waiter_to_serve'[d] = w
               /\ waiter_job[w].order.waiter = w
    <3>1. /\ Unplaced(d) /\ waiter_to_serve[d] = w /\ d # c /\ d \in Customers
          /\ ~AtWaiter(w, d) /\ waiter_job[w].order.waiter = w
      BY <1>4, <2>1, <2>6 DEF UnplacedAt, Unplaced
    <3>2. ~AtWaiter(w, d)'
      BY <1>1, <2>1, <2>3, <2>q, <3>1 DEF AtWaiter
    <3>. QED BY <1>2, <1>5, <3>1, <3>2
  <2>. QED BY <1>2, <2>1, <2>4, <2>5, <2>6 DEF UnplacedAt
<1>8. PlacedInv'
  <2>1. \A d \in Customers : Placed(d) => Placed(d)' /\ waiter_to_serve'[d] = waiter_to_serve[d]
    BY <1>2, <1>4, <1>5
  <2>. QED BY <1>2, <2>1, PlacedKept DEF StageInv
<1>9. FreshInv'
  BY <1>2 DEF StageInv, FreshInv
<1>. QED BY <1>6, <1>7, <1>8, <1>9 DEF StageInv, UnplacedInv

LEMMA StageTakeFromCustomer ==
  ASSUME Shape, StageInv, NEW w \in Waiters, TakeFromCustomer(w)
  PROVE  StageInv'
<1>q. PICK q : q = queue[w]
  OBVIOUS
<1>r. PICK r : r = Dequeue(q)
  OBVIOUS
<1>f. PICK f : f = Front(q)
  OBVIOUS
<1>1. /\ UNCHANGED <<cook_queue, cook_job, FR, sem_customer, customer, waiter_to_serve>>
      /\ \A v \in Waiters \ {w} : queue'[v] = queue[v] /\ waiter_job'[v] = waiter_job[v]
      /\ queue'[w] = r /\ waiter_job'[w].order = [f EXCEPT !.waiter = w]
  BY <1>q, <1>r, <1>f DEF TakeFromCustomer, cooks_vars, customer_vars, Job, Shape
<1>2. q \in Queues /\ UnplacedAt(w)
  BY <1>q DEF Shape, StageInv, UnplacedInv
<1>3. waiter_job'[w].order.customer = f.customer /\ waiter_job'[w].order.waiter = w
  BY <1>1, <1>2, <1>f, DequeueFacts DEF Orders
<1>4. /\ Once(r)
      /\ \/ f = NoOrder /\ r.cells = <<>>
         \/ /\ Len(q.cells) > 0 /\ f = q.cells[1] /\ Len(q.cells) \in Nat
            /\ \A x \in 1 .. Len(r.cells) :
                 x + 1 \in 1 .. Len(q.cells) /\ r.cells[x] = q.cells[x + 1]
  <2>1. Once(q) /\ Len(q.cells) \in Nat
    BY <1>2, <1>q DEF UnplacedAt, Queues
  <2>. QED BY <1>2, <1>r, <1>f, <2>1, DequeueFacts
<1>5. (\A d : Unplaced(d) <=> Unplaced(d)') /\ (\A d : Placed(d) <=> Placed(d)')
  BY <1>1 DEF Unplaced, Placed
<1>6. UnplacedAt(w)'
  <2>1. Once(queue[w])'
    BY <1>1, <1>4 DEF Once
  <2>2. CASE f = NoOrder /\ r.cells = <<>>
    <3>1. waiter_job'[w].order.customer = 0 /\ Len(r.cells) = 0
      BY <1>3, <2>2, NoOrderTypes
    <3>. QED BY <1>1, <2>1, <3>1 DEF UnplacedAt
  <2>3. CASE ~(f = NoOrder /\ r.cells = <<>>)
    <3>0. \A x \in 1 .. Len(r.cells) : x + 1 # 1
      OBVIOUS
    <3>1. /\ 1 \in 1 .. Len(q.cells) /\ f = q.cells[1]
          /\ \A x \in 1 .. Len(r.cells) :
               x + 1 \in 1 .. Len(q.cells) /\ x + 1 # 1 /\ r.cells[x] = q.cells[x + 1]
      BY <1>4, <2>3, <3>0
    <3>2. Unplaced(f.customer) /\ waiter_to_serve[f.customer] = w /\ f.customer # 0
      BY <1>2, <1>q, <3>1, Base DEF UnplacedAt, Unplaced
    <3>3. \A x \in 1 .. Len(r.cells) : r.cells[x].customer # f.customer
      BY <1>2, <1>q, <3>1, <3>2, Base DEF UnplacedAt, Once
    <3>4. ~AtWaiter(w, f.customer)'
      BY <1>1, <3>3 DEF AtWaiter
    <3>5. \A x \in 1 .. Len(r.cells) :
            Unplaced(r.cells[x].customer) /\ waiter_to_serve[r.cells[x].customer] = w
      BY <1>2, <1>q, <3>1 DEF UnplacedAt
    <3>. QED BY <1>1, <1>3, <1>5, <2>1, <3>2, <3>4, <3>5 DEF UnplacedAt
  <2>. QED BY <2>2, <2>3
<1>7. \A v \in Waiters \ {w} : UnplacedAt(v)'
  BY <1>1, <1>5, UnplacedKept DEF StageInv, UnplacedInv
<1>8. PlacedInv'
  BY <1>1, <1>5, PlacedKept DEF StageInv
<1>9. FreshInv'
  BY <1>1 DEF StageInv, FreshInv
<1>. QED BY <1>6, <1>7, <1>8, <1>9 DEF StageInv, UnplacedInv

LEMMA StageTakeOrder ==
  ASSUME Shape, StageInv, NEW k \in Cooks, TakeOrder(k)
  PROVE  StageInv'
<1>q. PICK q : q = cook_queue
  OBVIOUS
<1>r. PICK r : r = Dequeue(q)
  OBVIOUS
<1>f. PICK f : f = Front(q)
  OBVIOUS
<1>1. /\ UNCHANGED <<queue, waiter_job, FR, sem_customer, customer, waiter_to_serve>>
      /\ \A l \in Cooks \ {k} : cook_job'[l] = cook_job[l]
      /\ cook_queue' = r /\ cook_job'[k].order = f
  BY <1>q, <1>r, <1>f DEF TakeOrder, waiters_vars, customer_vars, Job, Shape
<1>2. q \in Queues /\ PlacedInv
  BY <1>q DEF Shape, StageInv
<1>3. /\ Once(r)
      /\ \/ f = NoOrder /\ r.cells = <<>>
         \/ /\ Len(q.cells) > 0 /\ f = q.cells[1] /\ Len(q.cells) \in Nat
            /\ \A x \in 1 .. Len(r.cells) :
                 x + 1 \in 1 .. Len(q.cells) /\ r.cells[x] = q.cells[x + 1]
  <2>1. Once(q) /\ Len(q.cells) \in Nat
    BY <1>2, <1>q DEF PlacedInv, Queues
  <2>. QED BY <1>2, <1>r, <1>f, <2>1, DequeueFacts
<1>4. (\A d : Unplaced(d) <=> Unplaced(d)') /\ (\A d : Placed(d) <=> Placed(d)')
  BY <1>1 DEF Unplaced, Placed
<1>5. UnplacedInv'
  <2>. SUFFICES ASSUME NEW v \in Waiters PROVE UnplacedAt(v)'
    BY DEF UnplacedInv
  <2>. QED BY <1>1, <1>4, UnplacedKept DEF StageInv, UnplacedInv
<1>6. \A d : AtCooks(d)' => AtCooks(d)
  <2>. SUFFICES ASSUME NEW d, NEW x \in 1 .. Len(r.cells), r.cells[x].customer = d PROVE AtCooks(d)
    BY <1>1 DEF AtCooks
  <2>1. r.cells # <<>>
    BY NoOrderTypes DEF EmptyQueue
  <2>. QED BY <1>3, <1>q, <2>1 DEF AtCooks
<1>7. /\ f.customer # 0 => /\ AtCooks(f.customer) /\ ~AtCooks(f.customer)'
                           /\ Placed(f.customer) /\ waiter_to_serve[f.customer] = f.waiter
      /\ \A x \in 1 .. Len(r.cells) : \E y \in 1 .. Len(q.cells) : r.cells[x] = q.cells[y]
  <2>1. CASE f = NoOrder /\ r.cells = <<>>
    <3>1. f.customer = 0 /\ Len(r.cells) = 0
      BY <2>1, NoOrderTypes
    <3>. QED BY <3>1
  <2>2. CASE ~(f = NoOrder /\ r.cells = <<>>)
    <3>0. \A x \in 1 .. Len(r.cells) : x + 1 # 1
      OBVIOUS
    <3>1. /\ 1 \in 1 .. Len(q.cells) /\ f = q.cells[1]
          /\ \A x \in 1 .. Len(r.cells) :
               x + 1 \in 1 .. Len(q.cells) /\ x + 1 # 1 /\ r.cells[x] = q.cells[x + 1]
      BY <1>3, <2>2, <3>0
    <3>2. ASSUME f.customer # 0
          PROVE  /\ AtCooks(f.customer) /\ Placed(f.customer)
                 /\ waiter_to_serve[f.customer] = f.waiter
      BY <1>2, <1>q, <3>1, <3>2 DEF PlacedInv, AtCooks
    <3>3. ASSUME f.customer # 0 PROVE ~AtCooks(f.customer)'
      <4>1. \A x \in 1 .. Len(r.cells) : r.cells[x].customer # f.customer
        BY <1>2, <1>q, <3>1, <3>3 DEF PlacedInv, Once
      <4>. QED BY <1>1, <4>1 DEF AtCooks
    <3>. QED BY <3>1, <3>2, <3>3
  <2>. QED BY <2>1, <2>2
<1>8. PlacedInv'
  <2>1. Once(cook_queue)'
    BY <1>1, <1>3 DEF Once
  <2>2. \A x \in 1 .. Len(r.cells) : r.cells[x].customer # 0 =>
          Placed(r.cells[x].customer) /\ waiter_to_serve[r.cells[x].customer] = r.cells[x].waiter
    BY <1>2, <1>7, <1>q DEF PlacedInv
  <2>3. \A l \in Cooks \ {k} : cook_job[l].order.customer # 0 =>
          cook_job[l].order.customer # f.customer
    BY <1>2, <1>7 DEF PlacedInv
  <2>4. ASSUME NEW l \in Cooks, NEW o, o = cook_job'[l].order, o.customer # 0
        PROVE  /\ Placed(o.customer) /\ waiter_to_serve[o.customer] = o.waiter
               /\ ~AtCooks(o.customer)'
               /\ \A j \in Cooks \ {l} : cook_job'[j].order.customer # o.customer
    <3>1. CASE l = k
      BY <1>1, <1>7, <2>3, <2>4, <3>1
    <3>2. CASE l # k
      BY <1>1, <1>2, <1>6, <2>3, <2>4, <3>2 DEF PlacedInv
    <3>. QED BY <3>1, <3>2
  <2>5. ASSUME NEW w \in Waiters, NEW d, d = FR[w], d # 0
        PROVE  /\ Placed(d) /\ waiter_to_serve[d] = w /\ ~AtCooks(d)'
               /\ \A j \in Cooks : cook_job'[j].order.customer # d
    BY <1>1, <1>2, <1>6, <1>7, <2>5 DEF PlacedInv
  <2>. QED BY <1>1, <1>4, <2>1, <2>2, <2>4, <2>5 DEF PlacedInv
<1>9. FreshInv'
  BY <1>1 DEF StageInv, FreshInv
<1>. QED BY <1>5, <1>8, <1>9 DEF StageInv

LEMMA StagePlaceOrder ==
  ASSUME Shape, StageInv, NEW w \in Waiters, PlaceOrder(w)
  PROVE  StageInv'
<1>o. PICK o : o = waiter_job[w].order
  OBVIOUS
<1>c. PICK c : c = o.customer
  OBVIOUS
<1>q. PICK q : q = cook_queue
  OBVIOUS
<1>r. PICK r : r = Enqueue(q, o)
  OBVIOUS
<1>1. o \in Orders /\ q \in Queues /\ PlacedInv /\ UnplacedInv
  BY <1>o, <1>q DEF Shape, Jobs, StageInv
<1>2. /\ UNCHANGED <<queue, cook_job, FR, customer, waiter_to_serve>>
      /\ \A v \in Waiters \ {w} : waiter_job'[v] = waiter_job[v]
      /\ waiter_job'[w] = NoJob /\ cook_queue' = r
  BY <1>o, <1>q, <1>r DEF PlaceOrder, waiters_vars, customer_vars, Shape
<1>3. \A d \in Customers :
        sem_customer'[d] = IF d = c THEN sem_customer[d] + 1 ELSE sem_customer[d]
  BY <1>o, <1>c, SignalFacts DEF PlaceOrder
<1>4. c # 0 => /\ Unplaced(c) /\ ~Placed(c) /\ waiter_to_serve[c] = w /\ ~AtWaiter(w, c)
               /\ o.waiter = w /\ Placed(c)'
  <2>1. c # 0 => /\ Unplaced(c) /\ waiter_to_serve[c] = w /\ ~AtWaiter(w, c) /\ o.waiter = w
    BY <1>1, <1>o, <1>c DEF UnplacedInv, UnplacedAt
  <2>. QED BY <1>2, <1>3, <2>1 DEF Unplaced, Placed
<1>5. \A d : d # c => (Unplaced(d) => Unplaced(d)') /\ (Placed(d) => Placed(d)')
  BY <1>2, <1>3 DEF Unplaced, Placed
<1>6. \A v \in Waiters \ {w} : UnplacedAt(v)'
  <2>. SUFFICES ASSUME NEW v \in Waiters \ {w} PROVE UnplacedAt(v)'
    OBVIOUS
  <2>1. queue'[v] = queue[v] /\ waiter_job'[v] = waiter_job[v] /\ UnplacedAt(v)
    BY <1>1, <1>2 DEF UnplacedInv
  <2>2. \A d \in Customers : Unplaced(d) /\ waiter_to_serve[d] = v =>
          Unplaced(d)' /\ waiter_to_serve'[d] = v
    BY <1>2, <1>4, <1>5, Base
  <2>. QED BY <2>1, <2>2, UnplacedKept
<1>7. UnplacedAt(w)'
  <2>1. UnplacedAt(w)
    BY <1>1 DEF UnplacedInv
  <2>2. Once(queue[w])'
    BY <1>2, <2>1 DEF UnplacedAt, Once
  <2>3. \A x \in 1 .. Len(queue[w].cells) :
          /\ Unplaced(queue[w].cells[x].customer) /\ queue[w].cells[x].customer # c
          /\ waiter_to_serve[queue[w].cells[x].customer] = w
    BY <1>4, <2>1, Base DEF UnplacedAt, AtWaiter, Unplaced
  <2>4. waiter_job'[w].order.customer = 0
    BY <1>2, NoOrderTypes
  <2>. QED BY <1>2, <1>5, <2>2, <2>3, <2>4 DEF UnplacedAt
<1>8. PlacedInv'
  <2>1. \A x \in 1 .. Len(q.cells) : q.cells[x].customer = c => c = 0
    BY <1>1, <1>4, <1>q DEF PlacedInv
  <2>2. Once(r) /\ \A x \in 1 .. Len(r.cells) :
          r.cells[x] = o \/ (x \in 1 .. Len(q.cells) /\ r.cells[x] = q.cells[x])
    <3>1. Once(q)
      BY <1>1, <1>q DEF PlacedInv
    <3>. QED BY <1>1, <1>c, <1>r, <2>1, <3>1, EnqueueFacts
  <2>3. Once(cook_queue)'
    BY <1>2, <2>2 DEF Once
  <2>4. \A d : AtCooks(d)' => AtCooks(d) \/ d = c
    BY <1>2, <1>c, <1>q, <2>2 DEF AtCooks
  <2>5. ASSUME NEW x \in 1 .. Len(r.cells), NEW p, p = r.cells[x], p.customer # 0
        PROVE  Placed(p.customer)' /\ waiter_to_serve[p.customer] = p.waiter
    <3>1. CASE p = o
      BY <1>4, <1>c, <2>5, <3>1
    <3>2. CASE x \in 1 .. Len(q.cells) /\ p = q.cells[x]
      BY <1>1, <1>4, <1>5, <1>q, <2>5, <3>2 DEF PlacedInv
    <3>. QED BY <2>2, <2>5, <3>1, <3>2
  <2>6. ASSUME NEW k \in Cooks, NEW p, p = cook_job[k].order, p.customer # 0
        PROVE  /\ Placed(p.customer)' /\ waiter_to_serve[p.customer] = p.waiter
               /\ ~AtCooks(p.customer)'
               /\ \A l \in Cooks \ {k} : cook_job[l].order.customer # p.customer
    <3>1. /\ Placed(p.customer) /\ waiter_to_serve[p.customer] = p.waiter
          /\ ~AtCooks(p.customer)
          /\ \A l \in Cooks \ {k} : cook_job[l].order.customer # p.customer
      BY <1>1, <2>6 DEF PlacedInv
    <3>2. p.customer # c
      BY <1>4, <2>6, <3>1
    <3>. QED BY <1>5, <2>4, <3>1, <3>2
  <2>7. ASSUME NEW v \in Waiters, NEW d, d = FR[v], d # 0
        PROVE  /\ Placed(d)' /\ waiter_to_serve[d] = v /\ ~AtCooks(d)'
               /\ \A k \in Cooks : cook_job[k].order.customer # d
    <3>1. /\ Placed(d) /\ waiter_to_serve[d] = v /\ ~AtCooks(d)
          /\ \A k \in Cooks : cook_job[k].order.customer # d
      BY <1>1, <2>7 DEF PlacedInv
    <3>2. d # c
      BY <1>4, <2>7, <3>1
    <3>. QED BY <1>5, <2>4, <3>1, <3>2
  <2>. QED BY <1>2, <2>3, <2>5, <2>6, <2>7 DEF PlacedInv
<1>9. FreshInv'
  <2>1. \A d \in Customers : d = c => customer[d] = "ordering"
    BY <1>4, Base DEF Unplaced
  <2>. QED BY <1>2, <1>3, <2>1 DEF StageInv, FreshInv
<1>. QED BY <1>6, <1>7, <1>8, <1>9 DEF StageInv, UnplacedInv

LEMMA StageFinishOrder ==
  ASSUME Shape, StageInv, NEW k \in Cooks, FinishOrder(k)
  PROVE  StageInv'
<1>o. PICK o : o = cook_job[k].order
  OBVIOUS
<1>1. o \in Orders /\ PlacedInv
  BY <1>o DEF Shape, Jobs, StageInv
<1>2. /\ UNCHANGED <<queue, waiter_job, cook_queue, sem_customer, customer, waiter_to_serve>>
      /\ \A l \in Cooks \ {k} : cook_job'[l] = cook_job[l]
      /\ cook_job'[k].order = NoOrder
      /\ \A v \in Waiters : FR'[v] = IF v = o.waiter THEN o.customer ELSE FR[v]
  BY <1>o, NoOrderTypes DEF FinishOrder, customer_vars, Shape
<1>3. (\A d : Unplaced(d) <=> Unplaced(d)') /\ (\A d : Placed(d) <=> Placed(d)')
      /\ (\A d : AtCooks(d) <=> AtCooks(d)')
  BY <1>2 DEF Unplaced, Placed, AtCooks
<1>4. UnplacedInv'
  <2>. SUFFICES ASSUME NEW v \in Waiters PROVE UnplacedAt(v)'
    BY DEF UnplacedInv
  <2>. QED BY <1>2, <1>3, UnplacedKept DEF StageInv, UnplacedInv
<1>5. PlacedInv'
  <2>1. Once(cook_queue)'
    BY <1>1, <1>2 DEF PlacedInv, Once
  <2>2. o.customer # 0 =>
          /\ Placed(o.customer) /\ waiter_to_serve[o.customer] = o.waiter /\ ~AtCooks(o.customer)
          /\ \A l \in Cooks \ {k} : cook_job[l].order.customer # o.customer
    BY <1>1, <1>o DEF PlacedInv
  <2>3. cook_job'[k].order.customer = 0
    BY <1>2, NoOrderTypes
  <2>4. ASSUME NEW l \in Cooks, NEW p, p = cook_job'[l].order, p.customer # 0
        PROVE  /\ Placed(p.customer) /\ waiter_to_serve[p.customer] = p.waiter
               /\ ~AtCooks(p.customer)
               /\ \A j \in Cooks \ {l} : cook_job'[j].order.customer # p.customer
    <3>1. l # k /\ p = cook_job[l].order
      BY <1>2, <2>3, <2>4
    <3>2. \A j \in Cooks \ {l} : cook_job[j].order.customer # p.customer
      BY <1>1, <2>4, <3>1 DEF PlacedInv
    <3>. QED BY <1>1, <1>2, <2>3, <2>4, <3>1, <3>2 DEF PlacedInv
  <2>5. ASSUME NEW v \in Waiters, NEW d, d = FR'[v], d # 0
        PROVE  /\ Placed(d) /\ waiter_to_serve[d] = v /\ ~AtCooks(d)
               /\ \A j \in Cooks : cook_job'[j].order.customer # d
    <3>1. CASE v = o.waiter
      BY <1>2, <2>2, <2>3, <2>5, <3>1
    <3>2. CASE v # o.waiter
      BY <1>1, <1>2, <2>3, <2>5, <3>2 DEF PlacedInv
    <3>. QED BY <3>1, <3>2
  <2>6. \A x \in 1 .. Len(cook_queue.cells) : cook_queue.cells[x].customer # 0 =>
          /\ Placed(cook_queue.cells[x].customer)
          /\ waiter_to_serve[cook_queue.cells[x].customer] = cook_queue.cells[x].waiter
    BY <1>1 DEF PlacedInv
  <2>. QED BY <1>2, <1>3, <2>1, <2>4, <2>5, <2>6 DEF PlacedInv
<1>6. FreshInv'
  BY <1>2 DEF StageInv, FreshInv
<1>. QED BY <1>4, <1>5, <1>6 DEF StageInv

LEMMA StageServe ==
  ASSUME Shape, StageInv, NEW w \in Waiters, Serve(w)
  PROVE  StageInv'
<1>c. PICK c : c = FR[w]
  OBVIOUS
<1>1. /\ UNCHANGED <<queue, waiter_job, cook_queue, cook_job, customer, waiter_to_serve>>
      /\ \A v \in Waiters : FR'[v] = IF v = w THEN 0 ELSE FR[v]
      /\ c # 0
  BY <1>c DEF Serve, cooks_vars, customer_vars, Shape
<1>2. \A d \in Customers : sem_customer[d] \in Nat /\
        sem_customer'[d] = IF d = c THEN sem_customer[d] + 1 ELSE sem_customer[d]
  BY <1>c, SignalFacts DEF Serve
<1>3. /\ Placed(c) /\ ~Unplaced(c) /\ waiter_to_serve[c] = w /\ ~AtCooks(c)
      /\ \A k \in Cooks : cook_job[k].order.customer # c
  <2>1. /\ Placed(c) /\ waiter_to_serve[c] = w /\ ~AtCooks(c)
        /\ \A k \in Cooks : cook_job[k].order.customer # c
    BY <1>1, <1>c DEF StageInv, PlacedInv
  <2>. QED BY <2>1 DEF Placed, Unplaced
<1>4. \A d : d # c => (Unplaced(d) => Unplaced(d)') /\ (Placed(d) => Placed(d)')
  BY <1>1, <1>2 DEF Unplaced, Placed
<1>5. UnplacedInv'
  <2>. SUFFICES ASSUME NEW v \in Waiters PROVE UnplacedAt(v)'
    BY DEF UnplacedInv
  <2>1. \A d : Unplaced(d) => Unplaced(d)'
    BY <1>3, <1>4
  <2>. QED BY <1>1, <2>1, UnplacedKept DEF StageInv, UnplacedInv
<1>6. PlacedInv'
  <2>0. PlacedInv
    BY DEF StageInv
  <2>1. Once(cook_queue)' /\ \A d : AtCooks(d)' <=> AtCooks(d)
    BY <1>1, <2>0 DEF PlacedInv, Once, AtCooks
  <2>2. ASSUME NEW x \in 1 .. Len(cook_queue.cells), NEW p, p = cook_queue.cells[x], p.customer # 0
        PROVE  Placed(p.customer)' /\ waiter_to_serve[p.customer] = p.waiter
    BY <1>3, <1>4, <2>0, <2>2 DEF PlacedInv, AtCooks
  <2>3. ASSUME NEW k \in Cooks, NEW p, p = cook_job[k].order, p.customer # 0
        PROVE  /\ Placed(p.customer)' /\ waiter_to_serve[p.customer] = p.waiter
               /\ ~AtCooks(p.customer)
               /\ \A l \in Cooks \ {k} : cook_job[l].order.customer # p.customer
    BY <1>3, <1>4, <2>0, <2>3 DEF PlacedInv
  <2>4. ASSUME NEW v \in Waiters, NEW d, d = FR'[v], d # 0
        PROVE  /\ Placed(d)' /\ waiter_to_serve[d] = v /\ ~AtCooks(d)
               /\ \A k \in Cooks : cook_job[k].order.customer # d
    <3>1. v # w /\ d = FR[v]
      BY <1>1, <2>4
    <3>2. /\ Placed(d) /\ waiter_to_serve[d] = v /\ ~AtCooks(d)
          /\ \A k \in Cooks : cook_job[k].order.customer # d
      BY <2>0, <2>4, <3>1 DEF PlacedInv
    <3>. QED BY <1>3, <1>4, <3>1, <3>2
  <2>. QED BY <1>1, <2>1, <2>2, <2>3, <2>4 DEF PlacedInv
<1>7. FreshInv'
  <2>1. customer[c] \notin {"away", "arriving"}
    BY <1>3 DEF Placed
  <2>. QED BY <1>1, <1>2, <2>1 DEF StageInv, FreshInv
<1>. QED BY <1>5, <1>6, <1>7 DEF StageInv

LEMMA StageStep ==
  ASSUME Shape, CountsInv, StageInv, [Next]_vars
  PROVE  StageInv'
<1>1. ASSUME NEW k \in Cooks, CookLeaves(k) \/ CookExits(k) PROVE StageInv'
  <2>1. UNCHANGED <<queue, waiter_job, cook_queue, cook_job, FR, waiter_to_serve,
                    customer, sem_customer>>
    BY <1>1 DEF CookLeaves, CookExits, cooks_vars, waiters_vars, customer_vars
  <2>. QED BY <2>1, StageKept DEF StageInv, FreshInv, Unplaced, Placed
<1>2. ASSUME NEW w \in Waiters, WaiterLeaves(w) \/ WaiterExits(w) PROVE StageInv'
  <2>1. UNCHANGED <<queue, waiter_job, cook_queue, cook_job, FR, waiter_to_serve,
                    customer, sem_customer>>
    BY <1>2 DEF WaiterLeaves, WaiterExits, cooks_vars, waiters_vars, customer_vars
  <2>. QED BY <2>1, StageKept DEF StageInv, FreshInv, Unplaced, Placed
<1>3. ASSUME Remove \/ UNCHANGED vars PROVE StageInv'
  <2>1. UNCHANGED <<queue, waiter_job, cook_queue, cook_job, FR, waiter_to_serve,
                    customer, sem_customer>>
    BY <1>3 DEF Remove, vars, cooks_vars, waiters_vars, customer_vars
  <2>. QED BY <2>1, StageKept DEF StageInv, FreshInv, Unplaced, Placed
<1>. QED BY Steps, <1>1, <1>2, <1>3, StageTakeOrder, StageFinishOrder, StageServe,
            StageTakeFromCustomer, StagePlaceOrder, StageTakeTable, StageCustomer, StageArrive

-----------------------------------------------------------------------------
(* What is owed to the customers, and the wakeups.                         *)

UnservedOf(w) == {c \in Customers : Unserved(c) /\ waiter_to_serve[c] = w}

LEMMA UnservedIsFinite ==
  ASSUME NEW w
  PROVE  IsFiniteSet(UnservedOf(w)) /\ Cardinality(UnservedOf(w)) \in Nat
<1>1. UnservedOf(w) \subseteq Customers
  BY DEF UnservedOf
<1>. QED BY <1>1, Base, FS_Subset, FS_CardinalityType

LEMMA UnservedIs ==
  ASSUME Shape, NEW c \in Customers
  PROVE  Unserved(c) <=> Unplaced(c) \/ Placed(c)
<1>1. sem_customer[c] \in Nat
  BY DEF Shape
<1>. QED BY <1>1 DEF Unserved, Unplaced, Placed

\* The wakeups of a waiter, one waiter at a time.
Awake(w) == /\ sem_waiter[w] >= Len(queue[w].cells)
            /\ FR[w] # 0 => sem_waiter[w] >= Len(queue[w].cells) + 1

LEMMA AwakeIs ==
  ASSUME NEW s \in Int, NEW l \in Int, NEW f
  PROVE  s >= l + (IF f = 0 THEN 0 ELSE 1) <=> s >= l /\ (f # 0 => s >= l + 1)
<1>1. CASE f = 0
  <2>1. (IF f = 0 THEN 0 ELSE 1) = 0
    BY <1>1
  <2>. QED BY <1>1, <2>1
<1>2. CASE f # 0
  <2>1. (IF f = 0 THEN 0 ELSE 1) = 1
    BY <1>2
  <2>. QED BY <1>2, <2>1
<1>. QED BY <1>1, <1>2

LEMMA WakeupsAre ==
  ASSUME \A w \in Waiters : sem_waiter[w] \in Int /\ Len(queue[w].cells) \in Int
  PROVE  NoWakeupIsLost <=> sem_cook >= COOK_ORDERS /\ \A w \in Waiters : Awake(w)
<1>1. ASSUME NEW w \in Waiters
      PROVE  sem_waiter[w] >= Len(queue[w].cells) + (IF FR[w] = 0 THEN 0 ELSE 1) <=> Awake(w)
  BY AwakeIs DEF Awake
<1>. QED BY <1>1 DEF NoWakeupIsLost

LEMMA WakeInit == Init => UnservedAreCounted /\ NoWakeupIsLost
<1>. SUFFICES ASSUME Init PROVE UnservedAreCounted /\ NoWakeupIsLost
  OBVIOUS
<1>1. \A w \in Waiters : UnservedOf(w) = {} /\ PO[w] = 0
  BY DEF Init, UnservedOf, Unserved
<1>2. \A w \in Waiters : Len(queue[w].cells) = 0 /\ FR[w] = 0 /\ sem_waiter[w] = 0
  BY NoOrderTypes DEF Init
<1>3. sem_cook = 0 /\ COOK_ORDERS = 0
  BY DEF Init
<1>4. UnservedAreCounted
  BY <1>1, FS_EmptySet DEF UnservedAreCounted, UnservedOf
<1>5. NoWakeupIsLost
  <2>1. sem_cook >= COOK_ORDERS
    BY <1>3
  <2>2. \A w \in Waiters : Awake(w) /\ sem_waiter[w] \in Int /\ Len(queue[w].cells) \in Int
    BY <1>2 DEF Awake
  <2>. QED BY <2>1, <2>2, WakeupsAre
<1>. QED BY <1>4, <1>5

LEMMA UnservedKept ==
  ASSUME UnservedAreCounted, UNCHANGED <<PO, waiter_to_serve>>,
         \A c \in Customers : Unserved(c)' <=> Unserved(c)
  PROVE  UnservedAreCounted'
<1>1. \A w : UnservedOf(w)' = UnservedOf(w)
  BY DEF UnservedOf
<1>. QED BY <1>1 DEF UnservedAreCounted, UnservedOf

LEMMA UnservedServe ==
  ASSUME Shape, StageInv, UnservedAreCounted, NEW w \in Waiters, Serve(w)
  PROVE  UnservedAreCounted'
<1>c. PICK c : c = FR[w]
  OBVIOUS
<1>1. Placed(c) /\ waiter_to_serve[c] = w /\ c \in Customers
  BY <1>c DEF Serve, StageInv, PlacedInv, Placed
<1>2. /\ UNCHANGED <<customer, waiter_to_serve>>
      /\ \A v \in Waiters : PO'[v] = (IF v = w THEN PO[w] - 1 ELSE PO[v]) /\ PO[v] \in Int
  BY DEF Serve, customer_vars, Shape
<1>3. \A d \in Customers : sem_customer[d] \in Nat /\
        sem_customer'[d] = IF d = c THEN sem_customer[d] + 1 ELSE sem_customer[d]
  BY <1>c, SignalFacts DEF Serve
<1>4. Unserved(c) /\ ~Unserved(c)' /\ \A d \in Customers \ {c} : Unserved(d)' <=> Unserved(d)
  BY <1>1, <1>2, <1>3 DEF Unserved, Placed
<1>. SUFFICES ASSUME NEW v \in Waiters PROVE PO'[v] = Cardinality(UnservedOf(v)')
  BY DEF UnservedAreCounted, UnservedOf
<1>5. PO[v] = Cardinality(UnservedOf(v))
  BY DEF UnservedAreCounted, UnservedOf
<1>6. CASE v = w
  <2>1. UnservedOf(w)' = UnservedOf(w) \ {c} /\ c \in UnservedOf(w)
    BY <1>1, <1>2, <1>4 DEF UnservedOf
  <2>2. Cardinality(UnservedOf(w)') = Cardinality(UnservedOf(w)) - 1
    BY <2>1, UnservedIsFinite, FS_RemoveElement
  <2>. QED BY <1>2, <1>5, <1>6, <2>2
<1>7. CASE v # w
  <2>1. UnservedOf(v)' = UnservedOf(v)
    BY <1>1, <1>2, <1>4, <1>7 DEF UnservedOf
  <2>. QED BY <1>2, <1>5, <1>7, <2>1
<1>. QED BY <1>6, <1>7

LEMMA UnservedTakeTable ==
  ASSUME Shape, StageInv, UnservedAreCounted, NEW c \in Customers, TakeTable(c)
  PROVE  UnservedAreCounted'
<1>w. PICK w \in Waiters : w = WAITER_NEXT
  BY DEF Shape
<1>1. /\ UNCHANGED sem_customer /\ customer[c] = "arriving"
      /\ \A d \in Customers : customer'[d] = IF d = c THEN "ordering" ELSE customer[d]
      /\ \A d \in Customers : waiter_to_serve'[d] = IF d = c THEN w ELSE waiter_to_serve[d]
      /\ \A v \in Waiters : PO'[v] = (IF v = w THEN PO[w] + 1 ELSE PO[v]) /\ PO[v] \in Int
  BY <1>w DEF TakeTable, GoTo, Shape
<1>2. sem_customer[c] = 0
  BY <1>1 DEF StageInv, FreshInv
<1>3. ~Unserved(c) /\ Unserved(c)' /\ \A d \in Customers \ {c} : Unserved(d)' <=> Unserved(d)
  BY <1>1, <1>2 DEF Unserved
<1>. SUFFICES ASSUME NEW v \in Waiters PROVE PO'[v] = Cardinality(UnservedOf(v)')
  BY DEF UnservedAreCounted, UnservedOf
<1>4. PO[v] = Cardinality(UnservedOf(v))
  BY DEF UnservedAreCounted, UnservedOf
<1>5. CASE v = w
  <2>1. UnservedOf(w)' = UnservedOf(w) \cup {c} /\ c \notin UnservedOf(w)
    BY <1>1, <1>3 DEF UnservedOf
  <2>2. Cardinality(UnservedOf(w)') = Cardinality(UnservedOf(w)) + 1
    BY <2>1, UnservedIsFinite, FS_AddElement
  <2>. QED BY <1>1, <1>4, <1>5, <2>2
<1>6. CASE v # w
  <2>1. UnservedOf(v)' = UnservedOf(v)
    BY <1>1, <1>3, <1>6 DEF UnservedOf
  <2>. QED BY <1>1, <1>4, <1>6, <2>1
<1>. QED BY <1>5, <1>6

LEMMA UnservedStep ==
  ASSUME Shape, CountsInv, StageInv, UnservedAreCounted, [Next]_vars
  PROVE  UnservedAreCounted'
<1>1. ASSUME NEW k \in Cooks,
             CookLeaves(k) \/ TakeOrder(k) \/ FinishOrder(k) \/ CookExits(k)
      PROVE  UnservedAreCounted'
  <2>1. UNCHANGED <<PO, waiter_to_serve, customer, sem_customer>>
    BY <1>1 DEF CookLeaves, TakeOrder, FinishOrder, CookExits, waiters_vars, customer_vars
  <2>. QED BY <2>1, UnservedKept DEF Unserved
<1>2. ASSUME NEW w \in Waiters, WaiterLeaves(w) \/ TakeFromCustomer(w) \/ WaiterExits(w)
      PROVE  UnservedAreCounted'
  <2>1. UNCHANGED <<PO, waiter_to_serve, customer, sem_customer>>
    BY <1>2 DEF WaiterLeaves, TakeFromCustomer, WaiterExits, waiters_vars, customer_vars
  <2>. QED BY <2>1, UnservedKept DEF Unserved
<1>3. ASSUME NEW w \in Waiters, PlaceOrder(w) PROVE UnservedAreCounted'
  <2>c. PICK c : c = waiter_job[w].order.customer
    OBVIOUS
  <2>1. UNCHANGED <<PO, waiter_to_serve, customer>>
    BY <1>3 DEF PlaceOrder, waiters_vars, customer_vars
  <2>2. \A d \in Customers : sem_customer[d] \in Nat /\
          sem_customer'[d] = IF d = c THEN sem_customer[d] + 1 ELSE sem_customer[d]
    BY <1>3, <2>c, SignalFacts DEF PlaceOrder
  <2>3. c \in Customers => Unplaced(c)
    BY <2>c, Base DEF StageInv, UnplacedInv, UnplacedAt
  <2>4. \A d \in Customers : Unserved(d)' <=> Unserved(d)
    BY <2>1, <2>2, <2>3 DEF Unserved, Unplaced
  <2>. QED BY <2>1, <2>4, UnservedKept
<1>4. ASSUME NEW c \in Customers,
             TurnedAway(c) \/ OrderPlaced(c) \/ GetFood(c) \/ FinishEating(c)
      PROVE  UnservedAreCounted'
  <2>1. UNCHANGED <<PO, waiter_to_serve>>
    BY <1>4 DEF TurnedAway, OrderPlaced, GetFood, FinishEating, waiters_vars
  <2>2. \A d \in Customers \ {c} : customer'[d] = customer[d] /\ sem_customer'[d] = sem_customer[d]
    BY <1>4 DEF TurnedAway, OrderPlaced, GetFood, FinishEating, GoTo, Signalled, Shape
  <2>3. /\ customer[c] \in {"arriving", "eating"} => customer'[c] = "done"
        /\ customer[c] = "ordering" =>
             customer'[c] = "waiting" /\ sem_customer[c] > 0 /\ sem_customer'[c] = sem_customer[c] - 1
        /\ customer[c] = "waiting" => customer'[c] = "eating" /\ sem_customer[c] > 0
        /\ customer[c] \in {"arriving", "ordering", "waiting", "eating"}
        /\ sem_customer[c] \in Nat
    BY <1>4 DEF TurnedAway, OrderPlaced, GetFood, FinishEating, GoTo, Signalled, Shape
  <2>4. \A d \in Customers : Unserved(d)' <=> Unserved(d)
    BY <2>2, <2>3 DEF Unserved
  <2>. QED BY <2>1, <2>4, UnservedKept
<1>5. ASSUME Arrive PROVE UnservedAreCounted'
  <2>1. UNCHANGED <<PO, waiter_to_serve, sem_customer>>
    BY <1>5 DEF Arrive, waiters_vars
  <2>2. arrived \in Nat /\ arrived + 1 > arrived
    BY DEF Shape
  <2>3. arrived + 1 \in Customers => customer[arrived + 1] = "away"
    BY <2>2 DEF CountsInv
  <2>4. \A d \in Customers : customer'[d] = IF d = arrived + 1 THEN "arriving" ELSE customer[d]
    BY <1>5 DEF Arrive, GoTo, Shape
  <2>5. \A d \in Customers : Unserved(d)' <=> Unserved(d)
    BY <2>1, <2>3, <2>4 DEF Unserved
  <2>. QED BY <2>1, <2>5, UnservedKept
<1>6. ASSUME Remove \/ UNCHANGED vars PROVE UnservedAreCounted'
  <2>1. UNCHANGED <<PO, waiter_to_serve, customer, sem_customer>>
    BY <1>6 DEF Remove, vars, waiters_vars, customer_vars
  <2>. QED BY <2>1, UnservedKept DEF Unserved
<1>. QED BY Steps, <1>1, <1>2, <1>3, <1>4, <1>5, <1>6, UnservedServe, UnservedTakeTable
LEMMA NumberTypes ==
  ASSUME Shape
  PROVE  /\ sem_cook \in Nat /\ COOK_ORDERS \in Int
         /\ \A w \in Waiters : /\ sem_waiter[w] \in Nat /\ Len(queue[w].cells) \in Nat
                               /\ queue[w] \in Queues
<1>1. \A w \in Waiters : queue[w] \in Queues /\ sem_waiter[w] \in Nat
  BY DEF Shape
<1>2. \A q \in Queues : Len(q.cells) \in Nat
  BY DEF Queues
<1>. QED BY <1>1, <1>2 DEF Shape

\* Nobody takes a wakeup of w, and nothing comes to its queue.
LEMMA AwakeKept ==
  ASSUME Shape, NEW w \in Waiters, Awake(w), queue'[w] = queue[w],
         \/ sem_waiter'[w] = sem_waiter[w] /\ (FR'[w] = FR[w] \/ FR'[w] = 0)
         \/ sem_waiter'[w] \in Nat /\ sem_waiter'[w] > sem_waiter[w]
  PROVE  Awake(w)'
<1>1. sem_waiter[w] \in Nat /\ Len(queue[w].cells) \in Nat
  BY NumberTypes
<1>. QED BY <1>1 DEF Awake

\* A waiter with nothing to serve has nothing in its queue and no mark.
LEMMA NothingOwed ==
  ASSUME Shape, StageInv, UnservedAreCounted, NEW w \in Waiters, PO[w] = 0
  PROVE  Len(queue[w].cells) = 0 /\ FR[w] = 0
<1>1. UnservedOf(w) = {}
  <2>1. Cardinality(UnservedOf(w)) = 0
    BY DEF UnservedAreCounted, UnservedOf
  <2>. QED BY <2>1, UnservedIsFinite, FS_EmptySet
<1>2. ASSUME Len(queue[w].cells) # 0 PROVE FALSE
  <2>1. 1 \in 1 .. Len(queue[w].cells)
    BY <1>2, NumberTypes
  <2>2. PICK c : c = queue[w].cells[1].customer
    OBVIOUS
  <2>3. Unplaced(c) /\ waiter_to_serve[c] = w /\ c \in Customers
    BY <2>1, <2>2 DEF StageInv, UnplacedInv, UnplacedAt, Unplaced
  <2>. QED BY <1>1, <2>3, UnservedIs DEF UnservedOf
<1>3. ASSUME FR[w] # 0 PROVE FALSE
  <2>1. Placed(FR[w]) /\ waiter_to_serve[FR[w]] = w /\ FR[w] \in Customers
    BY <1>3 DEF StageInv, PlacedInv, Placed
  <2>. QED BY <1>1, <2>1, UnservedIs DEF UnservedOf
<1>. QED BY <1>2, <1>3

LEMMA CookWakeups ==
  ASSUME Shape, NoWakeupIsLost, [Next]_vars
  PROVE  sem_cook' >= COOK_ORDERS'
<1>. USE NumberTypes DEF NoWakeupIsLost
<1>1. ASSUME NEW k \in Cooks, CookLeaves(k) PROVE sem_cook' >= COOK_ORDERS'
  BY <1>1 DEF CookLeaves, Closing
<1>2. ASSUME NEW k \in Cooks, TakeOrder(k) PROVE sem_cook' >= COOK_ORDERS'
  BY <1>2 DEF TakeOrder
<1>3. ASSUME NEW k \in Cooks, FinishOrder(k) PROVE sem_cook' >= COOK_ORDERS'
  <2>1. COOK_ORDERS' = COOK_ORDERS /\ sem_cook' \in {sem_cook, sem_cook + 1}
    BY <1>3 DEF FinishOrder
  <2>. QED BY <2>1
<1>4. ASSUME NEW w \in Waiters, PlaceOrder(w) PROVE sem_cook' >= COOK_ORDERS'
  BY <1>4 DEF PlaceOrder
<1>5. ASSUME \/ \E k \in Cooks : CookExits(k)
             \/ \E w \in Waiters : \/ WaiterLeaves(w) \/ Serve(w) \/ TakeFromCustomer(w)
                                   \/ WaiterExits(w)
             \/ \E c \in Customers : \/ TurnedAway(c) \/ TakeTable(c) \/ OrderPlaced(c)
                                     \/ GetFood(c) \/ FinishEating(c)
             \/ Arrive \/ Remove \/ UNCHANGED vars
      PROVE  sem_cook' >= COOK_ORDERS'
  <2>1. UNCHANGED cooks_vars
    BY <1>5 DEF CookExits, WaiterLeaves, Serve, TakeFromCustomer, WaiterExits, TurnedAway,
                TakeTable, OrderPlaced, GetFood, FinishEating, Frame, Arrive, Remove, vars
  <2>. QED BY <2>1 DEF cooks_vars
<1>. QED BY Steps, <1>1, <1>2, <1>3, <1>4, <1>5

LEMMA WaiterWakeups ==
  ASSUME Shape, CountsInv, StageInv, UnservedAreCounted, NoWakeupIsLost, [Next]_vars,
         NEW v \in Waiters
  PROVE  Awake(v)'
<1>0. Awake(v) /\ sem_waiter[v] \in Nat /\ Len(queue[v].cells) \in Nat /\ queue[v] \in Queues
  BY NumberTypes, WakeupsAre
<1>1. ASSUME NEW k \in Cooks, NEW S, GoHome(k, S) \/ SignalWaiters(S)
      PROVE  sem_waiter'[v] = sem_waiter[v] \/ (sem_waiter'[v] \in Nat /\ sem_waiter'[v] > sem_waiter[v])
  <2>1. CASE SignalWaiters(S)
    <3>1. sem_waiter'[v] = sem_waiter[v] + (IF v \in S THEN 1 ELSE 0)
      BY <2>1 DEF SignalWaiters
    <3>. QED BY <1>0, <3>1
  <2>2. CASE GoHome(k, S)
    <3>1. PICK last \in BOOLEAN : last = (WORKING_COOKS = 1)
      OBVIOUS
    <3>2. sem_waiter'[v] = sem_waiter[v] + (IF v \in S THEN 1 ELSE 0) + (IF last THEN 1 ELSE 0)
      BY <2>2, <3>1 DEF GoHome
    <3>. QED BY <1>0, <3>2
  <2>. QED BY <1>1, <2>1, <2>2
<1>2. ASSUME NEW k \in Cooks, CookLeaves(k) PROVE Awake(v)'
  <2>1. queue' = queue /\ FR' = FR /\ GoHome(k, {})
    BY <1>2 DEF CookLeaves
  <2>. QED BY <1>0, <1>1, <2>1, AwakeKept
<1>3. ASSUME NEW k \in Cooks, FinishOrder(k) PROVE Awake(v)'
  <2>o. PICK o : o = cook_job[k].order
    OBVIOUS
  <2>1. /\ queue' = queue /\ (GoHome(k, {o.waiter}) \/ SignalWaiters({o.waiter}))
        /\ FR'[v] = IF v = o.waiter THEN o.customer ELSE FR[v]
    BY <1>3, <2>o DEF FinishOrder, Shape
  <2>2. CASE v = o.waiter
    <3>1. sem_waiter'[v] \in Nat /\ sem_waiter'[v] > sem_waiter[v]
      <4>1. CASE SignalWaiters({o.waiter})
        BY <1>0, <2>2, <4>1 DEF SignalWaiters
      <4>2. CASE GoHome(k, {o.waiter})
        <5>1. PICK last \in BOOLEAN : last = (WORKING_COOKS = 1)
          OBVIOUS
        <5>2. sem_waiter'[v] = sem_waiter[v] + 1 + (IF last THEN 1 ELSE 0)
          BY <2>2, <4>2, <5>1 DEF GoHome
        <5>. QED BY <1>0, <5>2
      <4>. QED BY <2>1, <4>1, <4>2
    <3>. QED BY <1>0, <2>1, <3>1, AwakeKept
  <2>3. CASE v # o.waiter
    BY <1>0, <1>1, <2>1, <2>3, AwakeKept
  <2>. QED BY <2>2, <2>3
<1>4. ASSUME NEW w \in Waiters, WaiterLeaves(w) PROVE Awake(v)'
  <2>1. /\ queue' = queue /\ FR' = FR /\ sem_waiter[w] > 0 /\ PO[w] = 0
        /\ sem_waiter'[v] = IF v = w THEN sem_waiter[w] - 1 ELSE sem_waiter[v]
    BY <1>4 DEF WaiterLeaves, Woken, Told, Heard, Shape
  <2>2. CASE v = w
    <3>1. Len(queue[v].cells) = 0 /\ FR[v] = 0
      BY <2>1, <2>2, NothingOwed
    <3>. QED BY <1>0, <2>1, <2>2, <3>1 DEF Awake
  <2>3. CASE v # w
    BY <1>0, <2>1, <2>3, AwakeKept
  <2>. QED BY <2>2, <2>3
<1>5. ASSUME NEW w \in Waiters, Serve(w) PROVE Awake(v)'
  <2>1. /\ queue' = queue /\ FR[w] # 0 /\ FR'[v] = IF v = w THEN 0 ELSE FR[v]
        /\ sem_waiter'[v] = IF v = w THEN sem_waiter[w] - 1 ELSE sem_waiter[v]
    BY <1>5 DEF Serve, Heard, Shape
  <2>2. CASE v = w
    BY <1>0, <2>1, <2>2 DEF Awake
  <2>3. CASE v # w
    BY <1>0, <2>1, <2>3, AwakeKept
  <2>. QED BY <2>2, <2>3
<1>6. ASSUME NEW w \in Waiters, TakeFromCustomer(w) PROVE Awake(v)'
  <2>1. /\ FR' = FR /\ FR[w] = 0 /\ sem_waiter[w] > 0
        /\ queue'[v] = IF v = w THEN Dequeue(queue[w]) ELSE queue[v]
        /\ sem_waiter'[v] = IF v = w THEN sem_waiter[w] - 1 ELSE sem_waiter[v]
    BY <1>6 DEF TakeFromCustomer, Woken, Heard, Shape
  <2>2. CASE v = w
    <3>1. \/ Len(queue'[v].cells) = 0
          \/ Len(queue'[v].cells) = Len(queue[v].cells) - 1
      BY <1>0, <2>1, <2>2, DequeueFacts, NoOrderTypes DEF EmptyQueue
    <3>. QED BY <1>0, <2>1, <2>2, <3>1 DEF Awake
  <2>3. CASE v # w
    BY <1>0, <2>1, <2>3, AwakeKept
  <2>. QED BY <2>2, <2>3
<1>7. ASSUME NEW c \in Customers, TakeTable(c) PROVE Awake(v)'
  <2>w. PICK w \in Waiters : w = WAITER_NEXT
    BY DEF Shape
  <2>o. PICK o : o = Order(w, c, Arrivals[c].count)
    OBVIOUS
  <2>1. /\ FR' = FR /\ o \in Orders
        /\ queue'[v] = IF v = w THEN Enqueue(queue[w], o) ELSE queue[v]
        /\ sem_waiter'[v] = IF v = w THEN sem_waiter[v] + 1 ELSE sem_waiter[v]
    BY <1>0, <1>7, <2>w, <2>o, Base, SMTT(30) DEF TakeTable, SignalWaiters, Shape, Order, Orders
  <2>2. CASE v = w
    <3>1. Len(queue'[v].cells) <= Len(queue[v].cells) + 1 /\ Len(queue'[v].cells) \in Nat
      <4>1. queue'[v] \in Queues /\ Len(queue'[v].cells) <= Len(queue[v].cells) + 1
        BY <1>0, <2>1, <2>2, EnqueueFacts
      <4>. QED BY <4>1 DEF Queues
    <3>. QED BY <1>0, <2>1, <2>2, <3>1 DEF Awake
  <2>3. CASE v # w
    BY <1>0, <2>1, <2>3, AwakeKept
  <2>. QED BY <2>2, <2>3
<1>8. ASSUME UNCHANGED <<queue, FR, sem_waiter>> PROVE Awake(v)'
  BY <1>0, <1>8 DEF Awake
<1>9. ASSUME \/ \E k \in Cooks : TakeOrder(k) \/ CookExits(k)
             \/ \E w \in Waiters : PlaceOrder(w) \/ WaiterExits(w)
             \/ \E c \in Customers : TurnedAway(c) \/ OrderPlaced(c) \/ GetFood(c) \/ FinishEating(c)
             \/ Arrive \/ Remove \/ UNCHANGED vars
      PROVE  UNCHANGED <<queue, FR, sem_waiter>>
  BY <1>9 DEF TakeOrder, CookExits, PlaceOrder, WaiterExits, TurnedAway, OrderPlaced, GetFood,
              FinishEating, Arrive, Remove, vars, waiters_vars
<1>. QED BY Steps, <1>2, <1>3, <1>4, <1>5, <1>6, <1>7, <1>8, <1>9

-----------------------------------------------------------------------------
(* The theorems.                                                           *)

IInv == /\ Shape /\ ClockInv /\ CountsInv /\ StageInv
        /\ UnservedAreCounted /\ NoWakeupIsLost

LEMMA IInvInit == Init => IInv
BY ShapeInit, CountsInit, StageInit, WakeInit DEF IInv

LEMMA IInvStep == IInv /\ [Next]_vars => IInv'
<1>. SUFFICES ASSUME IInv, [Next]_vars PROVE IInv'
  OBVIOUS
<1>. USE DEF IInv
<1>1. Shape' /\ ClockInv' /\ CountsInv' /\ StageInv' /\ UnservedAreCounted'
  BY ShapeStep, CountsStep, StageStep, UnservedStep
<1>2. sem_cook' >= COOK_ORDERS'
  BY CookWakeups
<1>3. ASSUME NEW w \in Waiters
      PROVE  sem_waiter'[w] >= Len(queue'[w].cells) + (IF FR'[w] = 0 THEN 0 ELSE 1)
  <2>1. /\ sem_waiter'[w] >= Len(queue'[w].cells)
        /\ FR'[w] # 0 => sem_waiter'[w] >= Len(queue'[w].cells) + 1
    BY WaiterWakeups DEF Awake
  <2>2. sem_waiter'[w] \in Int /\ queue'[w] \in Queues
    BY <1>1 DEF Shape
  <2>3. Len(queue'[w].cells) \in Int
    BY <2>2 DEF Queues
  <2>. QED BY <2>1, <2>2, <2>3, AwakeIs
<1>. QED BY <1>1, <1>2, <1>3 DEF NoWakeupIsLost

LEMMA Invariance == Spec => []IInv
BY IInvInit, IInvStep, PTL DEF Spec

LEMMA AtMostOne ==
  ASSUME NEW S, NEW P, \A x, y \in S : x = y, \A x \in S : P
  PROVE  Cardinality(S) \in Nat /\ Cardinality(S) <= 1 /\ (Cardinality(S) # 0 => P)
<1>1. CASE S = {}
  BY <1>1, FS_EmptySet
<1>2. CASE S # {}
  <2>1. PICK x \in S : TRUE
    BY <1>2
  <2>2. S = {x} /\ P
    BY <2>1
  <2>. QED BY <2>2, FS_Singleton
<1>. QED BY <1>1, <1>2

LEMMA PlacesAreFew == Shape /\ StageInv => OrderInOnePlace
<1>. SUFFICES ASSUME Shape, StageInv, NEW c \in Customers
              PROVE  PlacesOf(c) <= IF Unserved(c) THEN 1 ELSE 0
  BY DEF OrderInOnePlace
<1>w. PICK w \in Waiters : w = waiter_to_serve[c]
  BY DEF Shape
<1>. DEFINE A == {x \in DOMAIN queue[w].cells : queue[w].cells[x].customer = c}
            B == {x \in DOMAIN cook_queue.cells : cook_queue.cells[x].customer = c}
            K == {k \in Cooks : cook_job[k].order.customer = c}
            a == Cardinality(A)  b == Cardinality(B)  e == Cardinality(K)
            d == IF waiter_job[w].order.customer = c THEN 1 ELSE 0
            f == IF FR[w] = c THEN 1 ELSE 0
<1>0. c # 0 /\ ~(Placed(c) /\ Unplaced(c)) /\ (Unserved(c) <=> Placed(c) \/ Unplaced(c))
  BY Base, UnservedIs DEF Placed, Unplaced
<1>1. /\ DOMAIN queue[w].cells = 1 .. Len(queue[w].cells)
      /\ DOMAIN cook_queue.cells = 1 .. Len(cook_queue.cells)
  <2>1. queue[w].cells \in Seq(Orders) /\ cook_queue.cells \in Seq(Orders)
    BY DEF Shape, Queues
  <2>. QED BY <2>1
<1>2. a \in Nat /\ a <= 1 /\ (a # 0 => Unplaced(c) /\ AtWaiter(w, c))
  <2>1. \A x, y \in A : x = y
    BY <1>0, <1>1 DEF StageInv, UnplacedInv, UnplacedAt, Once
  <2>2. \A x \in A : Unplaced(c) /\ AtWaiter(w, c)
    BY <1>1 DEF StageInv, UnplacedInv, UnplacedAt, AtWaiter
  <2>. HIDE DEF A
  <2>. QED BY <2>1, <2>2, AtMostOne
<1>3. b \in Nat /\ b <= 1 /\ (b # 0 => Placed(c) /\ AtCooks(c))
  <2>1. \A x, y \in B : x = y
    BY <1>0, <1>1 DEF StageInv, PlacedInv, Once
  <2>2. \A x \in B : Placed(c) /\ AtCooks(c)
    BY <1>0, <1>1 DEF StageInv, PlacedInv, AtCooks
  <2>. HIDE DEF B
  <2>. QED BY <2>1, <2>2, AtMostOne
<1>4. e \in Nat /\ e <= 1 /\ (e # 0 => Placed(c) /\ ~AtCooks(c) /\ FR[w] # c)
  <2>1. \A x, y \in K : x = y
    BY <1>0 DEF StageInv, PlacedInv
  <2>2. \A x \in K : Placed(c) /\ ~AtCooks(c) /\ FR[w] # c
    BY <1>0 DEF StageInv, PlacedInv
  <2>. HIDE DEF K
  <2>. QED BY <2>1, <2>2, AtMostOne
<1>5. d \in {0, 1} /\ (d # 0 => Unplaced(c) /\ ~AtWaiter(w, c))
  BY <1>0 DEF StageInv, UnplacedInv, UnplacedAt
<1>6. f \in {0, 1} /\ (f # 0 => Placed(c) /\ ~AtCooks(c) /\ FR[w] = c)
  BY <1>0 DEF StageInv, PlacedInv
<1>7. PlacesOf(c) = a + b + d + e + f
  BY <1>w DEF PlacesOf, In
<1>. HIDE DEF a, b, d, e, f
<1>8. a + b + d + e + f <= 1 /\ (a + b + d + e + f # 0 => Placed(c) \/ Unplaced(c))
  <2>1. CASE a # 0 \/ d # 0
    BY <1>0, <1>2, <1>3, <1>4, <1>5, <1>6, <2>1
  <2>2. CASE ~(a # 0 \/ d # 0)
    BY <1>2, <1>3, <1>4, <1>5, <1>6, <2>2
  <2>. QED BY <2>1, <2>2
<1>9. CASE Unserved(c)
  BY <1>7, <1>8, <1>9
<1>10. CASE ~Unserved(c)
  BY <1>0, <1>2, <1>3, <1>4, <1>5, <1>6, <1>7, <1>8, <1>10
<1>. QED BY <1>9, <1>10

LEMMA ShapesAreTypes == IInv => TypeOK
<1>. SUFFICES ASSUME IInv PROVE TypeOK
  OBVIOUS
<1>1. EMPTY_TABLES \in 0 .. TABLES
  BY SeatedIsFinite, Base DEF IInv, CountsInv, TablesAreCounted, Shape
<1>2. PO \in [Waiters -> Nat]
  <2>1. \A w \in Waiters : PO[w] \in Nat
    BY UnservedIsFinite DEF IInv, UnservedAreCounted, UnservedOf
  <2>. QED BY <2>1 DEF IInv, Shape
<1>3. WORKING_COOKS \in 0 .. Cardinality(Cooks)
  BY DEF IInv, CountsInv
<1>. QED BY <1>1, <1>2, <1>3 DEF IInv, Shape, TypeOK

(***************************************************************************)
(* Every variable has its type; the counters that the code decreases       *)
(* (cook.c:370, 435, waiter.c:421, customer.c:426) never fall below zero,  *)
(* in whatever order the processes run; only COOK_ORDERS may.              *)
(***************************************************************************)
THEOREM RestaurantTypes == Spec => []TypeOK
BY Invariance, ShapesAreTypes, PTL

(***************************************************************************)
(* The tables are counted, whatever becomes of an order.                   *)
(***************************************************************************)
THEOREM TablesAreRight == Spec => []TablesAreCounted
<1>1. IInv => TablesAreCounted
  BY DEF IInv, CountsInv
<1>. QED BY <1>1, Invariance, PTL

(***************************************************************************)
(* PO counts the customers that a waiter owes their food.                  *)
(***************************************************************************)
THEOREM DebtsAreRight == Spec => []UnservedAreCounted
<1>1. IInv => UnservedAreCounted
  BY DEF IInv
<1>. QED BY <1>1, Invariance, PTL

(***************************************************************************)
(* An order is in one place at most: nobody is served twice.               *)
(***************************************************************************)
THEOREM NobodyIsServedTwice == Spec => []OrderInOnePlace
<1>1. IInv => OrderInOnePlace
  BY PlacesAreFew DEF IInv
<1>. QED BY <1>1, Invariance, PTL

(***************************************************************************)
(* No order waits in a queue, and no mark is set, without a wakeup for it, *)
(* although a waiter may go home.                                          *)
(***************************************************************************)
THEOREM WakeupsSuffice == Spec => []NoWakeupIsLost
<1>1. IInv => NoWakeupIsLost
  BY DEF IInv
<1>. QED BY <1>1, Invariance, PTL
=============================================================================
