------------------------------ MODULE Resource ------------------------------
(***************************************************************************)
(* LA8/resource.c: n user threads and one master thread that owns a pool   *)
(* of resources.  A user thread posts a request in the one-place mailbox   *)
(* reqc and meets the master at the barrier REQB; the master copies the    *)
(* mailbox and lets the thread go at the barrier ACK[t]; it then serves    *)
(* the request from its private tables, and wakes the thread through       *)
(* ready_reqs[t] and the condition variable CV[t] when it is granted.      *)
(*                                                                         *)
(* Each thread is sequential: pc says which statement it is at.  A barrier *)
(* is the set of the parties that wait at it; the last one to arrive lets  *)
(* all of them go.  Between lock and unlock of CMTX[t] nothing blocks and  *)
(* nobody else touches ready_reqs[t], so those sections are single steps.  *)
(***************************************************************************)
EXTENDS Banker

CONSTANTS Total,     \* units of each kind, input/system.txt
          MaxNeed,   \* claim of each thread, first line of its input file
          DLAVOID,   \* TRUE: built with -D_DLAVOID
          MaxReqs    \* bound: requests in the input file of each thread

ASSUME ResourceAssumption ==
  /\ Total \in [Kinds -> Nat]
  /\ MaxNeed \in [Threads -> [Kinds -> Nat]]
  /\ \A t \in Threads : Fits(MaxNeed[t], Total)
  /\ DLAVOID \in BOOLEAN
  /\ MaxReqs \in [Threads -> Nat]

MASTER  == N                       \* the master, as a party of the barriers
Parties == Threads \cup {MASTER}
NONE    == -1                      \* nobody holds rmtx

RequestTypes == {"ADDITIONAL", "RELEASE", "EXIT"}

VARIABLES
  pc,          \* the statement each thread is at
  \* shared by the threads
  reqc,        \* the mailbox: the request being handed over
  rmtx,        \* holder of the mutex over it
  BOS,         \* parties waiting at the barrier "beginning of session"
  REQB,        \* parties waiting at the barrier "request ready"
  ACK,         \* for each thread, parties waiting at its acknowledgement
  ready_reqs,  \* for each thread, whether its last request was granted
  \* private to each user thread
  rtype,       \* type of the request it is working on
  req_res,     \* the amounts of that request
  held,        \* what its input file has made it hold, were all granted
  todo,        \* requests left in its input file
  \* private to the master
  local_req,   \* its copy of the mailbox
  avail,       \* free units
  alloc,       \* units given to each thread
  live,        \* threads that have not exited
  thread_cnt,  \* how many those are
  queue,       \* requests waiting to be granted
  curr         \* the place in the queue the granting pass has come to

mailbox  == <<reqc, rmtx>>
barriers == <<BOS, REQB, ACK>>
user     == <<rtype, req_res, held, todo>>
tables   == <<avail, alloc, live, thread_cnt>>
master   == <<local_req, tables, queue, curr>>
vars     == <<pc, mailbox, barriers, ready_reqs, user, master>>

-----------------------------------------------------------------------------
(* Barriers.                                                               *)

\* Party p comes to a barrier for two at which those in `there' wait: it
\* waits at `wait', or both go on, to the statement that next has for each.
Meet(p, there, wait, next) ==
  pc' = IF there = {}
          THEN [pc EXCEPT ![p] = wait]
          ELSE [q \in Parties |->
                  IF q \in there \cup {p} THEN next[q] ELSE pc[q]]

\* Who waits at a barrier for two after p has come to it.
Waiting(p, there) == IF there = {} THEN {p} ELSE {}

-----------------------------------------------------------------------------
Init ==
  /\ pc = [p \in Parties |-> "boot"]
  /\ reqc = [type |-> "EXIT", thread_id |-> 0, req |-> Nothing]
  /\ rmtx = NONE
  /\ BOS = {} /\ REQB = {} /\ ACK = [t \in Threads |-> {}]
  /\ ready_reqs = [t \in Threads |-> FALSE]
  /\ rtype = [t \in Threads |-> "RELEASE"]
  /\ req_res = [t \in Threads |-> Nothing]
  /\ held = [t \in Threads |-> Nothing]
  /\ todo = MaxReqs
  /\ local_req = reqc
  /\ avail = Total
  /\ alloc = [t \in Threads |-> Nothing]
  /\ live = Threads
  /\ thread_cnt = N
  /\ queue = <<>>
  /\ curr = 1

\* Every thread waits once at BOS, whose count is n + 1.
Begin(p) ==
  /\ pc[p] = "boot"
  /\ IF BOS \cup {p} = Parties
       THEN /\ BOS' = {}
            /\ pc' = [q \in Parties |-> IF q = MASTER THEN "reqb" ELSE "run"]
       ELSE /\ BOS' = BOS \cup {p}
            /\ pc' = [pc EXCEPT ![p] = "in_bos"]
  /\ UNCHANGED <<mailbox, REQB, ACK, ready_reqs, user, master>>

-----------------------------------------------------------------------------
(* A user thread.                                                          *)

\* What a thread may hold next: its input file never makes it give back more
\* than it has or ask for more than its claim.
Holdings(t) ==
  {h \in [Kinds -> UNION {0 .. MaxNeed[t][k] : k \in Kinds}] : Fits(h, MaxNeed[t])}

\* It reads the next request; one that asks for anything is ADDITIONAL.
ReadRequest(t) ==
  /\ pc[t] = "run" /\ todo[t] > 0
  /\ \E h \in Holdings(t) :
       LET req == Minus(h, held[t])
       IN  /\ req_res' = [req_res EXCEPT ![t] = req]
           /\ rtype' = [rtype EXCEPT ![t] = IF \E k \in Kinds : req[k] > 0
                                              THEN "ADDITIONAL" ELSE "RELEASE"]
           /\ held' = [held EXCEPT ![t] = h]
  /\ todo' = [todo EXCEPT ![t] = @ - 1]
  /\ pc' = [pc EXCEPT ![t] = "post"]
  /\ UNCHANGED <<mailbox, barriers, ready_reqs, master>>

\* It reads 'Q'.  It may come at any line: input files have any length.
ReadQuit(t) ==
  /\ pc[t] = "run"
  /\ rtype' = [rtype EXCEPT ![t] = "EXIT"]
  /\ pc' = [pc EXCEPT ![t] = "post"]
  /\ UNCHANGED <<mailbox, barriers, ready_reqs, req_res, held, todo, master>>

\* It locks rmtx and fills the mailbox.  An EXIT leaves the amounts of an
\* earlier request there, which nobody reads.
Post(t) ==
  /\ pc[t] = "post" /\ rmtx = NONE
  /\ rmtx' = t
  /\ reqc' = [type |-> rtype[t], thread_id |-> t,
              req |-> IF rtype[t] = "EXIT" THEN Nothing ELSE req_res[t]]
  /\ pc' = [pc EXCEPT ![t] = "reqb"]
  /\ UNCHANGED <<barriers, ready_reqs, user, master>>

MeetREQB(p) ==
  /\ pc[p] = "reqb"
  /\ Meet(p, REQB, "in_reqb", [q \in Parties |-> IF q = MASTER THEN "copy" ELSE "ack"])
  /\ REQB' = Waiting(p, REQB)
  /\ UNCHANGED <<mailbox, BOS, ACK, ready_reqs, user, master>>

\* Party p comes to the acknowledgement barrier of thread t.
MeetACK(p, t) ==
  /\ pc[p] = "ack"
  /\ Meet(p, ACK[t], "in_ack", [q \in Parties |-> IF q = MASTER THEN "serve" ELSE "unlock"])
  /\ ACK' = [ACK EXCEPT ![t] = Waiting(p, ACK[t])]
  /\ UNCHANGED <<mailbox, BOS, REQB, ready_reqs, user, master>>

Unlock(t) ==
  /\ pc[t] = "unlock"
  /\ rmtx' = NONE
  /\ pc' = [pc EXCEPT ![t] = CASE rtype[t] = "ADDITIONAL" -> "cond"
                               [] rtype[t] = "RELEASE"    -> "run"
                               [] rtype[t] = "EXIT"       -> "done"]
  /\ UNCHANGED <<reqc, barriers, ready_reqs, user, master>>

\* Mutant of CheckReady: ready_reqs[t] is not reset.
CheckReadyKeeps(t) ==
  /\ pc[t] = "cond"
  /\ pc' = [pc EXCEPT ![t] = IF ready_reqs[t] THEN "run" ELSE "asleep"]
  /\ UNCHANGED <<mailbox, barriers, ready_reqs, user, master>>

\* The while loop around pthread_cond_wait: leave it, or go to sleep on CV[t].
CheckReady(t) ==
  /\ pc[t] = "cond"
  /\ IF ready_reqs[t]
       THEN /\ ready_reqs' = [ready_reqs EXCEPT ![t] = FALSE]
            /\ pc' = [pc EXCEPT ![t] = "run"]
       ELSE /\ pc' = [pc EXCEPT ![t] = "asleep"]
            /\ UNCHANGED ready_reqs
  /\ UNCHANGED <<mailbox, barriers, user, master>>

\* POSIX lets pthread_cond_wait return without a signal.
SpuriousWakeup(t) ==
  /\ pc[t] = "asleep"
  /\ pc' = [pc EXCEPT ![t] = "cond"]
  /\ UNCHANGED <<mailbox, barriers, ready_reqs, user, master>>

UserStep(t) ==
  \/ Begin(t) \/ ReadRequest(t) \/ ReadQuit(t) \/ Post(t) \/ MeetREQB(t)
  \/ MeetACK(t, t) \/ Unlock(t) \/ CheckReady(t)

-----------------------------------------------------------------------------
(* The master thread.                                                      *)

CopyRequest ==
  /\ pc[MASTER] = "copy"
  /\ local_req' = reqc
  /\ pc' = [pc EXCEPT ![MASTER] = "ack"]
  /\ UNCHANGED <<mailbox, barriers, ready_reqs, user, tables, queue, curr>>

\* Mutant of StartPass: pending requests are not looked at again.
StartNoPass ==
  /\ pc' = [pc EXCEPT ![MASTER] = "reqb"]
  /\ curr' = 1
  /\ UNCHANGED <<mailbox, barriers, ready_reqs, user, local_req>>

\* Every way of serving a request but the last EXIT ends in the granting pass.
StartPass ==
  /\ pc' = [pc EXCEPT ![MASTER] = "grant"]
  /\ curr' = 1
  /\ UNCHANGED <<mailbox, barriers, ready_reqs, user, local_req>>

ServeExit(t) ==
  /\ local_req.type = "EXIT"
  /\ avail' = Plus(avail, alloc[t])
  /\ alloc' = [alloc EXCEPT ![t] = Nothing]
  /\ live' = live \ {t}
  /\ thread_cnt' = thread_cnt - 1
  /\ IF thread_cnt = 1
       THEN /\ pc' = [pc EXCEPT ![MASTER] = "done"]
            /\ UNCHANGED <<mailbox, barriers, ready_reqs, user, local_req, curr>>
       ELSE StartPass
  /\ UNCHANGED queue

ServeRelease(t) ==
  /\ local_req.type = "RELEASE"
  /\ avail' = Minus(avail, local_req.req)
  /\ alloc' = [alloc EXCEPT ![t] = Plus(@, local_req.req)]
  /\ StartPass
  /\ UNCHANGED <<live, thread_cnt, queue>>

\* What a request gives back is taken at once; what it asks for is queued.
Given(req) == [k \in Kinds |-> IF req[k] < 0 THEN -req[k] ELSE 0]
Asked(req) == [k \in Kinds |-> IF req[k] < 0 THEN 0 ELSE req[k]]

ServeAdditional(t) ==
  /\ local_req.type = "ADDITIONAL"
  /\ avail' = Plus(avail, Given(local_req.req))
  /\ alloc' = [alloc EXCEPT ![t] = Minus(@, Given(local_req.req))]
  /\ local_req' = [local_req EXCEPT !.req = Asked(@)]
  /\ queue' = Append(queue, [thread_id |-> t, req |-> Asked(local_req.req)])
  /\ pc' = [pc EXCEPT ![MASTER] = "grant"]
  /\ curr' = 1
  /\ UNCHANGED <<mailbox, barriers, ready_reqs, user, live, thread_cnt>>

Serve ==
  /\ pc[MASTER] = "serve"
  /\ \/ ServeExit(local_req.thread_id)
     \/ ServeRelease(local_req.thread_id)
     \/ ServeAdditional(local_req.thread_id)

Decision(i) ==
  Bankers(DLAVOID, avail, MaxNeed, alloc, live, queue[i].thread_id, queue[i].req)

\* Mutant of PositionOf: whatever is granted, the front of the queue leaves.
FrontOf(t) == 1

\* remove_request: the first request of the thread leaves the queue.
PositionOf(t) == SelectInSeq(queue, LAMBDA r : r.thread_id = t)

\* Mutant of Grant: no pthread_cond_signal.
GrantSilently ==
  /\ pc[MASTER] = "grant" /\ curr <= Len(queue)
  /\ Decision(curr) = 1
  /\ LET t   == queue[curr].thread_id
         req == queue[curr].req
     IN  /\ avail' = Minus(avail, req)
         /\ alloc' = [alloc EXCEPT ![t] = Plus(@, req)]
         /\ queue' = RemoveAt(queue, PositionOf(t))
         /\ ready_reqs' = [ready_reqs EXCEPT ![t] = TRUE]
  /\ UNCHANGED <<pc, mailbox, barriers, user, local_req, live, thread_cnt, curr>>

\* The request the pass has come to is granted, and its thread is woken.  The
\* next request is then at the place of this one.
Grant ==
  /\ pc[MASTER] = "grant" /\ curr <= Len(queue)
  /\ Decision(curr) = 1
  /\ LET t   == queue[curr].thread_id
         req == queue[curr].req
     IN  /\ avail' = Minus(avail, req)
         /\ alloc' = [alloc EXCEPT ![t] = Plus(@, req)]
         /\ queue' = RemoveAt(queue, PositionOf(t))
         /\ ready_reqs' = [ready_reqs EXCEPT ![t] = TRUE]
         /\ pc' = [pc EXCEPT ![t] = IF @ = "asleep" THEN "cond" ELSE @]
  /\ UNCHANGED <<mailbox, barriers, user, local_req, live, thread_cnt, curr>>

\* It does not fit, or would lead to an unsafe state: it stays in the queue.
Skip ==
  /\ pc[MASTER] = "grant" /\ curr <= Len(queue)
  /\ Decision(curr) # 1
  /\ curr' = curr + 1
  /\ UNCHANGED <<pc, mailbox, barriers, ready_reqs, user, local_req, tables, queue>>

\* curr is a variable of the loop's body: it ends with the pass.
EndPass ==
  /\ pc[MASTER] = "grant" /\ curr > Len(queue)
  /\ pc' = [pc EXCEPT ![MASTER] = "reqb"]
  /\ curr' = 1
  /\ UNCHANGED <<mailbox, barriers, ready_reqs, user, local_req, tables, queue>>

MasterStep ==
  \/ Begin(MASTER) \/ MeetREQB(MASTER) \/ CopyRequest
  \/ MeetACK(MASTER, local_req.thread_id) \/ Serve
  \/ Grant \/ Skip \/ EndPass

-----------------------------------------------------------------------------
\* main joins all threads and ends.
Ended == \A p \in Parties : pc[p] = "done"

Next ==
  \/ MasterStep
  \/ \E t \in Threads : UserStep(t) \/ SpuriousWakeup(t)
  \/ Ended /\ UNCHANGED vars

\* The kernel runs every thread that can run: rmtx is asked for finitely often
\* (input files are finite), so weak fairness gives it to each that waits.
Fairness == /\ WF_vars(MasterStep)
            /\ \A t \in Threads : WF_vars(UserStep(t))

Spec == Init /\ [][Next]_vars /\ Fairness

-----------------------------------------------------------------------------
UserPlaces   == {"boot", "in_bos", "run", "post", "reqb", "in_reqb", "ack",
                 "in_ack", "unlock", "cond", "asleep", "done"}
MasterPlaces == {"boot", "in_bos", "reqb", "in_reqb", "copy", "ack", "in_ack",
                 "serve", "grant", "done"}

Request == [type : RequestTypes, thread_id : Threads, req : Vector]

TypeOK ==
  /\ pc \in [Parties -> UserPlaces \cup MasterPlaces]
  /\ pc[MASTER] \in MasterPlaces /\ \A t \in Threads : pc[t] \in UserPlaces
  /\ reqc \in Request /\ rmtx \in Threads \cup {NONE}
  /\ BOS \subseteq Parties /\ REQB \subseteq Parties
  /\ ACK \in [Threads -> SUBSET Parties]
  /\ ready_reqs \in [Threads -> BOOLEAN]
  /\ rtype \in [Threads -> RequestTypes] /\ req_res \in [Threads -> Vector]
  /\ held \in [Threads -> Vector] /\ todo \in [Threads -> Nat]
  /\ local_req \in Request
  /\ avail \in Vector /\ alloc \in [Threads -> Vector]
  /\ live \subseteq Threads /\ thread_cnt \in Int
  /\ queue \in Seq([thread_id : Threads, req : Vector]) /\ curr \in Nat \ {0}

-----------------------------------------------------------------------------
(* Where the request of a thread is.                                       *)

InQueue(t) == \E i \in 1 .. Len(queue) : queue[i].thread_id = t
InHand(t)  == /\ pc[MASTER] = "serve"
              /\ local_req.thread_id = t /\ local_req.type = "ADDITIONAL"
Awaiting(t) == rtype[t] = "ADDITIONAL" /\ pc[t] \in {"unlock", "cond", "asleep"}

(***************************************************************************)
(* What the master works from between REQB and ACK is what the holder of   *)
(* rmtx posted: nobody fills the mailbox again, and no other thread meets  *)
(* the master at REQB or at ACK, before the master has its copy            *)
(* (MASTER, lines 416-431, and PROCESS, lines 628-643).                    *)
(***************************************************************************)
CopyIsWhatWasPosted ==
  /\ pc[MASTER] \in {"copy", "ack", "in_ack"} =>
       /\ rmtx \in Threads /\ pc[rmtx] \in {"ack", "in_ack"}
       /\ reqc.thread_id = rmtx /\ reqc.type = rtype[rmtx]
       /\ reqc.type # "EXIT" => reqc.req = req_res[rmtx]
  /\ pc[MASTER] \in {"ack", "in_ack"} => local_req = reqc

(***************************************************************************)
(* A thread that waits for its request finds it in exactly one place: in   *)
(* the master's hand, in the queue, or granted; a thread that does not     *)
(* wait has none anywhere, the queue holds no thread twice, and a thread   *)
(* asleep on CV[t] has not been granted yet (no wakeup is lost).           *)
(***************************************************************************)
RequestHasOneHome ==
  /\ \A t \in Threads :
       /\ Awaiting(t) <=> (InHand(t) \/ InQueue(t) \/ ready_reqs[t])
       /\ ~(InHand(t) /\ InQueue(t))
       /\ ready_reqs[t] => ~InHand(t) /\ ~InQueue(t) /\ pc[t] # "asleep"
  /\ \A i, j \in 1 .. Len(queue) :
       queue[i].thread_id = queue[j].thread_id => i = j

\* The part of held[t] the master does not know of, or has not granted yet.
Posted(t) ==
  IF /\ rtype[t] # "EXIT"
     /\ \/ pc[t] \in {"post", "reqb", "in_reqb"}
        \/ pc[t] \in {"ack", "in_ack"} /\ pc[MASTER] = "copy"
    THEN req_res[t] ELSE Nothing

Copied(t) ==
  IF /\ pc[MASTER] \in {"ack", "in_ack", "serve"}
     /\ local_req.thread_id = t /\ local_req.type # "EXIT"
    THEN local_req.req ELSE Nothing

Queued(t) ==
  IF InQueue(t) THEN queue[PositionOf(t)].req ELSE Nothing

(***************************************************************************)
(* The master's table and the thread's own count of what it has agree at   *)
(* every moment, once the requests under way are counted in: none is       *)
(* dropped, served twice or served for another thread.                     *)
(***************************************************************************)
LedgersAgree ==
  \A t \in live :
    held[t] = Plus(Plus(alloc[t], Posted(t)), Plus(Copied(t), Queued(t)))

(***************************************************************************)
(* With -D_DLAVOID the master's tables are safe after every step, by the   *)
(* textbook definition, not by the loop of `bankers': grants are checked,  *)
(* releases and exits are not.                                             *)
(***************************************************************************)
AlwaysSafe == DLAVOID => Safe(avail, MaxNeed, alloc, live)

(***************************************************************************)
(* One pass over the queue, front to rear, is enough: when the master goes *)
(* back to REQB no request that it skipped could be granted now, though    *)
(* others were granted after it was skipped (lines 502-548).               *)
(***************************************************************************)
NothingGrantableIsLeft ==
  pc[MASTER] \in {"reqb", "in_reqb"} =>
    \A i \in 1 .. Len(queue) : Decision(i) # 1

(***************************************************************************)
(* `bankers' decides exactly: it answers 1 when the queued request fits    *)
(* and the state after its grant is safe by the definition, and -1 when it *)
(* does not fit, in whatever order its loop meets the threads and however  *)
(* many passes it makes (lines 208-337).                                   *)
(***************************************************************************)
BankersIsExact ==
  \A i \in 1 .. Len(queue) :
    LET t == queue[i].thread_id
        req == queue[i].req
        fits == Fits(req, avail)
        safe == DLAVOID => SafeAfter(avail, MaxNeed, alloc, live, t, req)
    IN  Decision(i) = IF ~fits THEN -1 ELSE IF safe THEN 1 ELSE 0

(***************************************************************************)
(* With -D_DLAVOID every thread gets all it asks for and the program ends. *)
(***************************************************************************)
Termination == DLAVOID => <>Ended

-----------------------------------------------------------------------------
(***************************************************************************)
(* The inductive invariant behind CopyIsWhatWasPosted and                  *)
(* RequestHasOneHome: who is where while a request is handed over.         *)
(***************************************************************************)
Posting(t)  == pc[t] \in {"reqb", "in_reqb", "ack", "in_ack"}
Copying     == pc[MASTER] \in {"copy", "ack", "in_ack"}

\* The holder of rmtx is between lock and unlock, and it alone.
LockInv == \A t \in Threads : rmtx = t <=> Posting(t) \/ pc[t] = "unlock"

\* The barriers hold those that wait there, and never two at a time.
BosInv == \A p \in BOS : pc[p] = "in_bos"

ReqbInv ==
  /\ \A p \in Parties : p \in REQB <=> pc[p] = "in_reqb"
  /\ pc[MASTER] = "in_reqb" => \A t \in Threads : pc[t] # "in_reqb"

AckInv ==
  /\ \A t \in Threads, p \in Parties :
       p \in ACK[t] <=> /\ pc[p] = "in_ack"
                        /\ p = t \/ (p = MASTER /\ local_req.thread_id = t)
  /\ pc[MASTER] = "in_ack" => \A t \in Threads : pc[t] # "in_ack"

BarrierInv == BosInv /\ ReqbInv /\ AckInv

\* The mailbox stays as its poster filled it, and the master is at the copy of
\* a thread exactly while that thread is at its acknowledgement.
MailboxInv ==
  /\ \A t \in Threads : Posting(t) =>
       /\ reqc.thread_id = t /\ reqc.type = rtype[t]
       /\ reqc.type # "EXIT" => reqc.req = req_res[t]
  /\ \A t \in Threads : pc[t] \in {"ack", "in_ack"} => Copying
  /\ Copying => rmtx \in Threads /\ pc[rmtx] \in {"ack", "in_ack"}
  /\ pc[MASTER] \in {"ack", "in_ack"} => local_req = reqc

HandoverInv == TypeOK /\ LockInv /\ BarrierInv /\ MailboxInv /\ RequestHasOneHome

-----------------------------------------------------------------------------
(***************************************************************************)
(* The inductive invariant behind LedgersAgree: who has left, and how much *)
(* the requests under way ask for.                                         *)
(***************************************************************************)
AsksNothing(v) == \A k \in Kinds : v[k] <= 0
Within(v, claim) == Fits(Nothing, v) /\ Fits(v, claim)

InMastersHand == pc[MASTER] \in {"ack", "in_ack", "serve"}

\* A thread leaves the tables only after it read 'Q', and the master serves
\* threads that are still in them and have nothing in the queue.
ExitInv ==
  /\ \A t \in Threads : t \notin live => rtype[t] = "EXIT" /\ pc[t] \in {"unlock", "done"}
  /\ pc[MASTER] = "serve" =>
       /\ local_req.thread_id \in live /\ ~InQueue(local_req.thread_id)
       /\ local_req.type = "EXIT" => /\ rtype[local_req.thread_id] = "EXIT"
                                     /\ pc[local_req.thread_id] \in {"unlock", "done"}

\* The type of a request says whether it asks for anything, and a thread stays
\* within its claim whether the request it posts is counted or not.
AmountsInv ==
  /\ \A t \in Threads :
       /\ rtype[t] = "RELEASE" => AsksNothing(req_res[t])
       /\ rtype[t] = "ADDITIONAL" => ~AsksNothing(req_res[t])
       /\ Within(held[t], MaxNeed[t])
       /\ Within(Minus(held[t], Posted(t)), MaxNeed[t])
  /\ InMastersHand =>
       /\ local_req.type = "RELEASE" => AsksNothing(local_req.req)
       /\ local_req.type = "ADDITIONAL" => ~AsksNothing(local_req.req)
  /\ \A i \in 1 .. Len(queue) : Fits(Nothing, queue[i].req) /\ ~AsksNothing(queue[i].req)

\* The master never has a thread below nothing or above its claim.
ClaimsInv == \A t \in Threads : Within(alloc[t], MaxNeed[t])

LedgerInv == HandoverInv /\ ExitInv /\ AmountsInv /\ LedgersAgree /\ ClaimsInv

(***************************************************************************)
(* The inductive invariant behind AlwaysSafe and NothingGrantableIsLeft.   *)
(***************************************************************************)
PassInv ==
  /\ pc[MASTER] = "grant" => \A i \in 1 .. Len(queue) : i < curr => Decision(i) # 1
  /\ pc[MASTER] \in {"boot", "in_bos", "reqb", "in_reqb"} =>
       \A i \in 1 .. Len(queue) : Decision(i) # 1

TablesInv == LedgerInv /\ AlwaysSafe /\ PassInv

-----------------------------------------------------------------------------
(***************************************************************************)
(* Refinement mapping: the allocator's view of a thread changes when the   *)
(* master serves or grants its request, not when the thread posts it or    *)
(* wakes up.                                                               *)
(***************************************************************************)
Allocator == INSTANCE SafeAllocator WITH
  Avoiding <- DLAVOID,
  free  <- avail,
  holds <- alloc,
  wants <- [t \in Threads |-> Queued(t)],
  state <- [t \in Threads |-> IF t \notin live THEN "gone"
                              ELSE IF InQueue(t) THEN "waiting" ELSE "working"]

\* Every step of the program is one step of the allocator, or none.
ImplementsAllocator == Allocator!Spec
=============================================================================
