--------------------------- MODULE LeaderFollower ---------------------------
(***************************************************************************)
(* LA5/leader.c and LA5/follower.c: a leader and n followers add numbers   *)
(* in rounds, in a segment of shared memory M and by busy waiting.  M[2]   *)
(* says whose turn it is: 0 the leader, id follower id, -id the same       *)
(* follower to leave.  The followers are children of one or more runs of   *)
(* the program follower, which hand out the ids by counting M[1] up, with  *)
(* no lock.  The leader stops at the first sum it has had before.          *)
(*                                                                         *)
(* Each access to a cell that another process may write is a step of its   *)
(* own.  A loop that waits for a cell is a guard.                          *)
(***************************************************************************)
EXTENDS Integers, Sequences, FiniteSets, FiniteSetsExt

CONSTANTS n,             \* followers the leader asks for
          Programs,      \* runs of the program follower
          nf,            \* how many followers each of them is asked to make
          LEADER_MAX,    \* the leader draws from 1 .. LEADER_MAX (code: 99)
          FOLLOWER_MAX,  \* a follower from 1 .. FOLLOWER_MAX (code: 9)
          TABLE,         \* places of hash_table (code: 1000)
          OVERLAP        \* whether follower is run by two users at once, or
                         \* before the leader has said that it waits

\* No more sums than places (code: at most 900 of 1000), so that no two of them
\* have the same home place.
ASSUME LeaderAssumption ==
  /\ n \in Nat \ {0} /\ nf \in [Programs -> Nat \ {0}] /\ OVERLAP \in BOOLEAN
  /\ LEADER_MAX \in Nat \ {0} /\ FOLLOWER_MAX \in Nat \ {0} /\ TABLE \in Nat
  /\ LEADER_MAX + n * FOLLOWER_MAX - n <= TABLE

\* The follower that program g makes in turn k of its loop.
Followers == UNION {{<<g, k>> : k \in 1 .. nf[g]} : g \in Programs}
Ids       == 1 .. n
Places    == 0 .. TABLE - 1

VARIABLES
  shm,           \* the segment: "none", "there", or "removed"
  M0, M1, M2,    \* its first cells: followers wanted, joined, and the turn
  numbers,       \* M[3] of the leader, and M[3 + id] of each follower
  leader,        \* the statement the leader is at
  hash_table, sum_count,
  program,       \* the statement each run of follower is at
  turn,          \* the turn of the loop it is in
  foll_n,        \* the id it is about to give
  follower,      \* the statement each follower is at; "none": not forked
  id,            \* its id
  written        \* history: the ids that wrote in this round, in order

segment == <<M0, M1, M2, numbers>>
table   == <<hash_table, sum_count>>
joining == <<program, turn, foll_n>>
playing == <<follower, id>>
vars    == <<shm, segment, leader, table, joining, playing, written>>

Init ==
  /\ shm = "none" /\ M0 = 0 /\ M1 = 0 /\ M2 = 0
  /\ numbers = [k \in 0 .. n |-> 0]
  /\ leader = "create" /\ hash_table = [k \in Places |-> 0] /\ sum_count = 0
  /\ program = [g \in Programs |-> "start"]
  /\ turn = [g \in Programs |-> 1]
  /\ foll_n = [g \in Programs |-> 0]
  /\ follower = [f \in Followers |-> "none"] /\ id = [f \in Followers |-> 0]
  /\ written = <<>>

-----------------------------------------------------------------------------
(* The leader.                                                             *)

Create ==
  /\ leader = "create" /\ leader' = "M0"
  /\ shm' = "there"
  /\ UNCHANGED <<segment, table, joining, playing, written>>

\* The three cells are set one after the other, in a segment that a follower
\* can find already.
SetTotal ==
  /\ leader = "M0" /\ leader' = "M1"
  /\ M0' = n
  /\ UNCHANGED <<shm, M1, M2, numbers, table, joining, playing, written>>

ResetCount ==
  /\ leader = "M1" /\ leader' = "M2"
  /\ M1' = 0
  /\ UNCHANGED <<shm, M0, M2, numbers, table, joining, playing, written>>

ResetTurn ==
  /\ leader = "M2" /\ leader' = "joining"
  /\ M2' = 0
  /\ UNCHANGED <<shm, M0, M1, numbers, table, joining, playing, written>>

AllJoined ==
  /\ leader = "joining" /\ leader' = "open"
  /\ M1 >= n
  /\ UNCHANGED <<shm, segment, table, joining, playing, written>>

OpenRound ==
  /\ leader = "open" /\ leader' = "await"
  /\ M2' = 1
  /\ written' = <<>>
  /\ UNCHANGED <<shm, M0, M1, numbers, table, joining, playing>>

\* Mutant of AwaitRound: the leader does not wait for its turn.
AwaitNothing ==
  /\ leader = "await" /\ leader' = "sum"
  /\ UNCHANGED <<shm, segment, table, joining, playing, written>>

AwaitRound ==
  /\ leader = "await" /\ leader' = "sum"
  /\ M2 = 0
  /\ UNCHANGED <<shm, segment, table, joining, playing, written>>

\* Mutant of PlaceOf: the probe does not stop at the sum itself.
PlaceFree(sum) ==
  (sum + Min({d \in Places : hash_table[(sum + d) % TABLE] = 0})) % TABLE

\* Where the probe for `sum' ends: the first place that is free or holds it.
PlaceOf(sum) ==
  (sum + Min({d \in Places : hash_table[(sum + d) % TABLE] \in {0, sum}})) % TABLE

\* What the leader's number and those of the followers come to.
SumOf(f) == MapThenSumSet(LAMBDA k : f[k], 0 .. n)

\* The leader draws its number, adds up, and looks for the sum.
Sum ==
  /\ leader = "sum"
  /\ \E v \in 1 .. LEADER_MAX : numbers' = [numbers EXCEPT ![0] = v]
  /\ LET sum == SumOf(numbers')
         idx == PlaceOf(sum)
     IN  IF hash_table[idx] = sum
           THEN leader' = "close" /\ UNCHANGED table
           ELSE /\ leader' = "open"
                /\ hash_table' = [hash_table EXCEPT ![idx] = sum]
                /\ sum_count' = sum_count + 1
  /\ UNCHANGED <<shm, M0, M1, M2, joining, playing, written>>

CloseRound ==
  /\ leader = "close" /\ leader' = "farewell"
  /\ M2' = -1
  /\ UNCHANGED <<shm, M0, M1, numbers, table, joining, playing, written>>

Remove ==
  /\ leader = "farewell" /\ leader' = "done"
  /\ M2 = 0
  /\ shm' = "removed"
  /\ UNCHANGED <<segment, table, joining, playing, written>>

\* custom_handler: Ctrl-C at any time after the segment was made.
Interrupt ==
  /\ leader \notin {"create", "done", "interrupted"} /\ leader' = "interrupted"
  /\ shm' = "removed"
  /\ UNCHANGED <<segment, table, joining, playing, written>>

Leader == \/ Create \/ SetTotal \/ ResetCount \/ ResetTurn \/ AllJoined \/ OpenRound
          \/ AwaitRound \/ Sum \/ CloseRound \/ Remove

-----------------------------------------------------------------------------
(* The program follower, main.                                             *)

NextTurn(g) ==
  /\ turn' = [turn EXCEPT ![g] = @ + 1]
  /\ program' = [program EXCEPT ![g] = IF turn[g] = nf[g] THEN "waitpid" ELSE "read"]

\* What OVERLAP = FALSE says of the user who starts the programs.
OnePromptedProgram(g) ==
  /\ leader \notin {"M0", "M1", "M2"}
  /\ \A h \in Programs \ {g} : program[h] \in {"start", "waitpid", "done"}

\* The user runs the program; it ends if there is no segment of that key.
Attach(g) ==
  /\ program[g] = "start"
  /\ OVERLAP \/ OnePromptedProgram(g)
  /\ program' = [program EXCEPT ![g] = IF shm = "there" THEN "read" ELSE "done"]
  /\ UNCHANGED <<shm, segment, leader, table, turn, foll_n, playing, written>>

ReadCount(g) ==
  /\ program[g] = "read"
  /\ foll_n' = [foll_n EXCEPT ![g] = M1 + 1]
  /\ program' = [program EXCEPT ![g] = "join"]
  /\ UNCHANGED <<shm, segment, leader, table, turn, playing, written>>

\* Refused when all have joined; else counted.
Join(g) ==
  /\ program[g] = "join"
  /\ IF foll_n[g] > M0
       THEN NextTurn(g) /\ UNCHANGED M1
       ELSE /\ M1' = foll_n[g]
            /\ program' = [program EXCEPT ![g] = "fork"]
            /\ UNCHANGED turn
  /\ UNCHANGED <<shm, M0, M2, numbers, leader, table, foll_n, playing, written>>

Fork(g) ==
  /\ program[g] = "fork"
  /\ NextTurn(g)
  /\ follower' = [follower EXCEPT ![<<g, turn[g]>>] = "look"]
  /\ id' = [id EXCEPT ![<<g, turn[g]>>] = foll_n[g]]
  /\ UNCHANGED <<shm, segment, leader, table, foll_n, written>>

\* fork fails: an error message, and the id it counted is nobody's.
ForkError(g) ==
  /\ program[g] = "fork"
  /\ NextTurn(g)
  /\ UNCHANGED <<shm, segment, leader, table, foll_n, playing, written>>

WaitForChildren(g) ==
  /\ program[g] = "waitpid"
  /\ \A k \in 1 .. nf[g] : follower[<<g, k>>] \in {"none", "done"}
  /\ program' = [program EXCEPT ![g] = "done"]
  /\ UNCHANGED <<shm, segment, leader, table, turn, foll_n, playing, written>>

Program(g) == ReadCount(g) \/ Join(g) \/ Fork(g) \/ ForkError(g) \/ WaitForChildren(g)

-----------------------------------------------------------------------------
(* A follower, process_follower.                                           *)

Goto(f, place) == follower' = [follower EXCEPT ![f] = place]

Look(f) ==
  /\ follower[f] = "look"
  /\ M2 \in {id[f], -id[f]}
  /\ Goto(f, "decide")
  /\ UNCHANGED <<shm, segment, leader, table, joining, id, written>>

Decide(f) ==
  /\ follower[f] = "decide"
  /\ Goto(f, IF M2 = -id[f] THEN "leave" ELSE "write")
  /\ UNCHANGED <<shm, segment, leader, table, joining, id, written>>

Write(f) ==
  /\ follower[f] = "write"
  /\ \E v \in 1 .. FOLLOWER_MAX : numbers' = [numbers EXCEPT ![id[f]] = v]
  /\ written' = Append(written, id[f])
  /\ Goto(f, "pass")
  /\ UNCHANGED <<shm, M0, M1, M2, leader, table, joining, id>>

\* Mutant of PassOn: the round ends one follower early.
PassEarly(f) ==
  /\ follower[f] = "pass"
  /\ M2' = IF id[f] + 1 >= M0 THEN 0 ELSE id[f] + 1
  /\ Goto(f, "look")
  /\ UNCHANGED <<shm, M0, M1, numbers, leader, table, joining, id, written>>

PassOn(f) ==
  /\ follower[f] = "pass"
  /\ M2' = IF id[f] = M0 THEN 0 ELSE id[f] + 1
  /\ Goto(f, "look")
  /\ UNCHANGED <<shm, M0, M1, numbers, leader, table, joining, id, written>>

\* Mutants of Leave: whoever leaves gives the turn back; nobody does.
LeaveAtOnce(f) ==
  /\ follower[f] = "leave"
  /\ M2' = 0
  /\ Goto(f, "done")
  /\ UNCHANGED <<shm, M0, M1, numbers, leader, table, joining, id, written>>

LeaveAlways(f) ==
  /\ follower[f] = "leave"
  /\ M2' = -(id[f] + 1)
  /\ Goto(f, "done")
  /\ UNCHANGED <<shm, M0, M1, numbers, leader, table, joining, id, written>>

Leave(f) ==
  /\ follower[f] = "leave"
  /\ M2' = IF id[f] = M0 THEN 0 ELSE -(id[f] + 1)
  /\ Goto(f, "done")
  /\ UNCHANGED <<shm, M0, M1, numbers, leader, table, joining, id, written>>

Follower(f) == Look(f) \/ Decide(f) \/ Write(f) \/ PassOn(f) \/ Leave(f)

-----------------------------------------------------------------------------
Next ==
  \/ Leader \/ Interrupt
  \/ \E g \in Programs : Attach(g) \/ Program(g)
  \/ \E f \in Followers : Follower(f)

\* Every process runs; nobody has to start a program, to interrupt the leader,
\* or to let a fork fail.
Fairness ==
  /\ WF_vars(Leader)
  /\ \A g \in Programs : WF_vars(Program(g))
  /\ \A f \in Followers : WF_vars(Follower(f))

Spec == Init /\ [][Next]_vars /\ Fairness

-----------------------------------------------------------------------------
TypeOK ==
  /\ shm \in {"none", "there", "removed"}
  /\ M0 \in {0, n} /\ M1 \in 0 .. n /\ M2 \in -n .. n
  /\ numbers \in [0 .. n -> 0 .. LEADER_MAX + FOLLOWER_MAX]
  /\ leader \in {"create", "M0", "M1", "M2", "joining", "open", "await", "sum",
                 "close", "farewell", "done", "interrupted"}
  /\ hash_table \in [Places -> 0 .. LEADER_MAX + n * FOLLOWER_MAX]
  /\ sum_count \in Nat
  /\ program \in [Programs -> {"start", "read", "join", "fork", "waitpid", "done"}]
  /\ turn \in [Programs -> Nat] /\ foll_n \in [Programs -> 0 .. n + 1]
  /\ follower \in [Followers -> {"none", "look", "decide", "write", "pass",
                                 "leave", "done"}]
  /\ id \in [Followers -> 0 .. n]
  /\ written \in Seq(Ids)

\* Followers that have seen their turn and not given it away.
AtTurn == {f \in Followers : follower[f] \in {"decide", "write", "pass", "leave"}}

\* The shared cells have one writer at a time, without a lock: a follower that
\* acts on a turn it has read is alone in doing so and the cell still names it,
\* and the leader adds up, or opens and closes rounds, when nobody acts
\* (follower.c:17 to 40, leader.c:72 to 97).
OneAtATime ==
  /\ \A f, e \in AtTurn : f = e
  /\ \A f \in AtTurn : M2 \in {id[f], -id[f]} /\ id[f] # 0
  /\ leader \in {"open", "sum", "close"} => AtTurn = {} /\ M2 = 0

\* When the leader adds up, each follower has written once in this round, in
\* the order of the ids: no number is of the round before (leader.c:79).
RoundIsComplete == leader = "sum" => written = [k \in Ids |-> k]

\* The leader stops at the first sum it has had before and at no other: the
\* sums it went on after are all different and are sums of complete rounds, so
\* that there are only so many; each is at its home place, where the probe for
\* it begins; and the sum it stopped at, of numbers that nobody changes any more
\* while the farewell goes round, is one of them (leader.c:76 to 109).
Sums       == n + 1 .. LEADER_MAX + n * FOLLOWER_MAX
StoredSums == {hash_table[k] : k \in Places} \ {0}

FirstRepetitionEnds ==
  /\ sum_count = Cardinality(StoredSums) /\ StoredSums \subseteq Sums
  /\ \A k \in Places : hash_table[k] # 0 => k = hash_table[k] % TABLE
  /\ leader \in {"close", "farewell", "done"} => SumOf(numbers) \in StoredSums

\* The leader removes the segment of its own accord only when every follower
\* has made its last access to it (leader.c:103 to 109).
EveryoneHasLeft == leader = "done" => \A f \in Followers : follower[f] \in {"none", "done"}

\* Everybody ends, and so the segment is freed, unless the leader is interrupted
\* or some id has no follower for ever: there are only so many sums, and the
\* farewell reaches every follower (leader.c:62 to 104).
Termination ==
  \/ <>(leader = "interrupted")
  \/ <>[](\E k \in Ids : \A f \in Followers : id[f] # k)
  \/ <>(leader = "done" /\ \A g \in Programs : program[g] \in {"start", "done"})

\* What the comments beside M[0] and M[1] say (leader.c:56 and 57): M[1] is the
\* number of current followers, so an id is given to one follower only.
IdsAreDistinct ==
  \A f, e \in Followers : f # e /\ id[f] # 0 => id[f] # id[e]
=============================================================================
