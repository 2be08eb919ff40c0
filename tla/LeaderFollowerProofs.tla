------------------------ MODULE LeaderFollowerProofs ------------------------
(***************************************************************************)
(* Proofs about LeaderFollower, for any number of followers, of runs of    *)
(* the program follower and of numbers to draw, when the runs are started  *)
(* one after the other (OVERLAP = FALSE).                                  *)
(*                                                                         *)
(* OneAtATime is not inductive.  That a turn belongs to one follower rests *)
(* on the ids being distinct, and that on the joining loops not running at *)
(* the same time, so that M[1] does not change between being read and      *)
(* being written.  RoundIsComplete needs to know, for each value of M[2],  *)
(* how far the round has come.                                             *)
(* FirstRepetitionEnds rests on complete rounds too: they bound the sums,  *)
(* and with no more of them than places each has a home place of its own.  *)
(***************************************************************************)
EXTENDS LeaderFollower, FiniteSetTheorems, WellFoundedInduction, TLAPS

Setup   == {"create", "M0", "M1", "M2"}
Joining == {"read", "join", "fork"}

Shape ==
  /\ shm \in {"none", "there", "removed"}
  /\ M0 \in {0, n} /\ M1 \in 0 .. n /\ M2 \in Int
  /\ leader \in Setup \cup {"joining", "open", "await", "sum", "close",
                            "farewell", "done", "interrupted"}
  /\ program \in [Programs -> {"start", "read", "join", "fork", "waitpid", "done"}]
  /\ turn \in [Programs -> Nat] /\ foll_n \in [Programs -> Nat]
  /\ follower \in [Followers -> {"none", "look", "decide", "write", "pass",
                                 "leave", "done"}]
  /\ id \in [Followers -> 0 .. n]

\* While the leader sets up its cells nobody has joined; later M[0] is n.
SetupInv ==
  /\ leader = "create" => shm = "none"
  /\ shm = "there" /\ leader \notin {"create", "M0"} => M0 = n
  /\ \A g \in Programs : program[g] \notin {"start", "done"} =>
       M0 = n /\ leader \notin Setup
  /\ \A f \in Followers : follower[f] # "none" => M0 = n /\ leader \notin Setup

\* One program joins at a time, and M[1] is what it read, or what it wrote.
JoinInv ==
  /\ \A g, h \in Programs : program[g] \in Joining /\ program[h] \in Joining => g = h
  /\ \A g \in Programs : program[g] = "join" => foll_n[g] = M1 + 1
  /\ \A g \in Programs : program[g] = "fork" =>
       foll_n[g] = M1 /\ M1 # 0 /\ \A f \in Followers : id[f] # M1
  /\ \A g \in Programs : program[g] \in Joining \cup {"start"} =>
       /\ turn[g] \in 1 .. nf[g]
       /\ \A k \in 1 .. nf[g] : k >= turn[g] => follower[<<g, k>>] = "none"

\* Followers have ids of their own, none of them above M[1].
IdInv ==
  /\ \A f \in Followers : follower[f] = "none" <=> id[f] = 0
  /\ \A f \in Followers : leader \notin Setup => id[f] <= M1
  /\ \A f, e \in Followers : id[f] = id[e] /\ id[f] # 0 => f = e

\* What M[2] says of where the leader and the followers are.
TurnInv ==
  /\ leader \in Setup \cup {"joining", "open", "sum", "close", "done"} => M2 = 0
  /\ leader = "await" => M2 >= 0
  /\ leader = "farewell" => M2 <= 0
  /\ \A f \in Followers : follower[f] = "decide" => M2 \in {id[f], -id[f]}
  /\ \A f \in Followers : follower[f] \in {"write", "pass"} => M2 = id[f]
  /\ \A f \in Followers : follower[f] = "leave" => M2 = -id[f]

Upto(k) == [x \in 1 .. k |-> x]

\* How far the round has come.
RoundInv ==
  /\ leader = "await" => \A f \in Followers :
       follower[f] = "pass" => written = Upto(id[f])
  /\ leader = "await" /\ M2 > 0 /\ (\A f \in Followers : follower[f] # "pass") =>
       written = Upto(M2 - 1)
  /\ leader = "sum" \/ (leader = "await" /\ M2 = 0) => written = Upto(n)

IInv == Shape /\ SetupInv /\ JoinInv /\ IdInv /\ TurnInv /\ RoundInv

-----------------------------------------------------------------------------
\* Followers are pairs of a program and a turn of its loop.
LEMMA FollowerPairs ==
  /\ \A g \in Programs : \A k \in 1 .. nf[g] : <<g, k>> \in Followers
  /\ \A f \in Followers : \E g \in Programs : \E k \in 1 .. nf[g] : f = <<g, k>>
BY DEF Followers

\* Writing the next id extends the round by one.
LEMMA AppendUpto ==
  ASSUME NEW k \in Nat, k # 0
  PROVE  Append(Upto(k - 1), k) = Upto(k)
<1>1. Upto(k - 1) \in Seq(Nat) /\ Len(Upto(k - 1)) = k - 1
  BY DEF Upto
<1>2. Append(Upto(k - 1), k) = [x \in 1 .. k |-> IF x <= k - 1 THEN x ELSE k]
  BY <1>1 DEF Upto
<1>3. \A x \in 1 .. k : (IF x <= k - 1 THEN x ELSE k) = x
  OBVIOUS
<1>. QED BY <1>2, <1>3 DEF Upto

\* A turn that was read belongs to one follower.
LEMMA OneHolder ==
  ASSUME IInv
  PROVE  /\ \A f, e \in AtTurn : f = e
         /\ \A f \in AtTurn : id[f] \in 1 .. n /\ M2 \in {id[f], -id[f]} /\ M2 # 0
<1>. USE LeaderAssumption
<1>1. \A f \in AtTurn : f \in Followers /\ id[f] \in 1 .. n /\ M2 \in {id[f], -id[f]} /\ M2 # 0
  BY DEF IInv, Shape, IdInv, TurnInv, AtTurn
<1>2. \A f, e \in AtTurn : id[f] = id[e] /\ id[f] # 0
  BY <1>1
<1>. QED BY <1>1, <1>2 DEF IInv, IdInv

LEMMA InitInv == Init => IInv
<1>. SUFFICES ASSUME Init PROVE IInv
  OBVIOUS
<1>. USE LeaderAssumption DEF Init
<1>1. Shape
  BY DEF Shape, Setup
<1>2. SetupInv
  BY DEF SetupInv, Setup
<1>3. JoinInv
  BY FollowerPairs DEF JoinInv, Joining
<1>4. IdInv /\ TurnInv /\ RoundInv
  BY DEF IdInv, TurnInv, RoundInv, Setup
<1>. QED BY <1>1, <1>2, <1>3, <1>4 DEF IInv

-----------------------------------------------------------------------------
(* The leader.  Only M[2] and `written' matter beyond its own place.       *)

\* What adding up does besides drawing a number and looking in the table.
LEMMA SumStep ==
  ASSUME Sum
  PROVE  /\ leader = "sum" /\ leader' \in {"close", "open"}
         /\ UNCHANGED <<shm, M0, M1, M2, joining, playing, written>>
<1>1. leader = "sum" /\ UNCHANGED <<shm, M0, M1, M2, joining, playing, written>>
  BY Zenon DEF Sum
<1>2. leader' = "close" \/ leader' = "open"
  BY Zenon DEF Sum
<1>. QED BY <1>1, <1>2

\* The steps of the leader, as far as the invariant sees them.
LEMMA LeaderMoves ==
  ASSUME Leader \/ Interrupt
  PROVE  /\ UNCHANGED <<joining, playing>>
         /\ \/ leader = "create" /\ leader' = "M0" /\ shm' = "there"
               /\ UNCHANGED <<M0, M1, M2, written>>
            \/ leader = "M0" /\ leader' = "M1" /\ M0' = n
               /\ UNCHANGED <<shm, M1, M2, written>>
            \/ leader = "M1" /\ leader' = "M2" /\ M1' = 0
               /\ UNCHANGED <<shm, M0, M2, written>>
            \/ leader = "M2" /\ leader' = "joining" /\ M2' = 0
               /\ UNCHANGED <<shm, M0, M1, written>>
            \/ leader = "joining" /\ leader' = "open" /\ UNCHANGED <<shm, M0, M1, M2, written>>
            \/ leader = "open" /\ leader' = "await" /\ M2' = 1 /\ written' = <<>>
               /\ UNCHANGED <<shm, M0, M1>>
            \/ leader = "await" /\ leader' = "sum" /\ M2 = 0
               /\ UNCHANGED <<shm, M0, M1, M2, written>>
            \/ leader = "sum" /\ leader' \in {"close", "open"}
               /\ UNCHANGED <<shm, M0, M1, M2, written>>
            \/ leader = "close" /\ leader' = "farewell" /\ M2' = -1
               /\ UNCHANGED <<shm, M0, M1, written>>
            \/ leader = "farewell" /\ leader' = "done" /\ M2 = 0 /\ shm' = "removed"
               /\ UNCHANGED <<M0, M1, M2, written>>
            \/ leader \notin {"create", "done", "interrupted"} /\ leader' = "interrupted"
               /\ shm' = "removed" /\ UNCHANGED <<M0, M1, M2, written>>
<1>1. CASE Sum
  BY <1>1, SumStep
<1>2. CASE ~Sum
  BY <1>2 DEF Leader, Interrupt, Create, SetTotal, ResetCount, ResetTurn, AllJoined,
     OpenRound, AwaitRound, CloseRound, Remove, segment
<1>. QED BY <1>1, <1>2

LEMMA LeaderStep ==
  ASSUME IInv, Leader \/ Interrupt
  PROVE  IInv'
<1>. USE LeaderAssumption
<1>0. UNCHANGED <<joining, playing>>
  BY LeaderMoves
<1>1. Shape'
  BY LeaderMoves DEF IInv, Shape, Setup, joining, playing
<1>2. /\ SetupInv'
      /\ leader \in Setup => \A f \in Followers : id[f] = 0
      /\ leader \in Setup => \A g \in Programs : program[g] \in {"start", "done"}
  BY LeaderMoves DEF IInv, Shape, SetupInv, IdInv, Setup, joining, playing
<1>3. leader \notin Setup => leader' \notin Setup /\ M1' = M1
  BY LeaderMoves DEF Setup
<1>4. JoinInv'
  BY <1>0, <1>2, <1>3 DEF IInv, JoinInv, Joining, joining, playing
<1>5. IdInv'
  BY <1>0, <1>1, <1>2, <1>3 DEF IInv, IdInv, Shape, joining, playing
<1>6. TurnInv' /\ RoundInv'
  <2>1. CASE leader = "open" /\ leader' = "await" /\ M2' = 1 /\ written' = <<>>
    <3>1. AtTurn = {}
      BY <2>1, OneHolder DEF IInv, TurnInv
    <3>2. Upto(0) = <<>>
      BY DEF Upto
    <3>. QED BY <1>0, <2>1, <3>1, <3>2 DEF TurnInv, RoundInv, AtTurn, playing, Setup
  <2>2. CASE leader = "close" /\ leader' = "farewell" /\ M2' = -1
    <3>1. AtTurn = {}
      BY <2>2, OneHolder DEF IInv, TurnInv
    <3>. QED BY <1>0, <2>2, <3>1 DEF TurnInv, RoundInv, AtTurn, playing, Setup
  <2>3. CASE M2' = M2 /\ written' = written
    <3>1. /\ leader' \in Setup \cup {"joining", "open", "sum", "close", "done"} => M2 = 0
          /\ leader' \notin {"await", "farewell"}
          /\ leader' = "sum" => leader = "await" /\ M2 = 0
      BY <2>3, LeaderMoves DEF IInv, Shape, TurnInv, Setup
    <3>. QED BY <1>0, <2>3, <3>1 DEF IInv, TurnInv, RoundInv, playing, Setup
  <2>. QED BY <2>1, <2>2, <2>3, LeaderMoves DEF IInv, TurnInv, Setup
<1>. QED BY <1>1, <1>2, <1>4, <1>5, <1>6 DEF IInv

-----------------------------------------------------------------------------
(* The program follower.  Nobody but the follower it forks takes part.     *)

LEMMA ProgramStepTurn ==
  ASSUME IInv, UNCHANGED <<leader, M2, playing, written>>
  PROVE  TurnInv' /\ RoundInv'
BY DEF IInv, TurnInv, RoundInv, playing

LEMMA AttachStep ==
  ASSUME IInv, OVERLAP = FALSE, NEW g \in Programs, Attach(g)
  PROVE  IInv'
<1>. USE LeaderAssumption DEF Attach
<1>1. Shape'
  BY DEF IInv, Shape, segment, playing
<1>2. program'[g] = "read" => leader \notin Setup
  BY DEF IInv, Shape, SetupInv, OnePromptedProgram, Setup
<1>3. SetupInv'
  BY <1>2 DEF IInv, Shape, SetupInv, segment, playing, Setup
<1>4. JoinInv'
  <2>1. \A h \in Programs \ {g} : program[h] \notin Joining /\ program'[h] = program[h]
    BY DEF OnePromptedProgram, Joining, IInv, Shape
  <2>2. program'[g] \in {"read", "done"}
    BY DEF IInv, Shape
  <2>. QED BY <2>1, <2>2 DEF IInv, JoinInv, Joining, segment, playing
<1>5. IdInv'
  BY DEF IInv, IdInv, segment, playing
<1>6. TurnInv' /\ RoundInv'
  BY ProgramStepTurn DEF segment
<1>. QED BY <1>1, <1>3, <1>4, <1>5, <1>6 DEF IInv

LEMMA ReadCountStep ==
  ASSUME IInv, NEW g \in Programs, ReadCount(g)
  PROVE  IInv'
<1>. USE LeaderAssumption DEF ReadCount
<1>1. Shape'
  BY DEF IInv, Shape, segment, playing
<1>2. SetupInv'
  BY DEF IInv, Shape, SetupInv, segment, playing, Setup
<1>3. JoinInv'
  <2>1. \A h \in Programs \ {g} :
          program[h] \notin Joining /\ program'[h] = program[h] /\ foll_n'[h] = foll_n[h]
    BY DEF IInv, Shape, JoinInv, Joining
  <2>2. program'[g] = "join" /\ foll_n'[g] = M1 + 1
    BY DEF IInv, Shape
  <2>. QED BY <2>1, <2>2 DEF IInv, JoinInv, Joining, segment, playing
<1>4. IdInv'
  BY DEF IInv, IdInv, segment, playing
<1>5. TurnInv' /\ RoundInv'
  BY ProgramStepTurn DEF segment
<1>. QED BY <1>1, <1>2, <1>3, <1>4, <1>5 DEF IInv

\* The end of a turn of the loop, for one follower more or none.
LEMMA NextTurnStep ==
  ASSUME IInv, NEW g \in Programs, program[g] \in Joining, NextTurn(g), M1' = M1,
         \A f \in Followers \ {<<g, turn[g]>>} : follower'[f] = follower[f]
  PROVE  JoinInv'
<1>. USE LeaderAssumption DEF NextTurn
<1>1. \A h \in Programs \ {g} :
        program[h] \notin Joining /\ program'[h] = program[h] /\ turn'[h] = turn[h]
  BY DEF IInv, Shape, JoinInv
<1>2. /\ program'[g] \in {"waitpid", "read"} /\ turn'[g] = turn[g] + 1
      /\ program'[g] = "read" => turn'[g] \in 1 .. nf[g]
  <2>1. nf[g] \in Nat /\ turn[g] \in 1 .. nf[g]
    BY DEF IInv, JoinInv
  <2>2. program'[g] = (IF turn[g] = nf[g] THEN "waitpid" ELSE "read") /\ turn'[g] = turn[g] + 1
    BY DEF IInv, Shape
  <2>. QED BY <2>1, <2>2
<1>3. \A h \in Programs : \A k \in 1 .. nf[h] :
        program'[h] \in Joining \cup {"start"} /\ k >= turn'[h] => follower'[<<h, k>>] = "none"
  <2>. SUFFICES ASSUME NEW h \in Programs, NEW k \in 1 .. nf[h],
                       program'[h] \in Joining \cup {"start"}, k >= turn'[h]
                PROVE  follower'[<<h, k>>] = "none"
    OBVIOUS
  <2>1. turn[g] \in Nat /\ turn[h] \in Nat
    BY DEF IInv, Shape
  <2>2. program[h] \in Joining \cup {"start"} /\ k >= turn[h] /\ <<h, k>> # <<g, turn[g]>>
    BY <1>1, <1>2, <2>1
  <2>3. follower[<<h, k>>] = "none"
    BY <2>2 DEF IInv, JoinInv
  <2>. QED BY <2>2, <2>3, FollowerPairs
<1>. QED BY <1>1, <1>2, <1>3 DEF IInv, JoinInv, Joining

LEMMA JoinStep ==
  ASSUME IInv, NEW g \in Programs, Join(g)
  PROVE  IInv'
<1>. USE LeaderAssumption DEF Join
<1>0. M0 = n /\ leader \notin Setup /\ foll_n[g] = M1 + 1 /\ program[g] = "join"
  BY DEF IInv, SetupInv, JoinInv
<1>1. Shape'
  BY <1>0 DEF IInv, Shape, playing, NextTurn
<1>2. SetupInv'
  BY <1>0 DEF IInv, Shape, SetupInv, playing, Setup, NextTurn
<1>3. JoinInv'
  <2>1. CASE foll_n[g] > M0
    BY <2>1, NextTurnStep DEF Joining, playing
  <2>2. CASE ~(foll_n[g] > M0)
    <3>1. \A h \in Programs \ {g} : program[h] \notin Joining /\ program'[h] = program[h]
      BY <2>2 DEF IInv, Shape, JoinInv, Joining
    <3>2. program'[g] = "fork" /\ M1' = M1 + 1 /\ foll_n'[g] = M1'
      BY <1>0, <2>2 DEF IInv, Shape
    <3>3. \A f \in Followers : id'[f] # M1'
      BY <1>0, <3>2 DEF IInv, Shape, IdInv, playing
    <3>. QED BY <1>0, <2>2, <3>1, <3>2, <3>3 DEF IInv, Shape, JoinInv, Joining, playing
  <2>. QED BY <2>1, <2>2
<1>4. IdInv'
  BY <1>0 DEF IInv, Shape, IdInv, playing
<1>5. TurnInv' /\ RoundInv'
  BY ProgramStepTurn
<1>. QED BY <1>1, <1>2, <1>3, <1>4, <1>5 DEF IInv

LEMMA ForkStep ==
  ASSUME IInv, NEW g \in Programs, Fork(g)
  PROVE  IInv'
<1>. DEFINE new == <<g, turn[g]>>
<1>. USE LeaderAssumption DEF Fork
<1>0. /\ program[g] = "fork" /\ M0 = n /\ leader \notin Setup
      /\ foll_n[g] = M1 /\ M1 \in 1 .. n
      /\ new \in Followers /\ follower[new] = "none" /\ id[new] = 0
      /\ \A f \in Followers : id[f] # M1
  <2>1. turn[g] \in 1 .. nf[g] /\ follower[new] = "none"
    BY DEF IInv, JoinInv, Joining, Shape
  <2>2. new \in Followers
    BY <2>1, FollowerPairs
  <2>. QED BY <2>1, <2>2 DEF IInv, Shape, SetupInv, JoinInv, IdInv
<1>. HIDE DEF new
<1>1. /\ follower' = [follower EXCEPT ![new] = "look"]
      /\ id' = [id EXCEPT ![new] = M1]
      /\ UNCHANGED <<shm, M0, M1, M2, leader, foll_n, written>>
  BY <1>0 DEF segment, new
<1>2. Shape'
  BY <1>0, <1>1 DEF IInv, Shape, NextTurn
<1>3. SetupInv'
  BY <1>0, <1>1 DEF IInv, Shape, SetupInv, NextTurn, Setup
<1>4. JoinInv'
  BY <1>0, <1>1, NextTurnStep DEF Joining, new, IInv, Shape
<1>5. IdInv'
  BY <1>0, <1>1 DEF IInv, Shape, IdInv
<1>6. TurnInv' /\ RoundInv'
  <2>1. \A f \in Followers \ {new} : follower'[f] = follower[f] /\ id'[f] = id[f]
    BY <1>0, <1>1 DEF IInv, Shape
  <2>2. follower'[new] = "look" /\ follower[new] = "none"
    BY <1>0, <1>1 DEF IInv, Shape
  <2>. QED BY <1>0, <1>1, <2>1, <2>2 DEF IInv, TurnInv, RoundInv
<1>. QED BY <1>2, <1>3, <1>4, <1>5, <1>6 DEF IInv

LEMMA ForkErrorStep ==
  ASSUME IInv, NEW g \in Programs, ForkError(g)
  PROVE  IInv'
<1>. USE LeaderAssumption DEF ForkError
<1>1. Shape' /\ SetupInv'
  BY DEF IInv, Shape, SetupInv, segment, playing, NextTurn, Setup
<1>2. JoinInv'
  BY NextTurnStep DEF Joining, segment, playing
<1>3. IdInv'
  BY DEF IInv, IdInv, segment, playing
<1>4. TurnInv' /\ RoundInv'
  BY ProgramStepTurn DEF segment
<1>. QED BY <1>1, <1>2, <1>3, <1>4 DEF IInv

LEMMA WaitForChildrenStep ==
  ASSUME IInv, NEW g \in Programs, WaitForChildren(g)
  PROVE  IInv'
<1>. USE LeaderAssumption DEF WaitForChildren
<1>1. Shape' /\ SetupInv'
  BY DEF IInv, Shape, SetupInv, segment, playing, Setup
<1>2. JoinInv' /\ IdInv'
  BY DEF IInv, Shape, JoinInv, Joining, IdInv, segment, playing
<1>3. TurnInv' /\ RoundInv'
  BY ProgramStepTurn DEF segment
<1>. QED BY <1>1, <1>2, <1>3 DEF IInv

-----------------------------------------------------------------------------
(* The followers.  A follower that acts on its turn is the only one.       *)

LEMMA FollowerMoves ==
  ASSUME IInv, NEW f \in Followers, NEW place \in {"decide", "write", "leave", "pass", "look", "done"},
         follower[f] # "none", Goto(f, place), M2' \in Int,
         UNCHANGED <<shm, M0, M1, leader, joining, id>>
  PROVE  Shape' /\ SetupInv' /\ JoinInv' /\ IdInv'
<1>. USE LeaderAssumption DEF Goto
<1>1. Shape'
  BY DEF IInv, Shape, joining
<1>2. /\ \A e \in Followers : follower'[e] = "none" <=> follower[e] = "none"
      /\ M0 = n /\ leader \notin Setup
  BY DEF IInv, Shape, SetupInv
<1>3. SetupInv' /\ IdInv'
  BY <1>2 DEF IInv, SetupInv, IdInv, joining, Setup
<1>4. JoinInv'
  <2>1. \A h \in Programs : \A k \in 1 .. nf[h] :
          follower[<<h, k>>] = "none" => follower'[<<h, k>>] = "none"
    BY <1>2, FollowerPairs
  <2>. QED BY <2>1 DEF IInv, JoinInv, Joining, joining
<1>. QED BY <1>1, <1>3, <1>4

LEMMA LookStep ==
  ASSUME IInv, NEW f \in Followers, Look(f)
  PROVE  IInv'
<1>. USE LeaderAssumption DEF Look
<1>1. Shape' /\ SetupInv' /\ JoinInv' /\ IdInv'
  BY FollowerMoves DEF segment, IInv, Shape
<1>2. /\ follower'[f] = "decide"
      /\ \A e \in Followers \ {f} : follower'[e] = follower[e]
      /\ UNCHANGED <<M2, leader, id, written>>
  BY DEF Goto, segment, IInv, Shape
<1>3. TurnInv' /\ RoundInv'
  BY <1>2 DEF IInv, TurnInv, RoundInv
<1>. QED BY <1>1, <1>3 DEF IInv

LEMMA DecideStep ==
  ASSUME IInv, NEW f \in Followers, Decide(f)
  PROVE  IInv'
<1>. USE LeaderAssumption DEF Decide
<1>1. Shape' /\ SetupInv' /\ JoinInv' /\ IdInv'
  BY FollowerMoves DEF segment, IInv, Shape
<1>2. /\ follower'[f] = IF M2 = -id[f] THEN "leave" ELSE "write"
      /\ \A e \in Followers \ {f} : follower'[e] = follower[e]
      /\ UNCHANGED <<M2, leader, id, written>>
  BY DEF Goto, segment, IInv, Shape
<1>3. M2 \in {id[f], -id[f]}
  BY DEF IInv, TurnInv
<1>4. TurnInv' /\ RoundInv'
  BY <1>2, <1>3 DEF IInv, TurnInv, RoundInv
<1>. QED BY <1>1, <1>4 DEF IInv

LEMMA WriteStep ==
  ASSUME IInv, NEW f \in Followers, Write(f)
  PROVE  IInv'
<1>. USE LeaderAssumption
<1>0. /\ follower[f] = "write" /\ Goto(f, "pass") /\ written' = Append(written, id[f])
      /\ UNCHANGED <<shm, M0, M1, M2, leader, joining, id>>
  BY DEF Write
<1>1. Shape' /\ SetupInv' /\ JoinInv' /\ IdInv'
  BY <1>0, FollowerMoves DEF IInv, Shape
<1>2. follower'[f] = "pass" /\ \A e \in Followers \ {f} : follower'[e] = follower[e]
  BY <1>0 DEF Goto, IInv, Shape
<1>3. /\ id[f] \in 1 .. n /\ M2 = id[f]
      /\ \A e \in Followers \ {f} : follower[e] \notin {"decide", "write", "pass", "leave"}
  BY <1>0, OneHolder DEF IInv, TurnInv, AtTurn
<1>4. TurnInv'
  BY <1>0, <1>2, <1>3 DEF IInv, TurnInv
<1>5. RoundInv'
  <2>1. leader # "sum"
    BY <1>3 DEF IInv, TurnInv
  <2>2. leader = "await" => written = Upto(id[f] - 1)
    BY <1>0, <1>3 DEF IInv, RoundInv
  <2>3. leader = "await" => written' = Upto(id[f])
    <3>1. id[f] \in Nat /\ id[f] # 0
      BY <1>3
    <3>2. Append(Upto(id[f] - 1), id[f]) = Upto(id[f])
      BY <3>1, AppendUpto
    <3>. QED BY <1>0, <2>2, <3>2
  <2>. QED BY <1>0, <1>2, <1>3, <2>1, <2>3 DEF RoundInv
<1>. QED BY <1>1, <1>4, <1>5 DEF IInv

LEMMA PassOnStep ==
  ASSUME IInv, NEW f \in Followers, PassOn(f)
  PROVE  IInv'
<1>. USE LeaderAssumption DEF PassOn
<1>1. /\ M0 = n /\ id[f] \in 1 .. n /\ M2 = id[f]
      /\ \A e \in Followers \ {f} : follower[e] \notin {"decide", "write", "pass", "leave"}
  BY OneHolder DEF IInv, SetupInv, TurnInv, AtTurn
<1>2. M2' = (IF id[f] = n THEN 0 ELSE id[f] + 1) /\ M2' \in Int
  BY <1>1
<1>3. Shape' /\ SetupInv' /\ JoinInv' /\ IdInv'
  BY <1>2, FollowerMoves DEF IInv, Shape
<1>4. follower'[f] = "look" /\ \A e \in Followers \ {f} : follower'[e] = follower[e]
  BY DEF Goto, IInv, Shape
<1>5. leader \in {"await", "interrupted"}
  BY <1>1 DEF IInv, Shape, TurnInv
<1>6. leader = "await" => written = Upto(id[f])
  BY DEF IInv, RoundInv
<1>7. TurnInv' /\ RoundInv'
  BY <1>1, <1>2, <1>4, <1>5, <1>6 DEF TurnInv, RoundInv, Setup
<1>. QED BY <1>3, <1>7 DEF IInv

LEMMA LeaveStep ==
  ASSUME IInv, NEW f \in Followers, Leave(f)
  PROVE  IInv'
<1>. USE LeaderAssumption DEF Leave
<1>1. /\ M0 = n /\ id[f] \in 1 .. n /\ M2 = -id[f]
      /\ \A e \in Followers \ {f} : follower[e] \notin {"decide", "write", "pass", "leave"}
  BY OneHolder DEF IInv, SetupInv, TurnInv, AtTurn
<1>2. M2' = (IF id[f] = n THEN 0 ELSE -(id[f] + 1)) /\ M2' \in Int /\ M2' <= 0
  BY <1>1
<1>3. Shape' /\ SetupInv' /\ JoinInv' /\ IdInv'
  BY <1>2, FollowerMoves DEF IInv, Shape
<1>4. follower'[f] = "done" /\ \A e \in Followers \ {f} : follower'[e] = follower[e]
  BY DEF Goto, IInv, Shape
<1>5. leader \in {"farewell", "interrupted"}
  BY <1>1 DEF IInv, Shape, TurnInv
<1>6. TurnInv' /\ RoundInv'
  BY <1>1, <1>2, <1>4, <1>5 DEF TurnInv, RoundInv, Setup
<1>. QED BY <1>3, <1>6 DEF IInv

-----------------------------------------------------------------------------
LEMMA StepInv == OVERLAP = FALSE /\ IInv /\ [Next]_vars => IInv'
<1>. SUFFICES ASSUME OVERLAP = FALSE, IInv, [Next]_vars PROVE IInv'
  OBVIOUS
<1>1. CASE Leader \/ Interrupt
  BY <1>1, LeaderStep
<1>2. ASSUME NEW g \in Programs, Attach(g) \/ Program(g) PROVE IInv'
  BY <1>2, AttachStep, ReadCountStep, JoinStep, ForkStep, ForkErrorStep, WaitForChildrenStep
  DEF Program
<1>3. ASSUME NEW f \in Followers, Follower(f) PROVE IInv'
  BY <1>3, LookStep, DecideStep, WriteStep, PassOnStep, LeaveStep DEF Follower
<1>4. CASE UNCHANGED vars
  BY <1>4 DEF IInv, Shape, SetupInv, JoinInv, IdInv, TurnInv, RoundInv, vars, segment,
     joining, playing
<1>. QED BY <1>1, <1>2, <1>3, <1>4 DEF Next

\* The inductive invariant of the session: distinct ids, one joining program,
\* and M[2] telling where everybody is.
THEOREM SessionInv == ASSUME OVERLAP = FALSE PROVE Spec => []IInv
BY InitInv, StepInv, PTL DEF Spec

\* IdsAreDistinct: what the comments at leader.c:56 and 57 say is true as long
\* as the joining loops do not overlap (follower.c:78 to 87).
THEOREM IdsDoNotCollide == ASSUME OVERLAP = FALSE PROVE Spec => []IdsAreDistinct
<1>1. IInv => IdsAreDistinct
  BY DEF IInv, IdInv, IdsAreDistinct
<1>. QED BY <1>1, SessionInv, PTL

\* OneAtATime: the shared cells are written by the holder of the turn only
\* (follower.c:17 to 40), for any number of followers and programs.
THEOREM TurnsAreExclusive == ASSUME OVERLAP = FALSE PROVE Spec => []OneAtATime
<1>1. IInv => OneAtATime
  <2>. SUFFICES ASSUME IInv PROVE OneAtATime
    OBVIOUS
  <2>1. leader \in {"open", "sum", "close"} => M2 = 0
    BY DEF IInv, TurnInv
  <2>. QED BY <2>1, OneHolder DEF OneAtATime
<1>. QED BY <1>1, SessionInv, PTL

\* RoundIsComplete: the leader adds up exactly one number of each follower,
\* written in this round (leader.c:79), for any number of followers.
THEOREM RoundsAreComplete == ASSUME OVERLAP = FALSE PROVE Spec => []RoundIsComplete
<1>1. IInv => RoundIsComplete
  BY DEF IInv, RoundInv, RoundIsComplete, Upto, Ids
<1>. QED BY <1>1, SessionInv, PTL

-----------------------------------------------------------------------------
(* The farewell.  That all have left needs to know that nobody joins once  *)
(* the leader has counted n, and how far the farewell has come.            *)

LeftInv ==
  /\ leader \in {"open", "await", "sum", "close", "farewell", "done"} => M1 = n
  /\ leader = "farewell" => M2 >= -n
  /\ leader = "farewell" => \A f \in Followers :
       id[f] # 0 /\ (M2 = 0 \/ id[f] < -M2) => follower[f] = "done"
  /\ leader = "farewell" /\ M2 = 0 => \A g \in Programs : program[g] # "fork"
  /\ leader = "done" => \A g \in Programs : program[g] # "fork"
  /\ EveryoneHasLeft

Closing == {"open", "await", "sum", "close", "farewell", "done"}

\* Who joins after the count is full is refused.
LEMMA NobodyJoins ==
  ASSUME IInv, LeftInv, leader \in Closing, NEW g \in Programs, Join(g)
  PROVE  M1' = M1 /\ program' = [program EXCEPT ![g] = IF turn[g] = nf[g] THEN "waitpid" ELSE "read"]
<1>. USE LeaderAssumption
<1>1. program[g] = "join" /\ M1 = n
  BY DEF Join, LeftInv, Closing
<1>2. foll_n[g] = n + 1 /\ M0 = n
  BY <1>1 DEF IInv, JoinInv, SetupInv
<1>. QED BY <1>2 DEF Join, NextTurn

LEMMA LeaderLeft ==
  ASSUME IInv, LeftInv, Leader \/ Interrupt
  PROVE  LeftInv'
<1>. USE LeaderAssumption
<1>0. UNCHANGED <<program, follower, id>>
  BY LeaderMoves DEF joining, playing
<1>1. \A f \in Followers : id[f] \in 0 .. n /\ (follower[f] = "none" <=> id[f] = 0)
  BY DEF IInv, IdInv, Shape
<1>2. CASE leader = "joining" /\ leader' = "open"
  <2>1. M1 >= n /\ M1' = M1
    BY <1>2, LeaderMoves DEF Leader, Interrupt, Create, SetTotal, ResetCount, ResetTurn,
       AllJoined, OpenRound, AwaitRound, Sum, CloseRound, Remove, segment
  <2>2. M1 = n
    BY <2>1 DEF IInv, Shape
  <2>. QED BY <1>2, <2>1, <2>2 DEF LeftInv, EveryoneHasLeft
<1>3. CASE leader = "close" /\ leader' = "farewell"
  <2>1. M2' = -1 /\ M1' = M1
    BY <1>3, LeaderMoves
  <2>. QED BY <1>0, <1>1, <1>3, <2>1 DEF LeftInv, EveryoneHasLeft
<1>4. CASE leader = "farewell" /\ leader' = "done"
  <2>1. M2 = 0 /\ M1' = M1
    BY <1>4, LeaderMoves
  <2>2. EveryoneHasLeft'
    BY <1>0, <1>1, <1>4, <2>1 DEF LeftInv, EveryoneHasLeft
  <2>. QED BY <1>0, <1>4, <2>1, <2>2 DEF LeftInv
<1>5. CASE leader \in {"open", "await", "sum"} /\ leader' \in {"open", "await", "sum", "close"}
  <2>1. M1' = M1
    BY <1>5, LeaderMoves
  <2>. QED BY <1>5, <2>1 DEF LeftInv, EveryoneHasLeft
<1>6. CASE leader' \in {"M0", "M1", "M2", "joining", "interrupted"}
  BY <1>6 DEF LeftInv, EveryoneHasLeft
<1>. QED BY <1>2, <1>3, <1>4, <1>5, <1>6, LeaderMoves

LEMMA ProgramLeft ==
  ASSUME IInv, LeftInv, NEW g \in Programs, Attach(g) \/ Program(g)
  PROVE  LeftInv'
<1>. USE LeaderAssumption
<1>0. leader' = leader /\ M2' = M2 /\ (program[g] # "join" => M1' = M1)
  BY DEF Attach, Program, ReadCount, Join, Fork, ForkError, WaitForChildren, segment
<1>1. CASE Join(g)
  <2>1. UNCHANGED <<follower, id>>
    BY <1>1 DEF Join, playing
  <2>2. CASE leader \in Closing
    <3>1. M1' = M1 /\ \A h \in Programs : program[h] # "fork" => program'[h] # "fork"
      BY <1>1, <2>2, NobodyJoins DEF IInv, Shape
    <3>. QED BY <1>0, <2>1, <3>1 DEF LeftInv, EveryoneHasLeft
  <2>3. CASE leader \notin Closing
    BY <1>0, <2>3 DEF LeftInv, EveryoneHasLeft, Closing
  <2>. QED BY <2>2, <2>3
<1>2. CASE Fork(g)
  <2>1. program[g] = "fork" /\ M1' = M1 /\ foll_n[g] = M1 /\ M1 # 0
    BY <1>2, <1>0 DEF Fork, IInv, JoinInv
  <2>2. \A h \in Programs : program[h] # "fork" => program'[h] # "fork"
    BY <1>2 DEF Fork, NextTurn, IInv, Shape
  <2>3. ASSUME NEW f \in Followers
        PROVE  id'[f] # M1 => follower'[f] = follower[f] /\ id'[f] = id[f]
    BY <1>2, <2>1, FollowerPairs DEF Fork, IInv, Shape
  <2>4. CASE leader = "farewell"
    <3>1. M1 = n /\ M2 # 0 /\ M2 >= -n /\ M2 \in Int
      BY <2>1, <2>4 DEF LeftInv, IInv, Shape
    <3>2. ASSUME NEW f \in Followers, id'[f] # 0, id'[f] < -M2
          PROVE  follower'[f] = "done"
      <4>1. id'[f] # n
        BY <3>1, <3>2
      <4>. QED BY <2>3, <3>1, <3>2, <4>1, <2>4 DEF LeftInv
    <3>. QED BY <1>0, <2>1, <2>4, <3>1, <3>2 DEF LeftInv, EveryoneHasLeft
  <2>5. CASE leader # "farewell"
    <3>1. leader # "done"
      BY <2>1 DEF LeftInv
    <3>. QED BY <1>0, <2>1, <2>5, <3>1 DEF LeftInv, EveryoneHasLeft
  <2>. QED BY <2>4, <2>5
<1>3. CASE Attach(g) \/ ReadCount(g) \/ ForkError(g) \/ WaitForChildren(g)
  <2>1. UNCHANGED <<M1, follower, id>>
    BY <1>3 DEF Attach, ReadCount, ForkError, WaitForChildren, segment, playing
  <2>2. \A h \in Programs : program[h] # "fork" => program'[h] # "fork"
    BY <1>3 DEF Attach, ReadCount, ForkError, WaitForChildren, NextTurn, IInv, Shape
  <2>. QED BY <1>0, <2>1, <2>2 DEF LeftInv, EveryoneHasLeft
<1>. QED BY <1>1, <1>2, <1>3 DEF Program

LEMMA FollowerLeft ==
  ASSUME IInv, LeftInv, NEW f \in Followers, Follower(f)
  PROVE  LeftInv'
<1>. USE LeaderAssumption
<1>0. UNCHANGED <<leader, M1, program, id>>
  BY DEF Follower, Look, Decide, Write, PassOn, Leave, joining, segment
<1>1. /\ \A e \in Followers \ {f} : follower'[e] = follower[e]
      /\ follower[f] \in {"look", "decide", "write", "pass", "leave"}
  <2>1. \E place : Goto(f, place)
    <3>1. Goto(f, "decide") \/ Goto(f, IF M2 = -id[f] THEN "leave" ELSE "write")
          \/ Goto(f, "pass") \/ Goto(f, "look") \/ Goto(f, "done")
      BY Zenon DEF Follower, Look, Decide, Write, PassOn, Leave
    <3>. QED BY Zenon, <3>1
  <2>2. follower[f] \in {"look", "decide", "write", "pass", "leave"}
    BY DEF Follower, Look, Decide, Write, PassOn, Leave
  <2>. QED BY <2>1, <2>2 DEF Goto, IInv, Shape
<1>2. id[f] \in 1 .. n /\ M2 \in Int /\ M0 = n
  BY <1>1 DEF IInv, IdInv, Shape, SetupInv
<1>3. leader # "done"
  BY <1>1 DEF LeftInv, EveryoneHasLeft
<1>4. CASE leader # "farewell"
  BY <1>0, <1>3, <1>4 DEF LeftInv, EveryoneHasLeft
<1>5. CASE leader = "farewell"
  <2>0. M1 = n /\ M2 <= 0 /\ M2 >= -n
    BY <1>5 DEF LeftInv, IInv, TurnInv
  <2>1. M2 = -id[f]
    <3>1. CASE Look(f)
      BY <3>1, <1>2, <2>0 DEF Look
    <3>2. CASE Decide(f)
      BY <3>2, <1>2, <2>0 DEF Decide, IInv, TurnInv
    <3>3. CASE Write(f) \/ PassOn(f)
      BY <3>3, <1>2, <2>0 DEF Write, PassOn, IInv, TurnInv
    <3>4. CASE Leave(f)
      BY <3>4 DEF Leave, IInv, TurnInv
    <3>. QED BY <3>1, <3>2, <3>3, <3>4 DEF Follower
  <2>2. CASE Leave(f)
    <3>1. follower'[f] = "done" /\ M2' = IF id[f] = n THEN 0 ELSE -(id[f] + 1)
      BY <2>2, <1>2 DEF Leave, Goto, IInv, Shape
    <3>2. ASSUME NEW e \in Followers, id[e] # 0, M2' = 0 \/ id[e] < -M2'
          PROVE  follower'[e] = "done"
      <4>1. id[e] \in 0 .. n
        BY DEF IInv, Shape
      <4>2. CASE e = f
        BY <4>2, <3>1
      <4>3. CASE e # f
        <5>1. id[e] # id[f]
          BY <3>2, <4>3 DEF IInv, IdInv
        <5>2. id[e] < -M2
          <6>1. CASE id[f] = n
            BY <6>1, <4>1, <5>1, <1>2, <2>1
          <6>2. CASE id[f] # n
            <7>1. M2' = -(id[f] + 1) /\ M2' # 0
              BY <6>2, <3>1, <1>2
            <7>2. id[e] < id[f] + 1
              BY <7>1, <3>2, <4>1, <1>2
            <7>. QED BY <7>2, <4>1, <5>1, <1>2, <2>1
          <6>. QED BY <6>1, <6>2
        <5>. QED BY <5>2, <3>2, <4>3, <1>1, <1>5 DEF LeftInv
      <4>. QED BY <4>2, <4>3
    <3>3. M2' >= -n
      BY <3>1, <1>2
    <3>4. M2' = 0 => \A g \in Programs : program[g] # "fork"
      <4>1. M2' = 0 => id[f] = n
        BY <3>1, <1>2
      <4>. QED BY <4>1, <2>0 DEF IInv, JoinInv
    <3>. QED BY <1>0, <1>5, <2>0, <3>2, <3>3, <3>4 DEF LeftInv, EveryoneHasLeft
  <2>3. CASE ~Leave(f)
    <3>1. M2' = M2
      BY <2>3, <2>1, <1>2 DEF Follower, Look, Decide, Write, PassOn, segment, IInv, TurnInv
    <3>2. \A e \in Followers : id[e] # 0 /\ (M2 = 0 \/ id[e] < -M2) => e # f
      BY <2>1, <1>2
    <3>. QED BY <1>0, <1>1, <1>5, <2>0, <2>1, <1>2, <3>1, <3>2 DEF LeftInv, EveryoneHasLeft
  <2>. QED BY <2>2, <2>3
<1>. QED BY <1>4, <1>5

\* EveryoneHasLeft: the leader removes the segment of its own accord only when
\* every follower has made its last access to it (leader.c:103 to 109), for any
\* number of followers, and even when forks have failed.
THEOREM FollowersLeaveFirst == ASSUME OVERLAP = FALSE PROVE Spec => []EveryoneHasLeft
<1>1. Init => LeftInv
  BY DEF Init, LeftInv, EveryoneHasLeft
<1>2. IInv /\ LeftInv /\ [Next]_vars => LeftInv'
  <2>. SUFFICES ASSUME IInv, LeftInv, [Next]_vars PROVE LeftInv'
    OBVIOUS
  <2>1. CASE UNCHANGED vars
    BY <2>1 DEF LeftInv, EveryoneHasLeft, vars, segment, joining, playing
  <2>. QED BY <2>1, LeaderLeft, ProgramLeft, FollowerLeft DEF Next
<1>3. LeftInv => EveryoneHasLeft
  BY DEF LeftInv
<1>. QED BY <1>1, <1>2, <1>3, SessionInv, PTL DEF Spec

-----------------------------------------------------------------------------
(* The table of sums.  What the numbers of a round come to.                *)

\* A set of naturals has a least member.  Induction is done with it below: the
\* least counterexample is none.
LEMMA LeastNumber ==
  ASSUME NEW S \in SUBSET Nat, S # {}
  PROVE  \E m \in S : \A k \in S : m <= k
<1>. DEFINE R == OpToRel(<, Nat)
<1>1. IsWellFoundedOn(R, Nat)
  BY NatLessThanWellFounded
<1>2. \A a, b \in Nat : <<a, b>> \in R <=> a < b
  BY DEF OpToRel
<1>. HIDE DEF R
<1>3. PICK m \in S : \A y \in S : ~ (<<y, m>> \in R)
  BY <1>1, WFMin, Zenon
<1>4. \A y \in S : ~ (y < m)
  BY <1>2, <1>3
<1>. QED BY <1>4

Chosen(s) == CHOOSE x \in s : TRUE
Parts     == SUBSET (0 .. n)

\* h adds f up over every part of 0 .. n, one member at a time.
Adds(f, h) ==
  h = [s \in Parts |-> IF s = {} THEN 0 ELSE f[Chosen(s)] + h[s \ {Chosen(s)}]]

\* Taking a member out of a part leaves a smaller part.
LEMMA SmallerPart ==
  ASSUME NEW s \in Parts
  PROVE  /\ IsFiniteSet(s) /\ Cardinality(s) \in Nat
         /\ Cardinality(s) = 0 <=> s = {}
         /\ s # {} => /\ Chosen(s) \in s /\ s \ {Chosen(s)} \in Parts
                      /\ Cardinality(s \ {Chosen(s)}) = Cardinality(s) - 1
<1>1. IsFiniteSet(0 .. n)
  BY LeaderAssumption, FS_Interval
<1>2. IsFiniteSet(s) /\ Cardinality(s) \in Nat
  BY <1>1, FS_Subset, FS_CardinalityType DEF Parts
<1>3. Cardinality(s) = 0 <=> s = {}
  BY <1>2, FS_EmptySet
<1>4. s # {} => Chosen(s) \in s
  BY DEF Chosen
<1>5. s # {} => Cardinality(s \ {Chosen(s)}) = Cardinality(s) - 1
  BY <1>2, <1>4, FS_RemoveElement
<1>. QED BY <1>2, <1>3, <1>4, <1>5 DEF Parts

\* The parts of at most k members can be added up.
SmallParts(k) == {s \in Parts : Cardinality(s) <= k}
AddsUpto(f, k, h) ==
  h = [s \in SmallParts(k) |-> IF s = {} THEN 0 ELSE f[Chosen(s)] + h[s \ {Chosen(s)}]]

LEMMA AddsNext ==
  ASSUME NEW f, NEW k \in Nat, NEW g, AddsUpto(f, k, g)
  PROVE  \E h : AddsUpto(f, k + 1, h)
<1>. DEFINE h == [s \in SmallParts(k + 1) |->
                   IF s = {} THEN 0 ELSE f[Chosen(s)] + g[s \ {Chosen(s)}]]
<1>1. \A s \in SmallParts(k) : s \in SmallParts(k + 1) /\ h[s] = g[s]
  <2>1. \A s \in SmallParts(k) : g[s] = IF s = {} THEN 0 ELSE f[Chosen(s)] + g[s \ {Chosen(s)}]
    BY Zenon DEF AddsUpto
  <2>2. \A s \in SmallParts(k) : s \in SmallParts(k + 1)
    <3>1. \A s \in Parts : Cardinality(s) \in Nat
      BY SmallerPart
    <3>. QED BY <3>1 DEF SmallParts
  <2>. QED BY <2>1, <2>2
<1>2. \A s \in SmallParts(k + 1) : s # {} => s \ {Chosen(s)} \in SmallParts(k)
  BY SmallerPart DEF SmallParts
<1>3. \A s \in SmallParts(k + 1) : s # {} => h[s \ {Chosen(s)}] = g[s \ {Chosen(s)}]
  BY <1>1, <1>2, Zenon
<1>4. h = [s \in SmallParts(k + 1) |-> IF s = {} THEN 0 ELSE f[Chosen(s)] + h[s \ {Chosen(s)}]]
  BY <1>3
<1>. QED BY <1>4, Zenon DEF AddsUpto

LEMMA FoldExists ==
  ASSUME NEW f
  PROVE  \E h : Adds(f, h)
<1>. DEFINE bad == {k \in Nat : ~ \E h : AddsUpto(f, k, h)}
<1>1. \E h : AddsUpto(f, 0, h)
  <2>. DEFINE h == [s \in SmallParts(0) |-> 0]
  <2>1. \A s \in SmallParts(0) : s = {}
    <3>1. \A s \in Parts : Cardinality(s) \in Nat /\ (Cardinality(s) = 0 <=> s = {})
      BY SmallerPart
    <3>. QED BY <3>1 DEF SmallParts
  <2>2. h = [s \in SmallParts(0) |-> IF s = {} THEN 0 ELSE f[Chosen(s)] + h[s \ {Chosen(s)}]]
    BY <2>1
  <2>. QED BY <2>2, Zenon DEF AddsUpto
<1>2. bad = {}
  <2>1. SUFFICES ASSUME bad # {} PROVE FALSE
    OBVIOUS
  <2>2. PICK k \in bad : \A j \in bad : k <= j
    <3>1. bad \in SUBSET Nat
      OBVIOUS
    <3>. HIDE DEF bad
    <3>. QED BY <2>1, <3>1, LeastNumber
  <2>3. k # 0
    BY <1>1
  <2>4. k - 1 \in Nat /\ (k - 1) + 1 = k
    BY <2>3
  <2>5. \E h : AddsUpto(f, k - 1, h)
    BY <2>2, <2>4
  <2>6. \E h : AddsUpto(f, (k - 1) + 1, h)
    BY <2>4, <2>5, AddsNext
  <2>. QED BY <2>4, <2>6
<1>3. Cardinality(0 .. n) \in Nat
  BY LeaderAssumption, FS_Interval
<1>4. PICK h : AddsUpto(f, Cardinality(0 .. n), h)
  BY <1>2, <1>3
<1>5. SmallParts(Cardinality(0 .. n)) = Parts
  <2>1. IsFiniteSet(0 .. n)
    BY LeaderAssumption, FS_Interval
  <2>2. \A s \in Parts : Cardinality(s) <= Cardinality(0 .. n)
    BY <2>1, FS_Subset DEF Parts
  <2>. QED BY <2>2 DEF SmallParts
<1>. QED BY <1>4, <1>5, Zenon DEF AddsUpto, Adds

LEMMA SumUnfolds ==
  ASSUME NEW f
  PROVE  \E h : Adds(f, h) /\ SumOf(f) = h[0 .. n]
<1>. DEFINE h == CHOOSE iter : iter = [s \in SUBSET (0 .. n) |->
                   IF s = {} THEN 0
                   ELSE f[CHOOSE x \in s : TRUE] + iter[s \ {CHOOSE x \in s : TRUE}]]
<1>1. Adds(f, h)
  <2>1. \E g : g = [s \in SUBSET (0 .. n) |->
                   IF s = {} THEN 0
                   ELSE f[CHOOSE x \in s : TRUE] + g[s \ {CHOOSE x \in s : TRUE}]]
    <3>1. PICK g : Adds(f, g)
      BY FoldExists
    <3>2. g = [s \in SUBSET (0 .. n) |->
                   IF s = {} THEN 0
                   ELSE f[CHOOSE x \in s : TRUE] + g[s \ {CHOOSE x \in s : TRUE}]]
      BY <3>1, Zenon DEF Adds, Parts, Chosen
    <3>. QED BY <3>2, Zenon
  <2>2. h = [s \in SUBSET (0 .. n) |->
                   IF s = {} THEN 0
                   ELSE f[CHOOSE x \in s : TRUE] + h[s \ {CHOOSE x \in s : TRUE}]]
    BY <2>1, Zenon
  <2>3. QED BY <2>2, Zenon DEF Adds, Parts, Chosen
<1>2. SumOf(f) = h[0 .. n]
  BY Zenon DEF SumOf, MapThenSumSet, MapThenFoldSet
<1>. QED BY <1>1, <1>2

\* The sum of a leader's number and one number of each follower.
LEMMA SumBounds ==
  ASSUME NEW f \in [0 .. n -> Nat], f[0] \in 1 .. LEADER_MAX,
         \A k \in Ids : f[k] \in 1 .. FOLLOWER_MAX
  PROVE  SumOf(f) \in n + 1 .. LEADER_MAX + n * FOLLOWER_MAX
<1>. DEFINE top(s) == IF 0 \in s
                      THEN LEADER_MAX + (Cardinality(s) - 1) * FOLLOWER_MAX
                      ELSE Cardinality(s) * FOLLOWER_MAX
            Good(s, h) == h[s] \in Nat /\ Cardinality(s) <= h[s] /\ h[s] <= top(s)
<1>1. PICK h : Adds(f, h) /\ SumOf(f) = h[0 .. n]
  BY SumUnfolds
<1>2. ASSUME NEW s \in Parts, s # {}, Good(s \ {Chosen(s)}, h)
      PROVE  Good(s, h)
  <2>. DEFINE c == Chosen(s)
              r == s \ {c}
              N == Cardinality(s)
              F == FOLLOWER_MAX
  <2>1. /\ c \in s /\ r \in Parts /\ N \in Nat /\ N # 0 /\ Cardinality(r) = N - 1
    BY <1>2, SmallerPart
  <2>2. h[s] = f[c] + h[r]
    BY <1>1, <1>2, Zenon DEF Adds
  <2>3. c \in 0 .. n /\ (0 \in r <=> 0 \in s /\ c # 0)
    BY <2>1 DEF Parts
  <2>4. h[r] \in Nat /\ N - 1 <= h[r] /\ h[r] <= top(r)
    BY <1>2, <2>1
  <2>5. F \in Nat /\ LEADER_MAX \in Nat
    BY LeaderAssumption
  <2>. HIDE DEF c, r, N, F
  <2>6. N * F = (N - 1) * F + F /\ (N - 1) * F \in Int
    BY <2>1, <2>5
  <2>7. (N - 1) * F = (N - 2) * F + F /\ (N - 2) * F \in Int
    BY <2>1, <2>5
  <2>8. N - 1 - 1 = N - 2
    BY <2>1
  <2>9. top(r) = (IF 0 \in r THEN LEADER_MAX + (N - 2) * F ELSE (N - 1) * F)
    BY <2>1, <2>8 DEF F
  <2>10. top(s) = (IF 0 \in s THEN LEADER_MAX + (N - 1) * F ELSE N * F)
    BY DEF F, N
  <2>11. CASE c = 0
    <3>1. f[c] \in 1 .. LEADER_MAX
      BY <2>11
    <3>2. top(r) = (N - 1) * F /\ top(s) = LEADER_MAX + (N - 1) * F
      BY <2>1, <2>3, <2>9, <2>10, <2>11
    <3>. HIDE DEF top
    <3>3. h[s] \in Nat /\ N <= h[s] /\ h[s] <= top(s)
      BY <2>1, <2>2, <2>4, <2>5, <2>6, <3>1, <3>2
    <3>. QED BY <3>3 DEF N
  <2>12. CASE c # 0
    <3>1. f[c] \in 1 .. F
      BY <2>3, <2>12, LeaderAssumption DEF Ids, F
    <3>2. top(s) = top(r) + F /\ top(r) \in Int
      BY <2>3, <2>5, <2>6, <2>7, <2>9, <2>10, <2>12
    <3>. HIDE DEF top
    <3>3. h[s] \in Nat /\ N <= h[s] /\ h[s] <= top(s)
      BY <2>1, <2>2, <2>4, <2>5, <3>1, <3>2
    <3>. QED BY <3>3 DEF N
  <2>. QED BY <2>11, <2>12
<1>3. Good({}, h)
  <2>1. {} \in Parts /\ Cardinality({}) = 0
    BY FS_EmptySet DEF Parts
  <2>2. h[{}] = 0
    BY <1>1, <2>1, Zenon DEF Adds
  <2>3. 0 * FOLLOWER_MAX = 0
    BY LeaderAssumption
  <2>. QED BY <2>1, <2>2, <2>3
<1>. HIDE DEF Good
<1>4. \A s \in Parts : Good(s, h)
  <2>. DEFINE bad == {s \in Parts : ~ Good(s, h)}
              sizes == {Cardinality(s) : s \in bad}
  <2>1. SUFFICES ASSUME bad # {} PROVE FALSE
    OBVIOUS
  <2>2. PICK m \in sizes : \A k \in sizes : m <= k
    <3>1. \A s \in bad : Cardinality(s) \in Nat
      BY SmallerPart
    <3>2. sizes \in SUBSET Nat /\ sizes # {}
      BY <2>1, <3>1
    <3>. HIDE DEF sizes
    <3>. QED BY <3>2, LeastNumber
  <2>3. PICK s \in bad : \A t \in bad : Cardinality(s) <= Cardinality(t)
    BY <2>2
  <2>4. s # {}
    BY <1>3
  <2>5. s \in Parts /\ ~ Good(s, h)
    OBVIOUS
  <2>. DEFINE r == s \ {Chosen(s)}
  <2>6. r \in Parts /\ Cardinality(s) \in Nat /\ Cardinality(r) = Cardinality(s) - 1
    BY <2>4, <2>5, SmallerPart
  <2>7. ~ Good(r, h)
    BY <1>2, <2>4, <2>5
  <2>8. r \in bad
    BY <2>6, <2>7
  <2>9. Cardinality(s) <= Cardinality(r)
    BY <2>3, <2>8
  <2>. QED BY <2>6, <2>9
<1>5. Good(0 .. n, h)
  BY <1>4 DEF Parts
<1>6. Cardinality(0 .. n) = n + 1
  BY LeaderAssumption, FS_Interval
<1>7. 0 \in 0 .. n /\ n + 1 - 1 = n /\ n * FOLLOWER_MAX \in Nat
  BY LeaderAssumption
<1>8. top(0 .. n) = LEADER_MAX + n * FOLLOWER_MAX
  <2>1. top(0 .. n) = LEADER_MAX + (Cardinality(0 .. n) - 1) * FOLLOWER_MAX
    BY <1>7
  <2>2. Cardinality(0 .. n) - 1 = n
    BY <1>6, LeaderAssumption
  <2>. QED BY <2>1, <2>2, Zenon
<1>. HIDE DEF top
<1>9. SumOf(f) \in Nat /\ n + 1 <= SumOf(f) /\ SumOf(f) <= LEADER_MAX + n * FOLLOWER_MAX
  BY <1>1, <1>5, <1>6, <1>8 DEF Good
<1>. QED BY <1>7, <1>9, LeaderAssumption

-----------------------------------------------------------------------------
(* Probing.                                                                *)

\* Sums differ by less than there are places.
LEMMA SumsAreFewer ==
  /\ TABLE \in Nat \ {0} /\ \A s \in Sums : s \in Nat \ {0}
  /\ \A s, t \in Sums : s - t < TABLE
<1>1. n * FOLLOWER_MAX \in Nat /\ n * FOLLOWER_MAX >= n
  BY LeaderAssumption
<1>. QED BY <1>1, LeaderAssumption DEF Sums

\* Two sums have two home places.
LEMMA HomesDiffer ==
  ASSUME NEW s \in Sums, NEW t \in Sums, s % TABLE = t % TABLE
  PROVE  s = t
<1>. DEFINE T == TABLE
<1>1. /\ T \in Nat \ {0} /\ s \in Nat /\ t \in Nat
      /\ s - t < T /\ t - s < T /\ s % T = t % T
  BY SumsAreFewer
<1>. HIDE DEF T
<1>2. PICK q \in Int, u \in Int, r \in Int : s = T * q + r /\ t = T * u + r
  <2>1. s = T * (s \div T) + (s % T) /\ s \div T \in Int /\ s % T \in Int
    BY <1>1
  <2>2. t = T * (t \div T) + (t % T) /\ t \div T \in Int
    BY <1>1
  <2>. QED BY <1>1, <2>1, <2>2
<1>3. T * (q + 1) = T * q + T /\ T * (u + 1) = T * u + T /\ T * q \in Int /\ T * u \in Int
  BY <1>1
<1>4. CASE q > u
  <2>1. T * q >= T * (u + 1)
    BY <1>1, <1>4
  <2>. QED BY <1>1, <1>2, <1>3, <2>1
<1>5. CASE u > q
  <2>1. T * u >= T * (q + 1)
    BY <1>1, <1>5
  <2>. QED BY <1>1, <1>2, <1>3, <2>1
<1>6. CASE q = u
  BY <1>2, <1>6
<1>. QED BY <1>4, <1>5, <1>6

\* The sums of the table are at their home places, and are counted.
TableInv ==
  /\ hash_table \in [Places -> {0} \cup Sums] /\ sum_count \in Nat
  /\ \A p \in Places : hash_table[p] # 0 => p = hash_table[p] % TABLE
  /\ sum_count = Cardinality(StoredSums) /\ IsFiniteSet(StoredSums)

\* The probe for a sum ends where it begins: the home place is free or holds
\* the sum, since no other sum can be there.
LEMMA ProbeEnds ==
  ASSUME TableInv, NEW sum \in Sums
  PROVE  /\ PlaceOf(sum) = sum % TABLE /\ PlaceOf(sum) \in Places
         /\ hash_table[PlaceOf(sum)] \in {0, sum}
<1>. DEFINE D == {d \in Places : hash_table[(sum + d) % TABLE] \in {0, sum}}
            d == Min(D)
<1>0. sum \in Nat /\ TABLE \in Nat \ {0} /\ 0 \in Places /\ sum + 0 = sum
  BY SumsAreFewer DEF Places
<1>1. sum % TABLE \in Places
  BY <1>0 DEF Places
<1>2. hash_table[sum % TABLE] \in {0, sum}
  <2>1. SUFFICES ASSUME hash_table[sum % TABLE] # 0 PROVE hash_table[sum % TABLE] = sum
    OBVIOUS
  <2>2. /\ hash_table[sum % TABLE] \in Sums
        /\ sum % TABLE = hash_table[sum % TABLE] % TABLE
    BY <1>1, <2>1 DEF TableInv
  <2>. QED BY <2>2, HomesDiffer
<1>3. 0 \in D /\ D \in SUBSET Nat
  BY <1>0, <1>2 DEF Places
<1>4. d \in D /\ \A e \in D : d <= e
  <2>. HIDE DEF D
  <2>. QED BY <1>3, LeastNumber, Zenon DEF Min
<1>5. d = 0
  <2>. HIDE DEF D, d
  <2>. QED BY <1>3, <1>4
<1>6. PlaceOf(sum) = (sum + d) % TABLE
  BY DEF PlaceOf
<1>. HIDE DEF d
<1>. QED BY <1>0, <1>1, <1>2, <1>5, <1>6

\* A sum that the probe did not find is in no place at all; the free place it
\* found can be given to it.
LEMMA NewSum ==
  ASSUME TableInv, NEW sum \in Sums, hash_table[PlaceOf(sum)] # sum,
         hash_table' = [hash_table EXCEPT ![PlaceOf(sum)] = sum],
         sum_count' = sum_count + 1
  PROVE  TableInv'
<1>1. PICK i : i = PlaceOf(sum)
  OBVIOUS
<1>2. /\ i = sum % TABLE /\ i \in Places /\ hash_table[i] = 0 /\ sum # 0
  BY <1>1, ProbeEnds, SumsAreFewer
<1>3. /\ hash_table'[i] = sum /\ hash_table' \in [Places -> {0} \cup Sums]
      /\ \A p \in Places : p # i => hash_table'[p] = hash_table[p]
  BY <1>1, <1>2 DEF TableInv
<1>4. \A p \in Places : hash_table[p] # sum
  BY <1>2 DEF TableInv
<1>5. \A p \in Places : hash_table'[p] # 0 => p = hash_table'[p] % TABLE
  BY <1>2, <1>3 DEF TableInv
<1>6. StoredSums' = StoredSums \cup {sum} /\ sum \notin StoredSums
  <2>1. \A x : x \in StoredSums' <=> x \in StoredSums \/ x = sum
    BY <1>2, <1>3 DEF StoredSums
  <2>. QED BY <1>4, <2>1 DEF StoredSums
<1>7. IsFiniteSet(StoredSums') /\ Cardinality(StoredSums') = Cardinality(StoredSums) + 1
  BY <1>6, FS_AddElement DEF TableInv
<1>8. sum_count' = Cardinality(StoredSums') /\ sum_count' \in Nat
  BY <1>7 DEF TableInv
<1>. QED BY <1>3, <1>5, <1>7, <1>8 DEF TableInv

\* What the followers that have written in this round left in the segment.
NumbersInv ==
  /\ numbers \in [0 .. n -> Nat] /\ written \in Seq(Ids)
  /\ \A k \in Ids : numbers[k] <= FOLLOWER_MAX
  /\ \A j \in 1 .. Len(written) : numbers[written[j]] # 0

\* What the steps do to the numbers and the table.
LEMMA NumberMoves ==
  ASSUME [Next]_vars
  PROVE  \/ Sum
         \/ \E f \in Followers : Write(f)
         \/ written' = <<>> /\ UNCHANGED <<numbers, hash_table, sum_count>>
         \/ UNCHANGED <<numbers, hash_table, sum_count, written>>
<1>1. CASE Leader \/ Interrupt
  BY <1>1 DEF Leader, Interrupt, Create, SetTotal, ResetCount, ResetTurn, AllJoined,
     OpenRound, AwaitRound, CloseRound, Remove, segment, table
<1>2. ASSUME NEW g \in Programs, Attach(g) \/ Program(g)
      PROVE  UNCHANGED <<numbers, hash_table, sum_count, written>>
  BY <1>2 DEF Attach, Program, ReadCount, Join, Fork, ForkError, WaitForChildren, segment, table
<1>3. ASSUME NEW f \in Followers, Follower(f)
      PROVE  Write(f) \/ UNCHANGED <<numbers, hash_table, sum_count, written>>
  BY <1>3 DEF Follower, Look, Decide, PassOn, Leave, segment, table
<1>4. CASE UNCHANGED vars
  BY <1>4 DEF vars, segment, table
<1>. QED BY <1>1, <1>2, <1>3, <1>4 DEF Next

\* The sum of a complete round is one of Sums.
LEMMA SumOfRound ==
  ASSUME IInv, NumbersInv, Sum
  PROVE  SumOf(numbers') \in Sums /\ NumbersInv'
<1>1. leader = "sum" /\ written' = written
  BY SumStep
<1>2. PICK v \in 1 .. LEADER_MAX : numbers' = [numbers EXCEPT ![0] = v]
  BY Zenon DEF Sum
<1>3. n \in Nat \ {0} /\ 0 \in 0 .. n /\ \A k \in Ids : k \in 0 .. n /\ k # 0
  BY LeaderAssumption DEF Ids
<1>4. /\ numbers' \in [0 .. n -> Nat] /\ numbers'[0] = v
      /\ \A k \in Ids : numbers'[k] = numbers[k]
  BY <1>2, <1>3 DEF NumbersInv
<1>5. \A k \in Ids : numbers[k] \in 1 .. FOLLOWER_MAX
  <2>1. written = Upto(n)
    BY <1>1 DEF IInv, RoundInv
  <2>2. \A k \in Ids : k \in 1 .. Len(written) /\ written[k] = k
    BY <1>3, <2>1 DEF Upto, Ids
  <2>3. \A k \in Ids : numbers[k] \in Nat /\ numbers[k] # 0 /\ numbers[k] <= FOLLOWER_MAX
    BY <1>3, <2>2 DEF NumbersInv
  <2>. QED BY <2>3, LeaderAssumption
<1>6. PICK f : f = numbers'
  OBVIOUS
<1>7. SumOf(f) \in Sums
  BY <1>4, <1>5, <1>6, SumBounds DEF Sums
<1>8. NumbersInv'
  <2>1. \A j \in 1 .. Len(written) : written[j] \in Ids
    BY DEF NumbersInv
  <2>. QED BY <1>1, <1>4, <2>1 DEF NumbersInv
<1>. QED BY <1>6, <1>7, <1>8

LEMMA WriteNumber ==
  ASSUME IInv, NumbersInv, NEW f \in Followers, Write(f)
  PROVE  NumbersInv' /\ UNCHANGED <<hash_table, sum_count>>
<1>1. follower[f] = "write" /\ written' = Append(written, id[f])
      /\ UNCHANGED <<hash_table, sum_count>>
  BY DEF Write, table
<1>2. PICK v \in 1 .. FOLLOWER_MAX : numbers' = [numbers EXCEPT ![id[f]] = v]
  BY DEF Write
<1>3. PICK k : k = id[f]
  OBVIOUS
<1>4. k \in Ids /\ k \in 0 .. n
  BY <1>1, <1>3, OneHolder, LeaderAssumption DEF AtTurn, Ids
<1>5. /\ numbers' \in [0 .. n -> Nat] /\ numbers'[k] = v /\ v # 0 /\ v <= FOLLOWER_MAX
      /\ \A j \in 0 .. n : j # k => numbers'[j] = numbers[j]
  BY <1>2, <1>3, <1>4, LeaderAssumption DEF NumbersInv
<1>6. \A j \in Ids : j \in 0 .. n
  BY LeaderAssumption DEF Ids
<1>7. \A j \in Ids : numbers'[j] <= FOLLOWER_MAX
  BY <1>5, <1>6 DEF NumbersInv
<1>8. /\ written' \in Seq(Ids) /\ Len(written') = Len(written) + 1
      /\ written'[Len(written) + 1] = k /\ Len(written) \in Nat
      /\ \A j \in 1 .. Len(written) : written'[j] = written[j] /\ written[j] \in Ids
  BY <1>1, <1>3, <1>4 DEF NumbersInv
<1>9. \A j \in 1 .. Len(written') : numbers'[written'[j]] # 0
  <2>1. SUFFICES ASSUME NEW j \in 1 .. Len(written') PROVE numbers'[written'[j]] # 0
    OBVIOUS
  <2>2. CASE j = Len(written) + 1
    BY <1>5, <1>8, <2>2
  <2>3. CASE j # Len(written) + 1
    <3>1. j \in 1 .. Len(written)
      BY <1>8, <2>1, <2>3
    <3>2. written'[j] = written[j] /\ written[j] \in 0 .. n /\ numbers[written[j]] # 0
      BY <1>6, <1>8, <3>1 DEF NumbersInv
    <3>. QED BY <1>5, <3>2
  <2>. QED BY <2>2, <2>3
<1>. QED BY <1>1, <1>5, <1>7, <1>8, <1>9 DEF NumbersInv

\* The leader closes with a sum of the table.
CloseInv == leader \in {"close", "farewell", "done"} => SumOf(numbers) \in StoredSums

SumInv == NumbersInv /\ TableInv /\ CloseInv

LEMMA SumInvInit == Init => SumInv
<1>. SUFFICES ASSUME Init PROVE SumInv
  OBVIOUS
<1>1. NumbersInv
  BY LeaderAssumption DEF Init, NumbersInv, Ids
<1>2. hash_table = [k \in Places |-> 0] /\ sum_count = 0
  BY DEF Init
<1>3. StoredSums = {}
  BY <1>2 DEF StoredSums
<1>4. sum_count = Cardinality(StoredSums) /\ IsFiniteSet(StoredSums)
  BY <1>2, <1>3, FS_EmptySet
<1>5. TableInv
  BY <1>2, <1>4 DEF TableInv
<1>6. CloseInv
  BY DEF Init, CloseInv
<1>. QED BY <1>1, <1>5, <1>6 DEF SumInv

\* The leader comes to close only by adding up, and nobody writes after that.
LEMMA CloseMoves ==
  ASSUME IInv, [Next]_vars, ~Sum, leader' \in {"close", "farewell", "done"}
  PROVE  /\ leader \in {"close", "farewell", "done"}
         /\ \A f \in Followers : ~Write(f)
<1>1. CASE Leader \/ Interrupt
  <2>1. leader \in {"close", "farewell", "done"}
    BY <1>1 DEF Leader, Interrupt, Create, SetTotal, ResetCount, ResetTurn, AllJoined,
       OpenRound, AwaitRound, CloseRound, Remove
  <2>2. leader' # leader
    BY <1>1, <2>1 DEF Leader, Interrupt, Create, SetTotal, ResetCount, ResetTurn, AllJoined,
       OpenRound, AwaitRound, CloseRound, Remove
  <2>. QED BY <2>1, <2>2 DEF Write
<1>2. ASSUME NEW g \in Programs, Attach(g) \/ Program(g)
      PROVE  leader' = leader
  BY <1>2 DEF Attach, Program, ReadCount, Join, Fork, ForkError, WaitForChildren
<1>3. ASSUME NEW f \in Followers, Follower(f)
      PROVE  leader' = leader
  BY <1>3 DEF Follower, Look, Decide, Write, PassOn, Leave
<1>4. ASSUME UNCHANGED vars PROVE leader' = leader
  BY <1>4 DEF vars
<1>5. leader \in {"close", "farewell", "done"} => \A f \in Followers : ~Write(f)
  <2>. SUFFICES ASSUME leader \in {"close", "farewell", "done"},
                       NEW f \in Followers, follower[f] = "write"
                PROVE  FALSE
    BY DEF Write
  <2>1. M2 = id[f] /\ M2 <= 0 /\ id[f] \in 0 .. n /\ id[f] # 0
    BY DEF IInv, Shape, TurnInv, IdInv
  <2>. QED BY <2>1, LeaderAssumption
<1>. QED BY <1>1, <1>2, <1>3, <1>4, <1>5 DEF Next

LEMMA SumInvStep == IInv /\ SumInv /\ [Next]_vars => SumInv'
<1>. SUFFICES ASSUME IInv, SumInv, [Next]_vars PROVE SumInv'
  OBVIOUS
<1>. USE DEF SumInv
<1>1. CASE Sum
  <2>1. PICK sum : sum = SumOf(numbers')
    OBVIOUS
  <2>2. sum \in Sums /\ NumbersInv'
    BY <1>1, <2>1, SumOfRound
  <2>3. \/ hash_table[PlaceOf(sum)] = sum /\ UNCHANGED table
        \/ /\ hash_table[PlaceOf(sum)] # sum /\ leader' = "open"
           /\ hash_table' = [hash_table EXCEPT ![PlaceOf(sum)] = sum]
           /\ sum_count' = sum_count + 1
    BY <1>1, <2>1, Zenon DEF Sum
  <2>4. CASE hash_table[PlaceOf(sum)] = sum /\ UNCHANGED table
    <3>1. StoredSums' = StoredSums /\ TableInv'
      BY <2>4 DEF table, TableInv, StoredSums
    <3>2. sum \in StoredSums
      BY <2>2, <2>4, ProbeEnds, SumsAreFewer DEF StoredSums
    <3>3. CloseInv'
      BY <2>1, <3>1, <3>2 DEF CloseInv
    <3>. QED BY <2>2, <3>1, <3>3
  <2>5. CASE hash_table[PlaceOf(sum)] # sum
    <3>1. TableInv'
      BY <2>2, <2>3, <2>5, NewSum
    <3>2. CloseInv'
      BY <2>3, <2>5 DEF CloseInv
    <3>. QED BY <2>2, <3>1, <3>2
  <2>. QED BY <2>3, <2>4, <2>5
<1>2. ASSUME ~Sum PROVE TableInv' /\ NumbersInv'
  <2>1. ASSUME NEW f \in Followers, Write(f) PROVE TableInv' /\ NumbersInv'
    BY <2>1, WriteNumber DEF TableInv, StoredSums
  <2>2. CASE written' = <<>> /\ UNCHANGED <<numbers, hash_table, sum_count>>
    BY <2>2 DEF NumbersInv, TableInv, StoredSums
  <2>3. CASE UNCHANGED <<numbers, hash_table, sum_count, written>>
    BY <2>3 DEF NumbersInv, TableInv, StoredSums
  <2>. QED BY <1>2, <2>1, <2>2, <2>3, NumberMoves
<1>3. ASSUME ~Sum PROVE CloseInv'
  <2>. SUFFICES ASSUME leader' \in {"close", "farewell", "done"}
                PROVE  SumOf(numbers)' \in StoredSums'
    BY DEF CloseInv
  <2>1. /\ leader \in {"close", "farewell", "done"}
        /\ \A f \in Followers : ~Write(f)
    BY <1>3, CloseMoves
  <2>2. UNCHANGED <<numbers, hash_table>>
    BY <1>3, <2>1, NumberMoves
  <2>3. SumOf(numbers') = SumOf(numbers) /\ StoredSums' = StoredSums
    BY <2>2 DEF StoredSums
  <2>. QED BY <2>1, <2>3 DEF CloseInv
<1>. QED BY <1>1, <1>2, <1>3

\* FirstRepetitionEnds: the leader goes on after every new sum, stops at the
\* first it has had before, and its probes never leave the home place
\* (leader.c:76 to 109), for any number of followers and any range of numbers.
THEOREM StopsAtRepetition == ASSUME OVERLAP = FALSE PROVE Spec => []FirstRepetitionEnds
<1>1. SumInv => FirstRepetitionEnds
  <2>. SUFFICES ASSUME SumInv PROVE FirstRepetitionEnds
    OBVIOUS
  <2>1. StoredSums \subseteq Sums
    BY DEF SumInv, TableInv, StoredSums
  <2>. QED BY <2>1 DEF SumInv, TableInv, CloseInv, FirstRepetitionEnds
<1>. QED BY <1>1, SumInvInit, SumInvStep, SessionInv, PTL DEF Spec
=============================================================================
