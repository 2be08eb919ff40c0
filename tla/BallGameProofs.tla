--------------------------- MODULE BallGameProofs ---------------------------
(***************************************************************************)
(* Proofs about BallGame, for any number of children and any late ones, up *)
(* to the first signal that comes too early (early).                       *)
(*                                                                         *)
(* The three invariants rest on each other.  There is one ball, or one     *)
(* round of the parent (BallInv), so that rows do not overlap (TurnInv);   *)
(* and as the player prints before the parent counts it out, the scores of *)
(* both are the same when the ball is thrown (ScoreInv).                   *)
(***************************************************************************)
EXTENDS BallGame, FiniteSetTheorems, SequenceTheorems, TLAPS

ParentPlaces == {"fork", "print", "wait", "choose", "throw", "return", "over"}
ChildPlaces  == {"pass", "caught", "missed", "return"}

\* Where the parent is in the handler that runs, and where a child is.
Top     == IF pstack = <<>> THEN "return" ELSE pstack[1][2]
Spot(c) == IF stack[c] = <<>> THEN "return" ELSE stack[c][1][2]

\* All handlers but the newest are about to return, and a child that sleeps
\* has not handled anything.
ParentShape ==
  /\ pstack \in Seq({"USR1", "USR2"} \X ParentPlaces)
  /\ \A i \in 2 .. Len(pstack) : pstack[i][2] = "return"
  /\ ppending \subseteq {"USR1", "USR2"} /\ curr_player \in Children
  /\ child_status \in [Children -> {PLAYING, OUT}] /\ told \subseteq Children
  /\ parent \in {"sleep", "pause", "gone"} /\ dummy \in {"none", "alive", "dead"}

ChildShape ==
  /\ stack \in [Children -> Seq(Signals \X ChildPlaces)]
  /\ \A c \in Children : \A i \in 2 .. Len(stack[c]) : stack[c][i][2] = "return"
  /\ pending \in [Children -> SUBSET Signals]
  /\ state \in [Children -> [Children -> 0 .. 3]]
  /\ child \in [Children -> {"sleep", "pause", "gone"}]
  /\ \A c \in Children : child[c] = "sleep" => stack[c] = <<>>

Ball(c) == "USR2" \in pending[c] \/ Spot(c) \in {"caught", "missed"}
Turn(c) == "USR1" \in pending[c] \/ Spot(c) = "pass"

\* The ball is with the current player, on its way back, or with the parent.
BallInv ==
  /\ \A c \in Children : "USR2" \in pending[c] => Spot(c) \notin {"caught", "missed"}
  /\ \A c \in Children : Ball(c) =>
       c = curr_player /\ parent = "pause" /\ Top = "return" /\ ppending = {}
  /\ ppending # {} =>
       parent = "pause" /\ Top = "return" /\ ppending \in {{"USR1"}, {"USR2"}}
  /\ parent = "pause" /\ Top = "return" /\ ppending = {} => Ball(curr_player)
  /\ parent = "sleep" => Top = "return" /\ curr_player = 0

UpTo(k) == [i \in 1 .. k |-> i - 1]

\* The row is printed while the parent waits, by one child after the other.
TurnInv ==
  /\ \A c \in Children : "USR1" \in pending[c] => Spot(c) # "pass"
  /\ \A c, d \in Children : Turn(c) /\ Turn(d) => c = d
  /\ \A c \in Children : Turn(c) =>
       /\ Top = "wait" /\ dummy = "alive"
       /\ row = UpTo(IF "USR1" \in pending[c] THEN c ELSE c + 1)
  /\ Top = "wait" => \/ dummy = "alive" /\ (\E c \in Children : Turn(c))
                     \/ dummy = "dead" /\ (\A c \in Children : ~Turn(c)) /\ row = UpTo(n)
  /\ Top = "print" => dummy = "alive"

\* Nobody leaves before the end, and who has left in the game has won.
EndInv ==
  /\ told # {} \/ parent = "gone" => Top = "over"
  /\ \A c \in Children : "INT" \in pending[c] \/ child[c] = "gone" => c \in told
  /\ winners = {c \in Children : child[c] = "gone" /\ child_status[c] = PLAYING}

Score(c)   == state[c][c]
Settled(c) == IF child_status[c] = OUT THEN 3 ELSE 0
Players    == {c \in Children : child_status[c] = PLAYING}

\* The current player has not printed what it did with the ball.
Unprinted ==
  \E c \in Children : Turn(c) /\ (c < curr_player \/ (c = curr_player /\ "USR1" \in pending[c]))

\* What the handler of a signal finds and leaves in the current player's place.
Answered(sig) == IF sig = "USR1" THEN 1 ELSE 2
Printing(sig) == IF sig = "USR1" THEN 0 ELSE 3

ScoreInv ==
  /\ \A c \in Children : c # curr_player => Score(c) = Settled(c)
  /\ Top \in {"choose", "throw", "over"} => Score(curr_player) = Settled(curr_player)
  /\ Top \notin {"choose", "over"} => child_status[curr_player] = PLAYING
  /\ parent = "sleep" => Score(curr_player) = 0
  /\ \A c \in Children : /\ "USR2" \in pending[c] => Score(c) = 0
                         /\ Spot(c) = "caught" => Score(c) = 1
                         /\ Spot(c) = "missed" => Score(c) = 2
  /\ \A sig \in ppending : Score(curr_player) = Answered(sig)
  /\ Top \in {"fork", "print"} => Score(curr_player) = Answered(pstack[1][1])
  /\ Top = "wait" => Score(curr_player) =
       IF Unprinted THEN Answered(pstack[1][1]) ELSE Printing(pstack[1][1])

\* The players that are counted; one remains when the game is over.
CountInv ==
  /\ rem_players = Cardinality(Players) /\ rem_players >= 1
  /\ Top = "over" <=> rem_players = 1

Inv == ParentShape /\ ChildShape /\ BallInv /\ TurnInv /\ EndInv /\ ScoreInv /\ CountInv

\* Once a signal has come too early, nothing is known.
IInv == ~early => Inv

-----------------------------------------------------------------------------
(* Stacks of handlers.                                                     *)

\* The newest handler goes on to another place.
LEMMA Replaced ==
  ASSUME NEW S, NEW P, NEW s \in Seq(S \X P), s # <<>>, NEW y \in P,
         NEW t, t = [s EXCEPT ![1][2] = y]
  PROVE  /\ t \in Seq(S \X P) /\ t # <<>> /\ Len(t) = Len(s)
         /\ t[1][1] = s[1][1] /\ t[1][2] = y
         /\ \A i \in 2 .. Len(s) : t[i] = s[i]
<1>1. Len(s) \in Nat /\ Len(s) # 0 /\ s \in [1 .. Len(s) -> S \X P]
  OBVIOUS
<1>2. 1 \in 1 .. Len(s) /\ s[1] \in S \X P
  BY <1>1
<1>3. PICK h : h = [s[1] EXCEPT ![2] = y]
  OBVIOUS
<1>4. h = <<s[1][1], y>> /\ h \in S \X P
  BY <1>2, <1>3
<1>5. t = [s EXCEPT ![1] = h]
  BY <1>3
<1>6. /\ t \in [1 .. Len(s) -> S \X P] /\ t[1] = h
      /\ \A i \in 2 .. Len(s) : t[i] = s[i]
  BY <1>1, <1>2, <1>4, <1>5
<1>7. t \in Seq(S \X P) /\ Len(t) = Len(s)
  BY <1>1, <1>6
<1>. QED BY <1>1, <1>4, <1>6, <1>7

\* A handler is interrupted by another.
LEMMA Pushed ==
  ASSUME NEW S, NEW P, NEW s \in Seq(S \X P), NEW a \in S, NEW y \in P,
         NEW t, t = << <<a, y>> >> \o s
  PROVE  /\ t \in Seq(S \X P) /\ t # <<>> /\ Len(t) = Len(s) + 1 /\ Len(s) \in Nat
         /\ t[1][1] = a /\ t[1][2] = y
         /\ \A i \in 2 .. Len(t) : t[i] = s[i - 1]
<1>1. << <<a, y>> >> \in Seq(S \X P) /\ Len(<< <<a, y>> >>) = 1
  OBVIOUS
<1>2. t \in Seq(S \X P) /\ Len(t) = Len(s) + 1 /\ Len(s) \in Nat
  BY <1>1
<1>3. t[1] = <<a, y>> /\ \A i \in 2 .. Len(t) : t[i] = s[i - 1]
  BY <1>1, <1>2
<1>. QED BY <1>2, <1>3

\* A handler returns.
LEMMA Popped ==
  ASSUME NEW S, NEW P, NEW s \in Seq(S \X P), s # <<>>, NEW t, t = Tail(s)
  PROVE  /\ t \in Seq(S \X P) /\ Len(t) = Len(s) - 1 /\ Len(s) \in Nat \ {0}
         /\ \A i \in 1 .. Len(t) : t[i] = s[i + 1]
OBVIOUS

\* What a step of the parent's handler does to its stack.
LEMMA ParentGoes ==
  ASSUME ParentShape, NEW x, In(x), NEW y \in ParentPlaces, Go(y)
  PROVE  /\ Top = x /\ Top' = y /\ pstack'[1][1] = pstack[1][1]
         /\ parent = "pause" /\ pstack[1][1] \in {"USR1", "USR2"}
         /\ pstack' \in Seq({"USR1", "USR2"} \X ParentPlaces)
         /\ \A i \in 2 .. Len(pstack') : pstack'[i][2] = "return"
<1>. DEFINE S == {"USR1", "USR2"}
<1>1. pstack \in Seq(S \X ParentPlaces) /\ pstack # <<>> /\ parent = "pause" /\ pstack[1][2] = x
  BY DEF ParentShape, In
<1>2. PICK t : t = pstack'
  OBVIOUS
<1>3. t = [pstack EXCEPT ![1][2] = y]
  BY <1>2 DEF Go
<1>4. /\ t \in Seq(S \X ParentPlaces) /\ t # <<>> /\ Len(t) = Len(pstack)
      /\ t[1][1] = pstack[1][1] /\ t[1][2] = y
      /\ \A i \in 2 .. Len(pstack) : t[i] = pstack[i]
  BY <1>1, <1>3, Replaced
<1>5. pstack[1][1] \in S
  BY <1>1
<1>. QED BY <1>1, <1>2, <1>4, <1>5 DEF Top, ParentShape

\* What a step of a child's handler does: it is about to return.
LEMMA ChildLeaves ==
  ASSUME ChildShape, NEW c \in Children, stack[c] # <<>>, Leaving(c)
  PROVE  /\ stack' \in [Children -> Seq(Signals \X ChildPlaces)] /\ stack'[c] # <<>>
         /\ \A d \in Children : d # c => stack'[d] = stack[d] /\ Spot(d)' = Spot(d)
         /\ Spot(c)' = "return"
         /\ \A i \in 2 .. Len(stack'[c]) : stack'[c][i][2] = "return"
<1>1. PICK s, u : s = stack[c] /\ u = [s EXCEPT ![1][2] = "return"]
  OBVIOUS
<1>2. stack' = [stack EXCEPT ![c] = u] /\ s \in Seq(Signals \X ChildPlaces) /\ s # <<>>
  BY <1>1 DEF Leaving, ChildShape
<1>3. "return" \in ChildPlaces
  BY DEF ChildPlaces
<1>4. /\ u \in Seq(Signals \X ChildPlaces) /\ u # <<>> /\ Len(u) = Len(s)
      /\ u[1][2] = "return" /\ \A i \in 2 .. Len(s) : u[i] = s[i]
  BY <1>1, <1>2, <1>3, Replaced
<1>5. stack' \in [Children -> Seq(Signals \X ChildPlaces)] /\ stack'[c] = u
      /\ \A d \in Children : d # c => stack'[d] = stack[d]
  BY <1>2, <1>4 DEF ChildShape
<1>6. \A i \in 2 .. Len(u) : u[i][2] = "return"
  BY <1>1, <1>4 DEF ChildShape
<1>. QED BY <1>4, <1>5, <1>6 DEF Spot

-----------------------------------------------------------------------------
(* The parent.  Its steps leave the children's handlers alone.             *)

LEMMA BeginStep ==
  ASSUME Inv, Begin
  PROVE  Inv'
<1>. USE DEF Inv
<1>1. /\ parent = "sleep" /\ parent' = "pause" /\ 0 \in Children /\ curr_player = 0
      /\ pending'[0] = pending[0] \cup {"USR2"}
      /\ \A c \in Children : c # 0 => pending'[c] = pending[c]
      /\ pending' \in [Children -> SUBSET Signals]
  BY BallGameAssumption DEF Begin, Kill, Children, ChildShape, BallInv, Signals
<1>2. UNCHANGED <<pstack, ppending, curr_player, rem_players, child_status, told,
                 stack, state, child, dummy, hist>>
  BY DEF Begin
<1>3. /\ Top' = Top /\ Top = "return" /\ ppending = {}
      /\ \A c \in Children : Spot(c)' = Spot(c) /\ ~Ball(c)
      /\ \A c \in Children : (Turn(c))' <=> Turn(c)
      /\ \A c \in Children : (Ball(c))' <=> c = 0
  BY <1>1, <1>2 DEF Top, Spot, BallInv, Ball, Turn
<1>4. ParentShape' /\ ChildShape'
  BY <1>1, <1>2 DEF ParentShape, ChildShape
<1>5. BallInv'
  BY <1>1, <1>2, <1>3 DEF BallInv, Ball
<1>6. TurnInv'
  BY <1>1, <1>2, <1>3 DEF TurnInv, hist
<1>7. EndInv'
  BY <1>1, <1>2, <1>3 DEF EndInv, hist
<1>8. ScoreInv' /\ CountInv'
  BY <1>1, <1>2, <1>3 DEF ScoreInv, CountInv, Score, Settled, Players, Ball
<1>. QED BY <1>4, <1>5, <1>6, <1>7, <1>8

LEMMA InterruptStep ==
  ASSUME Inv, Interrupt
  PROVE  Inv'
<1>. USE DEF Inv
<1>1. PICK sig \in ppending \ Blocked(pstack) :
        ppending' = ppending \ {sig} /\ pstack' = << <<sig, "fork">> >> \o pstack
  BY DEF Interrupt
<1>2. /\ parent = "pause"
      /\ UNCHANGED <<curr_player, rem_players, child_status, told, parent, cvars, dummy, hist>>
  BY DEF Interrupt
<1>3. Top = "return" /\ ppending = {sig} /\ sig \in {"USR1", "USR2"} /\ ppending' = {}
  BY <1>1 DEF BallInv
<1>4. /\ pstack' \in Seq({"USR1", "USR2"} \X ParentPlaces)
      /\ \A i \in 2 .. Len(pstack') : pstack'[i][2] = "return"
      /\ pstack' # <<>> /\ pstack'[1][1] = sig /\ pstack'[1][2] = "fork"
  <2>1. PICK t, s : t = pstack' /\ s = pstack
    OBVIOUS
  <2>2. /\ s \in Seq({"USR1", "USR2"} \X ParentPlaces) /\ t = << <<sig, "fork">> >> \o s
        /\ "fork" \in ParentPlaces /\ \A i \in 2 .. Len(s) : s[i][2] = "return"
    BY <1>1, <2>1 DEF ParentShape, ParentPlaces
  <2>3. /\ t \in Seq({"USR1", "USR2"} \X ParentPlaces) /\ t # <<>>
        /\ Len(t) = Len(s) + 1 /\ Len(s) \in Nat /\ t[1][1] = sig /\ t[1][2] = "fork"
        /\ \A i \in 2 .. Len(t) : t[i] = s[i - 1]
    BY <1>3, <2>2, Pushed
  <2>4. s # <<>> => s[1][2] = "return"
    BY <1>3, <2>1 DEF Top
  <2>5. \A i \in 2 .. Len(t) : t[i][2] = "return"
    <3>1. SUFFICES ASSUME NEW i \in 2 .. Len(t) PROVE s[i - 1][2] = "return"
      BY <2>3
    <3>2. i = 2 \/ i - 1 \in 2 .. Len(s)
      BY <2>3
    <3>3. s # <<>>
      BY <2>2, <2>3, <3>1
    <3>. QED BY <2>2, <2>4, <3>2, <3>3
  <2>. QED BY <2>1, <2>3, <2>5
<1>5. Top' = "fork"
  BY <1>4 DEF Top
<1>6. \A c \in Children : /\ Spot(c)' = Spot(c) /\ ((Turn(c))' <=> Turn(c))
                          /\ ~Ball(c) /\ ~(Ball(c))'
  BY <1>2, <1>3 DEF Spot, Turn, Ball, BallInv, cvars
<1>7. ParentShape' /\ ChildShape'
  BY <1>2, <1>3, <1>4 DEF ParentShape, ChildShape, cvars
<1>8. BallInv'
  BY <1>2, <1>3, <1>5, <1>6 DEF BallInv, Ball
<1>9. TurnInv'
  BY <1>2, <1>3, <1>5, <1>6 DEF TurnInv, cvars, hist
<1>10. EndInv'
  BY <1>2, <1>3, <1>5 DEF EndInv, cvars, hist
<1>11. ScoreInv' /\ CountInv'
  <2>1. child_status[curr_player] = PLAYING /\ Score(curr_player) = Answered(sig)
    BY <1>3 DEF ScoreInv
  <2>. QED BY <1>2, <1>3, <1>4, <1>5, <1>6, <2>1
       DEF ScoreInv, CountInv, Score, Settled, Players, Ball, cvars
<1>. QED BY <1>7, <1>8, <1>9, <1>10, <1>11

LEMMA ForkStep ==
  ASSUME Inv, Fork
  PROVE  Inv'
<1>. USE DEF Inv
<1>1. In("fork") /\ Go("print") /\ dummy' = "alive"
      /\ UNCHANGED <<ppending, curr_player, rem_players, child_status, told, parent, cvars, hist>>
  BY DEF Fork
<1>2. /\ Top = "fork" /\ Top' = "print" /\ pstack'[1][1] = pstack[1][1] /\ parent = "pause"
      /\ pstack' \in Seq({"USR1", "USR2"} \X ParentPlaces)
      /\ \A i \in 2 .. Len(pstack') : pstack'[i][2] = "return"
  BY <1>1, ParentGoes DEF ParentPlaces
<1>3. \A c \in Children : /\ Spot(c)' = Spot(c) /\ ((Turn(c))' <=> Turn(c)) /\ ~Turn(c)
                          /\ ~Ball(c) /\ ~(Ball(c))'
  BY <1>1, <1>2 DEF Spot, Turn, Ball, BallInv, TurnInv, cvars
<1>4. ParentShape' /\ ChildShape'
  BY <1>1, <1>2 DEF ParentShape, ChildShape, cvars
<1>5. BallInv'
  BY <1>1, <1>2, <1>3 DEF BallInv, Ball
<1>6. TurnInv'
  BY <1>1, <1>2, <1>3 DEF TurnInv, Turn
<1>7. EndInv'
  BY <1>1, <1>2 DEF EndInv, cvars, hist
<1>8. ScoreInv' /\ CountInv'
  BY <1>1, <1>2, <1>3 DEF ScoreInv, CountInv, Score, Settled, Players, Ball, BallInv, cvars
<1>. QED BY <1>4, <1>5, <1>6, <1>7, <1>8

LEMMA StartPrintingStep ==
  ASSUME Inv, StartPrinting
  PROVE  Inv'
<1>. USE DEF Inv
<1>1. In("print") /\ Go("wait") /\ row' = <<>>
      /\ UNCHANGED <<ppending, curr_player, rem_players, child_status, told, parent,
                     stack, state, child, dummy, winners, early>>
  BY DEF StartPrinting
<1>2. /\ Top = "print" /\ Top' = "wait" /\ pstack'[1][1] = pstack[1][1] /\ parent = "pause"
      /\ pstack' \in Seq({"USR1", "USR2"} \X ParentPlaces)
      /\ \A i \in 2 .. Len(pstack') : pstack'[i][2] = "return"
  BY <1>1, ParentGoes DEF ParentPlaces
<1>3. /\ 0 \in Children /\ pending' \in [Children -> SUBSET Signals]
      /\ pending'[0] = pending[0] \cup {"USR1"}
      /\ \A c \in Children : c # 0 => pending'[c] = pending[c]
  BY BallGameAssumption DEF StartPrinting, Kill, Children, ChildShape, Signals
<1>4. \A c \in Children : /\ Spot(c)' = Spot(c) /\ ~Turn(c) /\ ((Turn(c))' <=> c = 0)
                          /\ ~Ball(c) /\ ~(Ball(c))'
  BY <1>1, <1>2, <1>3 DEF Spot, Turn, Ball, BallInv, TurnInv
<1>5. ParentShape' /\ ChildShape'
  BY <1>1, <1>2, <1>3 DEF ParentShape, ChildShape
<1>6. BallInv'
  BY <1>1, <1>2, <1>4 DEF BallInv, Ball
<1>7. TurnInv'
  <2>1. UpTo(0) = <<>>
    BY DEF UpTo
  <2>2. dummy = "alive"
    BY <1>2 DEF TurnInv
  <2>3. "USR1" \in pending'[0]
    BY <1>3
  <2>. QED BY <1>1, <1>2, <1>3, <1>4, <2>1, <2>2, <2>3 DEF TurnInv, Turn
<1>8. EndInv'
  BY <1>1, <1>2, <1>3 DEF EndInv
<1>9. ScoreInv' /\ CountInv'
  <2>1. (Unprinted)'
    <3>1. curr_player = 0 \/ 0 < curr_player
      BY DEF ParentShape, Children
    <3>. QED BY <1>1, <1>3, <1>4, <3>1 DEF Unprinted
  <2>. QED BY <1>1, <1>2, <1>4, <2>1
       DEF ScoreInv, CountInv, Score, Settled, Players, Ball, BallInv
<1>. QED BY <1>5, <1>6, <1>7, <1>8, <1>9

\* The players are finitely many, and there is one that is not the current
\* one as long as there are two.
LEMMA PlayersCounted ==
  ASSUME ParentShape
  PROVE  /\ IsFiniteSet(Players) /\ Cardinality(Players) \in Nat
         /\ ~(Cardinality(Players) <= 1) => \E c \in Players : c # curr_player
<1>1. IsFiniteSet(Children)
  <2>1. 0 \in Int /\ n - 1 \in Int
    BY BallGameAssumption
  <2>. QED BY <2>1, FS_Interval DEF Children
<1>2. Players \subseteq Children
  BY DEF Players
<1>3. IsFiniteSet(Players) /\ Cardinality(Players) \in Nat
  BY <1>1, <1>2, FS_Subset, FS_CardinalityType
<1>4. ASSUME \A c \in Players : c = curr_player
      PROVE  Cardinality(Players) <= 1
  <2>1. Players \subseteq {curr_player}
    BY <1>4
  <2>2. IsFiniteSet({curr_player}) /\ Cardinality({curr_player}) = 1
    BY FS_Singleton
  <2>3. Cardinality(Players) <= Cardinality({curr_player})
    BY <2>1, <2>2, FS_Subset
  <2>. QED BY <2>2, <2>3
<1>. QED BY <1>3, <1>4

LEMMA PrintedStep ==
  ASSUME Inv, Printed
  PROVE  Inv'
<1>. USE DEF Inv
<1>1. /\ In("wait") /\ dummy = "dead" /\ dummy' = "none"
      /\ Go(IF rem_players' > 1 THEN "choose" ELSE "over")
      /\ UNCHANGED <<ppending, curr_player, told, parent, cvars, hist>>
  BY DEF Printed
<1>2. PICK y : y = IF rem_players' > 1 THEN "choose" ELSE "over"
  OBVIOUS
<1>3. /\ Top = "wait" /\ Top' = y /\ parent = "pause" /\ pstack[1][1] \in {"USR1", "USR2"}
      /\ pstack' \in Seq({"USR1", "USR2"} \X ParentPlaces)
      /\ \A i \in 2 .. Len(pstack') : pstack'[i][2] = "return"
  <2>1. y \in ParentPlaces /\ Go(y)
    BY <1>1, <1>2 DEF ParentPlaces
  <2>. QED BY <1>1, <2>1, ParentGoes
<1>4. \A c \in Children : /\ Spot(c)' = Spot(c) /\ ((Turn(c))' <=> Turn(c)) /\ ~Turn(c)
                          /\ ~Ball(c) /\ ~(Ball(c))'
  BY <1>1, <1>3 DEF Spot, Turn, Ball, BallInv, TurnInv, cvars
<1>5. told = {} /\ winners = {} /\ rem_players \in Nat /\ rem_players > 1
  <2>1. told = {} /\ rem_players \in Nat /\ rem_players > 1
    BY <1>3, PlayersCounted DEF EndInv, CountInv
  <2>2. \A c \in Children : child[c] # "gone"
    BY <2>1 DEF EndInv
  <2>. QED BY <2>1, <2>2 DEF EndInv
<1>6. /\ curr_player \in Children /\ child_status[curr_player] = PLAYING
      /\ Score(curr_player) = Printing(pstack[1][1])
  BY <1>3, <1>4 DEF ScoreInv, Unprinted, ParentShape
<1>7. CASE pstack[1][1] = "USR1"
  <2>1. child_status' = child_status /\ rem_players' = rem_players /\ Top' = "choose"
    BY <1>2, <1>3, <1>5, <1>7 DEF Printed
  <2>2. ParentShape' /\ ChildShape' /\ BallInv'
    BY <1>1, <1>3, <1>4, <2>1 DEF ParentShape, ChildShape, BallInv, Ball, cvars
  <2>3. TurnInv' /\ EndInv'
    BY <1>1, <1>3, <1>4, <2>1 DEF TurnInv, EndInv, cvars, hist
  <2>4. Score(curr_player) = 0
    BY <1>6, <1>7 DEF Printing
  <2>5. ScoreInv' /\ CountInv'
    BY <1>1, <1>3, <1>4, <1>5, <1>6, <2>1, <2>4
    DEF ScoreInv, CountInv, Score, Settled, Players, Ball, BallInv, cvars, PLAYING, OUT
  <2>. QED BY <2>2, <2>3, <2>5
<1>8. CASE pstack[1][1] = "USR2"
  <2>1. /\ child_status' = [child_status EXCEPT ![curr_player] = OUT]
        /\ rem_players' = rem_players - 1
    BY <1>8 DEF Printed
  <2>2. /\ Top' = IF rem_players' > 1 THEN "choose" ELSE "over"
        /\ Top' \in {"choose", "over"}
    BY <1>2, <1>3
  <2>3. /\ child_status' \in [Children -> {PLAYING, OUT}]
        /\ child_status'[curr_player] = OUT
        /\ \A c \in Children : c # curr_player => child_status'[c] = child_status[c]
    BY <1>6, <2>1 DEF ParentShape
  <2>4. ParentShape' /\ ChildShape' /\ BallInv'
    BY <1>1, <1>3, <1>4, <2>2, <2>3 DEF ParentShape, ChildShape, BallInv, Ball, cvars
  <2>5. TurnInv'
    BY <1>1, <1>3, <1>4, <2>2 DEF TurnInv, cvars, hist
  <2>6. EndInv'
    <3>1. \A c \in Children : "INT" \notin pending[c] /\ child[c] # "gone"
      BY <1>5 DEF EndInv
    <3>2. told' = {} /\ parent' = "pause" /\ winners' = {} /\ pending' = pending /\ child' = child
      BY <1>1, <1>3, <1>5 DEF cvars, hist
    <3>. QED BY <3>1, <3>2 DEF EndInv
  <2>7. ScoreInv'
    <3>1. Score(curr_player) = 3
      BY <1>6, <1>8 DEF Printing
    <3>. QED BY <1>1, <1>3, <1>4, <2>2, <2>3, <3>1
         DEF ScoreInv, Score, Settled, Ball, BallInv, cvars, PLAYING, OUT
  <2>8. CountInv'
    <3>1. Players' = Players \ {curr_player} /\ curr_player \in Players
      BY <1>1, <1>6, <2>3 DEF Players, PLAYING, OUT
    <3>2. Cardinality(Players') = Cardinality(Players) - 1
      BY <3>1, PlayersCounted, FS_RemoveElement
    <3>. QED BY <1>5, <2>1, <2>2, <3>2 DEF CountInv
  <2>. QED BY <2>4, <2>5, <2>6, <2>7, <2>8
<1>. QED BY <1>3, <1>7, <1>8

\* From a child on, n - 1 steps reach every other one.
LEMMA AheadIsEveryone ==
  ASSUME curr_player \in Children
  PROVE  /\ \A k \in 1 .. n : Ahead(k) \in Children
         /\ \A d \in Children : d # curr_player => \E k \in 1 .. n - 1 : Ahead(k) = d
<1>. DEFINE p == curr_player
<1>1. n \in Nat /\ n > 1 /\ p \in 0 .. n - 1
  BY BallGameAssumption DEF Children
<1>2. \A k \in 1 .. n : p + k \in Nat /\ (p + k) % n \in 0 .. n - 1
  BY <1>1
<1>3. ASSUME NEW d \in 0 .. n - 1, d # p
      PROVE  \E k \in 1 .. n - 1 : (p + k) % n = d
  <2>1. CASE d > p
    <3>1. d - p \in 1 .. n - 1 /\ p + (d - p) = d /\ d % n = d
      BY <1>1, <2>1
    <3>. QED BY <3>1
  <2>2. CASE d < p
    <3>1. d - p + n \in 1 .. n - 1 /\ p + (d - p + n) = d + n /\ (d + n) % n = d
      BY <1>1, <2>2
    <3>. QED BY <3>1
  <2>. QED BY <1>1, <1>3, <2>1, <2>2
<1>. QED BY <1>2, <1>3 DEF Children, Ahead

LEMMA ChooseStep ==
  ASSUME Inv, Choose
  PROVE  Inv'
<1>. USE DEF Inv
<1>1. /\ In("choose") /\ Go("throw")
      /\ UNCHANGED <<ppending, rem_players, child_status, told, parent, cvars, dummy, hist>>
  BY DEF Choose
<1>2. PICK k \in 1 .. n : /\ Plays(k) /\ \A j \in 1 .. k - 1 : ~Plays(j)
                          /\ curr_player' = Ahead(k)
  BY DEF Choose
<1>3. /\ Top = "choose" /\ Top' = "throw" /\ parent = "pause"
      /\ pstack' \in Seq({"USR1", "USR2"} \X ParentPlaces)
      /\ \A i \in 2 .. Len(pstack') : pstack'[i][2] = "return"
  BY <1>1, ParentGoes DEF ParentPlaces
<1>4. \A c \in Children : /\ Spot(c)' = Spot(c) /\ ((Turn(c))' <=> Turn(c)) /\ ~Turn(c)
                          /\ ~Ball(c) /\ ~(Ball(c))'
  BY <1>1, <1>3 DEF Spot, Turn, Ball, BallInv, TurnInv, cvars
<1>5. curr_player' \in Children /\ child_status[curr_player'] = PLAYING
  <2>1. \A j \in 1 .. n : Ahead(j) \in Children
    BY AheadIsEveryone DEF ParentShape
  <2>2. CASE k = n
    <3>1. PICK c \in Players : c # curr_player
      BY <1>3, PlayersCounted DEF CountInv
    <3>2. PICK j \in 1 .. n - 1 : Ahead(j) = c
      BY <3>1, AheadIsEveryone DEF ParentShape, Players
    <3>3. Plays(j)
      BY <3>1, <3>2 DEF Plays, Players, PLAYING, OUT
    <3>. QED BY <1>2, <2>2, <3>2, <3>3
  <2>3. CASE k # n
    BY <1>2, <2>1, <2>3 DEF Plays, ParentShape
  <2>. QED BY <1>2, <2>1, <2>2, <2>3
<1>6. ParentShape' /\ ChildShape'
  BY <1>1, <1>3, <1>5 DEF ParentShape, ChildShape, cvars
<1>7. BallInv' /\ TurnInv'
  BY <1>1, <1>3, <1>4 DEF BallInv, TurnInv, Ball, cvars, hist
<1>8. EndInv'
  BY <1>1, <1>3 DEF EndInv, cvars, hist
<1>9. ScoreInv'
  <2>1. \A c \in Children : Score(c) = Settled(c)
    BY <1>3 DEF ScoreInv
  <2>2. \A c \in Children : Score(c)' = Score(c) /\ Settled(c)' = Settled(c)
    BY <1>1 DEF Score, Settled, cvars
  <2>. QED BY <1>1, <1>3, <1>4, <1>5, <2>1, <2>2 DEF ScoreInv, Ball, BallInv
<1>10. CountInv'
  BY <1>1, <1>3 DEF CountInv, Players
<1>. QED BY <1>6, <1>7, <1>8, <1>9, <1>10

LEMMA ThrowStep ==
  ASSUME Inv, Throw
  PROVE  Inv'
<1>. USE DEF Inv
<1>1. /\ In("throw") /\ Go("return")
      /\ UNCHANGED <<ppending, curr_player, rem_players, child_status, told, parent,
                     stack, state, child, dummy, hist>>
  BY DEF Throw
<1>2. /\ Top = "throw" /\ Top' = "return" /\ parent = "pause"
      /\ pstack' \in Seq({"USR1", "USR2"} \X ParentPlaces)
      /\ \A i \in 2 .. Len(pstack') : pstack'[i][2] = "return"
  BY <1>1, ParentGoes DEF ParentPlaces
<1>3. rem_players > 1 /\ curr_player \in Children
  BY <1>2, PlayersCounted DEF CountInv, ParentShape
<1>4. /\ pending' \in [Children -> SUBSET Signals]
      /\ pending'[curr_player] = pending[curr_player] \cup {"USR2"}
      /\ \A c \in Children : c # curr_player => pending'[c] = pending[c]
  BY <1>3 DEF Throw, Kill, ChildShape, Signals
<1>5. \A c \in Children : /\ Spot(c)' = Spot(c) /\ ((Turn(c))' <=> Turn(c)) /\ ~Turn(c)
                          /\ ~Ball(c) /\ ((Ball(c))' <=> c = curr_player)
  BY <1>1, <1>2, <1>4 DEF Spot, Turn, Ball, BallInv, TurnInv
<1>6. ParentShape' /\ ChildShape'
  BY <1>1, <1>2, <1>4 DEF ParentShape, ChildShape
<1>7. ppending = {}
  BY <1>2 DEF BallInv
<1>8. BallInv'
  BY <1>1, <1>2, <1>3, <1>4, <1>5, <1>7 DEF BallInv, Ball
<1>9. TurnInv' /\ EndInv'
  BY <1>1, <1>2, <1>4, <1>5 DEF TurnInv, EndInv, hist
<1>10. ScoreInv'
  <2>1. Score(curr_player) = 0 /\ child_status[curr_player] = PLAYING
    BY <1>2 DEF ScoreInv, Settled, PLAYING, OUT
  <2>. QED BY <1>1, <1>2, <1>4, <1>5, <1>7, <2>1 DEF ScoreInv, Score, Settled, Ball
<1>11. CountInv'
  BY <1>1, <1>2 DEF CountInv, Players
<1>. QED BY <1>6, <1>8, <1>9, <1>10, <1>11

LEMMA ReturnStep ==
  ASSUME Inv, Return
  PROVE  Inv'
<1>. USE DEF Inv
<1>1. /\ In("return") /\ pstack' = Tail(pstack)
      /\ UNCHANGED <<ppending, curr_player, rem_players, child_status, told, parent,
                     cvars, dummy, hist>>
  BY DEF Return
<1>2. pstack # <<>> /\ Top = "return"
  BY <1>1 DEF In, Top
<1>3. /\ pstack' \in Seq({"USR1", "USR2"} \X ParentPlaces)
      /\ \A i \in 1 .. Len(pstack') : pstack'[i][2] = "return"
  <2>1. PICK t, s : t = pstack' /\ s = pstack
    OBVIOUS
  <2>2. /\ s \in Seq({"USR1", "USR2"} \X ParentPlaces) /\ t = Tail(s) /\ s # <<>>
        /\ \A i \in 2 .. Len(s) : s[i][2] = "return"
    BY <1>1, <1>2, <2>1 DEF ParentShape
  <2>3. /\ t \in Seq({"USR1", "USR2"} \X ParentPlaces)
        /\ Len(t) = Len(s) - 1 /\ Len(s) \in Nat \ {0}
        /\ \A i \in 1 .. Len(t) : t[i] = s[i + 1]
    BY <2>2, Popped
  <2>4. \A i \in 1 .. Len(t) : i + 1 \in 2 .. Len(s)
    BY <2>3
  <2>. QED BY <2>1, <2>2, <2>3, <2>4
<1>4. Top' = "return"
  <2>1. pstack' # <<>> => 1 \in 1 .. Len(pstack')
    BY <1>3
  <2>. QED BY <1>3, <2>1 DEF Top
<1>5. \A c \in Children : /\ Spot(c)' = Spot(c) /\ ((Turn(c))' <=> Turn(c))
                          /\ ((Ball(c))' <=> Ball(c))
  BY <1>1 DEF Spot, Turn, Ball, cvars
<1>6. \A i \in 2 .. Len(pstack') : pstack'[i][2] = "return"
  <2>1. Len(pstack') \in Nat
    BY <1>3
  <2>. QED BY <1>3, <2>1
<1>7. ParentShape' /\ ChildShape'
  BY <1>1, <1>3, <1>6 DEF ParentShape, ChildShape, cvars
<1>8. BallInv'
  <2>1. (Ball(curr_player))' <=> Ball(curr_player)
    BY <1>1, <1>5 DEF ParentShape
  <2>. QED BY <1>1, <1>2, <1>4, <1>5, <2>1 DEF BallInv, cvars
<1>9. TurnInv'
  <2>1. \A c \in Children : ~Turn(c) /\ ~(Turn(c))'
    BY <1>2, <1>5 DEF TurnInv
  <2>. QED BY <1>4, <2>1 DEF TurnInv, Turn
<1>10. EndInv'
  BY <1>1, <1>2, <1>4 DEF EndInv, cvars, hist
<1>11. ScoreInv' /\ CountInv'
  BY <1>1, <1>2, <1>4, <1>5 DEF ScoreInv, CountInv, Score, Settled, Players, cvars
<1>. QED BY <1>7, <1>8, <1>9, <1>10, <1>11

LEMMA TellNextStep ==
  ASSUME Inv, TellNext
  PROVE  Inv'
<1>. USE DEF Inv
<1>1. /\ In("over")
      /\ UNCHANGED <<pstack, ppending, curr_player, rem_players, child_status, parent,
                     stack, state, child, dummy, hist>>
  BY DEF TellNext
<1>2. PICK e \in Children : Kill(e, "INT") /\ told' = told \cup {e}
  BY DEF TellNext
<1>3. Top = "over" /\ Top' = Top /\ parent = "pause"
  BY <1>1 DEF In, Top
<1>4. /\ pending' \in [Children -> SUBSET Signals]
      /\ pending'[e] = pending[e] \cup {"INT"}
      /\ \A c \in Children : c # e => pending'[c] = pending[c]
  BY <1>2 DEF Kill, ChildShape, Signals
<1>5. \A c \in Children : /\ Spot(c)' = Spot(c) /\ ~Turn(c) /\ ~(Turn(c))'
                          /\ ~Ball(c) /\ ~(Ball(c))'
  BY <1>1, <1>3, <1>4 DEF Spot, Turn, Ball, BallInv, TurnInv
<1>6. ParentShape' /\ ChildShape'
  BY <1>1, <1>2, <1>4 DEF ParentShape, ChildShape
<1>7. BallInv' /\ TurnInv'
  BY <1>1, <1>3, <1>5 DEF BallInv, TurnInv, Ball, Turn
<1>8. EndInv'
  BY <1>1, <1>2, <1>3, <1>4 DEF EndInv, hist
<1>9. ScoreInv' /\ CountInv'
  BY <1>1, <1>3, <1>4, <1>5 DEF ScoreInv, CountInv, Score, Settled, Players, Ball
<1>. QED BY <1>6, <1>7, <1>8, <1>9

LEMMA ExitStep ==
  ASSUME Inv, Exit
  PROVE  Inv'
<1>. USE DEF Inv
<1>1. /\ In("over") /\ parent' = "gone"
      /\ UNCHANGED <<pstack, ppending, curr_player, rem_players, child_status, told,
                     cvars, dummy, hist>>
  BY DEF Exit
<1>2. Top = "over" /\ Top' = Top
  BY <1>1 DEF In, Top
<1>3. \A c \in Children : /\ Spot(c)' = Spot(c) /\ ((Turn(c))' <=> Turn(c))
                          /\ ~Ball(c) /\ ~(Ball(c))'
  BY <1>1, <1>2 DEF Spot, Turn, Ball, BallInv, cvars
<1>4. ParentShape' /\ ChildShape'
  BY <1>1 DEF ParentShape, ChildShape, cvars
<1>5. BallInv' /\ TurnInv' /\ EndInv'
  BY <1>1, <1>2, <1>3 DEF BallInv, TurnInv, EndInv, Ball, cvars, hist
<1>6. ScoreInv' /\ CountInv'
  BY <1>1, <1>2, <1>3 DEF ScoreInv, CountInv, Score, Settled, Players, Ball, cvars
<1>. QED BY <1>4, <1>5, <1>6

-----------------------------------------------------------------------------
(* A child.  Its steps leave the parent's handlers alone.                  *)

\* What a signal that is handled in time finds: the child is at no other
\* handler, and its number and that of the children are known to it.
LEMMA Handles ==
  ASSUME Inv, NEW c \in Children, NEW sig \in {"USR1", "USR2"}, NEW place \in ChildPlaces,
         Handle(c, sig, place), ~early'
  PROVE  /\ child[c] = "pause" /\ id(c) = c /\ total(c) = n
         /\ sig \in pending[c] /\ Spot(c) = "return" /\ Spot(c)' = place /\ Top' = Top
         /\ UNCHANGED <<pvars, dummy, winners>>
         /\ \A d \in Children : d # c => pending'[d] = pending[d] /\ Spot(d)' = Spot(d)
         /\ pending'[c] = pending[c] \ {sig} /\ pending' \in [Children -> SUBSET Signals]
         /\ stack' \in [Children -> Seq(Signals \X ChildPlaces)]
         /\ \A d \in Children : \A i \in 2 .. Len(stack'[d]) : stack'[d][i][2] = "return"
         /\ \A d \in Children : child[d] = "sleep" => stack'[d] = <<>>
<1>. USE DEF Inv
<1>1. /\ child[c] # "gone" /\ sig \in pending[c] /\ sig \in Signals
      /\ pending' = [pending EXCEPT ![c] = @ \ {sig}]
      /\ stack' = [stack EXCEPT ![c] = << <<sig, place>> >> \o @]
      /\ early' = (early \/ child[c] = "sleep")
      /\ UNCHANGED <<pvars, dummy, winners>>
  BY DEF Handle, Signals
<1>2. child[c] = "pause" /\ id(c) = c /\ total(c) = n
  BY <1>1 DEF ChildShape, id, total
<1>3. Spot(c) = "return"
  <2>1. Spot(c) \in ChildPlaces
    BY DEF ChildShape, Spot, ChildPlaces
  <2>2. CASE sig = "USR1"
    BY <1>1, <2>1, <2>2 DEF BallInv, TurnInv, Turn, Ball, ChildPlaces
  <2>3. CASE sig = "USR2"
    BY <1>1, <2>1, <2>3 DEF BallInv, TurnInv, Turn, Ball, ChildPlaces
  <2>. QED BY <2>2, <2>3
<1>4. PICK s, t : s = stack[c] /\ t = << <<sig, place>> >> \o s
  OBVIOUS
<1>5. s \in Seq(Signals \X ChildPlaces) /\ stack' = [stack EXCEPT ![c] = t]
  BY <1>1, <1>4 DEF ChildShape
<1>6. /\ t \in Seq(Signals \X ChildPlaces) /\ t # <<>>
      /\ Len(t) = Len(s) + 1 /\ Len(s) \in Nat /\ t[1][2] = place
      /\ \A i \in 2 .. Len(t) : t[i] = s[i - 1]
  BY <1>1, <1>4, <1>5, Pushed
<1>7. \A i \in 2 .. Len(t) : t[i][2] = "return"
  <2>1. SUFFICES ASSUME NEW i \in 2 .. Len(t) PROVE s[i - 1][2] = "return"
    BY <1>6
  <2>2. i = 2 \/ i - 1 \in 2 .. Len(s)
    BY <1>6
  <2>3. s # <<>>
    BY <1>5, <1>6, <2>1
  <2>4. s[1][2] = "return"
    BY <1>3, <1>4, <2>3 DEF Spot
  <2>5. \A j \in 2 .. Len(s) : s[j][2] = "return"
    BY <1>4 DEF ChildShape
  <2>. QED BY <2>2, <2>4, <2>5
<1>8. /\ stack' \in [Children -> Seq(Signals \X ChildPlaces)] /\ stack'[c] = t
      /\ \A d \in Children : d # c => stack'[d] = stack[d]
  BY <1>5, <1>6 DEF ChildShape
<1>9. Spot(c)' = place /\ \A d \in Children : d # c => Spot(d)' = Spot(d)
  BY <1>6, <1>8 DEF Spot
<1>10. /\ \A d \in Children : \A i \in 2 .. Len(stack'[d]) : stack'[d][i][2] = "return"
       /\ \A d \in Children : child[d] = "sleep" => stack'[d] = <<>>
  <2>1. SUFFICES ASSUME NEW d \in Children
                 PROVE  /\ \A i \in 2 .. Len(stack'[d]) : stack'[d][i][2] = "return"
                        /\ child[d] = "sleep" => stack'[d] = <<>>
    OBVIOUS
  <2>2. CASE d = c
    BY <1>2, <1>7, <1>8, <2>2
  <2>3. CASE d # c
    <3>1. /\ \A i \in 2 .. Len(stack[d]) : stack[d][i][2] = "return"
          /\ child[d] = "sleep" => stack[d] = <<>>
      BY DEF ChildShape
    <3>2. stack'[d] = stack[d]
      BY <1>8, <2>3
    <3>. QED BY <3>1, <3>2
  <2>. QED BY <2>2, <2>3
<1>11. /\ pending'[c] = pending[c] \ {sig} /\ pending' \in [Children -> SUBSET Signals]
       /\ \A d \in Children : d # c => pending'[d] = pending[d]
  BY <1>1 DEF ChildShape
<1>12. Top' = Top
  BY <1>1 DEF Top, pvars
<1>. QED BY <1>1, <1>2, <1>3, <1>8, <1>9, <1>10, <1>11, <1>12

LEMMA ReadNumberStep ==
  ASSUME Inv, NEW c \in Children, ReadNumber(c)
  PROVE  Inv'
<1>. USE DEF Inv
<1>1. /\ child[c] = "sleep" /\ child' = [child EXCEPT ![c] = "pause"]
      /\ UNCHANGED <<pvars, stack, pending, state, dummy, hist>>
  BY DEF ReadNumber
<1>2. /\ child' \in [Children -> {"sleep", "pause", "gone"}] /\ child'[c] = "pause"
      /\ \A d \in Children : d # c => child'[d] = child[d]
  BY <1>1 DEF ChildShape
<1>3. /\ Top' = Top
      /\ \A d \in Children : /\ Spot(d)' = Spot(d) /\ ((Turn(d))' <=> Turn(d))
                              /\ ((Ball(d))' <=> Ball(d))
  BY <1>1 DEF Top, Spot, Turn, Ball, pvars
<1>4. ParentShape' /\ ChildShape'
  BY <1>1, <1>2 DEF ParentShape, ChildShape, pvars
<1>5. BallInv'
  <2>1. (Ball(curr_player))' <=> Ball(curr_player)
    BY <1>1, <1>3 DEF ParentShape, pvars
  <2>. QED BY <1>1, <1>3, <2>1 DEF BallInv, pvars
<1>6. TurnInv'
  BY <1>1, <1>3 DEF TurnInv, hist
<1>7. EndInv'
  BY <1>1, <1>2, <1>3 DEF EndInv, pvars, hist
<1>8. ScoreInv'
  BY <1>1, <1>3 DEF ScoreInv, Unprinted, Score, Settled, pvars
<1>9. CountInv'
  BY <1>1, <1>3 DEF CountInv, Players, pvars
<1>. QED BY <1>4, <1>5, <1>6, <1>7, <1>8, <1>9

LEMMA PrintStatusStep ==
  ASSUME Inv, NEW c \in Children, PrintStatus(c), ~early'
  PROVE  Inv'
<1>. USE DEF Inv
<1>1. Handle(c, "USR1", "pass") /\ child' = child
  BY DEF PrintStatus
<1>2. /\ id(c) = c /\ total(c) = n
      /\ "USR1" \in pending[c] /\ Spot(c) = "return" /\ Spot(c)' = "pass" /\ Top' = Top
      /\ UNCHANGED <<pvars, dummy, winners>>
      /\ \A d \in Children : d # c => pending'[d] = pending[d] /\ Spot(d)' = Spot(d)
      /\ pending'[c] = pending[c] \ {"USR1"} /\ pending' \in [Children -> SUBSET Signals]
      /\ stack' \in [Children -> Seq(Signals \X ChildPlaces)]
      /\ \A d \in Children : \A i \in 2 .. Len(stack'[d]) : stack'[d][i][2] = "return"
      /\ \A d \in Children : child[d] = "sleep" => stack'[d] = <<>>
  BY <1>1, Handles DEF ChildPlaces
<1>3. c \in Nat /\ c < n /\ n \in Nat /\ curr_player \in Nat
  BY BallGameAssumption DEF Children, ParentShape
<1>4. row' = Append(row, c) /\ state' = [state EXCEPT ![c][c] = AfterPrint(@)]
  BY <1>2, <1>3 DEF PrintStatus
<1>5. Turn(c) /\ Top = "wait" /\ dummy = "alive" /\ row = UpTo(c) /\ ppending = {}
  BY <1>2 DEF TurnInv, Turn, BallInv
<1>6. \A d \in Children : /\ (Turn(d) <=> d = c) /\ ((Turn(d))' <=> d = c)
                          /\ ~Ball(d) /\ ~(Ball(d))'
  BY <1>2, <1>5 DEF Turn, Ball, BallInv, TurnInv
<1>7. row' = UpTo(c + 1)
  BY <1>3, <1>4, <1>5 DEF UpTo
<1>8. /\ state' \in [Children -> [Children -> 0 .. 3]]
      /\ Score(c)' = AfterPrint(Score(c))
      /\ \A d \in Children : d # c => Score(d)' = Score(d)
  BY <1>4 DEF ChildShape, Score, AfterPrint
<1>9. ParentShape' /\ ChildShape'
  BY <1>1, <1>2, <1>8 DEF ParentShape, ChildShape, pvars
<1>10. BallInv'
  BY <1>2, <1>5, <1>6 DEF BallInv, Ball, pvars
<1>11. TurnInv'
  BY <1>2, <1>5, <1>6, <1>7 DEF TurnInv, Turn
<1>12. EndInv'
  BY <1>1, <1>2, <1>5 DEF EndInv, pvars
<1>13. ScoreInv'
  <2>1. /\ Unprinted <=> (c < curr_player \/ c = curr_player)
        /\ (Unprinted)' <=> c < curr_player
    BY <1>2, <1>6 DEF Unprinted, pvars
  <2>2. \A d \in Children : d # curr_player => Score(d)' = Settled(d)
    BY <1>8 DEF ScoreInv, Settled, AfterPrint
  <2>3. Score(curr_player)' = IF (Unprinted)' THEN Answered(pstack[1][1]) ELSE Printing(pstack[1][1])
    <3>1. Score(curr_player) = IF Unprinted THEN Answered(pstack[1][1]) ELSE Printing(pstack[1][1])
      BY <1>5 DEF ScoreInv
    <3>2. CASE c = curr_player
      <4>1. Score(curr_player)' = AfterPrint(Score(curr_player))
        BY <1>2, <1>8, <3>2 DEF pvars, Score
      <4>2. Unprinted /\ ~(Unprinted)'
        BY <1>3, <2>1, <3>2
      <4>. QED BY <3>1, <4>1, <4>2 DEF Answered, Printing, AfterPrint
    <3>3. CASE c # curr_player
      <4>1. Score(curr_player)' = Score(curr_player)
        BY <1>2, <1>8, <3>3 DEF ParentShape, pvars, Score
      <4>. QED BY <2>1, <3>1, <3>3, <4>1
    <3>. QED BY <3>2, <3>3
  <2>4. /\ Top' = "wait" /\ pstack' = pstack /\ curr_player' = curr_player /\ ppending' = {}
        /\ parent' = "pause" /\ child_status' = child_status
        /\ child_status[curr_player] = PLAYING
    BY <1>2, <1>5 DEF pvars, BallInv, EndInv, ParentShape, ScoreInv
  <2>5. \A d \in Children : Settled(d)' = Settled(d)
    BY <2>4 DEF Settled
  <2>6. Score(curr_player)' = (Score(curr_player))'
    OBVIOUS
  <2>. QED BY <1>6, <2>2, <2>3, <2>4, <2>5 DEF ScoreInv, Ball
<1>14. CountInv'
  BY <1>2 DEF CountInv, Players, pvars
<1>. QED BY <1>9, <1>10, <1>11, <1>12, <1>13, <1>14

\* handle_sigusr2, when the child has the ball: it catches or misses it.
LEMMA AnswerStep ==
  ASSUME Inv, NEW c \in Children, NEW place, NEW v,
         (place = "caught" /\ v = 1) \/ (place = "missed" /\ v = 2),
         Handle(c, "USR2", place), state' = [state EXCEPT ![c][id(c)] = v],
         UNCHANGED <<row, child>>, ~early'
  PROVE  Inv'
<1>. USE DEF Inv
<1>1. /\ id(c) = c
      /\ "USR2" \in pending[c] /\ Spot(c) = "return" /\ Spot(c)' = place /\ Top' = Top
      /\ UNCHANGED <<pvars, dummy, winners>>
      /\ \A d \in Children : d # c => pending'[d] = pending[d] /\ Spot(d)' = Spot(d)
      /\ pending'[c] = pending[c] \ {"USR2"} /\ pending' \in [Children -> SUBSET Signals]
      /\ stack' \in [Children -> Seq(Signals \X ChildPlaces)]
      /\ \A d \in Children : \A i \in 2 .. Len(stack'[d]) : stack'[d][i][2] = "return"
      /\ \A d \in Children : child[d] = "sleep" => stack'[d] = <<>>
  BY Handles DEF ChildPlaces
<1>2. c = curr_player /\ parent = "pause" /\ Top = "return" /\ ppending = {}
  BY <1>1 DEF BallInv, Ball
<1>3. \A d \in Children : /\ ~Turn(d) /\ ~(Turn(d))' /\ ((Ball(d))' <=> d = c)
  BY <1>1, <1>2 DEF Turn, Ball, BallInv, TurnInv
<1>4. /\ state' \in [Children -> [Children -> 0 .. 3]] /\ Score(c)' = v
      /\ \A d \in Children : d # c => Score(d)' = Score(d)
  BY <1>1 DEF ChildShape, Score
<1>5. ParentShape' /\ ChildShape'
  BY <1>1, <1>4 DEF ParentShape, ChildShape, pvars
<1>6. BallInv'
  BY <1>1, <1>2, <1>3 DEF BallInv, Ball, pvars
<1>7. TurnInv'
  BY <1>1, <1>2, <1>3 DEF TurnInv, Turn
<1>8. EndInv'
  BY <1>1, <1>2 DEF EndInv, pvars
<1>9. ScoreInv'
  <2>1. /\ pstack' = pstack /\ curr_player' = c /\ ppending' = {} /\ Top' = "return"
        /\ parent' = "pause" /\ child_status' = child_status
    BY <1>1, <1>2 DEF pvars
  <2>2. \A d \in Children : d # c =>
          "USR2" \notin pending'[d] /\ Spot(d)' \notin {"caught", "missed"}
    BY <1>3 DEF Ball
  <2>3. child_status[c] = PLAYING /\ "USR2" \notin pending'[c]
    BY <1>1, <1>2 DEF ScoreInv
  <2>4. \A d \in Children : d # c => Score(d)' = Settled(d)'
    BY <1>2, <1>4, <2>1 DEF ScoreInv, Settled
  <2>. QED BY <1>1, <1>4, <2>1, <2>2, <2>3, <2>4 DEF ScoreInv
<1>10. CountInv'
  BY <1>1 DEF CountInv, Players, pvars
<1>. QED BY <1>5, <1>6, <1>7, <1>8, <1>9, <1>10

\* The ball never comes to a child that does not play.
LEMMA IgnoreStep ==
  ASSUME Inv, NEW c \in Children, Ignore(c), ~early'
  PROVE  FALSE
<1>1. Handle(c, "USR2", "return") /\ state[c][id(c)] # 0
  BY DEF Ignore
<1>2. id(c) = c /\ "USR2" \in pending[c]
  BY <1>1, Handles DEF ChildPlaces
<1>. QED BY <1>1, <1>2 DEF Inv, ScoreInv, Score

\* The handler that runs in a child.
LEMMA InHandlerSpot ==
  ASSUME ChildShape, NEW c \in Children, NEW x, InHandler(c, x)
  PROVE  /\ stack[c] # <<>> /\ Spot(c) = x /\ child[c] = "pause"
         /\ id(c) = c /\ total(c) = n
BY DEF ChildShape, InHandler, Spot, id, total

LEMMA PassStep ==
  ASSUME Inv, NEW c \in Children, Pass(c)
  PROVE  Inv'
<1>. USE DEF Inv
<1>1. /\ InHandler(c, "pass") /\ Leaving(c)
      /\ UNCHANGED <<pvars, state, child, hist>>
  BY DEF Pass
<1>2. stack[c] # <<>> /\ Spot(c) = "pass" /\ id(c) = c /\ total(c) = n /\ child[c] = "pause"
  BY <1>1, InHandlerSpot
<1>3. /\ stack' \in [Children -> Seq(Signals \X ChildPlaces)] /\ stack'[c] # <<>>
      /\ \A d \in Children : d # c => stack'[d] = stack[d] /\ Spot(d)' = Spot(d)
      /\ Spot(c)' = "return"
      /\ \A i \in 2 .. Len(stack'[c]) : stack'[c][i][2] = "return"
  BY <1>1, <1>2, ChildLeaves
<1>4. /\ Top = "wait" /\ Top' = Top /\ dummy = "alive" /\ row = UpTo(c + 1)
      /\ ppending = {} /\ "USR1" \notin pending[c] /\ parent' = "pause"
      /\ \A d \in Children : (Turn(d) <=> d = c) /\ ~Ball(d)
  BY <1>1, <1>2 DEF TurnInv, Turn, BallInv, EndInv, ParentShape, Top, pvars
<1>5. c \in Nat /\ c < n /\ n \in Nat /\ curr_player \in Nat /\ curr_player < n
  BY BallGameAssumption DEF Children, ParentShape
<1>6. Unprinted <=> c < curr_player
  BY <1>4, <1>5 DEF Unprinted
<1>7. CountInv' /\ EndInv'
  <2>1. \A d \in Children : "INT" \in pending'[d] <=> "INT" \in pending[d]
    <3>1. CASE Passes(c)
      <4>1. PICK e : e = id(c) + 1
        OBVIOUS
      <4>2. pending' = [pending EXCEPT ![e] = @ \cup {"USR1"}]
        BY <3>1, <4>1 DEF Pass, Kill
      <4>. QED BY <4>2 DEF ChildShape
    <3>2. CASE ~Passes(c)
      BY <3>2 DEF Pass
    <3>. QED BY <3>1, <3>2
  <2>. QED BY <1>1, <1>4, <2>1 DEF CountInv, EndInv, Players, pvars, hist
<1>8. ASSUME pending' \in [Children -> SUBSET Signals], dummy' \in {"alive", "dead"},
             (Unprinted)' <=> Unprinted, \A d \in Children : ~(Ball(d))'
      PROVE  ParentShape' /\ ChildShape' /\ BallInv' /\ ScoreInv'
  <2>1. ParentShape'
    BY <1>1, <1>8 DEF ParentShape, pvars
  <2>2. \A d \in Children : /\ \A i \in 2 .. Len(stack'[d]) : stack'[d][i][2] = "return"
                            /\ child'[d] = "sleep" => stack'[d] = <<>>
    <3>1. SUFFICES ASSUME NEW d \in Children, d # c
                   PROVE  /\ \A i \in 2 .. Len(stack'[d]) : stack'[d][i][2] = "return"
                          /\ child'[d] = "sleep" => stack'[d] = <<>>
      BY <1>1, <1>2, <1>3
    <3>2. /\ \A i \in 2 .. Len(stack[d]) : stack[d][i][2] = "return"
          /\ child[d] = "sleep" => stack[d] = <<>>
      BY DEF ChildShape
    <3>3. stack'[d] = stack[d] /\ child'[d] = child[d]
      BY <1>1, <1>3, <3>1
    <3>. QED BY <3>2, <3>3
  <2>3. ChildShape'
    BY <1>1, <1>3, <1>8, <2>2 DEF ChildShape
  <2>4. BallInv'
    BY <1>1, <1>4, <1>8 DEF BallInv, Ball, pvars
  <2>5. ScoreInv'
    BY <1>1, <1>4, <1>8 DEF ScoreInv, Score, Settled, Ball, pvars
  <2>. QED BY <2>1, <2>3, <2>4, <2>5
<1>9. CASE c < n - 1
  <2>1. /\ c + 1 \in Children /\ c + 1 # c /\ dummy' = dummy
        /\ pending' = [pending EXCEPT ![c + 1] = @ \cup {"USR1"}]
    BY <1>2, <1>5, <1>9 DEF Pass, Passes, Kill, Children
  <2>2. /\ pending' \in [Children -> SUBSET Signals]
        /\ pending'[c + 1] = pending[c + 1] \cup {"USR1"}
        /\ \A d \in Children : d # c + 1 => pending'[d] = pending[d]
    BY <2>1 DEF ChildShape, Signals
  <2>3. \A d \in Children : ((Turn(d))' <=> d = c + 1) /\ ~(Ball(d))'
    BY <1>3, <1>4, <2>1, <2>2 DEF Turn, Ball
  <2>4. (Unprinted)' <=> Unprinted
    <3>1. (Unprinted)' <=> (c + 1 < curr_player \/ c + 1 = curr_player)
      BY <1>1, <2>1, <2>2, <2>3 DEF Unprinted, pvars
    <3>. QED BY <1>5, <1>6, <3>1
  <2>5. TurnInv'
    BY <1>1, <1>3, <1>4, <1>5, <2>1, <2>2, <2>3 DEF TurnInv, Turn, hist
  <2>. QED BY <1>4, <1>7, <1>8, <2>1, <2>2, <2>3, <2>4, <2>5
<1>10. CASE ~(c < n - 1)
  <2>1. dummy' = "dead" /\ pending' = pending /\ c + 1 = n
    BY <1>2, <1>4, <1>5, <1>10 DEF Pass, Passes
  <2>2. \A d \in Children : ~(Turn(d))' /\ ~(Ball(d))'
    BY <1>3, <1>4, <2>1 DEF Turn, Ball
  <2>3. (Unprinted)' <=> Unprinted
    BY <1>5, <1>6, <2>1, <2>2 DEF Unprinted
  <2>4. TurnInv'
    BY <1>1, <1>4, <2>1, <2>2 DEF TurnInv, Turn, hist
  <2>5. pending' \in [Children -> SUBSET Signals]
    BY <2>1 DEF ChildShape
  <2>. QED BY <1>7, <1>8, <2>1, <2>2, <2>3, <2>4, <2>5
<1>. QED BY <1>9, <1>10

LEMMA TellStep ==
  ASSUME Inv, NEW c \in Children, Tell(c)
  PROVE  Inv'
<1>. USE DEF Inv
<1>1. /\ Leaving(c)
      /\ UNCHANGED <<pstack, curr_player, rem_players, child_status, told, parent,
                     pending, state, child, dummy, hist>>
  BY DEF Tell
<1>2. PICK sig \in {"USR1", "USR2"} :
        /\ ppending' = ppending \cup {sig}
        /\ InHandler(c, IF sig = "USR1" THEN "caught" ELSE "missed")
  BY DEF Tell
<1>3. /\ stack[c] # <<>> /\ child[c] = "pause"
      /\ Spot(c) = IF sig = "USR1" THEN "caught" ELSE "missed"
  BY <1>2, InHandlerSpot
<1>4. /\ stack' \in [Children -> Seq(Signals \X ChildPlaces)] /\ stack'[c] # <<>>
      /\ \A d \in Children : d # c => stack'[d] = stack[d] /\ Spot(d)' = Spot(d)
      /\ Spot(c)' = "return"
      /\ \A i \in 2 .. Len(stack'[c]) : stack'[c][i][2] = "return"
  BY <1>1, <1>3, ChildLeaves
<1>5. /\ c = curr_player /\ parent = "pause" /\ Top = "return" /\ Top' = Top
      /\ ppending = {} /\ "USR2" \notin pending[c] /\ Score(c) = Answered(sig)
  BY <1>1, <1>3 DEF BallInv, Ball, ScoreInv, Answered, Top
<1>6. \A d \in Children : ~Turn(d) /\ ~(Turn(d))' /\ ~(Ball(d))'
  BY <1>1, <1>4, <1>5 DEF TurnInv, Turn, BallInv, Ball
<1>7. ParentShape'
  BY <1>1, <1>2, <1>5 DEF ParentShape
<1>8. ChildShape'
  <2>1. \A d \in Children : /\ \A i \in 2 .. Len(stack'[d]) : stack'[d][i][2] = "return"
                            /\ child'[d] = "sleep" => stack'[d] = <<>>
    <3>1. SUFFICES ASSUME NEW d \in Children, d # c
                   PROVE  /\ \A i \in 2 .. Len(stack'[d]) : stack'[d][i][2] = "return"
                          /\ child'[d] = "sleep" => stack'[d] = <<>>
      BY <1>1, <1>3, <1>4
    <3>2. /\ \A i \in 2 .. Len(stack[d]) : stack[d][i][2] = "return"
          /\ child[d] = "sleep" => stack[d] = <<>>
      BY DEF ChildShape
    <3>3. stack'[d] = stack[d] /\ child'[d] = child[d]
      BY <1>1, <1>4, <3>1
    <3>. QED BY <3>2, <3>3
  <2>. QED BY <1>1, <1>4, <2>1 DEF ChildShape
<1>9. BallInv'
  <2>1. ppending' = {sig}
    BY <1>2, <1>5
  <2>. QED BY <1>1, <1>5, <1>6, <2>1 DEF BallInv, Ball
<1>10. TurnInv' /\ EndInv'
  BY <1>1, <1>5, <1>6 DEF TurnInv, Turn, EndInv, hist
<1>11. ScoreInv'
  <2>1. \A d \in Children : "USR2" \notin pending'[d] /\ Spot(d)' \notin {"caught", "missed"}
    BY <1>6 DEF Ball
  <2>2. ppending' = {sig}
    BY <1>2, <1>5
  <2>. QED BY <1>1, <1>5, <2>1, <2>2 DEF ScoreInv, Score, Settled
<1>12. CountInv'
  BY <1>1, <1>5 DEF CountInv, Players
<1>. QED BY <1>7, <1>8, <1>9, <1>10, <1>11, <1>12

LEMMA ReturnChildStep ==
  ASSUME Inv, NEW c \in Children, ReturnChild(c)
  PROVE  Inv'
<1>. USE DEF Inv
<1>1. /\ InHandler(c, "return") /\ stack' = [stack EXCEPT ![c] = Tail(@)]
      /\ UNCHANGED <<pvars, pending, state, child, dummy, hist>>
  BY DEF ReturnChild
<1>2. stack[c] # <<>> /\ child[c] = "pause" /\ Spot(c) = "return"
  BY <1>1, InHandlerSpot
<1>3. PICK s, t : s = stack[c] /\ t = Tail(s)
  OBVIOUS
<1>4. /\ s \in Seq(Signals \X ChildPlaces) /\ s # <<>>
      /\ stack' = [stack EXCEPT ![c] = t] /\ \A i \in 2 .. Len(s) : s[i][2] = "return"
  BY <1>1, <1>2, <1>3 DEF ChildShape
<1>5. /\ t \in Seq(Signals \X ChildPlaces)
      /\ Len(t) = Len(s) - 1 /\ Len(s) \in Nat \ {0}
      /\ \A i \in 1 .. Len(t) : t[i] = s[i + 1]
  BY <1>3, <1>4, Popped
<1>6. \A i \in 1 .. Len(t) : t[i][2] = "return"
  <2>1. \A i \in 1 .. Len(t) : i + 1 \in 2 .. Len(s)
    BY <1>5
  <2>. QED BY <1>4, <1>5, <2>1
<1>7. t # <<>> => t[1][2] = "return"
  <2>1. t # <<>> => 1 \in 1 .. Len(t)
    BY <1>5
  <2>. QED BY <1>6, <2>1
<1>8. /\ stack' \in [Children -> Seq(Signals \X ChildPlaces)] /\ stack'[c] = t
      /\ \A d \in Children : d # c => stack'[d] = stack[d]
  BY <1>4, <1>5 DEF ChildShape
<1>9. Top' = Top /\ \A d \in Children : Spot(d)' = Spot(d)
  BY <1>1, <1>2, <1>7, <1>8 DEF Top, Spot, pvars
<1>10. ChildShape'
  <2>1. \A i \in 2 .. Len(t) : t[i][2] = "return"
    BY <1>5, <1>6
  <2>2. \A d \in Children : /\ \A i \in 2 .. Len(stack'[d]) : stack'[d][i][2] = "return"
                            /\ child'[d] = "sleep" => stack'[d] = <<>>
    <3>1. SUFFICES ASSUME NEW d \in Children, d # c
                   PROVE  /\ \A i \in 2 .. Len(stack'[d]) : stack'[d][i][2] = "return"
                          /\ child'[d] = "sleep" => stack'[d] = <<>>
      BY <1>1, <1>2, <1>8, <2>1
    <3>2. /\ \A i \in 2 .. Len(stack[d]) : stack[d][i][2] = "return"
          /\ child[d] = "sleep" => stack[d] = <<>>
      BY DEF ChildShape
    <3>3. stack'[d] = stack[d] /\ child'[d] = child[d]
      BY <1>1, <1>8, <3>1
    <3>. QED BY <3>2, <3>3
  <2>. QED BY <1>1, <1>8, <2>2 DEF ChildShape
<1>11. ParentShape' /\ CountInv' /\ EndInv'
  BY <1>1, <1>9 DEF ParentShape, CountInv, EndInv, Players, pvars, hist
<1>12. \A d \in Children : ((Turn(d))' <=> Turn(d)) /\ ((Ball(d))' <=> Ball(d))
  BY <1>1, <1>9 DEF Turn, Ball
<1>13. BallInv'
  <2>1. (Ball(curr_player))' <=> Ball(curr_player)
    BY <1>1, <1>12 DEF ParentShape, pvars
  <2>. QED BY <1>1, <1>9, <1>12, <2>1 DEF BallInv, pvars
<1>14. TurnInv'
  BY <1>1, <1>9, <1>12 DEF TurnInv, hist
<1>15. ScoreInv'
  BY <1>1, <1>9, <1>12 DEF ScoreInv, Unprinted, Score, Settled, pvars
<1>. QED BY <1>10, <1>11, <1>13, <1>14, <1>15

LEMMA LeaveStep ==
  ASSUME Inv, NEW c \in Children, Leave(c), ~early'
  PROVE  Inv'
<1>. USE DEF Inv
<1>1. /\ child[c] # "gone" /\ "INT" \in pending[c]
      /\ winners' = IF state[c][id(c)] # 3 THEN winners \cup {c} ELSE winners
      /\ child' = [child EXCEPT ![c] = "gone"] /\ pending' = [pending EXCEPT ![c] = {}]
      /\ child[c] # "sleep"
      /\ UNCHANGED <<pvars, stack, state, dummy, row>>
  BY DEF Leave
<1>2. id(c) = c /\ c \in told /\ Top = "over" /\ Top' = Top
  BY <1>1 DEF id, EndInv, Top, pvars
<1>3. /\ pending' \in [Children -> SUBSET Signals] /\ pending'[c] = {}
      /\ child' \in [Children -> {"sleep", "pause", "gone"}] /\ child'[c] = "gone"
      /\ \A d \in Children : d # c => pending'[d] = pending[d] /\ child'[d] = child[d]
  BY <1>1 DEF ChildShape
<1>4. \A d \in Children : /\ Spot(d)' = Spot(d) /\ ~Turn(d) /\ ~(Turn(d))'
                          /\ ~Ball(d) /\ ~(Ball(d))'
  BY <1>1, <1>2, <1>3 DEF Spot, Turn, Ball, TurnInv, BallInv
<1>5. ParentShape' /\ CountInv'
  BY <1>1, <1>2 DEF ParentShape, CountInv, Players, pvars
<1>6. ChildShape'
  BY <1>1, <1>3 DEF ChildShape
<1>7. BallInv' /\ TurnInv'
  BY <1>1, <1>2, <1>4 DEF BallInv, TurnInv, Ball, Turn, pvars
<1>8. EndInv'
  <2>1. state[c][id(c)] # 3 <=> child_status[c] = PLAYING
    <3>1. Score(c) = Settled(c)
      BY <1>2 DEF ScoreInv
    <3>2. child_status[c] \in {PLAYING, OUT}
      BY DEF ParentShape
    <3>. QED BY <1>2, <3>1, <3>2 DEF Score, Settled, PLAYING, OUT
  <2>2. winners' = {d \in Children : child'[d] = "gone" /\ child_status[d] = PLAYING}
    BY <1>1, <1>3, <2>1 DEF EndInv
  <2>. QED BY <1>1, <1>2, <1>3, <2>2 DEF EndInv, pvars
<1>9. ScoreInv'
  BY <1>1, <1>2, <1>4 DEF ScoreInv, Score, Settled, Ball, pvars
<1>. QED BY <1>5, <1>6, <1>7, <1>8, <1>9

-----------------------------------------------------------------------------
(* The invariant.                                                          *)

LEMMA InitInv == Init => IInv
<1>. SUFFICES ASSUME Init PROVE Inv
  BY DEF IInv
<1>1. /\ pstack = <<>> /\ ppending = {} /\ parent = "sleep"
      /\ curr_player = 0 /\ rem_players = n /\ child_status = [c \in Children |-> PLAYING]
      /\ told = {} /\ dummy = "none" /\ winners = {}
      /\ stack = [c \in Children |-> <<>>] /\ pending = [c \in Children |-> {}]
      /\ state = [c \in Children |-> [i \in Children |-> 0]]
      /\ child \in [Children -> {"sleep", "pause"}]
  BY DEF Init
<1>2. 0 \in Children /\ n \in Nat /\ n > 1
  BY BallGameAssumption DEF Children
<1>3. /\ Top = "return"
      /\ \A c \in Children : Spot(c) = "return" /\ ~Turn(c) /\ ~Ball(c)
  BY <1>1 DEF Top, Spot, Turn, Ball
<1>4. ParentShape
  <2>1. pstack \in Seq({"USR1", "USR2"} \X ParentPlaces) /\ Len(pstack) = 0
    BY <1>1
  <2>. QED BY <1>1, <1>2, <2>1 DEF ParentShape
<1>5. ChildShape
  <2>1. <<>> \in Seq(Signals \X ChildPlaces) /\ Len(<<>>) = 0
    OBVIOUS
  <2>. QED BY <1>1, <2>1 DEF ChildShape
<1>6. BallInv /\ TurnInv /\ EndInv
  BY <1>1, <1>3 DEF BallInv, TurnInv, EndInv, Turn, Ball
<1>7. ScoreInv
  BY <1>1, <1>2, <1>3 DEF ScoreInv, Score, Settled, PLAYING, OUT
<1>8. CountInv
  <2>1. Players = 0 .. n - 1
    BY <1>1 DEF Players, Children
  <2>2. Cardinality(0 .. n - 1) = n
    BY <1>2, FS_Interval
  <2>. QED BY <1>1, <1>2, <1>3, <2>1, <2>2 DEF CountInv
<1>. QED BY <1>4, <1>5, <1>6, <1>7, <1>8 DEF Inv

LEMMA ParentStep ==
  ASSUME Inv, Parent
  PROVE  Inv'
BY BeginStep, InterruptStep, ForkStep, StartPrintingStep, PrintedStep, ChooseStep,
   ThrowStep, ReturnStep, TellNextStep, ExitStep DEF Parent

LEMMA ChildStep ==
  ASSUME Inv, NEW c \in Children, Child(c), ~early'
  PROVE  Inv'
<1>1. CASE Catch(c)
  BY <1>1, AnswerStep DEF Catch
<1>2. CASE Miss(c)
  BY <1>2, AnswerStep DEF Miss
<1>. QED BY <1>1, <1>2, ReadNumberStep, PrintStatusStep, IgnoreStep, PassStep, TellStep,
            ReturnChildStep, LeaveStep DEF Child

\* A signal that came too early has come for ever.
LEMMA StepInv == IInv /\ [Next]_vars => IInv'
<1>. SUFFICES ASSUME IInv, [Next]_vars, ~early' PROVE Inv'
  BY DEF IInv
<1>1. CASE Parent
  <2>1. ~early
    BY <1>1 DEF Parent, Begin, Interrupt, Fork, StartPrinting, Printed, Choose, Throw,
                Return, TellNext, Exit, hist
  <2>. QED BY <1>1, <2>1, ParentStep DEF IInv
<1>2. ASSUME NEW c \in Children, Child(c)
      PROVE  Inv'
  <2>1. ~early
    BY <1>2 DEF Child, ReadNumber, PrintStatus, Catch, Miss, Ignore, Handle, Pass, Tell,
                ReturnChild, Leave, hist
  <2>. QED BY <1>2, <2>1, ChildStep DEF IInv
<1>3. CASE UNCHANGED vars
  <2>1. Inv
    BY <1>3 DEF IInv, vars, hist
  <2>2. UNCHANGED <<pstack, ppending, curr_player, rem_players, child_status, told, parent,
                    stack, pending, state, child, dummy, row, winners>>
    BY <1>3 DEF vars, pvars, cvars, hist
  <2>. QED BY <2>1, <2>2
       DEF Inv, ParentShape, ChildShape, BallInv, TurnInv, EndInv, ScoreInv, CountInv, Top, Spot,
           Ball, Turn, Unprinted, Score, Settled, Players
<1>. QED BY <1>1, <1>2, <1>3 DEF Next

\* Up to the first signal that comes too early there is one ball, one row
\* and one score (parent.c:17-109; child.c:33-112).
THEOREM GameInvariant == Spec => []IInv
BY InitInv, StepInv, PTL DEF Spec

-----------------------------------------------------------------------------
(* What the runs check.  Only the newest handler of a process is at a      *)
(* place that counts.                                                      *)

LEMMA HandlersCounted ==
  ASSUME ParentShape, ChildShape
  PROVE  /\ \A c \in Children : HasBall(c) <=> Ball(c)
         /\ \A c \in Children : HasTurn(c) <=> Turn(c)
         /\ Rounds = IF Top = "return" THEN {} ELSE {1}
<1>1. ASSUME NEW c \in Children, NEW X, "return" \notin X
      PROVE  (\E i \in DOMAIN stack[c] : stack[c][i][2] \in X) <=> Spot(c) \in X
  <2>1. PICK s : s = stack[c]
    OBVIOUS
  <2>2. /\ s \in Seq(Signals \X ChildPlaces)
        /\ \A i \in 2 .. Len(s) : s[i][2] = "return"
    BY <2>1 DEF ChildShape
  <2>3. DOMAIN s = 1 .. Len(s) /\ Len(s) \in Nat /\ (s = <<>> <=> Len(s) = 0)
    BY <2>2
  <2>4. \A i \in DOMAIN s : i # 1 => s[i][2] = "return"
    BY <2>2, <2>3
  <2>5. s # <<>> => 1 \in DOMAIN s
    BY <2>3
  <2>6. s = <<>> => DOMAIN s = {}
    BY <2>3
  <2>. QED BY <1>1, <2>1, <2>4, <2>5, <2>6 DEF Spot
<1>2. \A c \in Children : HasBall(c) <=> Ball(c)
  BY <1>1 DEF HasBall, Ball
<1>3. \A c \in Children : HasTurn(c) <=> Turn(c)
  <2>1. SUFFICES ASSUME NEW c \in Children PROVE HasTurn(c) <=> Turn(c)
    OBVIOUS
  <2>2. (\E i \in DOMAIN stack[c] : stack[c][i][2] \in {"pass"}) <=> Spot(c) \in {"pass"}
    BY <1>1
  <2>. QED BY <2>2 DEF HasTurn, Turn
<1>4. Rounds = IF Top = "return" THEN {} ELSE {1}
  <2>1. PICK s : s = pstack
    OBVIOUS
  <2>2. /\ s \in Seq({"USR1", "USR2"} \X ParentPlaces)
        /\ \A i \in 2 .. Len(s) : s[i][2] = "return"
    BY <2>1 DEF ParentShape
  <2>3. DOMAIN s = 1 .. Len(s) /\ Len(s) \in Nat /\ (s = <<>> <=> Len(s) = 0)
    BY <2>2
  <2>4. \A i \in DOMAIN s : i # 1 => s[i][2] = "return"
    BY <2>2, <2>3
  <2>5. s # <<>> => 1 \in DOMAIN s
    BY <2>3
  <2>6. s = <<>> => DOMAIN s = {}
    BY <2>3
  <2>. QED BY <2>1, <2>4, <2>5, <2>6 DEF Rounds, Top
<1>. QED BY <1>2, <1>3, <1>4

\* A child has the ball, or its answer is on the way, or the parent is at a
\* round, and only one of them (parent.c:17-56, 105-108; child.c:73-89).
THEOREM BallIsOne == Spec => []OneBall
<1>1. IInv => OneBall
  <2>. SUFFICES ASSUME Inv, parent = "pause"
                PROVE  Cardinality({c \in Children : HasBall(c)}) + Cardinality(Answers)
                         + Cardinality(Rounds) = 1
    BY DEF IInv, OneBall
  <2>. DEFINE B == {c \in Children : HasBall(c)}
  <2>1. /\ B = {c \in Children : Ball(c)} /\ Rounds = IF Top = "return" THEN {} ELSE {1}
        /\ Answers = ppending /\ BallInv /\ curr_player \in Children
    BY HandlersCounted DEF Inv, Answers, ParentShape
  <2>2. Cardinality({}) = 0
    BY FS_EmptySet
  <2>3. \A x : Cardinality({x}) = 1
    BY FS_Singleton
  <2>4. CASE Top = "return" /\ ppending = {}
    <3>1. B = {curr_player} /\ Rounds = {} /\ Answers = {}
      BY <2>1, <2>4 DEF BallInv
    <3>2. Cardinality(B) = 1 /\ Cardinality(Rounds) = 0 /\ Cardinality(Answers) = 0
      BY <2>2, <2>3, <3>1, Zenon
    <3>. QED BY <3>2
  <2>5. CASE Top = "return" /\ ppending # {}
    <3>1. B = {} /\ Rounds = {} /\ (Answers = {"USR1"} \/ Answers = {"USR2"})
      BY <2>1, <2>5 DEF BallInv
    <3>2. Cardinality(B) = 0 /\ Cardinality(Rounds) = 0 /\ Cardinality(Answers) = 1
      BY <2>2, <2>3, <3>1, Zenon
    <3>. QED BY <3>2
  <2>6. CASE Top # "return"
    <3>1. B = {} /\ Rounds = {1} /\ Answers = {}
      BY <2>1, <2>6 DEF BallInv
    <3>2. Cardinality(B) = 0 /\ Cardinality(Rounds) = 1 /\ Cardinality(Answers) = 0
      BY <2>2, <2>3, <3>1, Zenon
    <3>. QED BY <3>2
  <2>. QED BY <2>4, <2>5, <2>6
<1>. QED BY <1>1, GameInvariant, PTL

\* The row of a round is printed by one child after the other, and it is
\* complete when the dummy dies (parent.c:69-94; child.c:52-72).
THEOREM RowsAreComplete == Spec => []RowIsComplete
<1>1. IInv => RowIsComplete
  <2>. SUFFICES ASSUME Inv, parent = "pause", pstack # <<>>, ~early
                PROVE  RowIsComplete
    BY DEF IInv, RowIsComplete
  <2>1. TurnInv /\ \A c \in Children : HasTurn(c) <=> Turn(c)
    BY HandlersCounted DEF Inv
  <2>2. \A x : In(x) <=> Top = x
    BY DEF In, Top
  <2>3. PICK turns : turns = {c \in Children : HasTurn(c)}
    OBVIOUS
  <2>4. CASE In("wait")
    <3>1. ASSUME dummy = "alive", NEW d \in Children, Turn(d)
          PROVE  /\ Cardinality(turns) = 1
                 /\ \A c \in turns :
                      row = [i \in 1 .. (IF "USR1" \in pending[c] THEN c ELSE c + 1) |-> i - 1]
      <4>1. turns = {d}
        BY <2>1, <2>3, <3>1 DEF TurnInv
      <4>2. Cardinality(turns) = 1
        BY <4>1, FS_Singleton
      <4>. QED BY <2>1, <3>1, <4>1, <4>2 DEF TurnInv, UpTo
    <3>2. ASSUME dummy = "dead", \A c \in Children : ~Turn(c), row = UpTo(n)
          PROVE  turns = {} /\ row = [i \in 1 .. n |-> i - 1]
      BY <2>1, <2>3, <3>2 DEF UpTo
    <3>3. \/ dummy = "alive" /\ (\E c \in Children : Turn(c))
          \/ dummy = "dead" /\ (\A c \in Children : ~Turn(c)) /\ row = UpTo(n)
      BY <2>1, <2>2, <2>4 DEF TurnInv
    <3>. QED BY <2>3, <2>4, <3>1, <3>2, <3>3 DEF RowIsComplete
  <2>5. CASE ~In("wait")
    BY <2>1, <2>2, <2>5 DEF TurnInv, RowIsComplete
  <2>. QED BY <2>4, <2>5
<1>. QED BY <1>1, GameInvariant, PTL

\* Parent and children agree about who is out when the ball is thrown, and
\* one child says that it has won (parent.c:37-43, 96-109; child.c:33-52,
\* 90-112).
THEOREM ScoresDoAgree == Spec => []ScoresAgree
<1>1. IInv => ScoresAgree
  <2>. SUFFICES ASSUME Inv PROVE ScoresAgree
    BY DEF IInv, ScoresAgree
  <2>. USE DEF Inv
  <2>1. Cardinality({c \in Children : state[c][c] \in {1, 2}}) <= 1
    <3>. DEFINE S == {c \in Children : state[c][c] \in {1, 2}}
    <3>1. S \subseteq {curr_player}
      BY DEF ScoreInv, Score, Settled
    <3>2. IsFiniteSet({curr_player}) /\ Cardinality({curr_player}) = 1
      BY FS_Singleton
    <3>3. Cardinality(S) <= Cardinality({curr_player})
      BY <3>1, <3>2, FS_Subset
    <3>. QED BY <3>2, <3>3
  <2>2. \A x : In(x) => Top = x
    BY DEF In, Top
  <2>3. In("choose") \/ In("throw") \/ In("over") =>
          \A c \in Children : state[c][c] = (IF child_status[c] = OUT THEN 3 ELSE 0)
    BY <2>2 DEF ScoreInv, Score, Settled
  <2>4. In("throw") => child_status[curr_player] = PLAYING
    BY <2>2 DEF ScoreInv
  <2>5. \A c \in winners : child_status[c] = PLAYING /\ rem_players = 1
    BY DEF EndInv, CountInv
  <2>6. Done => Cardinality(winners) = 1
    <3>1. Done => winners = Players
      BY DEF Done, EndInv, Players
    <3>2. Done => rem_players = 1
      BY DEF Done, EndInv, CountInv
    <3>. QED BY <3>1, <3>2 DEF CountInv
  <2>. QED BY <2>1, <2>3, <2>4, <2>5, <2>6 DEF ScoresAgree, CountInv, Players
<1>. QED BY <1>1, GameInvariant, PTL

\* No signal comes too early if every child is awake when the game begins:
\* then all of the above holds without a condition (parent.c:170-184).
THEOREM NobodyIsLate == ASSUME LATE = {} PROVE Spec => []~early
<1>. DEFINE Awake == ~early /\ child \in [Children -> {"pause", "gone"}]
<1>1. Init => Awake
  <2>. SUFFICES ASSUME Init PROVE Awake
    OBVIOUS
  <2>1. child \in [Children -> {"sleep", "pause"}] /\ \A c \in Children : child[c] = "pause"
    BY DEF Init
  <2>. QED BY <2>1 DEF Init
<1>2. Awake /\ [Next]_vars => Awake'
  <2>. SUFFICES ASSUME Awake, [Next]_vars PROVE Awake'
    OBVIOUS
  <2>1. CASE Parent
    BY <2>1 DEF Parent, Begin, Interrupt, Fork, StartPrinting, Printed, Choose, Throw,
                Return, TellNext, Exit, hist, cvars
  <2>2. ASSUME NEW c \in Children, Child(c)
        PROVE  Awake'
    <3>1. ~ReadNumber(c)
      BY DEF ReadNumber
    <3>2. CASE Leave(c)
      BY <3>2 DEF Leave
    <3>3. CASE PrintStatus(c) \/ Catch(c) \/ Miss(c) \/ Ignore(c)
      BY <3>3 DEF PrintStatus, Catch, Miss, Ignore, Handle
    <3>4. CASE Pass(c) \/ Tell(c) \/ ReturnChild(c)
      BY <3>4 DEF Pass, Tell, ReturnChild, hist
    <3>. QED BY <2>2, <3>1, <3>2, <3>3, <3>4 DEF Child
  <2>3. CASE UNCHANGED vars
    BY <2>3 DEF vars, cvars, hist
  <2>. QED BY <2>1, <2>2, <2>3 DEF Next
<1>3. Awake => ~early
  OBVIOUS
<1>. QED BY <1>1, <1>2, <1>3, PTL DEF Spec
=============================================================================
