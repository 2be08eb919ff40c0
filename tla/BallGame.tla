------------------------------ MODULE BallGame ------------------------------
(***************************************************************************)
(* LA2/parent.c, child.c and dummy.c: the parent throws a ball to its      *)
(* children in turn; a child catches or misses it, and after each throw    *)
(* all children print their status, one after the other, while the parent  *)
(* waits for a dummy process that the last of them kills.  Who misses is   *)
(* out, and the last one in the game wins.                                 *)
(*                                                                         *)
(* All this is done by signal handlers.  A signal that is pending is not   *)
(* pending twice, a handler runs between any two steps of the process, and *)
(* it can be interrupted by every signal that is not being handled.        *)
(*                                                                         *)
(* Parent and children sleep for three seconds at the start.  A child of   *)
(* LATE may still sleep when the game begins: its handlers then run with   *)
(* id and n zero.                                                          *)
(***************************************************************************)
EXTENDS Integers, Sequences, FiniteSets

CONSTANTS n, LATE

Children == 0 .. n - 1

ASSUME BallGameAssumption == n \in Nat /\ n > 1 /\ LATE \subseteq Children

PLAYING == 3        \* child_status of the parent
OUT     == 2

VARIABLES
  \* parent
  pstack,       \* its handlers that have not returned: <<signal, place>>
  ppending,     \* signals sent to it and not handled
  curr_player, rem_players, child_status,
  told,         \* the children it has sent SIGINT
  parent,       \* sleep, pause, gone
  \* children
  stack, pending,
  state,        \* the array of each: 0 plays, 1 caught, 2 missed, 3 out
  child,        \* sleep, pause, gone
  dummy,        \* none, alive, dead
  \* history
  row,          \* the children that printed in this round, in order
  winners,      \* those that said they won
  early         \* a handler ran in a child that had not read its number

pvars == <<pstack, ppending, curr_player, rem_players, child_status, told, parent>>
cvars == <<stack, pending, state, child>>
hist  == <<row, winners, early>>
vars  == <<pvars, cvars, dummy, hist>>

\* The game begins: the parent has slept.
Init ==
  /\ pstack = <<>> /\ ppending = {} /\ parent = "sleep"
  /\ curr_player = 0 /\ rem_players = n /\ child_status = [c \in Children |-> PLAYING]
  /\ told = {}
  /\ stack = [c \in Children |-> <<>>] /\ pending = [c \in Children |-> {}]
  /\ state = [c \in Children |-> [i \in Children |-> 0]]
  /\ child \in [Children -> {"sleep", "pause"}]
  /\ \A c \in Children \ LATE : child[c] = "pause"
  /\ dummy = "none" /\ row = <<>> /\ winners = {} /\ early = FALSE

Kill(c, sig) == pending' = [pending EXCEPT ![c] = @ \cup {sig}]

-----------------------------------------------------------------------------
(* The parent.                                                             *)

Begin ==
  /\ parent = "sleep"
  /\ Kill(0, "USR2")
  /\ parent' = "pause"
  /\ UNCHANGED <<pstack, ppending, curr_player, rem_players, child_status, told,
                 stack, state, child, dummy, hist>>

\* The signals that a process with these handlers blocks.
Blocked(handlers) == {handlers[i][1] : i \in DOMAIN handlers}

Interrupt ==
  /\ parent = "pause"
  /\ \E sig \in ppending \ Blocked(pstack) :
       /\ ppending' = ppending \ {sig}
       /\ pstack' = << <<sig, "fork">> >> \o pstack
  /\ UNCHANGED <<curr_player, rem_players, child_status, told, parent, cvars, dummy, hist>>

\* The handler that runs is at a place.
In(place) == parent = "pause" /\ pstack # <<>> /\ pstack[1][2] = place

Go(place) == pstack' = [pstack EXCEPT ![1][2] = place]

\* trigger_print: the dummy is there and its pid in the file.
Fork ==
  /\ In("fork")
  /\ dummy' = "alive"
  /\ Go("print")
  /\ UNCHANGED <<ppending, curr_player, rem_players, child_status, told, parent, cvars, hist>>

StartPrinting ==
  /\ In("print")
  /\ Kill(0, "USR1")
  /\ row' = <<>>
  /\ Go("wait")
  /\ UNCHANGED <<ppending, curr_player, rem_players, child_status, told, parent,
                 stack, state, child, dummy, winners, early>>

\* Mutant of Printed: the parent does not wait.
PrintedAtOnce ==
  /\ In("wait")
  /\ dummy' = "none"
  /\ IF pstack[1][1] = "USR2"
       THEN /\ child_status' = [child_status EXCEPT ![curr_player] = OUT]
            /\ rem_players' = rem_players - 1
       ELSE UNCHANGED <<child_status, rem_players>>
  /\ Go(IF rem_players' > 1 THEN "choose" ELSE "over")
  /\ UNCHANGED <<ppending, curr_player, told, parent, cvars, hist>>

\* waitpid returns.  After a miss the player is out.
Printed ==
  /\ In("wait") /\ dummy = "dead"
  /\ dummy' = "none"
  /\ IF pstack[1][1] = "USR2"
       THEN /\ child_status' = [child_status EXCEPT ![curr_player] = OUT]
            /\ rem_players' = rem_players - 1
       ELSE UNCHANGED <<child_status, rem_players>>
  /\ Go(IF rem_players' > 1 THEN "choose" ELSE "over")
  /\ UNCHANGED <<ppending, curr_player, told, parent, cvars, hist>>

\* The distance to the next player that is not out; after n steps it is the old one.
Ahead(k) == (curr_player + k) % n
Plays(k) == child_status[Ahead(k)] # OUT \/ k = n

\* Mutant of Choose: the ball goes to the next child, out or not.
ChooseNext ==
  /\ In("choose")
  /\ curr_player' = Ahead(1)
  /\ Go("throw")
  /\ UNCHANGED <<ppending, rem_players, child_status, told, parent, cvars, dummy, hist>>

Choose ==
  /\ In("choose")
  /\ \E k \in 1 .. n :
       /\ Plays(k) /\ \A j \in 1 .. k - 1 : ~Plays(j)
       /\ curr_player' = Ahead(k)
  /\ Go("throw")
  /\ UNCHANGED <<ppending, rem_players, child_status, told, parent, cvars, dummy, hist>>

Throw ==
  /\ In("throw")
  /\ IF rem_players > 1 THEN Kill(curr_player, "USR2") ELSE UNCHANGED pending
  /\ Go("return")
  /\ UNCHANGED <<ppending, curr_player, rem_players, child_status, told, parent,
                 stack, state, child, dummy, hist>>

Return ==
  /\ In("return")
  /\ pstack' = Tail(pstack)
  /\ UNCHANGED <<ppending, curr_player, rem_players, child_status, told, parent,
                 cvars, dummy, hist>>

\* The game is over: SIGINT to the children in turn, then exit.
TellNext ==
  /\ In("over")
  /\ \E c \in Children \ told :
       /\ \A d \in Children : d < c => d \in told
       /\ Kill(c, "INT")
       /\ told' = told \cup {c}
  /\ UNCHANGED <<pstack, ppending, curr_player, rem_players, child_status, parent,
                 stack, state, child, dummy, hist>>

Exit ==
  /\ In("over") /\ told = Children
  /\ parent' = "gone"
  /\ UNCHANGED <<pstack, ppending, curr_player, rem_players, child_status, told,
                 cvars, dummy, hist>>

Parent == Begin \/ Interrupt \/ Fork \/ StartPrinting \/ Printed \/ Choose \/ Throw
          \/ Return \/ TellNext \/ Exit

-----------------------------------------------------------------------------
(* A child.                                                                *)

\* What it takes for its number, and for the number of children.
id(c)    == IF child[c] = "sleep" THEN 0 ELSE c
total(c) == IF child[c] = "sleep" THEN 0 ELSE n

\* Its sleep is over, or a signal has ended it: it reads childpid.txt.
ReadNumber(c) ==
  /\ child[c] = "sleep" /\ stack[c] = <<>>
  /\ child' = [child EXCEPT ![c] = "pause"]
  /\ UNCHANGED <<pvars, stack, pending, state, dummy, hist>>

\* A handler starts.
Handle(c, sig, place) ==
  /\ child[c] # "gone" /\ sig \in pending[c] \ Blocked(stack[c])
  /\ pending' = [pending EXCEPT ![c] = @ \ {sig}]
  /\ stack' = [stack EXCEPT ![c] = << <<sig, place>> >> \o @]
  /\ early' = (early \/ child[c] = "sleep")
  /\ UNCHANGED <<pvars, dummy, winners>>

AfterPrint(s) == IF s = 1 THEN 0 ELSE IF s = 2 THEN 3 ELSE s

\* handle_sigusr1: it prints its status if it has a place in the row.
PrintStatus(c) ==
  /\ Handle(c, "USR1", "pass")
  /\ IF id(c) < total(c)
       THEN /\ row' = Append(row, id(c))
            /\ state' = [state EXCEPT ![c][id(c)] = AfterPrint(@)]
       ELSE UNCHANGED <<row, state>>
  /\ UNCHANGED child

\* handle_sigusr2: only who plays looks at the ball.
Catch(c) ==
  /\ state[c][id(c)] = 0
  /\ Handle(c, "USR2", "caught")
  /\ state' = [state EXCEPT ![c][id(c)] = 1]
  /\ UNCHANGED <<row, child>>

Miss(c) ==
  /\ state[c][id(c)] = 0
  /\ Handle(c, "USR2", "missed")
  /\ state' = [state EXCEPT ![c][id(c)] = 2]
  /\ UNCHANGED <<row, child>>

Ignore(c) ==
  /\ state[c][id(c)] # 0
  /\ Handle(c, "USR2", "return")
  /\ UNCHANGED <<row, state, child>>

InHandler(c, place) == child[c] # "gone" /\ stack[c] # <<>> /\ stack[c][1][2] = place

Leaving(c) == stack' = [stack EXCEPT ![c][1][2] = "return"]

\* Mutant of Passes: the last but one ends the row.
PassesShort(c) == id(c) < total(c) - 2

Passes(c) == id(c) < total(c) - 1

\* The next one prints, or the dummy is killed: it has no handler for SIGINT
\* that lets it live.
Pass(c) ==
  /\ InHandler(c, "pass")
  /\ IF Passes(c) THEN Kill(id(c) + 1, "USR1") /\ UNCHANGED dummy
     ELSE /\ dummy' = (IF dummy = "alive" THEN "dead" ELSE dummy)
          /\ UNCHANGED pending
  /\ Leaving(c)
  /\ UNCHANGED <<pvars, state, child, hist>>

\* Mutant of Tell: a miss is told as a catch.
TellCaught(c) ==
  /\ InHandler(c, "caught") \/ InHandler(c, "missed")
  /\ ppending' = ppending \cup {"USR1"}
  /\ Leaving(c)
  /\ UNCHANGED <<pstack, curr_player, rem_players, child_status, told, parent,
                 pending, state, child, dummy, hist>>

Tell(c) ==
  /\ InHandler(c, "caught") \/ InHandler(c, "missed")
  /\ ppending' = ppending \cup {IF InHandler(c, "caught") THEN "USR1" ELSE "USR2"}
  /\ Leaving(c)
  /\ UNCHANGED <<pstack, curr_player, rem_players, child_status, told, parent,
                 pending, state, child, dummy, hist>>

ReturnChild(c) ==
  /\ InHandler(c, "return")
  /\ stack' = [stack EXCEPT ![c] = Tail(@)]
  /\ UNCHANGED <<pvars, pending, state, child, dummy, hist>>

\* handle_sigint.
Leave(c) ==
  /\ child[c] # "gone" /\ "INT" \in pending[c]
  /\ winners' = IF state[c][id(c)] # 3 THEN winners \cup {c} ELSE winners
  /\ child' = [child EXCEPT ![c] = "gone"]
  /\ pending' = [pending EXCEPT ![c] = {}]
  /\ early' = (early \/ child[c] = "sleep")
  /\ UNCHANGED <<pvars, stack, state, dummy, row>>

Child(c) ==
  \/ ReadNumber(c) \/ PrintStatus(c) \/ Catch(c) \/ Miss(c) \/ Ignore(c)
  \/ Pass(c) \/ Tell(c) \/ ReturnChild(c) \/ Leave(c)

Done == parent = "gone" /\ \A c \in Children : child[c] = "gone"

Next == Parent \/ (\E c \in Children : Child(c)) \/ (Done /\ UNCHANGED vars)

\* Every process goes on.  The chance of a miss is one in five at each throw,
\* so that a player does not catch for ever.
Spec == Init /\ [][Next]_vars /\ WF_vars(Parent)
        /\ \A c \in Children : WF_vars(Child(c)) /\ SF_vars(Miss(c))
-----------------------------------------------------------------------------
Signals == {"USR1", "USR2", "INT"}

TypeOK ==
  /\ pstack \in Seq({"USR1", "USR2"} \X {"fork", "print", "wait", "choose", "throw", "return", "over"})
  /\ ppending \subseteq {"USR1", "USR2"} /\ curr_player \in Children /\ rem_players \in Nat
  /\ child_status \in [Children -> {PLAYING, OUT}] /\ told \subseteq Children
  /\ parent \in {"sleep", "pause", "gone"} /\ dummy \in {"none", "alive", "dead"}
  /\ pending \in [Children -> SUBSET Signals] /\ state \in [Children -> [Children -> 0 .. 3]]
  /\ child \in [Children -> {"sleep", "pause", "gone"}] /\ winners \subseteq Children

\* A child is to be thrown the ball, has it or is about to answer.
HasBall(c) == "USR2" \in pending[c] \/ (\E i \in DOMAIN stack[c] : stack[c][i][2] \in {"caught", "missed"})

\* A child is to print or has printed and not passed the turn on.
HasTurn(c) == "USR1" \in pending[c] \/ (\E i \in DOMAIN stack[c] : stack[c][i][2] = "pass")

Answers == ppending
Rounds  == {i \in DOMAIN pstack : pstack[i][2] # "return"}

(***************************************************************************)
(* There is one ball: a child has it, or its answer is on the way, or the  *)
(* parent is at a round - one of them, and in one place.  So no signal is  *)
(* ever sent while the same one is pending, where it would be lost, and    *)
(* the handlers nested in the parent are all but one about to return       *)
(* (parent.c:17-56, 105-108; child.c:73-89).                               *)
(***************************************************************************)
OneBall ==
  ~early /\ parent = "pause" =>
    Cardinality({c \in Children : HasBall(c)}) + Cardinality(Answers) + Cardinality(Rounds) = 1

(***************************************************************************)
(* While the parent waits in waitpid exactly one child has the turn to     *)
(* print, or all have printed once, in their order, and the dummy is dead  *)
(* (parent.c:69-94; child.c:52-72).                                        *)
(***************************************************************************)
RowIsComplete ==
  ~early /\ parent = "pause" /\ pstack # <<>> =>
    CASE In("wait") ->
           LET turns == {c \in Children : HasTurn(c)}
           IN  \/ /\ dummy = "alive" /\ Cardinality(turns) = 1
                  /\ \A c \in turns : row = [i \in 1 .. (IF "USR1" \in pending[c] THEN c ELSE c + 1) |-> i - 1]
               \/ dummy = "dead" /\ turns = {} /\ row = [i \in 1 .. n |-> i - 1]
      [] OTHER -> ~In("print") => \A c \in Children : ~HasTurn(c)

(***************************************************************************)
(* When the parent throws the ball or ends the game, the children that it  *)
(* counts as out are those that missed, every other one is ready for the   *)
(* ball, the one it throws to is in the game, at most one catch or miss    *)
(* has not been printed yet at any time, and in the end exactly one child  *)
(* has said that it won, the one that never missed (parent.c:37-43,        *)
(* 96-109; child.c:33-52, 90-112).                                         *)
(***************************************************************************)
ScoresAgree ==
  ~early =>
    /\ Cardinality({c \in Children : state[c][c] \in {1, 2}}) <= 1
    /\ In("choose") \/ In("throw") \/ In("over") =>
         \A c \in Children : state[c][c] = (IF child_status[c] = OUT THEN 3 ELSE 0)
    /\ In("throw") => child_status[curr_player] = PLAYING
    /\ rem_players = Cardinality({c \in Children : child_status[c] = PLAYING})
    /\ \A c \in winners : child_status[c] = PLAYING /\ rem_players = 1
    /\ Done => Cardinality(winners) = 1

(***************************************************************************)
(* The game ends and everybody leaves, unless a child was still asleep     *)
(* when a signal came (parent.c:29-33, 48-54, 170-184).                    *)
(***************************************************************************)
Termination == <>(early \/ Done)
=============================================================================
