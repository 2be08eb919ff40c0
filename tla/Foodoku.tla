------------------------------ MODULE Foodoku ------------------------------
(***************************************************************************)
(* LA4/coordinator.c and block.c: a Sudoku board of 3 x 3 blocks, each a   *)
(* process.  The coordinator sends the user's commands to the blocks.  A   *)
(* block that is to put a digit asks its two neighbours in the row, then   *)
(* the two in the column, whether they have it, and waits for two answers  *)
(* each time.  Commands, questions and answers for a block all come in the *)
(* one pipe that it reads.                                                 *)
(*                                                                         *)
(* A line written to a pipe is one message: stdout is line buffered.  A    *)
(* block that waits for an answer reads a number with scanf; if something  *)
(* else comes first, nothing is read and the variable keeps what was in    *)
(* that place of the stack.                                                *)
(***************************************************************************)
EXTENDS Integers, SequencesExt, FiniteSets

CONSTANTS K,         \* rows and columns of a block, 3 in the code
          Boards,    \* what newboard may draw: puzzle and solution
          Junk,      \* what the solution may hold before newboard is called
          Moves,     \* bound: the placements <<block, cell, digit>> the user tries
          Started,   \* bound: the boards of games that may be on at the beginning
          MAXCMDS    \* bound: what the user's commands cost: 4 s, 3 n, 2 p or q

Blocks == 0 .. 8
Lines  == 0 .. K - 1
Cells  == 0 .. K * K - 1
EMPTY  == 0

Contents == [Blocks -> [Cells -> Nat]]

ASSUME FoodokuAssumption ==
  /\ K \in Nat \ {0} /\ MAXCMDS \in Nat
  /\ Boards \subseteq [puzzle : Contents, solution : Contents] /\ Boards # {}
  /\ Junk \subseteq Contents /\ Junk # {}
  /\ Started \subseteq Boards
  /\ Moves \subseteq Blocks \X Cells \X (Nat \ {EMPTY})

VARIABLES
  pipe,      \* for each block, the messages it has not read
  \* blocks
  A, B,      \* the block as it was given, and as it is now
  pc,        \* idle, asking, listening, gone
  direction, \* "r" or "c": the check it is at
  count,     \* the neighbour it asks, or the answer it waits for: 1 or 2
  conflict,  \* whether the first answer says so
  job,       \* the cell and the digit it is to put there
  \* coordinator
  flag,      \* a game is on
  S,         \* the solution, NoSolution until newboard is called
  outbox,    \* what it is about to write, and to whom
  quitting,
  \* bound and history
  cmds,      \* cost of the commands given
  overlapped \* history: a command was given while a placement was under way

block       == <<A, B, pc, direction, count, conflict, job>>
coordinator == <<flag, S, outbox, quitting, cmds, overlapped>>
vars        == <<pipe, block, coordinator>>

NoSolution == <<>>

Command(c)             == [cmd |-> c]
NewBoard(contents)     == [cmd |-> "n", contents |-> contents]
Put(cell, digit)       == [cmd |-> "p", cell |-> cell, digit |-> digit]
Question(dir, line, digit, from) ==
  [cmd |-> dir, line |-> line, digit |-> digit, from |-> from]
Answer(found)          == [cmd |-> "answer", found |-> found]

Row(cell) == cell \div K
Col(cell) == cell % K

\* row_get and col_get.
RowNeighbours(b) == << 3 * (b \div 3) + ((b + 1) % 3), 3 * (b \div 3) + ((b + 2) % 3) >>
ColNeighbours(b) == << (b + 3) % 9, (b + 6) % 9 >>

\* All blocks wait for a command: none has been given yet, or one game is on.
Init ==
  /\ pipe = [b \in Blocks |-> <<>>]
  /\ \/ /\ A = [b \in Blocks |-> [c \in Cells |-> EMPTY]]
        /\ flag = FALSE /\ S = NoSolution
     \/ \E board \in Started : A = board.puzzle /\ S = board.solution /\ flag = TRUE
  /\ B = A
  /\ pc = [b \in Blocks |-> "idle"] /\ direction = [b \in Blocks |-> "r"]
  /\ count = [b \in Blocks |-> 1] /\ conflict = [b \in Blocks |-> FALSE]
  /\ job = [b \in Blocks |-> [cell |-> 0, digit |-> EMPTY]]
  /\ outbox = <<>> /\ quitting = FALSE
  /\ cmds = 0 /\ overlapped = FALSE

-----------------------------------------------------------------------------
(* The coordinator.                                                        *)

Busy(b) == pc[b] \in {"asking", "listening"}

\* Some block has to put a digit, or is about it.
UnderWay == \E b \in Blocks : Busy(b) \/ \E i \in DOMAIN pipe[b] : pipe[b][i].cmd = "p"

\* It reads the next command when the last one is written.  Its cost
\* bounds how many are given: boards, of nine messages, cost most.
Prompt(cost) ==
  /\ outbox = <<>> /\ ~quitting /\ cmds + cost <= MAXCMDS
  /\ cmds' = cmds + cost
  /\ overlapped' = (overlapped \/ UnderWay)
  /\ UNCHANGED <<pipe, block>>

ToAll(contents) == [i \in 1 .. 9 |-> [to |-> i - 1, msg |-> NewBoard(contents[i - 1])]]

New ==
  /\ Prompt(3)
  /\ flag' = TRUE
  /\ \E board \in Boards : S' = board.solution /\ outbox' = ToAll(board.puzzle)
  /\ UNCHANGED quitting

\* Mutant of PutDigit: the command goes to all blocks of the row.
PutDigitInRow ==
  /\ Prompt(2)
  /\ flag
  /\ \E <<b, cell, digit>> \in Moves :
       outbox' = << [to |-> b, msg |-> Put(cell, digit)],
                    [to |-> RowNeighbours(b)[1], msg |-> Put(cell, digit)] >>
  /\ UNCHANGED <<flag, S, quitting>>

\* A wrong cell or digit, or no game: nothing is sent.
PutDigit ==
  /\ Prompt(2)
  /\ flag
  /\ \E <<b, cell, digit>> \in Moves : outbox' = << [to |-> b, msg |-> Put(cell, digit)] >>
  /\ UNCHANGED <<flag, S, quitting>>

\* `flag = 0' where a comparison is meant: the solution is sent without a game too.
Show ==
  /\ Prompt(4)
  /\ flag' = FALSE
  /\ \E contents \in IF S = NoSolution THEN Junk ELSE {S} : outbox' = ToAll(contents)
  /\ UNCHANGED <<S, quitting>>

Quit ==
  /\ Prompt(2)
  /\ quitting' = TRUE
  /\ outbox' = [i \in 1 .. 9 |-> [to |-> i - 1, msg |-> Command("q")]]
  /\ UNCHANGED <<flag, S>>

Send(b, msg) == pipe' = [pipe EXCEPT ![b] = Append(@, msg)]

Write ==
  /\ outbox # <<>>
  /\ Send(outbox[1].to, outbox[1].msg)
  /\ outbox' = Tail(outbox)
  /\ UNCHANGED <<block, flag, S, quitting, cmds, overlapped>>

-----------------------------------------------------------------------------
(* A block: its loop reads a command.                                      *)

First(b) == pipe[b][1]

Reads(b, cmd) == pc[b] = "idle" /\ pipe[b] # <<>> /\ First(b).cmd = cmd

Consume(b) == pipe' = [pipe EXCEPT ![b] = Tail(@)]

ReadNew(b) ==
  /\ Reads(b, "n")
  /\ Consume(b)
  /\ A' = [A EXCEPT ![b] = First(b).contents]
  /\ B' = [B EXCEPT ![b] = First(b).contents]
  /\ UNCHANGED <<pc, direction, count, conflict, job, coordinator>>

HasDigit(b, digit) == \E c \in Cells : B[b][c] = digit

\* Mutant of ReadPut: a given cell is not refused.
ReadPutAnywhere(b) ==
  /\ Reads(b, "p")
  /\ Consume(b)
  /\ job' = [job EXCEPT ![b] = [cell |-> First(b).cell, digit |-> First(b).digit]]
  /\ IF HasDigit(b, First(b).digit)
       THEN UNCHANGED <<pc, direction, count>>
       ELSE /\ pc' = [pc EXCEPT ![b] = "asking"]
            /\ direction' = [direction EXCEPT ![b] = "r"]
            /\ count' = [count EXCEPT ![b] = 1]
  /\ UNCHANGED <<A, B, conflict, coordinator>>

\* The cell is not fixed, and the digit is not in the block: the neighbours in
\* the row are asked.  Otherwise the command is over.
ReadPut(b) ==
  /\ Reads(b, "p")
  /\ Consume(b)
  /\ job' = [job EXCEPT ![b] = [cell |-> First(b).cell, digit |-> First(b).digit]]
  /\ IF A[b][First(b).cell] # EMPTY \/ HasDigit(b, First(b).digit)
       THEN UNCHANGED <<pc, direction, count>>
       ELSE /\ pc' = [pc EXCEPT ![b] = "asking"]
            /\ direction' = [direction EXCEPT ![b] = "r"]
            /\ count' = [count EXCEPT ![b] = 1]
  /\ UNCHANGED <<A, B, conflict, coordinator>>

LineOf(dir, cell) == IF dir = "r" THEN Row(cell) ELSE Col(cell)

InLine(b, dir, line, digit) == \E c \in Cells : LineOf(dir, c) = line /\ B[b][c] = digit

\* Mutant of ReadQuestion: a column question is answered for the row.
ReadQuestionAsRow(b) ==
  /\ \E dir \in {"r", "c"} : Reads(b, dir)
  /\ LET q == First(b)
     IN  pipe' = [pipe EXCEPT ![b] = Tail(@),
                              ![q.from] = Append(@, Answer(InLine(b, "r", q.line, q.digit)))]
  /\ UNCHANGED <<block, coordinator>>

\* row_check_signal, col_check_signal.
ReadQuestion(b) ==
  /\ \E dir \in {"r", "c"} : Reads(b, dir)
  /\ LET q == First(b)
     IN  pipe' = [pipe EXCEPT ![b] = Tail(@),
                              ![q.from] = Append(@, Answer(InLine(b, q.cmd, q.line, q.digit)))]
  /\ UNCHANGED <<block, coordinator>>

\* An answer nobody waits for is an unknown command.
ReadUnknown(b) ==
  /\ Reads(b, "answer")
  /\ Consume(b)
  /\ UNCHANGED <<block, coordinator>>

ReadQuit(b) ==
  /\ Reads(b, "q")
  /\ Consume(b)
  /\ pc' = [pc EXCEPT ![b] = "gone"]
  /\ UNCHANGED <<A, B, direction, count, conflict, job, coordinator>>

-----------------------------------------------------------------------------
(* row_check_receive, col_check_receive.                                   *)

Neighbours(b) == IF direction[b] = "r" THEN RowNeighbours(b) ELSE ColNeighbours(b)

\* It asks one neighbour, then the other.
Ask(b) ==
  /\ pc[b] = "asking"
  /\ Send(Neighbours(b)[count[b]],
          Question(direction[b], LineOf(direction[b], job[b].cell), job[b].digit, b))
  /\ IF count[b] = 1
       THEN count' = [count EXCEPT ![b] = 2] /\ UNCHANGED pc
       ELSE /\ count' = [count EXCEPT ![b] = 1]
            /\ pc' = [pc EXCEPT ![b] = "listening"]
  /\ UNCHANGED <<A, B, direction, conflict, job, coordinator>>

\* One answer is in the variable: after the second the check is decided, and
\* the column follows the row.
Heard(b, found) ==
  \/ /\ count[b] = 1
     /\ count' = [count EXCEPT ![b] = 2]
     /\ conflict' = [conflict EXCEPT ![b] = found]
     /\ UNCHANGED <<B, pc, direction>>
  \/ /\ count[b] = 2
     /\ count' = [count EXCEPT ![b] = 1]
     /\ conflict' = [conflict EXCEPT ![b] = FALSE]
     /\ \/ /\ conflict[b] \/ found
           /\ pc' = [pc EXCEPT ![b] = "idle"]
           /\ UNCHANGED <<B, direction>>
        \/ /\ ~conflict[b] /\ ~found /\ direction[b] = "r"
           /\ pc' = [pc EXCEPT ![b] = "asking"]
           /\ direction' = [direction EXCEPT ![b] = "c"]
           /\ UNCHANGED B
        \/ /\ ~conflict[b] /\ ~found /\ direction[b] = "c"
           /\ pc' = [pc EXCEPT ![b] = "idle"]
           /\ B' = [B EXCEPT ![b][job[b].cell] = job[b].digit]
           /\ UNCHANGED direction

Hear(b) ==
  /\ pc[b] = "listening" /\ pipe[b] # <<>> /\ First(b).cmd = "answer"
  /\ Consume(b)
  /\ Heard(b, First(b).found)
  /\ UNCHANGED <<A, job, coordinator>>

\* Mutant of Mishear: a block skips what is not an answer.
MishearSkips(b) ==
  /\ pc[b] = "listening" /\ pipe[b] # <<>> /\ First(b).cmd # "answer"
  /\ Consume(b)
  /\ UNCHANGED <<block, coordinator>>

\* Something else is first in the pipe: scanf fails, and any value is taken.
Mishear(b) ==
  /\ pc[b] = "listening" /\ pipe[b] # <<>> /\ First(b).cmd # "answer"
  /\ \E found \in BOOLEAN : Heard(b, found)
  /\ UNCHANGED <<pipe, A, job, coordinator>>

BlockStep(b) ==
  \/ ReadNew(b) \/ ReadPut(b) \/ ReadQuestion(b) \/ ReadUnknown(b) \/ ReadQuit(b)
  \/ Ask(b) \/ Hear(b) \/ Mishear(b)

\* Nothing is on its way and nothing is being done.
AtRest == outbox = <<>> /\ \A b \in Blocks : pipe[b] = <<>> /\ ~Busy(b)

\* The user gives no more commands.
Resting == cmds + 2 > MAXCMDS /\ AtRest

\* waitpid has returned for every block.
Over == quitting /\ outbox = <<>> /\ \A b \in Blocks : pc[b] = "gone"

Next == New \/ PutDigit \/ Show \/ Quit \/ Write \/ (\E b \in Blocks : BlockStep(b))
        \/ ((Resting \/ Over) /\ UNCHANGED vars)

\* The user need not give a command, or quit.
Spec == Init /\ [][Next]_vars /\ WF_vars(Write) /\ \A b \in Blocks : WF_vars(BlockStep(b))

-----------------------------------------------------------------------------
Messages == {"n", "p", "r", "c", "answer", "q"}

TypeOK ==
  /\ \A b \in Blocks : \A i \in DOMAIN pipe[b] : pipe[b][i].cmd \in Messages
  /\ A \in Contents /\ B \in Contents
  /\ pc \in [Blocks -> {"idle", "asking", "listening", "gone"}]
  /\ direction \in [Blocks -> {"r", "c"}] /\ count \in [Blocks -> 1 .. 2]
  /\ conflict \in [Blocks -> BOOLEAN] /\ job \in [Blocks -> [cell : Cells, digit : Nat]]
  /\ flag \in BOOLEAN /\ quitting \in BOOLEAN /\ overlapped \in BOOLEAN
  /\ cmds \in 0 .. MAXCMDS

(***************************************************************************)
(* As long as the user waits for each placement to be settled before the   *)
(* next command, a block that waits for an answer finds nothing but        *)
(* answers in its pipe, and one that does not wait finds none, however the *)
(* blocks and a new board still on its way interleave (block.c:41-82, 192).*)
(***************************************************************************)
NothingIsMixedUp ==
  ~overlapped => \A b \in Blocks : pipe[b] # <<>> =>
    /\ pc[b] = "listening" => First(b).cmd = "answer"
    /\ pc[b] = "idle" => First(b).cmd # "answer"

(***************************************************************************)
(* Then the board on the screen never has a digit twice in a row, a column *)
(* or a block once all messages are read (block.c:96-129, 133-168), unless *)
(* it is the solution of no game.                                          *)
(***************************************************************************)

Twice(b, c, e, d) == B[b][c] # EMPTY /\ B[b][c] = B[e][d] /\ <<b, c>> # <<e, d>>

BoardIsValid ==
  AtRest /\ ~overlapped /\ S # NoSolution =>
    \A b, e \in Blocks, c, d \in Cells : Twice(b, c, e, d) =>
      /\ b # e
      /\ b \div 3 = e \div 3 => Row(c) # Row(d)
      /\ b % 3 = e % 3 => Col(c) # Col(d)

(***************************************************************************)
(* What was given stays.  At rest all blocks have the same: nothing before *)
(* the first game, whatever was in S if the solution was asked for before  *)
(* it, else the puzzle of one game or its solution.  Digits were put only  *)
(* in empty cells, and only in a game - even if commands overlapped, a     *)
(* game began during a placement and answers went astray (block.c:87 to    *)
(* 129, 194-207, coordinator.c:136-216).                                   *)
(***************************************************************************)
OneGame ==
  AtRest =>
    /\ \/ S = NoSolution /\ A \in {[b \in Blocks |-> [c \in Cells |-> EMPTY]]} \cup Junk
       \/ \E board \in Boards : board.solution = S /\ A = IF flag THEN board.puzzle ELSE S
    /\ \A b \in Blocks, c \in Cells : A[b][c] # EMPTY \/ ~flag => B[b][c] = A[b][c]

(***************************************************************************)
(* No block is left listening, not even when two neighbours ask each other *)
(* at the same time or a neighbour has left: when no block can go on, all  *)
(* are back in their loops, or gone.                                       *)
(***************************************************************************)
NobodyIsLeftListening ==
  outbox = <<>> /\ (\A b \in Blocks : ~ENABLED BlockStep(b)) =>
    /\ \A b \in Blocks : pc[b] \in {"idle", "gone"}
    /\ quitting => Over
=============================================================================
