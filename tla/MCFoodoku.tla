----------------------------- MODULE MCFoodoku -----------------------------
(***************************************************************************)
(* A small instance of Foodoku: nine blocks of two rows and two columns    *)
(* and the digits 1 to 6.                                                  *)
(***************************************************************************)
EXTENDS Foodoku

\* Each row of the solution is 1 to 6, turned by its shift.
Shift    == <<0, 2, 4, 1, 3, 5>>
Solution == [b \in Blocks |-> [c \in Cells |->
              1 + ((Shift[1 + 2 * (b \div 3) + Row(c)] + 2 * (b % 3) + Col(c)) % 6)]]

\* The even digits of the first row are given, and a 5 in the second.
Puzzle   == [b \in Blocks |-> [c \in Cells |->
              IF <<b, c>> \in {<<0, 1>>, <<1, 1>>, <<2, 1>>, <<1, 2>>}
                THEN Solution[b][c] ELSE EMPTY]]

\* Another game, with other digits and other cells given.
Reversed == [b \in Blocks |-> [c \in Cells |-> 7 - Solution[b][c]]]
Corners  == [b \in Blocks |-> [c \in Cells |->
              IF <<b, c>> \in {<<0, 3>>, <<6, 2>>} THEN Reversed[b][c] ELSE EMPTY]]

Second   == {[puzzle |-> Corners, solution |-> Reversed]}
Games    == {[puzzle |-> Puzzle, solution |-> Solution]} \cup Second

\* The stack happens to hold zeros too.
Stack    == {[b \in Blocks |-> [c \in Cells |-> IF c = 0 THEN 7 ELSE EMPTY]]}

\* In the first game the first is accepted, the second refused for the digit in
\* its row, and the third for the digit in its block.  In the second game the
\* first is refused for the digit in its column, the second as its cell is given,
\* and the third is accepted.  Each refusal is by one test alone.  The first and
\* the third are in blocks that ask each other.
Attempts == {<<0, 0, 1>>, <<0, 3, 5>>, <<1, 0, 5>>}
=============================================================================
