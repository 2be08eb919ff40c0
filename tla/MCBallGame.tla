----------------------------- MODULE MCBallGame -----------------------------
(***************************************************************************)
(* A small instance of BallGame.                                           *)
(***************************************************************************)
EXTENDS BallGame

\* The child forked last may sleep a little longer than the parent.
Last == {n - 1}
=============================================================================
