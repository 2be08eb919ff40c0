----------------------------- MODULE MCBoating -----------------------------
(***************************************************************************)
(* A small instance of Boating.                                            *)
(***************************************************************************)
EXTENDS Boating
=============================================================================
