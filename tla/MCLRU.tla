------------------------------- MODULE MCLRU -------------------------------
(***************************************************************************)
(* A small instance of LRU: arrays of eight and seven pages of one         *)
(* element, and so few frames that pages are exchanged.                    *)
(***************************************************************************)
EXTENDS LRU

Sizes == [p \in Procs |-> IF p = 1 THEN 7 ELSE 8]
=============================================================================
