--------------------------- MODULE MCDemandPaging ---------------------------
(***************************************************************************)
(* A small instance of DemandPaging: pages of two elements, arrays of four *)
(* and three pages, and fewer frames than the processes ask for together,  *)
(* but as many as the largest one needs.                                   *)
(***************************************************************************)
EXTENDS DemandPaging

Sizes == [p \in Procs |-> IF p = 1 THEN 6 ELSE 8]
=============================================================================
