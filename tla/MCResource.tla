----------------------------- MODULE MCResource -----------------------------
(***************************************************************************)
(* Small instances of Resource.                                            *)
(***************************************************************************)
EXTENDS Resource

\* Two kinds: a request can give units of one back and ask for the other.
TwoKinds  == [k \in Kinds |-> IF k = 0 THEN 1 ELSE 2]
ClaimTwo  == [t \in Threads |-> IF t = 0 THEN [k \in Kinds |-> 1] ELSE TwoKinds]

\* Three threads, one unit of each of two kinds; the last claims no kind 0.
OneEach    == [k \in Kinds |-> 1]
ClaimThree == [t \in Threads |-> [k \in Kinds |-> IF t = 2 /\ k = 0 THEN 0 ELSE 1]]

\* Requests in the input files.
Files      == [t \in Threads |-> IF t = 0 THEN 1 ELSE 2]
FilesThree == [t \in Threads |-> IF t = 0 THEN 2 ELSE 1]
=============================================================================
