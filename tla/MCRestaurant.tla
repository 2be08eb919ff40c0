---------------------------- MODULE MCRestaurant ----------------------------
(***************************************************************************)
(* Small instances of Restaurant.  Two customers come well before closing  *)
(* time and one at its end, so that cooks leave while orders are on their  *)
(* way, a customer that has eaten turns the clock back to before closing   *)
(* time, and two customers are with the same waiter.                       *)
(***************************************************************************)
EXTENDS Restaurant

Guest(time, count) == [time |-> time, count |-> count]

AroundClosing == <<Guest(202, 1), Guest(204, 1), Guest(239, 2)>>

\* An order is on its way to the cooks when they close.
LastOrder == <<Guest(235, 1), Guest(240, 1)>>
=============================================================================
