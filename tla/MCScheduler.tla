---------------------------- MODULE MCScheduler ----------------------------
(***************************************************************************)
(* A small instance of Scheduler.                                          *)
(***************************************************************************)
EXTENDS Scheduler

PINF == 1000

Quantities == <<PINF, 2, 1>>

\* A burst may be shorter than the quantum, as long as it, or longer by a part
\* of a slice; I/O may end together with arrivals, timeouts and other I/O.
Lines == {[arrival |-> a, cpu |-> b[1], io |-> b[2]] :
            a \in 0 .. 1,
            b \in {<< <<1>>, <<>> >>, << <<3>>, <<>> >>,
                   << <<2, 1>>, <<1>> >>, << <<1, 2>>, <<2>> >>}}
=============================================================================
