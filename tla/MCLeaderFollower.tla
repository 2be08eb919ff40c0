-------------------------- MODULE MCLeaderFollower --------------------------
(* Instances of LeaderFollower: two runs of the program follower.          *)
EXTENDS LeaderFollower, TLC

CONSTANTS g1, g2   \* the two runs

\* One follower from the first run, and one more than wanted from the second.
OneAndThree == (g1 :> 1) @@ (g2 :> 3)

\* One follower from each.
OneEach == (g1 :> 1) @@ (g2 :> 1)
=============================================================================
