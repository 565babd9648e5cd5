---------------------------- MODULE MCBallotBox ----------------------------
(***************************************************************************)
(* Instances of BallotBox for TLC.                                         *)
(***************************************************************************)
EXTENDS BallotBox, TLC

CONSTANTS o1, o2, o3, o4, o5

\* o1 and o2 together hold 666 of 1000, just below 2/3 and just at the
\* rounded threshold; o1, o3 and o4 hold 667; o4 alone decides nothing, and
\* o5 has no stake and cannot vote.
EdgeWeights == o1 :> 333 @@ o2 :> 333 @@ o3 :> 234 @@ o4 :> 100 @@ o5 :> 0
=============================================================================
