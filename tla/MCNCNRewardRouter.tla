-------------------------- MODULE MCNCNRewardRouter --------------------------
(* Three operators of different stake; the winner is decided by the first   *)
(* and the third, whose votes are apart from each other in the list.        *)
EXTENDS NCNRewardRouter

MCOperators == {"o1", "o2", "o3"}
MCStake == [o \in MCOperators |-> CASE o = "o1" -> 3 [] o = "o2" -> 1 [] OTHER -> 2]

Vote(o, w) == [operator |-> o, wins |-> w]
MCConsensusVotes == {<<Vote("o1", TRUE), Vote("o2", FALSE), Vote("o3", TRUE)>>,
                     <<Vote("o1", TRUE), Vote("o3", TRUE)>>}
MCFees == {[protocol |-> 0, ncn |-> 0], [protocol |-> 4, ncn |-> 3]}
MCDeposits == {12}
=============================================================================
