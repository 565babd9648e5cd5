-------------------- MODULE MCOperatorVaultRewardRouter --------------------
(* Two operators: one with three slots, of which the second is empty, whose *)
(* routing can be interrupted twice and whose snapshot may be closed        *)
(* meanwhile, and one that shares a vault with it and may vote late.        *)
EXTENDS OperatorVaultRewardRouter

MCOperators == {"o1", "o2"}
MCVaults == {"v1", "v2"}
MCStake == [o \in MCOperators |-> IF o = "o1" THEN 3 ELSE 1]
Slot(v, s) == [vault |-> v, stake |-> s]
MCDelegations == [o \in MCOperators |->
    IF o = "o1" THEN <<Slot("v1", 2), Slot("v2", 0), Slot("v2", 1)>>
                ELSE <<Slot("v2", 1)>>]
MCOperatorFee == [o \in MCOperators |-> IF o = "o1" THEN 2 ELSE 0]
MCConsensusVotes == {<<[operator |-> "o1", wins |-> TRUE]>>}
MCFees == {[protocol |-> 1, ncn |-> 1]}
MCClosedEarly == {"o1"}
MCDeposits == {5}
=============================================================================
