--------------------------- MODULE MCAccountPayer ---------------------------
(* Two overlapping epochs.  Ballot box and router take one reallocation; the *)
(* funds come in two parts which together are just enough.                   *)
EXTENDS AccountPayer

MCKinds == {"epoch_state", "ballot_box", "ncn_reward_router",
             "operator_vault_reward_router"} \cup Permanent
MCSize == [k \in MCKinds |-> IF k \in Staged THEN 2 ELSE 1]
MCAmounts == {22}
MCGifts == {2}
=============================================================================
