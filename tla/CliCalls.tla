------------------------------ MODULE CliCalls ------------------------------
(***************************************************************************)
(* The command line functions that talk to the program                     *)
(* (cli/src/instructions.rs): which instructions each of them builds, what *)
(* it sets on the builders, in which transactions it sends them and what   *)
(* it looks up first.  An account stands for itself by its name; every     *)
(* address but the keypair's is derived or read by the name of the field   *)
(* it is given to.                                                         *)
(***************************************************************************)
EXTENDS NCNClient

Keypair == "keypair"

\* An instruction whose builder gets the fields of the set, and one that also
\* gets the keypair's address for the roles it plays.
Ix(instruction, fields) ==
    [instruction |-> instruction, fields |-> [f \in fields |-> f]]
IxBy(instruction, roles, fields) ==
    [instruction |-> instruction,
     fields |-> [f \in fields \cup roles |-> IF f \in roles THEN Keypair ELSE f]]

\* How many pieces of MAX_REALLOC_BYTES an account is made of: one to create
\* it, the others to reallocate it.
Pieces ==
    [config |-> 1, vault_registry |-> 2, epoch_state |-> 1, weight_table |-> 2,
     epoch_snapshot |-> 1, operator_snapshot |-> 1, ballot_box |-> 3,
     ncn_reward_router |-> 2, operator_vault_reward_router |-> 1]

\* One transaction of a function, which repeats one instruction: it is left out
\* when the account it looks up exists (unless = "exists") or is gone (unless =
\* "gone").
Tx(unless, account, ix, times) ==
    [unless |-> unless, account |-> account, ix |-> ix, times |-> times]
Sends(ix) == <<Tx("never", "none", ix, 1)>>
CreatesIfNone(account, ix) == <<Tx("exists", account, ix, 1)>>
\* num_reallocs reallocations in one transaction.
Reallocates(account, ix) == <<Tx("never", account, ix, Pieces[account] - 1)>>

admin_create_config ==
    Sends(IxBy("InitializeConfig", {"ncn_admin", "tie_breaker_admin"},
               {"config", "ncn", "account_payer", "ncn_fee_wallet", "ncn_fee_bps",
                "epochs_before_stall",
                "valid_slots_after_consensus",
                "epochs_after_consensus_before_close"}))

admin_register_st_mint ==
    Sends(IxBy("AdminRegisterStMint", {"admin"},
               {"config", "vault_registry", "ncn", "st_mint", "weight"}))

admin_set_weight_with_st_mint ==
    Sends(IxBy("AdminSetWeight", {"weight_table_admin"},
               {"ncn", "weight_table", "epoch_state", "st_mint", "weight",
                "epoch"}))

admin_set_tie_breaker ==
    Sends(IxBy("AdminSetTieBreaker", {"tie_breaker_admin"},
               {"epoch_state", "config", "ballot_box", "ncn", "weather_status",
                "epoch"}))

admin_set_new_admin ==
    Sends(IxBy("AdminSetNewAdmin", {"ncn_admin"},
               {"config", "ncn", "new_admin", "role"}))

admin_set_parameters ==
    Sends(IxBy("AdminSetParameters", {"ncn_admin"},
               {"config", "ncn", "epochs_before_stall",
                "epochs_after_consensus_before_close",
                "valid_slots_after_consensus",
                "starting_valid_epoch"}))

create_vault_registry ==
    CreatesIfNone("vault_registry",
        Ix("InitializeVaultRegistry",
           {"config", "account_payer", "ncn", "vault_registry"}))
      \o Reallocates("vault_registry",
        Ix("ReallocVaultRegistry",
           {"config", "vault_registry", "ncn", "account_payer", "system_program"}))

register_vault ==
    Sends(Ix("RegisterVault",
             {"config", "vault_registry", "vault", "ncn", "ncn_vault_ticket"}))

create_epoch_state ==
    CreatesIfNone("epoch_state",
        Ix("InitializeEpochState",
           {"epoch_marker", "config", "epoch_state", "ncn", "epoch",
            "account_payer", "system_program"}))

create_weight_table ==
    CreatesIfNone("weight_table",
        Ix("InitializeWeightTable",
           {"epoch_marker", "vault_registry", "ncn", "epoch_state",
            "weight_table", "account_payer", "system_program", "epoch"}))
      \o Reallocates("weight_table",
        Ix("ReallocWeightTable",
           {"config", "weight_table", "ncn", "epoch_state", "vault_registry",
            "epoch", "account_payer", "system_program"}))

set_epoch_weights ==
    Sends(Ix("SetEpochWeights",
             {"ncn", "weight_table", "epoch_state", "vault_registry", "epoch"}))

create_epoch_snapshot ==
    Sends(Ix("InitializeEpochSnapshot",
             {"epoch_marker", "config", "ncn", "epoch_state", "weight_table",
              "epoch_snapshot", "account_payer", "system_program",
              "epoch"}))

create_operator_snapshot ==
    CreatesIfNone("operator_snapshot",
        Ix("InitializeOperatorSnapshot",
           {"epoch_marker", "config", "restaking_config", "ncn", "operator",
            "epoch_state", "ncn_operator_state", "epoch_snapshot",
            "operator_snapshot", "account_payer", "system_program",
            "epoch"}))

snapshot_vault_operator_delegation ==
    Sends(Ix("SnapshotVaultOperatorDelegation",
             {"config", "epoch_state", "restaking_config", "ncn", "operator",
              "vault", "vault_ncn_ticket", "ncn_vault_ticket",
              "vault_operator_delegation", "weight_table",
              "epoch_snapshot", "operator_snapshot", "epoch"}))

create_ballot_box ==
    CreatesIfNone("ballot_box",
        Ix("InitializeBallotBox",
           {"epoch_marker", "config", "epoch_state", "ballot_box", "ncn", "epoch",
            "account_payer", "consensus_result", "system_program"}))
      \o Reallocates("ballot_box",
        Ix("ReallocBallotBox",
           {"config", "epoch_state", "ballot_box", "ncn", "epoch",
            "account_payer", "system_program"}))

close_epoch_account(account_to_close) ==
    LET ix == Ix("CloseEpochAccount",
                 {"account_payer", "epoch_marker", "config", "epoch_state", "ncn",
                  "system_program", "epoch"})
    IN <<Tx("gone", account_to_close,
            [ix EXCEPT !.fields = [f \in DOMAIN @ \cup {"account_to_close"} |->
                IF f = "account_to_close" THEN account_to_close ELSE f]], 1)>>

operator_cast_vote ==
    Sends(IxBy("CastVote", {"operator_voter"},
               {"config", "epoch_state", "ballot_box", "ncn", "epoch_snapshot",
                "operator_snapshot", "operator",
                "consensus_result", "weather_status", "epoch"}))

create_ncn_reward_router ==
    CreatesIfNone("ncn_reward_router",
        Ix("InitializeNCNRewardRouter",
           {"epoch_marker", "epoch_state", "ncn_reward_router",
            "ncn_reward_receiver", "ncn", "epoch", "account_payer",
            "system_program"}))
      \o Reallocates("ncn_reward_router",
        Ix("ReallocNCNRewardRouter",
           {"ncn_reward_router", "config", "ncn", "epoch_state", "epoch",
            "account_payer", "system_program"}))

create_operator_vault_reward_router ==
    CreatesIfNone("operator_vault_reward_router",
        Ix("InitializeOperatorVaultRewardRouter",
           {"epoch_marker", "epoch_state", "operator_snapshot",
            "operator_vault_reward_router",
            "operator_vault_reward_receiver", "ncn", "operator",
            "epoch", "account_payer", "system_program"}))

route_ncn_rewards ==
    Sends(Ix("RouteNCNRewards",
             {"epoch_state", "config", "ncn", "epoch_snapshot", "ballot_box",
              "ncn_reward_router", "ncn_reward_receiver",
              "max_iterations", "epoch"}))

route_operator_vault_rewards ==
    Sends(Ix("RouteOperatorVaultRewards",
             {"ncn", "epoch_state", "operator", "operator_snapshot",
              "operator_vault_reward_router",
              "operator_vault_reward_receiver", "epoch",
              "max_iterations"}))

distribute_ncn_rewards ==
    Sends(Ix("DistributeNCNRewards",
             {"epoch_state", "config", "ncn", "ncn_reward_router",
              "ncn_reward_receiver", "ncn_fee_wallet", "epoch"}))

distribute_protocol_rewards ==
    Sends(Ix("DistributeProtocolRewards",
             {"epoch_state", "config", "ncn", "ncn_reward_router",
              "ncn_reward_receiver", "protocol_fee_wallet", "epoch",
              "system_program"}))

distribute_operator_vault_rewards ==
    Sends(Ix("DistributeOperatorVaultRewardRoute",
             {"epoch_state", "ncn", "operator", "config", "ncn_reward_router",
              "ncn_reward_receiver", "operator_vault_reward_router",
              "operator_vault_reward_receiver", "system_program",
              "epoch"}))

distribute_ncn_operator_rewards ==
    Sends(Ix("DistributeOperatorRewards",
             {"epoch_state", "config", "ncn", "operator", "operator_snapshot",
              "operator_vault_reward_router",
              "operator_vault_reward_receiver", "system_program",
              "epoch"}))

distribute_ncn_vault_rewards ==
    Sends(Ix("DistributeVaultRewards",
             {"epoch_state", "config", "ncn", "operator", "vault",
              "operator_snapshot", "operator_vault_reward_router",
              "operator_vault_reward_receiver", "epoch",
              "system_program"}))

\* The functions by name; close_epoch_account is one for each account that is
\* not a router.
CliFunctions ==
    [admin_create_config |-> admin_create_config,
     admin_register_st_mint |-> admin_register_st_mint,
     admin_set_weight_with_st_mint |-> admin_set_weight_with_st_mint,
     admin_set_tie_breaker |-> admin_set_tie_breaker,
     admin_set_new_admin |-> admin_set_new_admin,
     admin_set_parameters |-> admin_set_parameters,
     create_vault_registry |-> create_vault_registry,
     register_vault |-> register_vault,
     create_epoch_state |-> create_epoch_state,
     create_weight_table |-> create_weight_table,
     set_epoch_weights |-> set_epoch_weights,
     create_epoch_snapshot |-> create_epoch_snapshot,
     create_operator_snapshot |-> create_operator_snapshot,
     snapshot_vault_operator_delegation |-> snapshot_vault_operator_delegation,
     create_ballot_box |-> create_ballot_box,
     operator_cast_vote |-> operator_cast_vote,
     create_ncn_reward_router |-> create_ncn_reward_router,
     create_operator_vault_reward_router |-> create_operator_vault_reward_router,
     route_ncn_rewards |-> route_ncn_rewards,
     route_operator_vault_rewards |-> route_operator_vault_rewards,
     distribute_ncn_rewards |-> distribute_ncn_rewards,
     distribute_protocol_rewards |-> distribute_protocol_rewards,
     distribute_operator_vault_rewards |-> distribute_operator_vault_rewards,
     distribute_ncn_operator_rewards |-> distribute_ncn_operator_rewards,
     distribute_ncn_vault_rewards |-> distribute_ncn_vault_rewards,
     close_epoch_state |-> close_epoch_account("epoch_state"),
     close_weight_table |-> close_epoch_account("weight_table"),
     close_epoch_snapshot |-> close_epoch_account("epoch_snapshot"),
     close_operator_snapshot |-> close_epoch_account("operator_snapshot"),
     close_ballot_box |-> close_epoch_account("ballot_box")]

=============================================================================
