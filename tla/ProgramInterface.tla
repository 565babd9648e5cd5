-------------------------- MODULE ProgramInterface --------------------------
(***************************************************************************)
(* What the program expects of an instruction: the accounts each handler   *)
(* takes by position (program/src), how it loads them and which of them it *)
(* changes, and how process_instruction finds the handler.  The state the  *)
(* handlers change is modelled by the other modules.                       *)
(***************************************************************************)
EXTENDS Integers, Sequences

Position(a, loaded, writable, signer) ==
    [account |-> a, loaded |-> loaded, writable |-> writable, signer |-> signer]

\* An account that is loaded, or compared with what the handler expects, and
\* only read.
Reads(a) == Position(a, TRUE, FALSE, FALSE)
\* An account that is loaded with expect_writable.
Writes(a) == Position(a, TRUE, TRUE, FALSE)
\* An account that is loaded without expect_writable, but whose data or
\* lamports the handler changes: the runtime insists that it is writable.
Changes(a) == Position(a, TRUE, TRUE, FALSE)
\* load_signer without and with expect_writable.
Signs(a) == Position(a, TRUE, FALSE, TRUE)
SignsWritable(a) == Position(a, TRUE, TRUE, TRUE)
\* An account that is taken as it is.
Takes(a) == Position(a, FALSE, FALSE, FALSE)

process_admin_initialize_config ==
    <<Writes("config"), Reads("ncn"), Takes("ncn_fee_wallet"), Signs("ncn_admin"),
      Takes("tie_breaker_admin"), Writes("account_payer"), Reads("system_program")>>

process_initialize_vault_registry ==
    <<Reads("config"), Writes("vault_registry"), Reads("ncn"),
      Writes("account_payer"), Reads("system_program")>>

process_realloc_vault_registry ==
    <<Reads("config"), Changes("vault_registry"), Reads("ncn"),
      Writes("account_payer"), Reads("system_program")>>

process_register_vault ==
    <<Reads("config"), Writes("vault_registry"), Reads("ncn"), Reads("vault"),
      Reads("ncn_vault_ticket")>>

process_initialize_epoch_state ==
    <<Reads("epoch_marker"), Writes("epoch_state"), Reads("config"), Reads("ncn"),
      Writes("account_payer"), Reads("system_program")>>

process_initialize_weight_table ==
    <<Reads("epoch_marker"), Reads("epoch_state"), Reads("vault_registry"),
      Reads("ncn"), Writes("weight_table"), Writes("account_payer"),
      Reads("system_program")>>

process_realloc_weight_table ==
    <<Writes("epoch_state"), Reads("config"), Changes("weight_table"), Reads("ncn"),
      Reads("vault_registry"), Writes("account_payer"), Reads("system_program")>>

process_set_epoch_weights ==
    <<Writes("epoch_state"), Reads("ncn"), Reads("vault_registry"),
      Writes("weight_table")>>

process_initialize_epoch_snapshot ==
    <<Reads("epoch_marker"), Writes("epoch_state"), Reads("config"), Reads("ncn"),
      Reads("weight_table"), Writes("epoch_snapshot"), Writes("account_payer"),
      Reads("system_program")>>

process_initialize_operator_snapshot ==
    <<Reads("epoch_marker"), Changes("epoch_state"), Reads("config"),
      Reads("restaking_config"), Reads("ncn"), Reads("operator"),
      Reads("ncn_operator_state"), Changes("epoch_snapshot"),
      Writes("operator_snapshot"), Writes("account_payer"), Reads("system_program")>>

process_snapshot_vault_operator_delegation ==
    <<Writes("epoch_state"), Reads("config"), Reads("restaking_config"),
      Reads("ncn"), Reads("operator"), Reads("vault"), Reads("vault_ncn_ticket"),
      Reads("ncn_vault_ticket"), Reads("vault_operator_delegation"),
      Reads("weight_table"), Writes("epoch_snapshot"), Writes("operator_snapshot")>>

process_initialize_ballot_box ==
    <<Reads("epoch_marker"), Reads("epoch_state"), Reads("config"),
      Writes("ballot_box"), Reads("ncn"), Writes("account_payer"),
      Reads("system_program"), Writes("consensus_result")>>

process_realloc_ballot_box ==
    <<Changes("epoch_state"), Reads("config"), Changes("ballot_box"), Reads("ncn"),
      Writes("account_payer"), Reads("system_program")>>

process_cast_vote ==
    <<Changes("epoch_state"), Reads("config"), Writes("ballot_box"), Reads("ncn"),
      Reads("epoch_snapshot"), Reads("operator_snapshot"), Reads("operator"),
      Signs("operator_voter"), Writes("consensus_result")>>

process_initialize_ncn_reward_router ==
    <<Reads("epoch_marker"), Reads("epoch_state"), Reads("ncn"),
      Writes("ncn_reward_router"), Writes("ncn_reward_receiver"),
      Writes("account_payer"), Reads("system_program")>>

process_realloc_ncn_reward_router ==
    <<Writes("epoch_state"), Reads("config"), Changes("ncn_reward_router"),
      Reads("ncn"), Writes("account_payer"), Reads("system_program")>>

process_route_ncn_rewards ==
    <<Writes("epoch_state"), Reads("config"), Reads("ncn"), Reads("epoch_snapshot"),
      Reads("ballot_box"), Writes("ncn_reward_router"),
      Writes("ncn_reward_receiver")>>

process_distribute_protocol_rewards ==
    <<Writes("epoch_state"), Reads("config"), Reads("ncn"),
      Writes("ncn_reward_router"), Writes("ncn_reward_receiver"),
      Changes("protocol_fee_wallet"), Takes("system_program")>>

process_distribute_ncn_rewards ==
    <<Writes("epoch_state"), Reads("config"), Reads("ncn"),
      Writes("ncn_reward_router"), Writes("ncn_reward_receiver"),
      Changes("ncn_fee_wallet"), Takes("system_program")>>

process_initialize_operator_vault_reward_router ==
    <<Reads("epoch_marker"), Writes("epoch_state"), Reads("ncn"), Reads("operator"),
      Reads("operator_snapshot"), Writes("operator_vault_reward_router"),
      Writes("operator_vault_reward_receiver"), Writes("account_payer"),
      Reads("system_program")>>

process_distribute_operator_vault_reward_route ==
    <<Writes("epoch_state"), Reads("config"), Reads("ncn"), Reads("operator"),
      Writes("ncn_reward_router"), Writes("ncn_reward_receiver"),
      Reads("operator_vault_reward_router"),
      Changes("operator_vault_reward_receiver"), Reads("system_program")>>

\* The handler calls the last two ncn_reward_router and ncn_reward_receiver,
\* but loads the operator's.
process_route_operator_vault_rewards ==
    <<Writes("epoch_state"), Reads("ncn"), Reads("operator"),
      Reads("operator_snapshot"), Writes("operator_vault_reward_router"),
      Writes("operator_vault_reward_receiver")>>

process_distribute_operator_rewards ==
    <<Writes("epoch_state"), Reads("config"), Reads("ncn"), Writes("operator"),
      Writes("operator_snapshot"), Writes("operator_vault_reward_router"),
      Writes("operator_vault_reward_receiver"), Takes("system_program")>>

process_distribute_vault_rewards ==
    <<Writes("epoch_state"), Reads("config"), Reads("ncn"), Reads("operator"),
      Writes("vault"), Writes("operator_snapshot"),
      Writes("operator_vault_reward_router"),
      Writes("operator_vault_reward_receiver"), Takes("system_program")>>

\* Of an account that is not a router; what a router needs is ClosesRouter.
process_close_epoch_account ==
    <<Changes("epoch_marker"), Changes("epoch_state"), Reads("config"), Reads("ncn"),
      Changes("account_to_close"), Changes("account_payer"), Reads("system_program"),
      Takes("ncn_fee_wallet"), Takes("receiver_to_close")>>

process_admin_set_parameters ==
    <<Writes("config"), Reads("ncn"), SignsWritable("ncn_admin")>>

process_admin_set_new_admin ==
    <<Writes("config"), Reads("ncn"), SignsWritable("ncn_admin"), Takes("new_admin")>>

process_admin_set_tie_breaker ==
    <<Writes("epoch_state"), Reads("config"), Writes("ballot_box"), Reads("ncn"),
      Signs("tie_breaker_admin")>>

process_admin_set_weight ==
    <<Writes("epoch_state"), Reads("ncn"), Writes("weight_table"),
      SignsWritable("weight_table_admin")>>

process_admin_register_st_mint ==
    <<Reads("config"), Reads("ncn"), Reads("st_mint"), Writes("vault_registry"),
      Signs("admin")>>

process_admin_set_st_mint ==
    <<Reads("config"), Reads("ncn"), Writes("vault_registry"), Signs("admin")>>

\* The variants of NCNProgramInstruction, with their fields, in the order in
\* which borsh numbers them from 0.  Their account attributes are what the
\* client's account lists are generated from.
Variant(name, args) == [name |-> name, args |-> args]

Global_Instructions ==
    <<Variant("InitializeConfig",
        <<"epochs_before_stall", "epochs_after_consensus_before_close",
          "valid_slots_after_consensus", "ncn_fee_bps">>),
      Variant("InitializeVaultRegistry", <<>>),
      Variant("ReallocVaultRegistry", <<>>),
      Variant("RegisterVault", <<>>)>>

Snapshot_Instructions ==
    <<Variant("InitializeEpochState", <<"epoch">>),
      Variant("InitializeWeightTable", <<"epoch">>),
      Variant("SetEpochWeights", <<"epoch">>),
      Variant("ReallocWeightTable", <<"epoch">>),
      Variant("InitializeEpochSnapshot", <<"epoch">>),
      Variant("InitializeOperatorSnapshot", <<"epoch">>),
      Variant("SnapshotVaultOperatorDelegation", <<"epoch">>)>>

Vote_Instructions ==
    <<Variant("InitializeBallotBox", <<"epoch">>),
      Variant("ReallocBallotBox", <<"epoch">>),
      Variant("CastVote", <<"weather_status", "epoch">>)>>

Route_Instructions ==
    <<Variant("InitializeNCNRewardRouter", <<"epoch">>),
      Variant("ReallocNCNRewardRouter", <<"epoch">>),
      Variant("RouteNCNRewards", <<"max_iterations", "epoch">>),
      Variant("DistributeProtocolRewards", <<"epoch">>),
      Variant("DistributeNCNRewards", <<"epoch">>),
      Variant("InitializeOperatorVaultRewardRouter", <<"epoch">>),
      Variant("DistributeOperatorVaultRewardRoute", <<"epoch">>),
      Variant("RouteOperatorVaultRewards", <<"max_iterations", "epoch">>),
      Variant("CloseEpochAccount", <<"epoch">>),
      Variant("DistributeOperatorRewards", <<"epoch">>),
      Variant("DistributeVaultRewards", <<"epoch">>)>>

Admin_Instructions ==
    <<Variant("AdminSetParameters",
        <<"starting_valid_epoch", "epochs_before_stall",
          "epochs_after_consensus_before_close", "valid_slots_after_consensus">>),
      Variant("AdminSetNewAdmin", <<"role">>),
      Variant("AdminSetTieBreaker", <<"weather_status", "epoch">>),
      Variant("AdminSetWeight", <<"st_mint", "weight", "epoch">>),
      Variant("AdminRegisterStMint", <<"weight">>),
      Variant("AdminSetStMint", <<"st_mint", "weight">>)>>

NCNProgramInstruction ==
    Global_Instructions \o Snapshot_Instructions \o Vote_Instructions
        \o Route_Instructions \o Admin_Instructions

\* The handler process_instruction passes each instruction to.
process_instruction ==
    [InitializeConfig |-> process_admin_initialize_config,
     InitializeVaultRegistry |-> process_initialize_vault_registry,
     ReallocVaultRegistry |-> process_realloc_vault_registry,
     RegisterVault |-> process_register_vault,
     InitializeEpochState |-> process_initialize_epoch_state,
     InitializeWeightTable |-> process_initialize_weight_table,
     SetEpochWeights |-> process_set_epoch_weights,
     ReallocWeightTable |-> process_realloc_weight_table,
     InitializeEpochSnapshot |-> process_initialize_epoch_snapshot,
     InitializeOperatorSnapshot |-> process_initialize_operator_snapshot,
     SnapshotVaultOperatorDelegation |-> process_snapshot_vault_operator_delegation,
     InitializeBallotBox |-> process_initialize_ballot_box,
     ReallocBallotBox |-> process_realloc_ballot_box,
     CastVote |-> process_cast_vote,
     InitializeNCNRewardRouter |-> process_initialize_ncn_reward_router,
     ReallocNCNRewardRouter |-> process_realloc_ncn_reward_router,
     RouteNCNRewards |-> process_route_ncn_rewards,
     DistributeProtocolRewards |-> process_distribute_protocol_rewards,
     DistributeNCNRewards |-> process_distribute_ncn_rewards,
     InitializeOperatorVaultRewardRouter |-> process_initialize_operator_vault_reward_router,
     DistributeOperatorVaultRewardRoute |-> process_distribute_operator_vault_reward_route,
     RouteOperatorVaultRewards |-> process_route_operator_vault_rewards,
     CloseEpochAccount |-> process_close_epoch_account,
     DistributeOperatorRewards |-> process_distribute_operator_rewards,
     DistributeVaultRewards |-> process_distribute_vault_rewards,
     AdminSetParameters |-> process_admin_set_parameters,
     AdminSetNewAdmin |-> process_admin_set_new_admin,
     AdminSetTieBreaker |-> process_admin_set_tie_breaker,
     AdminSetWeight |-> process_admin_set_weight,
     AdminRegisterStMint |-> process_admin_register_st_mint,
     AdminSetStMint |-> process_admin_set_st_mint]

\* try_from_slice: the instruction the first byte stands for, if there is one
\* and the arguments after it are its fields.
Decodes(discriminator, args) ==
    /\ discriminator + 1 \in DOMAIN NCNProgramInstruction
    /\ args = NCNProgramInstruction[discriminator + 1].args

\* The people the program asks for a signature: the handlers compare them with
\* the keys in the NCN, operator and config accounts.
Roles == {"ncn_admin", "tie_breaker_admin", "weight_table_admin", "admin",
          "operator_voter"}

\* The accounts close_epoch_account knows by their discriminators, and the
\* receiver it needs with a router.
EpochAccounts == {"epoch_state", "weight_table", "epoch_snapshot",
                  "operator_snapshot", "ballot_box"}
ReceiverOf == [ncn_reward_router |-> "ncn_reward_receiver",
               operator_vault_reward_router |-> "operator_vault_reward_receiver"]

\* One account against one position: the address is the one the handler
\* derives, compares or finds in the config; signer is the key that holds the
\* role.
Fits(position, account, signer) ==
    /\ position.loaded =>
         CASE position.account \in Roles -> account.address = signer
           [] position.account = "account_to_close" ->
                account.address \in EpochAccounts \cup DOMAIN ReceiverOf
           [] OTHER -> account.address = position.account
    /\ position.writable => account.writable
    /\ position.signer => account.signer

\* What close_epoch_account asks of the last two accounts when the account to
\* close, the fifth, is a router.
ClosesRouter(accounts) ==
    accounts[5].address \in DOMAIN ReceiverOf =>
        /\ accounts[8].address = "ncn_fee_wallet" /\ accounts[8].writable
        /\ accounts[9].address = ReceiverOf[accounts[5].address] /\ accounts[9].writable

\* The instruction is decoded, and its handler accepts the accounts.
Accepts(discriminator, args, accounts, signer) ==
    /\ Decodes(discriminator, args)
    /\ LET name == NCNProgramInstruction[discriminator + 1].name
           handler == process_instruction[name]
       IN /\ Len(accounts) = Len(handler)
          /\ \A i \in DOMAIN handler : Fits(handler[i], accounts[i], signer)
          /\ name = "CloseEpochAccount" => ClosesRouter(accounts)

=============================================================================
