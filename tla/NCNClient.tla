------------------------------ MODULE NCNClient ------------------------------
(***************************************************************************)
(* The generated Rust client (clients/rust/ncn_program/src/generated/      *)
(* instructions): for every instruction of the program the accounts its    *)
(* builder puts into the instruction, in order and with their privileges,  *)
(* its discriminator, its arguments in order, and what must have been set  *)
(* before instruction() is called.  Account and argument names are the     *)
(* builders' field names.  The CPI wrappers of the same files are used by  *)
(* nothing in the repository and are left out.                             *)
(***************************************************************************)
EXTENDS Integers, Sequences

NCN_PROGRAM_ID == "ncn_program"

Meta(a, writable, signer, optional) ==
    [account |-> a, writable |-> writable, signer |-> signer, optional |-> optional]

\* AccountMeta::new_readonly and AccountMeta::new, without and with a
\* signature, and AccountMeta::new of an account that may be left out.
R(a) == Meta(a, FALSE, FALSE, FALSE)
W(a) == Meta(a, TRUE, FALSE, FALSE)
S(a) == Meta(a, FALSE, TRUE, FALSE)
WS(a) == Meta(a, TRUE, TRUE, FALSE)
Opt(a) == Meta(a, TRUE, FALSE, TRUE)

\* A builder expects every account except the optional ones and the system
\* program, for which it has a default, and every argument that is not an
\* Option.
Builder(discriminator, metas, args, optional_args) ==
    [discriminator |-> discriminator,
     metas |-> metas,
     args |-> args,
     expects |-> ({metas[i].account : i \in {j \in DOMAIN metas : ~metas[j].optional}}
                    \cup {args[i] : i \in DOMAIN args})
                    \ ({"system_program"} \cup optional_args)]

InitializeConfig_Metas ==
    <<W("config"), R("ncn"), R("ncn_fee_wallet"), S("ncn_admin"),
      R("tie_breaker_admin"), W("account_payer"), R("system_program")>>
InitializeConfig_Builder ==
    Builder(0, InitializeConfig_Metas,
        <<"epochs_before_stall", "epochs_after_consensus_before_close",
          "valid_slots_after_consensus", "ncn_fee_bps">>,
        {})

InitializeVaultRegistry_Metas ==
    <<R("config"), W("vault_registry"), R("ncn"), W("account_payer"),
      R("system_program")>>
InitializeVaultRegistry_Builder ==
    Builder(1, InitializeVaultRegistry_Metas, <<>>, {})

ReallocVaultRegistry_Metas ==
    <<R("config"), W("vault_registry"), R("ncn"), W("account_payer"),
      R("system_program")>>
ReallocVaultRegistry_Builder ==
    Builder(2, ReallocVaultRegistry_Metas, <<>>, {})

RegisterVault_Metas ==
    <<R("config"), W("vault_registry"), R("ncn"), R("vault"),
      R("ncn_vault_ticket")>>
RegisterVault_Builder ==
    Builder(3, RegisterVault_Metas, <<>>, {})

InitializeEpochState_Metas ==
    <<R("epoch_marker"), W("epoch_state"), R("config"), R("ncn"),
      W("account_payer"), R("system_program")>>
InitializeEpochState_Builder ==
    Builder(4, InitializeEpochState_Metas, <<"epoch">>, {})

\* Mutant of InitializeWeightTable_Metas: the account list of an older program,
\* with the table before the network.
InitializeWeightTable_OldOrder ==
    <<R("epoch_marker"), R("epoch_state"), R("vault_registry"),
      W("weight_table"), R("ncn"), W("account_payer"), R("system_program")>>

InitializeWeightTable_Metas ==
    <<R("epoch_marker"), R("epoch_state"), R("vault_registry"), R("ncn"),
      W("weight_table"), W("account_payer"), R("system_program")>>
InitializeWeightTable_Builder ==
    Builder(5, InitializeWeightTable_Metas, <<"epoch">>, {})

SetEpochWeights_Metas ==
    <<W("epoch_state"), R("ncn"), R("vault_registry"), W("weight_table")>>
SetEpochWeights_Builder ==
    Builder(6, SetEpochWeights_Metas, <<"epoch">>, {})

ReallocWeightTable_Metas ==
    <<W("epoch_state"), R("config"), W("weight_table"), R("ncn"),
      R("vault_registry"), W("account_payer"), R("system_program")>>
ReallocWeightTable_Builder ==
    Builder(7, ReallocWeightTable_Metas, <<"epoch">>, {})

InitializeEpochSnapshot_Metas ==
    <<R("epoch_marker"), W("epoch_state"), R("config"), R("ncn"),
      R("weight_table"), W("epoch_snapshot"), W("account_payer"),
      R("system_program")>>
InitializeEpochSnapshot_Builder ==
    Builder(8, InitializeEpochSnapshot_Metas, <<"epoch">>, {})

InitializeOperatorSnapshot_Metas ==
    <<R("epoch_marker"), W("epoch_state"), R("config"),
      R("restaking_config"), R("ncn"), R("operator"), R("ncn_operator_state"),
      W("epoch_snapshot"), W("operator_snapshot"), W("account_payer"),
      R("system_program")>>
InitializeOperatorSnapshot_Builder ==
    Builder(9, InitializeOperatorSnapshot_Metas, <<"epoch">>, {})

SnapshotVaultOperatorDelegation_Metas ==
    <<W("epoch_state"), R("config"), R("restaking_config"), R("ncn"),
      R("operator"), R("vault"), R("vault_ncn_ticket"), R("ncn_vault_ticket"),
      R("vault_operator_delegation"), R("weight_table"), W("epoch_snapshot"),
      W("operator_snapshot")>>
SnapshotVaultOperatorDelegation_Builder ==
    Builder(10, SnapshotVaultOperatorDelegation_Metas, <<"epoch">>, {})

InitializeBallotBox_Metas ==
    <<R("epoch_marker"), R("epoch_state"), R("config"), W("ballot_box"),
      R("ncn"), W("account_payer"), R("system_program"),
      W("consensus_result")>>
InitializeBallotBox_Builder ==
    Builder(11, InitializeBallotBox_Metas, <<"epoch">>, {})

ReallocBallotBox_Metas ==
    <<W("epoch_state"), R("config"), W("ballot_box"), R("ncn"),
      W("account_payer"), R("system_program")>>
ReallocBallotBox_Builder ==
    Builder(12, ReallocBallotBox_Metas, <<"epoch">>, {})

CastVote_Metas ==
    <<W("epoch_state"), R("config"), W("ballot_box"), R("ncn"),
      R("epoch_snapshot"), R("operator_snapshot"), R("operator"),
      S("operator_voter"), W("consensus_result")>>
CastVote_Builder ==
    Builder(13, CastVote_Metas, <<"weather_status", "epoch">>, {})

InitializeNCNRewardRouter_Metas ==
    <<R("epoch_marker"), R("epoch_state"), R("ncn"), W("ncn_reward_router"),
      W("ncn_reward_receiver"), W("account_payer"), R("system_program")>>
InitializeNCNRewardRouter_Builder ==
    Builder(14, InitializeNCNRewardRouter_Metas, <<"epoch">>, {})

ReallocNCNRewardRouter_Metas ==
    <<W("epoch_state"), R("config"), W("ncn_reward_router"), R("ncn"),
      W("account_payer"), R("system_program")>>
ReallocNCNRewardRouter_Builder ==
    Builder(15, ReallocNCNRewardRouter_Metas, <<"epoch">>, {})

RouteNCNRewards_Metas ==
    <<W("epoch_state"), R("config"), R("ncn"), R("epoch_snapshot"),
      R("ballot_box"), W("ncn_reward_router"), W("ncn_reward_receiver")>>
RouteNCNRewards_Builder ==
    Builder(16, RouteNCNRewards_Metas, <<"max_iterations", "epoch">>, {})

DistributeProtocolRewards_Metas ==
    <<W("epoch_state"), R("config"), R("ncn"), W("ncn_reward_router"),
      W("ncn_reward_receiver"), W("protocol_fee_wallet"), R("system_program")>>
DistributeProtocolRewards_Builder ==
    Builder(17, DistributeProtocolRewards_Metas, <<"epoch">>, {})

DistributeNCNRewards_Metas ==
    <<W("epoch_state"), R("config"), R("ncn"), W("ncn_reward_router"),
      W("ncn_reward_receiver"), W("ncn_fee_wallet"), R("system_program")>>
DistributeNCNRewards_Builder ==
    Builder(18, DistributeNCNRewards_Metas, <<"epoch">>, {})

InitializeOperatorVaultRewardRouter_Metas ==
    <<R("epoch_marker"), W("epoch_state"), R("ncn"), R("operator"),
      R("operator_snapshot"), W("operator_vault_reward_router"),
      W("operator_vault_reward_receiver"), W("account_payer"),
      R("system_program")>>
InitializeOperatorVaultRewardRouter_Builder ==
    Builder(19, InitializeOperatorVaultRewardRouter_Metas, <<"epoch">>, {})

DistributeOperatorVaultRewardRoute_Metas ==
    <<W("epoch_state"), R("config"), R("ncn"), R("operator"),
      W("ncn_reward_router"), W("ncn_reward_receiver"),
      R("operator_vault_reward_router"), W("operator_vault_reward_receiver"),
      R("system_program")>>
DistributeOperatorVaultRewardRoute_Builder ==
    Builder(20, DistributeOperatorVaultRewardRoute_Metas, <<"epoch">>, {})

RouteOperatorVaultRewards_Metas ==
    <<W("epoch_state"), R("ncn"), R("operator"), R("operator_snapshot"),
      W("operator_vault_reward_router"), W("operator_vault_reward_receiver")>>
RouteOperatorVaultRewards_Builder ==
    Builder(21, RouteOperatorVaultRewards_Metas,
        <<"max_iterations", "epoch">>,
        {})

CloseEpochAccount_Metas ==
    <<W("epoch_marker"), W("epoch_state"), R("config"), R("ncn"),
      W("account_to_close"), W("account_payer"), R("system_program"),
      Opt("ncn_fee_wallet"), Opt("receiver_to_close")>>
CloseEpochAccount_Builder ==
    Builder(22, CloseEpochAccount_Metas, <<"epoch">>, {})

DistributeOperatorRewards_Metas ==
    <<W("epoch_state"), R("config"), R("ncn"), W("operator"),
      W("operator_snapshot"), W("operator_vault_reward_router"),
      W("operator_vault_reward_receiver"), R("system_program")>>
DistributeOperatorRewards_Builder ==
    Builder(23, DistributeOperatorRewards_Metas, <<"epoch">>, {})

DistributeVaultRewards_Metas ==
    <<W("epoch_state"), R("config"), R("ncn"), R("operator"), W("vault"),
      W("operator_snapshot"), W("operator_vault_reward_router"),
      W("operator_vault_reward_receiver"), R("system_program")>>
DistributeVaultRewards_Builder ==
    Builder(24, DistributeVaultRewards_Metas, <<"epoch">>, {})

AdminSetParameters_Metas ==
    <<W("config"), R("ncn"), S("ncn_admin")>>
AdminSetParameters_Builder ==
    Builder(25, AdminSetParameters_Metas,
        <<"starting_valid_epoch", "epochs_before_stall",
          "epochs_after_consensus_before_close",
          "valid_slots_after_consensus">>,
        {"starting_valid_epoch", "epochs_before_stall",
         "epochs_after_consensus_before_close", "valid_slots_after_consensus"})

AdminSetNewAdmin_Metas ==
    <<W("config"), R("ncn"), S("ncn_admin"), R("new_admin")>>
AdminSetNewAdmin_Builder ==
    Builder(26, AdminSetNewAdmin_Metas, <<"role">>, {})

AdminSetTieBreaker_Metas ==
    <<W("epoch_state"), R("config"), W("ballot_box"), R("ncn"),
      S("tie_breaker_admin")>>
AdminSetTieBreaker_Builder ==
    Builder(27, AdminSetTieBreaker_Metas, <<"weather_status", "epoch">>, {})

AdminSetWeight_Metas ==
    <<W("epoch_state"), R("ncn"), W("weight_table"),
      S("weight_table_admin")>>
AdminSetWeight_Builder ==
    Builder(28, AdminSetWeight_Metas, <<"st_mint", "weight", "epoch">>, {})

AdminRegisterStMint_Metas ==
    <<R("config"), R("ncn"), R("st_mint"), W("vault_registry"), WS("admin")>>
AdminRegisterStMint_Builder ==
    Builder(29, AdminRegisterStMint_Metas, <<"weight">>, {"weight"})

AdminSetStMint_Metas ==
    <<R("config"), R("ncn"), W("vault_registry"), WS("admin")>>
AdminSetStMint_Builder ==
    Builder(30, AdminSetStMint_Metas, <<"st_mint", "weight">>, {"weight"})

\* The builders, by instruction.
Client ==
    [InitializeConfig |-> InitializeConfig_Builder,
     InitializeVaultRegistry |-> InitializeVaultRegistry_Builder,
     ReallocVaultRegistry |-> ReallocVaultRegistry_Builder,
     RegisterVault |-> RegisterVault_Builder,
     InitializeEpochState |-> InitializeEpochState_Builder,
     InitializeWeightTable |-> InitializeWeightTable_Builder,
     SetEpochWeights |-> SetEpochWeights_Builder,
     ReallocWeightTable |-> ReallocWeightTable_Builder,
     InitializeEpochSnapshot |-> InitializeEpochSnapshot_Builder,
     InitializeOperatorSnapshot |-> InitializeOperatorSnapshot_Builder,
     SnapshotVaultOperatorDelegation |-> SnapshotVaultOperatorDelegation_Builder,
     InitializeBallotBox |-> InitializeBallotBox_Builder,
     ReallocBallotBox |-> ReallocBallotBox_Builder,
     CastVote |-> CastVote_Builder,
     InitializeNCNRewardRouter |-> InitializeNCNRewardRouter_Builder,
     ReallocNCNRewardRouter |-> ReallocNCNRewardRouter_Builder,
     RouteNCNRewards |-> RouteNCNRewards_Builder,
     DistributeProtocolRewards |-> DistributeProtocolRewards_Builder,
     DistributeNCNRewards |-> DistributeNCNRewards_Builder,
     InitializeOperatorVaultRewardRouter |-> InitializeOperatorVaultRewardRouter_Builder,
     DistributeOperatorVaultRewardRoute |-> DistributeOperatorVaultRewardRoute_Builder,
     RouteOperatorVaultRewards |-> RouteOperatorVaultRewards_Builder,
     CloseEpochAccount |-> CloseEpochAccount_Builder,
     DistributeOperatorRewards |-> DistributeOperatorRewards_Builder,
     DistributeVaultRewards |-> DistributeVaultRewards_Builder,
     AdminSetParameters |-> AdminSetParameters_Builder,
     AdminSetNewAdmin |-> AdminSetNewAdmin_Builder,
     AdminSetTieBreaker |-> AdminSetTieBreaker_Builder,
     AdminSetWeight |-> AdminSetWeight_Builder,
     AdminRegisterStMint |-> AdminRegisterStMint_Builder,
     AdminSetStMint |-> AdminSetStMint_Builder]

\* The fields instruction() panics about.
NotSet(builder, fields) == builder.expects \ DOMAIN fields

\* instruction_with_remaining_accounts: an account that is left out is
\* replaced by the program's own address, read-only.
AccountMeta(m, fields) ==
    [address  |-> IF m.account \in DOMAIN fields THEN fields[m.account]
                  ELSE IF m.optional THEN NCN_PROGRAM_ID ELSE m.account,
     writable |-> m.writable /\ (m.optional => m.account \in DOMAIN fields),
     signer   |-> m.signer]

Instruction(builder, fields) ==
    [program_id |-> NCN_PROGRAM_ID,
     accounts |-> [i \in DOMAIN builder.metas |-> AccountMeta(builder.metas[i], fields)],
     discriminator |-> builder.discriminator,
     args |-> builder.args]

=============================================================================
