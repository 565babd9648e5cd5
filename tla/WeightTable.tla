---------------------------- MODULE WeightTable ----------------------------
(***************************************************************************)
(* The vault registry of an NCN and the weight table of one epoch          *)
(* (core/src/vault_registry.rs, core/src/weight_table.rs and the handlers  *)
(* that write them).  The registry is permanent and may change at any      *)
(* time; the weight table is a copy of it, taken when the account has been *)
(* grown to its full size, whose weights are then filled in one by one     *)
(* (admin) or all at once (anybody) and are frozen once all are set.       *)
(*                                                                         *)
(* The 64-entry arrays are sets: every operation searches them by key and  *)
(* none depends on the order of the entries.  EpochState exists already    *)
(* and is not closing: closing needs consensus, which needs a finalized    *)
(* snapshot, which needs a finalized table.                                *)
(***************************************************************************)
EXTENDS Integers, FiniteSets

CONSTANTS
    Mints,          \* stake token mints
    Vaults,         \* vaults of the restaking network
    SupportedMint,  \* Vault::supported_mint of every vault
    Weights,        \* the weights an admin may ask for (0 included)
    MAX_ST_MINTS,
    MAX_VAULTS,
    TABLE_CHUNKS    \* WeightTable::SIZE in steps of MAX_REALLOC_BYTES

ASSUME NetworkAssumption ==
    /\ IsFiniteSet(Mints)
    /\ IsFiniteSet(Vaults)
    /\ SupportedMint \in [Vaults -> Mints]
    /\ Weights \subseteq Nat

ASSUME SizeAssumption ==
    /\ MAX_ST_MINTS \in Nat
    /\ MAX_VAULTS \in Nat
    /\ TABLE_CHUNKS \in Nat \ {0}

VARIABLES
    ncn_vaults,   \* external: vaults with an NcnVaultTicket
    registry,     \* VaultRegistry
    weight_table, \* WeightTable of the epoch
    weight_state  \* what EpochState keeps of the weight table

registryVars == <<ncn_vaults, registry>>
tableVars == <<weight_table, weight_state>>
weightVars == <<registryVars, tableVars>>

Progress == [tally : Nat, total : Nat]

\* Progress::new
NewProgress(total) == [tally |-> 0, total |-> total]

\* Progress::is_complete (the counters never come near Progress::INVALID).
IsComplete(progress) == progress.tally >= progress.total

EmptyTable ==
    [size |-> 0, initialized |-> FALSE, vault_count |-> 0, vaults |-> {},
     mints |-> {}, weight |-> [m \in Mints |-> 0], weights_set |-> {}]

VaultRegistryInitialized(table) == table.vault_count = Cardinality(table.vaults)

TableInitialized(table) == table.mints # {}

\* WeightTable::finalized, for an account with its discriminator written.
Finalized(table) ==
    /\ VaultRegistryInitialized(table)
    /\ TableInitialized(table)
    /\ Cardinality(table.mints) = Cardinality(table.weights_set)

WeightInit ==
    /\ ncn_vaults = {}
    /\ registry = [mints |-> {}, weight |-> [m \in Mints |-> 0], vaults |-> {}]
    /\ weight_table = EmptyTable
    /\ weight_state = [status |-> "DNE", vault_count |-> 0,
                       set_weight_progress |-> NewProgress(0)]

----------------------------------------------------------------------------
(* The restaking program: a vault is connected to the NCN.                  *)

NcnAddVault(v) ==
    /\ v \notin ncn_vaults
    /\ ncn_vaults' = ncn_vaults \cup {v}
    /\ UNCHANGED <<registry, tableVars>>

----------------------------------------------------------------------------
(* The registry.                                                           *)

\* check_st_mint_entry
MintEntryOk(weight) == weight # 0

\* VaultRegistry::register_st_mint: not listed yet, and a slot is free.
CanRegisterStMint(m, weight) ==
    /\ m \notin registry.mints
    /\ Cardinality(registry.mints) < MAX_ST_MINTS
    /\ MintEntryOk(weight)

\* process_admin_register_st_mint
AdminRegisterStMint(m, weight) ==
    /\ CanRegisterStMint(m, weight)
    /\ registry' = [registry EXCEPT !.mints = @ \cup {m}, !.weight[m] = weight]
    /\ UNCHANGED <<ncn_vaults, tableVars>>

\* VaultRegistry::set_st_mint.  Without a new weight it checks the stored
\* one and changes nothing.
CanSetStMint(m, weight) == m \in registry.mints /\ MintEntryOk(weight)

\* process_admin_set_st_mint
AdminSetStMint(m, weight) ==
    /\ CanSetStMint(m, weight)
    /\ registry' = [registry EXCEPT !.weight[m] = weight]
    /\ UNCHANGED <<ncn_vaults, tableVars>>

\* VaultRegistry::register_vault.  Registering a vault again succeeds and
\* changes nothing.
CanRegisterVault(v) ==
    /\ v \notin registry.vaults
    /\ Cardinality(registry.vaults) < MAX_VAULTS

\* Mutant of RegisterVault: the vault's mint need not be registered.
RegisterVault_AnyMint(v) ==
    /\ v \in ncn_vaults
    /\ CanRegisterVault(v)
    /\ registry' = [registry EXCEPT !.vaults = @ \cup {v}]
    /\ UNCHANGED <<ncn_vaults, tableVars>>

\* process_register_vault: the vault has an NcnVaultTicket and its mint is
\* registered.
RegisterVault(v) ==
    /\ v \in ncn_vaults
    /\ SupportedMint[v] \in registry.mints
    /\ CanRegisterVault(v)
    /\ registry' = [registry EXCEPT !.vaults = @ \cup {v}]
    /\ UNCHANGED <<ncn_vaults, tableVars>>

----------------------------------------------------------------------------
(* The weight table.                                                       *)

\* Mutant of InitializeWeightTable: the counts are compared strictly.
InitializeWeightTable_Strict ==
    /\ weight_table.size = 0
    /\ Cardinality(ncn_vaults) < Cardinality(registry.vaults)
    /\ weight_table' = [weight_table EXCEPT !.size = 1]
    /\ UNCHANGED <<registryVars, weight_state>>

\* process_initialize_weight_table: allocate the first chunk.
InitializeWeightTable ==
    /\ weight_table.size = 0
    /\ Cardinality(ncn_vaults) = Cardinality(registry.vaults)
    /\ weight_table' = [weight_table EXCEPT !.size = 1]
    /\ UNCHANGED <<registryVars, weight_state>>

\* WeightTable::initialize.  set_vault_entries takes a table for zero vaults
\* for one that is initialized already and fails.
CanInitializeTable ==
    /\ Cardinality(registry.vaults) # 0
    /\ registry.mints # {}

InitializedTable ==
    [size |-> TABLE_CHUNKS, initialized |-> TRUE,
     vault_count |-> Cardinality(registry.vaults), vaults |-> registry.vaults,
     mints |-> registry.mints, weight |-> [m \in Mints |-> 0],
     weights_set |-> {}]

\* EpochState::update_realloc_weight_table
UpdateReallocWeightTable(vault_count, st_mint_count) ==
    [status |-> "Created", vault_count |-> vault_count,
     set_weight_progress |-> NewProgress(st_mint_count)]

\* The account is still too small after this call's chunk.
GrowWeightTable ==
    /\ weight_table.size > 0
    /\ weight_table.size + 1 < TABLE_CHUNKS
    /\ weight_table' = [weight_table EXCEPT !.size = @ + 1]
    /\ UNCHANGED <<registryVars, weight_state>>

\* This call's chunk, if one is still needed, completes the account, which
\* is then filled from the registry as it is now.
FinishWeightTable ==
    /\ weight_table.size > 0
    /\ weight_table.size + 1 >= TABLE_CHUNKS
    /\ ~weight_table.initialized
    /\ CanInitializeTable
    /\ weight_table' = InitializedTable
    /\ weight_state' = UpdateReallocWeightTable(Cardinality(registry.vaults),
                                                Cardinality(registry.mints))
    /\ UNCHANGED registryVars

\* process_realloc_weight_table
ReallocWeightTable == GrowWeightTable \/ FinishWeightTable

\* The checks common to set_epoch_weights and admin_set_weight.
CanSetWeights ==
    /\ weight_table.initialized
    /\ TableInitialized(weight_table)
    /\ ~Finalized(weight_table)

\* WeightTable::set_weight, for all the mints of a set.
SetWeights(mints, weight) ==
    [weight_table EXCEPT
        !.weight = [m \in Mints |-> IF m \in mints THEN weight[m] ELSE @[m]],
        !.weights_set = @ \cup mints]

\* EpochState::update_set_weight
UpdateSetWeight(table) ==
    [weight_state EXCEPT
        !.set_weight_progress = [tally |-> Cardinality(table.weights_set),
                                 total |-> Cardinality(table.mints)]]

\* process_set_epoch_weights: every mint of the registry must be in the
\* table, or set_weight fails and the whole transaction with it.
SetEpochWeights ==
    /\ CanSetWeights
    /\ \A m \in registry.mints : registry.weight[m] # 0
    /\ registry.mints \subseteq weight_table.mints
    /\ weight_table' = SetWeights(registry.mints, registry.weight)
    /\ weight_state' = UpdateSetWeight(weight_table')
    /\ UNCHANGED registryVars

\* process_admin_set_weight, for this epoch only and with any weight.
AdminSetWeight(m, weight) ==
    /\ CanSetWeights
    /\ m \in weight_table.mints
    /\ weight_table' = SetWeights({m}, [n \in Mints |-> weight])
    /\ weight_state' = UpdateSetWeight(weight_table')
    /\ UNCHANGED registryVars

WeightNext ==
    \/ \E v \in Vaults : NcnAddVault(v)
    \/ \E m \in Mints, w \in Weights : AdminRegisterStMint(m, w)
    \/ \E m \in Mints, w \in Weights : AdminSetStMint(m, w)
    \/ \E v \in Vaults : RegisterVault(v)
    \/ InitializeWeightTable
    \/ ReallocWeightTable
    \/ SetEpochWeights
    \/ \E m \in Mints, w \in Weights : AdminSetWeight(m, w)

WeightSpec == WeightInit /\ [][WeightNext]_weightVars

\* The keeper registers outstanding vaults and cranks the table until it is
\* finalized; the admins owe nothing.
WeightFairness ==
    /\ WF_weightVars(\E v \in Vaults : RegisterVault(v))
    /\ WF_weightVars(InitializeWeightTable)
    /\ WF_weightVars(ReallocWeightTable)
    /\ WF_weightVars(SetEpochWeights)

----------------------------------------------------------------------------

TableType ==
    [size : 0..TABLE_CHUNKS, initialized : BOOLEAN, vault_count : Nat,
     vaults : SUBSET Vaults, mints : SUBSET Mints, weight : [Mints -> Nat],
     weights_set : SUBSET Mints]

\* The registry, the table and EpochState's record of it hold values of
\* their types.
WeightTypeOK ==
    /\ ncn_vaults \in SUBSET Vaults
    /\ registry \in [mints : SUBSET Mints, weight : [Mints -> Nat],
                     vaults : SUBSET Vaults]
    /\ weight_table \in TableType
    /\ weight_state \in [status : {"DNE", "Created"}, vault_count : Nat,
                         set_weight_progress : Progress]

\* The table of an epoch has a weight entry for the mint of every vault it
\* lists, although registry and table are filled by different parties at
\* different times: check_registry_for_vault passing, get_precise_weight
\* cannot fail with InvalidMintForWeightTable.
VaultsPriced ==
    \A v \in weight_table.vaults : SupportedMint[v] \in weight_table.mints

\* EpochState's progress says "weights complete" exactly when the table's own
\* finalized() does, so current_state leaves SetWeight when and only when
\* initialize_epoch_snapshot is going to be accepted.
WeightProgressExact ==
    /\ weight_state.status = "Created" <=> weight_table.initialized
    /\ weight_table.initialized =>
         /\ weight_state.vault_count = Cardinality(weight_table.vaults)
         /\ IsComplete(weight_state.set_weight_progress)
              <=> Finalized(weight_table)

\* No instruction changes a finalized table (set_epoch_weights and
\* admin_set_weight refuse, realloc_weight_table finds the discriminator), so
\* all delegations of the epoch are priced alike whatever the registry does.
WeightsFrozen ==
    [][weight_table.initialized /\ Finalized(weight_table)
         => UNCHANGED tableVars]_weightVars

\* With a keeper that keeps cranking, the table of an epoch is allocated
\* unless some vault of the NCN cannot be registered, because the registry is
\* full or the vault's mint is not registered (initialize_weight_table insists
\* on equal counts); and once initialized it is finalized unless a mint was
\* registered after the table was copied (set_epoch_weights then fails for
\* the rest of the epoch and only the admin can finish).
TableSettles ==
    /\ <>(\/ weight_table.size > 0
          \/ Cardinality(ncn_vaults) > MAX_VAULTS
          \/ \E v \in ncn_vaults : SupportedMint[v] \notin registry.mints)
    /\ weight_table.initialized ~>
           \/ Finalized(weight_table)
           \/ ~(registry.mints \subseteq weight_table.mints)

============================================================================
