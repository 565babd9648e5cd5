------------------------ MODULE StakeSnapshotProofs ------------------------
(***************************************************************************)
(* The weight table and the stake snapshot for any finite network and any  *)
(* capacity of registry and table: the vaults listed are priced, operators *)
(* and delegations are counted once, the stakes add up, EpochState's       *)
(* progress is exact and what is final stays.                              *)
(***************************************************************************)
EXTENDS StakeSnapshot, SumTheorems

\* Zenon is tried first; a step that needs arithmetic asks for the SMT solver.
USE ZenonT(30), SMTT(30)

----------------------------------------------------------------------------
(* The weight table, while the snapshots are taken.                        *)

\* The registry itself lists only vaults whose mint it lists: register_vault
\* asks for it and no instruction removes a mint.
RegistryPriced == \A v \in registry.vaults : SupportedMint[v] \in registry.mints

\* What a table with its discriminator is: at its full size, with at least one
\* mint and vault, weights only for its mints, and counted exactly by EpochState.
TableCounted ==
    weight_table.initialized =>
        /\ weight_table.size = TABLE_CHUNKS
        /\ weight_table.vault_count = Cardinality(weight_table.vaults)
        /\ weight_table.vault_count # 0
        /\ weight_table.mints # {}
        /\ weight_table.weights_set \subseteq weight_table.mints
        /\ weight_state.vault_count = Cardinality(weight_table.vaults)
        /\ weight_state.set_weight_progress =
               [tally |-> Cardinality(weight_table.weights_set),
                total |-> Cardinality(weight_table.mints)]

StatusFollows == weight_state.status = "Created" <=> weight_table.initialized

WeightInv ==
    /\ WeightTypeOK
    /\ RegistryPriced
    /\ VaultsPriced
    /\ TableCounted
    /\ StatusFollows

\* The sizes of sets of mints and vaults are natural numbers.
LEMMA Counts ==
    /\ \A S \in SUBSET Mints : IsFiniteSet(S) /\ Cardinality(S) \in Nat
    /\ \A S \in SUBSET Vaults : IsFiniteSet(S) /\ Cardinality(S) \in Nat
  BY NetworkAssumption, FS_Subset, FS_CardinalityType

\* Nothing is registered and no table exists at first.
LEMMA InitWeightInv == Init => WeightInv
  <1>. SUFFICES ASSUME WeightInit PROVE WeightInv
    BY DEF Init
  <1>1. WeightTypeOK
    BY SizeAssumption, SMTT(30) DEF WeightInit, WeightTypeOK, EmptyTable, TableType, NewProgress, Progress
  <1>. QED
    BY <1>1 DEF WeightInit, WeightInv, RegistryPriced, VaultsPriced, TableCounted,
                StatusFollows, EmptyTable

\* The registry's instructions leave the table alone and only add to it.
LEMMA RegistryKeeps ==
    ASSUME WeightInv,
           \/ \E v \in Vaults : NcnAddVault(v) \/ RegisterVault(v)
           \/ \E m \in Mints, w \in Weights : AdminRegisterStMint(m, w) \/ AdminSetStMint(m, w)
    PROVE  WeightInv'
  <1>1. UNCHANGED tableVars
    BY DEF NcnAddVault, RegisterVault, AdminRegisterStMint, AdminSetStMint
  <1>2. WeightTypeOK' /\ RegistryPriced'
    <2>1. CASE \E v \in Vaults : NcnAddVault(v)
      BY <2>1 DEF NcnAddVault, WeightInv, WeightTypeOK, RegistryPriced, tableVars
    <2>2. CASE \E v \in Vaults : RegisterVault(v)
      BY <2>2, SMTT(30) DEF RegisterVault, WeightInv, WeightTypeOK, RegistryPriced, tableVars
    <2>3. CASE \E m \in Mints, w \in Weights : AdminRegisterStMint(m, w)
      <3>1. PICK m \in Mints, w \in Weights : AdminRegisterStMint(m, w)
        BY <2>3
      <3>2. w \in Nat
        BY NetworkAssumption
      <3>3. registry' = [mints  |-> registry.mints \cup {m},
                         weight |-> [registry.weight EXCEPT ![m] = w],
                         vaults |-> registry.vaults]
        BY <3>1 DEF AdminRegisterStMint, WeightInv, WeightTypeOK
      <3>4. /\ registry.mints \in SUBSET Mints
            /\ registry.weight \in [Mints -> Nat]
            /\ registry.vaults \in SUBSET Vaults
        BY DEF WeightInv, WeightTypeOK
      <3>5. [registry.weight EXCEPT ![m] = w] \in [Mints -> Nat]
        BY <3>2, <3>4
      <3>6. registry' \in [mints : SUBSET Mints, weight : [Mints -> Nat],
                           vaults : SUBSET Vaults]
        BY <3>3, <3>4, <3>5
      <3>7. ncn_vaults' = ncn_vaults
        BY <3>1 DEF AdminRegisterStMint
      <3>8. WeightTypeOK'
        BY <1>1, <3>6, <3>7 DEF WeightInv, WeightTypeOK, tableVars
      <3>9. RegistryPriced'
        BY <3>3 DEF WeightInv, RegistryPriced
      <3>. QED  BY <3>8, <3>9
    <2>4. CASE \E m \in Mints, w \in Weights : AdminSetStMint(m, w)
      BY <2>4, NetworkAssumption, SMTT(30)
      DEF AdminSetStMint, WeightInv, WeightTypeOK, RegistryPriced, tableVars
    <2>. QED  BY <2>1, <2>2, <2>3, <2>4
  <1>. QED
    BY <1>1, <1>2 DEF WeightInv, VaultsPriced, TableCounted, StatusFollows, tableVars

\* Allocating a part of the table; an initialized one is not touched, since
\* it has its full size.
LEMMA AllocationKeeps ==
    ASSUME WeightInv, InitializeWeightTable \/ GrowWeightTable
    PROVE  WeightInv' /\ ~weight_table.initialized
  <1>1. ~weight_table.initialized
    BY SizeAssumption, SMTT(30)
    DEF WeightInv, TableCounted, InitializeWeightTable, GrowWeightTable
  <1>2. PICK n \in 0..TABLE_CHUNKS : weight_table' = [weight_table EXCEPT !.size = n]
    BY SizeAssumption, SMTT(30)
    DEF WeightInv, WeightTypeOK, TableType, InitializeWeightTable, GrowWeightTable
  <1>3. UNCHANGED <<ncn_vaults, registry, weight_state>>
    BY DEF InitializeWeightTable, GrowWeightTable, registryVars
  <1>. QED
    BY <1>1, <1>2, <1>3
    DEF WeightInv, WeightTypeOK, TableType, RegistryPriced, VaultsPriced, TableCounted,
        StatusFollows

\* The copy of the registry: priced because the registry is.
LEMMA FinishKeeps ==
    ASSUME WeightInv, FinishWeightTable
    PROVE  WeightInv'
  <1>1. /\ weight_table' = InitializedTable
        /\ weight_state' = UpdateReallocWeightTable(Cardinality(registry.vaults),
                                                    Cardinality(registry.mints))
        /\ ncn_vaults' = ncn_vaults /\ registry' = registry
        /\ registry.mints # {}
        /\ Cardinality(registry.vaults) # 0
    BY DEF FinishWeightTable, CanInitializeTable, registryVars
  <1>2. /\ registry.mints \in SUBSET Mints
        /\ registry.vaults \in SUBSET Vaults
    BY DEF WeightInv, WeightTypeOK
  <1>3. Cardinality(registry.mints) \in Nat /\ Cardinality(registry.vaults) \in Nat
    BY <1>2, Counts
  <1>4. WeightTypeOK'
    BY <1>1, <1>2, <1>3, SizeAssumption, SMTT(30)
    DEF WeightInv, WeightTypeOK, TableType, InitializedTable, UpdateReallocWeightTable,
        NewProgress, Progress
  <1>5. Cardinality({}) = 0
    BY FS_EmptySet
  <1>6. TableCounted'
    BY <1>1, <1>5 DEF TableCounted, InitializedTable, UpdateReallocWeightTable, NewProgress
  <1>. QED
    BY <1>1, <1>4, <1>6
    DEF WeightInv, RegistryPriced, VaultsPriced, StatusFollows, InitializedTable,
        UpdateReallocWeightTable

\* Weights are set for mints of the table only.
LEMMA SettingKeeps ==
    ASSUME WeightInv, NEW mints \in SUBSET weight_table.mints, NEW weight,
           \A m \in mints : weight[m] \in Nat,
           weight_table.initialized,
           weight_table' = SetWeights(mints, weight),
           weight_state' = UpdateSetWeight(weight_table'),
           UNCHANGED registryVars
    PROVE  WeightInv'
  <1>. DEFINE set == weight_table.weights_set \cup mints
              new == [m \in Mints |-> IF m \in mints THEN weight[m] ELSE weight_table.weight[m]]
  <1>1. weight_table' = [weight_table EXCEPT !.weight = new, !.weights_set = set]
    BY DEF SetWeights
  <1>2. /\ weight_table.mints \in SUBSET Mints
        /\ weight_table.weights_set \subseteq weight_table.mints
        /\ weight_table \in TableType
    BY DEF WeightInv, WeightTypeOK, TableCounted, TableType
  <1>3. set \in SUBSET Mints /\ set \subseteq weight_table.mints
    BY <1>2
  <1>4. new \in [Mints -> Nat]
    BY <1>2 DEF TableType
  <1>5. /\ weight_table' \in TableType
        /\ weight_table'.weights_set = set
        /\ weight_table'.mints = weight_table.mints
        /\ weight_table'.vaults = weight_table.vaults
        /\ weight_table'.size = weight_table.size
        /\ weight_table'.vault_count = weight_table.vault_count
        /\ weight_table'.initialized = weight_table.initialized
    BY <1>1, <1>2, <1>3, <1>4 DEF TableType
  <1>6. Cardinality(set) \in Nat /\ Cardinality(weight_table.mints) \in Nat
    BY <1>2, <1>3, Counts
  <1>7. weight_state' = [weight_state EXCEPT !.set_weight_progress =
            [tally |-> Cardinality(set), total |-> Cardinality(weight_table.mints)]]
    BY <1>5 DEF UpdateSetWeight
  <1>8. weight_state \in [status : {"DNE", "Created"}, vault_count : Nat,
                          set_weight_progress : Progress]
    BY DEF WeightInv, WeightTypeOK
  <1>9. /\ weight_state' \in [status : {"DNE", "Created"}, vault_count : Nat,
                              set_weight_progress : Progress]
        /\ weight_state'.status = weight_state.status
        /\ weight_state'.vault_count = weight_state.vault_count
        /\ weight_state'.set_weight_progress =
             [tally |-> Cardinality(set), total |-> Cardinality(weight_table.mints)]
    BY <1>6, <1>7, <1>8, SMTT(30) DEF Progress
  <1>10. WeightTypeOK' /\ RegistryPriced'
    BY <1>5, <1>9 DEF WeightInv, WeightTypeOK, RegistryPriced, registryVars
  <1>11. TableCounted'
    BY <1>3, <1>5, <1>9 DEF WeightInv, TableCounted
  <1>. QED
    BY <1>5, <1>9, <1>10, <1>11 DEF WeightInv, VaultsPriced, StatusFollows

\* set_epoch_weights sets the registry's weights, all for mints of the table.
LEMMA SetEpochWeightsKeeps ==
    ASSUME WeightInv, SetEpochWeights
    PROVE  WeightInv'
  <1>1. registry.mints \in SUBSET weight_table.mints
    BY DEF SetEpochWeights
  <1>2. \A m \in registry.mints : registry.weight[m] \in Nat
    BY DEF WeightInv, WeightTypeOK
  <1>. QED
    BY <1>1, <1>2, SettingKeeps DEF SetEpochWeights, CanSetWeights

\* admin_set_weight sets one, for a mint of the table.
LEMMA AdminSetWeightKeeps ==
    ASSUME WeightInv, NEW m \in Mints, NEW w \in Weights, AdminSetWeight(m, w)
    PROVE  WeightInv'
  <1>. DEFINE weight == [n \in Mints |-> w]
  <1>1. {m} \in SUBSET weight_table.mints
    BY DEF AdminSetWeight
  <1>2. \A n \in {m} : weight[n] \in Nat
    BY NetworkAssumption
  <1>3. /\ weight_table.initialized
        /\ weight_table' = SetWeights({m}, weight)
        /\ weight_state' = UpdateSetWeight(weight_table')
        /\ UNCHANGED registryVars
    BY DEF AdminSetWeight, CanSetWeights
  <1>. HIDE DEF weight
  <1>. QED
    BY <1>1, <1>2, <1>3, SettingKeeps

\* The snapshots' instructions only read the table.
LEMMA SnapshotsOnlyRead ==
    ASSUME NcnAddOperator \/ InitializeEpochSnapshot \/ InitializeOperators
             \/ SnapshotDelegations
    PROVE  UNCHANGED weightVars
  BY SMTT(30) DEF NcnAddOperator, InitializeEpochSnapshot, InitializeOperators, SnapshotDelegations,
         InitializeOperatorSnapshot, SnapshotVaultOperatorDelegation

\* What only reads registry and table keeps the invariant.
LEMMA ReadingKeeps == WeightInv /\ UNCHANGED weightVars => WeightInv'
  BY DEF WeightInv, WeightTypeOK, RegistryPriced, VaultsPriced, TableCounted,
         StatusFollows, weightVars, registryVars, tableVars

\* Every instruction keeps the invariant.
LEMMA NextWeightInv == WeightInv /\ [Next]_vars => WeightInv'
  <1>. SUFFICES ASSUME WeightInv, [Next]_vars PROVE WeightInv'
    OBVIOUS
  <1>1. CASE WeightNext
    BY <1>1, RegistryKeeps, AllocationKeeps, FinishKeeps, SetEpochWeightsKeeps,
       AdminSetWeightKeeps
    DEF WeightNext, ReallocWeightTable
  <1>2. CASE NcnAddOperator \/ InitializeEpochSnapshot \/ InitializeOperators
               \/ SnapshotDelegations
    BY <1>2, SnapshotsOnlyRead, ReadingKeeps
  <1>3. CASE UNCHANGED vars
    BY <1>3, ReadingKeeps DEF vars
  <1>. QED  BY <1>1, <1>2, <1>3 DEF Next

\* No instruction of registry or table changes a finalized table.
LEMMA FrozenStep ==
    ASSUME WeightInv, WeightNext, weight_table.initialized, Finalized(weight_table)
    PROVE  UNCHANGED tableVars
  BY AllocationKeeps
  DEF WeightNext, ReallocWeightTable, NcnAddVault, AdminRegisterStMint, AdminSetStMint,
      RegisterVault, FinishWeightTable, SetEpochWeights, AdminSetWeight, CanSetWeights

\* The invariant that the results below rest on: registry and table are both
\* priced, and EpochState counts an initialized table exactly.
THEOREM WeightInvariant == Spec => []WeightInv
  BY InitWeightInv, NextWeightInv, PTL DEF Spec

\* In every network each vault of the epoch's table has its mint in the table,
\* whenever mints and vaults are registered: get_precise_weight finds it.
THEOREM VaultsAlwaysPriced == Spec => []VaultsPriced
  <1>1. WeightInv => VaultsPriced
    BY DEF WeightInv
  <1>. QED  BY <1>1, WeightInvariant, PTL

\* EpochState's progress of the weights is complete exactly when the table is
\* finalized, for any number of mints.
THEOREM WeightProgressAlwaysExact == Spec => []WeightProgressExact
  <1>1. WeightInv => WeightProgressExact
    <2>. SUFFICES ASSUME WeightInv, weight_table.initialized
                  PROVE  /\ weight_state.vault_count = Cardinality(weight_table.vaults)
                         /\ IsComplete(weight_state.set_weight_progress)
                              <=> Finalized(weight_table)
      BY DEF WeightInv, StatusFollows, WeightProgressExact
    <2>1. /\ weight_table.mints \in SUBSET Mints
          /\ weight_table.weights_set \in SUBSET weight_table.mints
      BY DEF WeightInv, WeightTypeOK, TableType, TableCounted
    <2>2. /\ IsFiniteSet(weight_table.mints)
          /\ Cardinality(weight_table.mints) \in Nat
          /\ Cardinality(weight_table.weights_set) \in Nat
      BY <2>1, Counts
    <2>3. Cardinality(weight_table.weights_set) <= Cardinality(weight_table.mints)
      BY <2>1, <2>2, FS_Subset
    <2>. QED
      BY <2>2, <2>3, SMTT(30) DEF WeightInv, TableCounted, IsComplete, Finalized,
                        VaultRegistryInitialized, TableInitialized
  <1>. QED  BY <1>1, WeightInvariant, PTL

\* No instruction changes a finalized table or EpochState's record of it.
THEOREM WeightsStayFrozen == Spec => WeightsFrozen
  <1>. DEFINE Frozen == weight_table.initialized /\ Finalized(weight_table)
                          => UNCHANGED tableVars
  <1>1. WeightInv /\ [Next]_vars => [Frozen]_weightVars
    <2>. SUFFICES ASSUME WeightInv, [Next]_vars, weight_table.initialized,
                         Finalized(weight_table), ~UNCHANGED weightVars
                  PROVE  UNCHANGED tableVars
      OBVIOUS
    <2>1. WeightNext
      BY SnapshotsOnlyRead DEF Next, vars
    <2>. QED  BY <2>1, FrozenStep
  <1>. QED  BY <1>1, WeightInvariant, PTL DEF Spec, WeightsFrozen

----------------------------------------------------------------------------
(* The snapshots.                                                          *)

\* An operator's snapshot: untouched before it exists, then counted by its
\* vaults and by EpochState.
OperatorInv(o) ==
    LET s == operator_snapshot[o] IN
        /\ ~s.exists => s = NoOperatorSnapshot
        /\ s.exists =>
             /\ epoch_snapshot.exists
             /\ o < epoch_snapshot.operator_count
             /\ s.delegation_count = IF s.is_active THEN weight_table.vault_count ELSE 0
             /\ snapshot_state.operator_created[o]
             /\ snapshot_state.operator_progress[o] =
                    IF s.is_active
                    THEN [tally |-> s.delegations_registered, total |-> s.delegation_count]
                    ELSE [tally |-> 1, total |-> 1]
        /\ s.delegations_registered = Cardinality(s.vaults)
        /\ s.vaults \subseteq weight_table.vaults
        /\ ~s.is_active => s.delegations_registered = 0

\* The epoch's snapshot: taken from a finalized table, and counting the
\* operators that are done.
EpochInv ==
    /\ epoch_snapshot.operators_registered = Cardinality(Done)
    /\ epoch_snapshot.exists =>
         /\ weight_table.initialized
         /\ Finalized(weight_table)
         /\ epoch_snapshot.vault_count = weight_table.vault_count
         /\ snapshot_state.operator_count = epoch_snapshot.operator_count
         /\ snapshot_state.epoch_progress =
                [tally |-> epoch_snapshot.operators_registered,
                 total |-> epoch_snapshot.operator_count]
    /\ ~epoch_snapshot.exists =>
         /\ epoch_snapshot = NoEpochSnapshot
         /\ snapshot_state.epoch_progress = NewProgress(0)

SnapshotInv ==
    /\ WeightInv
    /\ TypeOK
    /\ EpochInv
    /\ \A o \in Operators : OperatorInv(o)

EpochType ==
    [exists : BOOLEAN, operator_count : Nat, vault_count : Nat,
     operators_registered : Nat, valid_delegations : Nat, stake_weight : Nat]

StateType ==
    [operator_count : Nat, epoch_progress : Progress,
     operator_created : [Operators -> BOOLEAN],
     operator_progress : [Operators -> Progress]]

\* The complete operators can be counted.
LEMMA DoneFinite == IsFiniteSet(Done) /\ Cardinality(Done) \in Nat
  BY OperatorsAssumption, FS_Subset, FS_CardinalityType DEF Done

\* A set of numbers below n has at most n members, and n only if it has all.
LEMMA Below ==
    ASSUME NEW n \in Nat, NEW S, S \subseteq Nat, \A x \in S : x < n
    PROVE  /\ Cardinality(S) <= n
           /\ Cardinality(S) = n => \A x \in Nat : x < n => x \in S
  <1>. DEFINE m == n - 1
              I == 0..m
  <1>1. m \in Int /\ 0 \in Int /\ (IF 0 > m THEN 0 ELSE m - 0 + 1) = n
    BY SMTT(30)
  <1>2. S \in SUBSET I /\ \A x \in Nat : x < n => x \in I
    BY SMTT(30)
  <1>. HIDE DEF m
  <1>3. IsFiniteSet(I) /\ Cardinality(I) = n
    BY <1>1, FS_Interval
  <1>. HIDE DEF I
  <1>4. Cardinality(S) <= Cardinality(I) /\ (Cardinality(I) = Cardinality(S) => I = S)
    BY <1>2, <1>3, FS_Subset
  <1>. QED  BY <1>2, <1>3, <1>4

\* The complete operators are among the first operator_count; when there are
\* that many, they are all of them.
LEMMA DoneBounded ==
    ASSUME SnapshotInv, epoch_snapshot.exists
    PROVE  /\ Cardinality(Done) <= epoch_snapshot.operator_count
           /\ EpochFinalized => \A o \in Operators : o < epoch_snapshot.operator_count
                                                       => o \in Done
  <1>1. epoch_snapshot.operator_count \in Nat
    BY DEF SnapshotInv, TypeOK
  <1>2. /\ Done \subseteq Nat
        /\ \A o \in Done : o < epoch_snapshot.operator_count
    BY OperatorsAssumption DEF SnapshotInv, OperatorInv, Done
  <1>3. EpochFinalized => Cardinality(Done) = epoch_snapshot.operator_count
    BY DEF EpochFinalized, SnapshotInv, EpochInv
  <1>. QED  BY <1>1, <1>2, <1>3, Below, OperatorsAssumption

\* No snapshot exists at first.
LEMMA InitSnapshotInv == Init => SnapshotInv
  <1>. SUFFICES ASSUME Init PROVE SnapshotInv
    OBVIOUS
  <1>1. WeightInv
    BY InitWeightInv
  <1>2. NoOperatorSnapshot \in OperatorSnapshotType
    BY DEF NoOperatorSnapshot, OperatorSnapshotType
  <1>3. NewProgress(0) \in Progress
    BY DEF NewProgress, Progress
  <1>4. TypeOK
    BY <1>1, <1>2, <1>3 DEF Init, TypeOK, WeightInv, NoEpochSnapshot
  <1>5. Done = {}
    BY DEF Init, Done, NoOperatorSnapshot
  <1>6. EpochInv
    BY <1>5, FS_EmptySet DEF Init, EpochInv, NoEpochSnapshot
  <1>7. \A o \in Operators : OperatorInv(o)
    BY FS_EmptySet DEF Init, OperatorInv, NoOperatorSnapshot
  <1>. QED  BY <1>1, <1>4, <1>6, <1>7 DEF SnapshotInv

\* The weight table's instructions: before the epoch snapshot there is nothing
\* they could disturb, and after it the table is frozen.
LEMMA WeightsKeep ==
    ASSUME SnapshotInv, WeightNext, UNCHANGED <<ncn_operator_count, snapshotVars>>
    PROVE  SnapshotInv'
  <1>1. WeightInv'
    BY NextWeightInv DEF SnapshotInv, Next
  <1>2. TypeOK'
    BY <1>1 DEF SnapshotInv, TypeOK, WeightInv, snapshotVars
  <1>3. Done' = Done
    BY DEF Done, OperatorFinalized, snapshotVars
  <1>4. epoch_snapshot.exists => UNCHANGED tableVars
    BY FrozenStep DEF SnapshotInv, EpochInv
  <1>5. EpochInv'
    BY <1>3, <1>4 DEF SnapshotInv, EpochInv, snapshotVars, tableVars
  <1>6. ASSUME NEW o \in Operators PROVE OperatorInv(o)'
    <2>1. CASE operator_snapshot[o].exists
      BY <2>1, <1>4 DEF SnapshotInv, OperatorInv, snapshotVars, tableVars
    <2>2. CASE ~operator_snapshot[o].exists
      <3>1. operator_snapshot'[o] = NoOperatorSnapshot
        BY <2>2 DEF SnapshotInv, OperatorInv, snapshotVars
      <3>2. OperatorInv(o)
        BY DEF SnapshotInv
      <3>. QED
        BY <2>2, <3>1, <3>2, FS_EmptySet, SMTT(30) DEF OperatorInv, snapshotVars, NoOperatorSnapshot
    <2>. QED  BY <2>1, <2>2
  <1>. QED  BY <1>1, <1>2, <1>5, <1>6 DEF SnapshotInv

\* An operator that joins the NCN changes no snapshot.
LEMMA AddOperatorKeeps ==
    ASSUME SnapshotInv, NcnAddOperator
    PROVE  SnapshotInv'
  <1>1. WeightInv'
    BY ReadingKeeps DEF SnapshotInv, NcnAddOperator
  <1>2. TypeOK'
    BY <1>1, SMTT(30) DEF SnapshotInv, TypeOK, WeightInv, NcnAddOperator, snapshotVars
  <1>3. EpochInv' /\ \A o \in Operators : OperatorInv(o)'
    BY DEF SnapshotInv, NcnAddOperator, EpochInv, OperatorInv, Done, OperatorFinalized,
           snapshotVars, weightVars, tableVars
  <1>. QED  BY <1>1, <1>2, <1>3 DEF SnapshotInv

\* No operator's snapshot exists before the epoch's does.
LEMMA InitializeEpochKeeps ==
    ASSUME SnapshotInv, InitializeEpochSnapshot
    PROVE  SnapshotInv'
  <1>1. WeightInv' /\ UNCHANGED weightVars
    BY ReadingKeeps DEF SnapshotInv, InitializeEpochSnapshot
  <1>2. ncn_operator_count \in Nat /\ weight_table.vault_count \in Nat
    BY DEF SnapshotInv, TypeOK, WeightTypeOK, TableType
  <1>3. epoch_snapshot' =
            [exists |-> TRUE, operator_count |-> ncn_operator_count,
             vault_count |-> weight_table.vault_count, operators_registered |-> 0,
             valid_delegations |-> 0, stake_weight |-> 0]
    BY DEF InitializeEpochSnapshot, NoEpochSnapshot
  <1>4. snapshot_state \in StateType
    BY DEF SnapshotInv, TypeOK, StateType
  <1>5. snapshot_state' =
            [operator_count |-> ncn_operator_count,
             epoch_progress |-> [tally |-> 0, total |-> ncn_operator_count],
             operator_created |-> snapshot_state.operator_created,
             operator_progress |-> snapshot_state.operator_progress]
    BY <1>4 DEF InitializeEpochSnapshot, UpdateInitializeEpochSnapshot, NewProgress, StateType
  <1>6. operator_snapshot' = operator_snapshot
    BY DEF InitializeEpochSnapshot
  <1>7. TypeOK'
    <2>1. epoch_snapshot' \in EpochType
      BY <1>2, <1>3 DEF EpochType
    <2>2. snapshot_state' \in StateType
      BY <1>2, <1>4, <1>5 DEF StateType, Progress
    <2>. QED
      BY <1>1, <1>6, <2>1, <2>2
      DEF SnapshotInv, TypeOK, WeightInv, EpochType, StateType, InitializeEpochSnapshot
  <1>8. \A o \in Operators : ~operator_snapshot[o].exists
    BY DEF SnapshotInv, OperatorInv, InitializeEpochSnapshot
  <1>9. Done' = {}
    BY <1>6, <1>8 DEF Done
  <1>10. EpochInv'
    <2>1. Cardinality(Done)' = 0
      BY <1>9, FS_EmptySet
    <2>2. weight_table' = weight_table
      BY <1>1 DEF weightVars, tableVars
    <2>3. weight_table.initialized /\ Finalized(weight_table)
      BY DEF InitializeEpochSnapshot
    <2>. QED  BY <1>3, <1>5, <2>1, <2>2, <2>3 DEF EpochInv
  <1>11. \A o \in Operators : OperatorInv(o)'
    BY <1>1, <1>6, <1>8 DEF SnapshotInv, OperatorInv, weightVars, tableVars
  <1>. QED  BY <1>1, <1>7, <1>10, <1>11 DEF SnapshotInv

\* increment_operator_registration counts one operator and leaves the rest of
\* the epoch snapshot's frame alone.
LEMMA Counted ==
    ASSUME epoch_snapshot \in EpochType, NEW d \in Nat, NEW w \in Nat
    PROVE  LET e == IncrementOperatorRegistration(d, w) IN
             /\ e \in EpochType
             /\ e.exists = epoch_snapshot.exists
             /\ e.operator_count = epoch_snapshot.operator_count
             /\ e.vault_count = epoch_snapshot.vault_count
             /\ e.operators_registered = epoch_snapshot.operators_registered + 1
  <1>. DEFINE e == IncrementOperatorRegistration(d, w)
              r == epoch_snapshot.operators_registered + 1
              n == epoch_snapshot.valid_delegations + d
              k == epoch_snapshot.stake_weight + w
  <1>1. r \in Nat /\ n \in Nat /\ k \in Nat
    BY SMTT(30) DEF EpochType
  <1>2. e = [epoch_snapshot EXCEPT !.operators_registered = r,
                                   !.valid_delegations = n, !.stake_weight = k]
    BY DEF IncrementOperatorRegistration
  <1>3. e.operators_registered = r
    BY <1>2 DEF EpochType
  <1>. HIDE DEF e, r, n, k
  <1>4. /\ e \in EpochType
        /\ e.exists = epoch_snapshot.exists
        /\ e.operator_count = epoch_snapshot.operator_count
        /\ e.vault_count = epoch_snapshot.vault_count
    BY <1>1, <1>2 DEF EpochType
  <1>. QED  BY <1>3, <1>4 DEF e, r

\* Both handlers that write an operator's snapshot replace it by one that
\* follows OperatorInv and, when that one is complete, count the operator.
LEMMA OperatorStep ==
    ASSUME SnapshotInv, epoch_snapshot.exists,
           NEW o \in Operators, o < epoch_snapshot.operator_count, o \notin Done,
           NEW s \in OperatorSnapshotType, s.exists,
           s.delegation_count = IF s.is_active THEN weight_table.vault_count ELSE 0,
           s.delegations_registered = Cardinality(s.vaults),
           s.vaults \subseteq weight_table.vaults,
           ~s.is_active => s.delegations_registered = 0,
           operator_snapshot' = [operator_snapshot EXCEPT ![o] = s],
           NEW d \in Nat, NEW w \in Nat,
           epoch_snapshot' = IF OperatorFinalized(s) THEN IncrementOperatorRegistration(d, w)
                             ELSE epoch_snapshot,
           NEW created \in [Operators -> BOOLEAN], created[o],
           NEW progress \in [Operators -> Progress],
           progress[o] = IF s.is_active
                         THEN [tally |-> s.delegations_registered,
                               total |-> s.delegation_count]
                         ELSE [tally |-> 1, total |-> 1],
           \A p \in Operators \ {o} :
               /\ created[p] = snapshot_state.operator_created[p]
               /\ progress[p] = snapshot_state.operator_progress[p],
           snapshot_state' =
               [operator_count |-> snapshot_state.operator_count,
                epoch_progress |->
                    [tally |-> IF OperatorFinalized(s)
                               THEN snapshot_state.epoch_progress.tally + 1
                               ELSE snapshot_state.epoch_progress.tally,
                     total |-> snapshot_state.epoch_progress.total],
                operator_created |-> created,
                operator_progress |-> progress],
           UNCHANGED <<weightVars, ncn_operator_count>>
    PROVE  SnapshotInv'
  <1>1. WeightInv'
    BY ReadingKeeps DEF SnapshotInv
  <1>2. /\ epoch_snapshot \in EpochType
        /\ snapshot_state \in StateType
        /\ operator_snapshot \in [Operators -> OperatorSnapshotType]
    BY DEF SnapshotInv, TypeOK, EpochType, StateType
  <1>3. /\ epoch_snapshot' \in EpochType
        /\ epoch_snapshot'.exists
        /\ epoch_snapshot'.operator_count = epoch_snapshot.operator_count
        /\ epoch_snapshot'.vault_count = epoch_snapshot.vault_count
        /\ epoch_snapshot'.operators_registered =
               IF OperatorFinalized(s) THEN epoch_snapshot.operators_registered + 1
               ELSE epoch_snapshot.operators_registered
    <2>1. CASE OperatorFinalized(s)
      BY <2>1, <1>2, Counted
    <2>2. CASE ~OperatorFinalized(s)
      BY <2>2, <1>2
    <2>. QED  BY <2>1, <2>2
  <1>4. snapshot_state' \in StateType
    <2>1. snapshot_state.epoch_progress \in Progress /\ snapshot_state.operator_count \in Nat
      BY <1>2 DEF StateType
    <2>2. snapshot_state'.epoch_progress \in Progress
      BY <2>1, SMTT(30) DEF Progress
    <2>. QED  BY <2>1, <2>2 DEF StateType
  <1>5. operator_snapshot' \in [Operators -> OperatorSnapshotType]
    BY <1>2
  <1>6. TypeOK'
    BY <1>1, <1>3, <1>4, <1>5 DEF SnapshotInv, TypeOK, WeightInv, EpochType, StateType
  <1>7. Done' = IF OperatorFinalized(s) THEN Done \cup {o} ELSE Done
    BY <1>2 DEF Done, OperatorFinalized
  <1>8. Cardinality(Done)' = IF OperatorFinalized(s) THEN Cardinality(Done) + 1
                             ELSE Cardinality(Done)
    BY <1>7, DoneFinite, FS_AddElement
  <1>9. EpochInv'
    <2>1. /\ epoch_snapshot.operators_registered = Cardinality(Done)
          /\ weight_table.initialized
          /\ Finalized(weight_table)
          /\ epoch_snapshot.vault_count = weight_table.vault_count
          /\ snapshot_state.operator_count = epoch_snapshot.operator_count
          /\ snapshot_state.epoch_progress.tally = epoch_snapshot.operators_registered
          /\ snapshot_state.epoch_progress.total = epoch_snapshot.operator_count
      BY SMTT(30) DEF SnapshotInv, EpochInv
    <2>2. weight_table' = weight_table
      BY DEF weightVars, tableVars
    <2>. QED  BY <1>3, <1>8, <2>1, <2>2 DEF EpochInv
  <1>10. ASSUME NEW p \in Operators PROVE OperatorInv(p)'
    <2>0. weight_table' = weight_table
      BY DEF weightVars, tableVars
    <2>1. CASE p = o
      BY <2>0, <2>1, <1>2, <1>3 DEF OperatorInv
    <2>2. CASE p # o
      <3>1. operator_snapshot'[p] = operator_snapshot[p]
        BY <2>2, <1>2
      <3>2. /\ snapshot_state'.operator_created[p] = snapshot_state.operator_created[p]
            /\ snapshot_state'.operator_progress[p] = snapshot_state.operator_progress[p]
        BY <2>2
      <3>3. OperatorInv(p)
        BY DEF SnapshotInv
      <3>. QED
        BY <2>0, <3>1, <3>2, <3>3, <1>3 DEF OperatorInv
    <2>. QED  BY <2>1, <2>2
  <1>. QED  BY <1>1, <1>6, <1>9, <1>10 DEF SnapshotInv

\* A new snapshot is complete at once exactly when its operator is inactive:
\* an initialized table lists at least one vault.
LEMMA InitializeOperatorKeeps ==
    ASSUME SnapshotInv, NEW o \in Operators, NEW is_active \in BOOLEAN,
           InitializeOperatorSnapshot(o, is_active)
    PROVE  SnapshotInv'
  <1>. DEFINE s == NewOperatorSnapshot(is_active)
              created == [snapshot_state.operator_created EXCEPT ![o] = TRUE]
              progress == [snapshot_state.operator_progress EXCEPT
                             ![o] = IF is_active THEN NewProgress(weight_state.vault_count)
                                    ELSE [tally |-> 1, total |-> 1]]
  <1>1. /\ epoch_snapshot.exists
        /\ o < epoch_snapshot.operator_count
        /\ o \notin Done
        /\ operator_snapshot' = [operator_snapshot EXCEPT ![o] = s]
        /\ UNCHANGED <<weightVars, ncn_operator_count>>
    BY DEF InitializeOperatorSnapshot, CanInitializeOperatorSnapshot, Done
  <1>2. /\ epoch_snapshot.vault_count = weight_table.vault_count
        /\ weight_table.vault_count \in Nat \ {0}
        /\ weight_state.vault_count = weight_table.vault_count
    BY <1>1 DEF SnapshotInv, EpochInv, WeightInv, TableCounted, WeightTypeOK, TableType
  <1>3. /\ s.exists
        /\ s.is_active = is_active
        /\ s.delegation_count = IF is_active THEN weight_table.vault_count ELSE 0
        /\ s.delegations_registered = 0
        /\ s.vaults = {}
    BY <1>2 DEF NewOperatorSnapshot, NoOperatorSnapshot
  <1>4. s \in OperatorSnapshotType
    <2>. DEFINE count == IF is_active THEN epoch_snapshot.vault_count ELSE 0
    <2>1. count \in Nat
      BY <1>2
    <2>2. NoOperatorSnapshot \in OperatorSnapshotType
      BY DEF NoOperatorSnapshot, OperatorSnapshotType
    <2>3. s = [NoOperatorSnapshot EXCEPT !.exists = TRUE, !.is_active = is_active,
                                         !.delegation_count = count]
      BY DEF NewOperatorSnapshot
    <2>. HIDE DEF s, count
    <2>. QED  BY <2>1, <2>2, <2>3 DEF OperatorSnapshotType
  <1>5. OperatorFinalized(s) <=> ~is_active
    BY <1>2, <1>3 DEF OperatorFinalized
  <1>6. epoch_snapshot' = IF OperatorFinalized(s) THEN IncrementOperatorRegistration(0, 0)
                          ELSE epoch_snapshot
    BY <1>5 DEF InitializeOperatorSnapshot
  <1>7. /\ snapshot_state \in StateType
        /\ snapshot_state.epoch_progress \in Progress
    BY DEF SnapshotInv, TypeOK, StateType
  <1>8. /\ created \in [Operators -> BOOLEAN]
        /\ created[o]
        /\ progress \in [Operators -> Progress]
        /\ progress[o] = IF s.is_active
                         THEN [tally |-> s.delegations_registered,
                               total |-> s.delegation_count]
                         ELSE [tally |-> 1, total |-> 1]
        /\ \A p \in Operators \ {o} :
               /\ created[p] = snapshot_state.operator_created[p]
               /\ progress[p] = snapshot_state.operator_progress[p]
    BY <1>2, <1>3, <1>7 DEF StateType, Progress, NewProgress
  <1>9. snapshot_state' =
            [operator_count |-> snapshot_state.operator_count,
             epoch_progress |->
                 [tally |-> IF OperatorFinalized(s)
                            THEN snapshot_state.epoch_progress.tally + 1
                            ELSE snapshot_state.epoch_progress.tally,
                  total |-> snapshot_state.epoch_progress.total],
             operator_created |-> created,
             operator_progress |-> progress]
    BY <1>5, <1>7
    DEF InitializeOperatorSnapshot, UpdateReallocOperatorSnapshot, StateType, Progress
  <1>10. /\ s.exists
         /\ s.delegation_count = IF s.is_active THEN weight_table.vault_count ELSE 0
         /\ s.delegations_registered = Cardinality(s.vaults)
         /\ s.vaults \subseteq weight_table.vaults
         /\ ~s.is_active => s.delegations_registered = 0
    BY <1>3, FS_EmptySet
  <1>. HIDE DEF s, created, progress
  <1>. QED
    BY <1>1, <1>4, <1>6, <1>8, <1>9, <1>10, OperatorStep

\* A delegation is added for a new vault of the table, to an operator whose
\* snapshot is not complete and who is therefore active.
LEMMA SnapshotDelegationKeeps ==
    ASSUME SnapshotInv, NEW o \in Operators, NEW v \in Vaults, NEW is_active \in BOOLEAN,
           NEW security \in Securities,
           SnapshotVaultOperatorDelegation(o, v, is_active, security)
    PROVE  SnapshotInv'
  <1>. DEFINE old == operator_snapshot[o]
              weight == TotalStakeWeight(v, is_active, security)
              s == IncrementDelegationRegistration(old, v, weight)
              created == snapshot_state.operator_created
              progress == [snapshot_state.operator_progress EXCEPT
                             ![o] = [tally |-> @.tally + 1, total |-> @.total]]
  <1>1. /\ epoch_snapshot.exists
        /\ old.exists
        /\ v \in weight_table.vaults
        /\ ~OperatorFinalized(old)
        /\ v \notin old.vaults
        /\ operator_snapshot' = [operator_snapshot EXCEPT ![o] = s]
        /\ UNCHANGED <<weightVars, ncn_operator_count>>
    BY DEF SnapshotVaultOperatorDelegation, CanInsertVault
  <1>2. /\ old \in OperatorSnapshotType
        /\ snapshot_state \in StateType
    BY DEF SnapshotInv, TypeOK, StateType
  <1>3. /\ o < epoch_snapshot.operator_count
        /\ o \notin Done
        /\ old.delegation_count = IF old.is_active THEN weight_table.vault_count ELSE 0
        /\ snapshot_state.operator_created[o]
        /\ snapshot_state.operator_progress[o] =
               IF old.is_active
               THEN [tally |-> old.delegations_registered, total |-> old.delegation_count]
               ELSE [tally |-> 1, total |-> 1]
        /\ old.delegations_registered = Cardinality(old.vaults)
        /\ old.vaults \subseteq weight_table.vaults
        /\ ~old.is_active => old.delegations_registered = 0
    BY <1>1 DEF SnapshotInv, OperatorInv, Done
  <1>4. old.is_active
    BY <1>1, <1>3 DEF OperatorFinalized
  <1>5. weight \in Nat
    <2>1. security \in Nat /\ weight_table.weight[SupportedMint[v]] \in Nat
      BY NetworkAssumption, OperatorsAssumption DEF SnapshotInv, TypeOK, WeightTypeOK, TableType
    <2>2. \A a, b \in Nat : a * b \in Nat
      BY SMTT(30)
    <2>. QED  BY <2>1, <2>2 DEF TotalStakeWeight
  <1>. HIDE DEF weight
  <1>6. /\ s \in OperatorSnapshotType
        /\ s.exists
        /\ s.is_active
        /\ s.delegation_count = old.delegation_count
        /\ s.delegations_registered = old.delegations_registered + 1
        /\ s.vaults = old.vaults \cup {v}
    <2>. DEFINE valid == IF weight > 0 THEN old.valid_delegations + 1
                         ELSE old.valid_delegations
                weights == [old.vault_weight EXCEPT ![v] = weight]
    <2>1. s = [old EXCEPT !.vaults = old.vaults \cup {v}, !.vault_weight = weights,
                          !.delegations_registered = old.delegations_registered + 1,
                          !.valid_delegations = valid,
                          !.stake_weight = old.stake_weight + weight]
      BY <1>2 DEF IncrementDelegationRegistration, OperatorSnapshotType
    <2>2. /\ old.vaults \cup {v} \in SUBSET Vaults
          /\ weights \in [Vaults -> Nat]
          /\ old.delegations_registered + 1 \in Nat
          /\ valid \in Nat
          /\ old.stake_weight + weight \in Nat
      BY <1>2, <1>5, SMTT(30) DEF OperatorSnapshotType
    <2>. HIDE DEF old, valid, weights, s
    <2>3. s \in OperatorSnapshotType
      BY <1>2, <2>1, <2>2 DEF OperatorSnapshotType
    <2>4. /\ s.exists = old.exists /\ s.is_active = old.is_active
          /\ s.delegation_count = old.delegation_count
          /\ s.delegations_registered = old.delegations_registered + 1
          /\ s.vaults = old.vaults \cup {v}
      BY <1>2, <2>1 DEF OperatorSnapshotType
    <2>. QED  BY <1>1, <1>4, <2>3, <2>4
  <1>7. Cardinality(s.vaults) = Cardinality(old.vaults) + 1
    <2>1. IsFiniteSet(old.vaults)
      BY <1>2, Counts DEF OperatorSnapshotType
    <2>. QED  BY <2>1, <1>1, <1>6, FS_AddElement
  <1>8. epoch_snapshot' = IF OperatorFinalized(s)
                          THEN IncrementOperatorRegistration(s.valid_delegations, s.stake_weight)
                          ELSE epoch_snapshot
    BY DEF SnapshotVaultOperatorDelegation, weight
  <1>9. snapshot_state' =
            [operator_count |-> snapshot_state.operator_count,
             epoch_progress |->
                 [tally |-> IF OperatorFinalized(s)
                            THEN snapshot_state.epoch_progress.tally + 1
                            ELSE snapshot_state.epoch_progress.tally,
                  total |-> snapshot_state.epoch_progress.total],
             operator_created |-> created,
             operator_progress |-> progress]
    <2>1. snapshot_state' = UpdateSnapshotDelegation(o, OperatorFinalized(s))
      BY DEF SnapshotVaultOperatorDelegation, weight
    <2>. HIDE DEF s
    <2>. QED  BY <2>1, <1>2 DEF UpdateSnapshotDelegation, StateType
  <1>10. /\ created \in [Operators -> BOOLEAN]
         /\ created[o]
         /\ progress \in [Operators -> Progress]
         /\ progress[o] = [tally |-> s.delegations_registered, total |-> s.delegation_count]
         /\ \A p \in Operators \ {o} :
                /\ created[p] = snapshot_state.operator_created[p]
                /\ progress[p] = snapshot_state.operator_progress[p]
    <2>. HIDE DEF s
    <2>. QED  BY <1>2, <1>3, <1>4, <1>6, SMTT(30) DEF StateType, Progress
  <1>11. s.valid_delegations \in Nat /\ s.stake_weight \in Nat
    BY <1>6 DEF OperatorSnapshotType
  <1>12. /\ s.delegation_count = IF s.is_active THEN weight_table.vault_count ELSE 0
         /\ s.delegations_registered = Cardinality(s.vaults)
         /\ s.vaults \subseteq weight_table.vaults
         /\ ~s.is_active => s.delegations_registered = 0
    BY <1>1, <1>3, <1>4, <1>6, <1>7
  <1>13. progress[o] = IF s.is_active
                       THEN [tally |-> s.delegations_registered,
                             total |-> s.delegation_count]
                       ELSE [tally |-> 1, total |-> 1]
    BY <1>6, <1>10
  <1>14. /\ created \in [Operators -> BOOLEAN]
         /\ progress \in [Operators -> Progress]
         /\ created[o]
         /\ \A p \in Operators \ {o} :
                /\ created[p] = snapshot_state.operator_created[p]
                /\ progress[p] = snapshot_state.operator_progress[p]
    BY <1>10
  <1>. HIDE DEF old, s, created, progress
  <1>15. /\ s \in OperatorSnapshotType
         /\ s.exists
    BY <1>6
  <1>16. /\ o < epoch_snapshot.operator_count
         /\ o \notin Done
    BY <1>3
  <1>17. /\ epoch_snapshot.exists
         /\ operator_snapshot' = [operator_snapshot EXCEPT ![o] = s]
         /\ UNCHANGED <<weightVars, ncn_operator_count>>
    BY <1>1
  <1>. QED
    BY <1>17, <1>16, <1>15, <1>8, <1>9, <1>11, <1>12, <1>13, <1>14, OperatorStep

\* Every instruction keeps the invariant.
LEMMA NextSnapshotInv == SnapshotInv /\ [Next]_vars => SnapshotInv'
  <1>. SUFFICES ASSUME SnapshotInv, [Next]_vars PROVE SnapshotInv'
    OBVIOUS
  <1>1. CASE WeightNext /\ UNCHANGED <<ncn_operator_count, snapshotVars>>
    BY <1>1, WeightsKeep
  <1>2. CASE NcnAddOperator
    BY <1>2, AddOperatorKeeps
  <1>3. CASE InitializeEpochSnapshot
    BY <1>3, InitializeEpochKeeps
  <1>4. CASE InitializeOperators
    BY <1>4, InitializeOperatorKeeps DEF InitializeOperators
  <1>5. CASE SnapshotDelegations
    BY <1>5, SnapshotDelegationKeeps DEF SnapshotDelegations
  <1>6. CASE UNCHANGED vars
    <2>1. WeightInv'
      BY <1>6, ReadingKeeps DEF SnapshotInv, vars
    <2>2. TypeOK'
      BY <1>6, <2>1 DEF SnapshotInv, TypeOK, WeightInv, vars, snapshotVars
    <2>3. EpochInv' /\ \A o \in Operators : OperatorInv(o)'
      BY <1>6 DEF SnapshotInv, EpochInv, OperatorInv, Done, OperatorFinalized, vars,
                  snapshotVars, weightVars, tableVars
    <2>. QED  BY <2>1, <2>2, <2>3 DEF SnapshotInv
  <1>. QED  BY <1>1, <1>2, <1>3, <1>4, <1>5, <1>6 DEF Next

\* The invariant that the results below rest on, with the accounts' types:
\* the snapshots count what they hold and EpochState counts the snapshots.
THEOREM SnapshotInvariant == Spec => []SnapshotInv
  BY InitSnapshotInv, NextSnapshotInv, PTL DEF Spec

\* Every operator enters the epoch's total once, and every vault an operator's
\* at most once, whichever of initialize_operator_snapshot and
\* snapshot_vault_operator_delegation completes the operator.
THEOREM AlwaysCountedOnce == Spec => [](OperatorsCountedOnce /\ DelegationsCountedOnce)
  <1>1. SnapshotInv => OperatorsCountedOnce /\ DelegationsCountedOnce
    <2>. SUFFICES ASSUME SnapshotInv PROVE OperatorsCountedOnce /\ DelegationsCountedOnce
      OBVIOUS
    <2>1. OperatorsCountedOnce
      BY DEF SnapshotInv, EpochInv, OperatorInv, OperatorsCountedOnce
    <2>2. epoch_snapshot.exists =>
              weight_table.vault_count = Cardinality(weight_table.vaults)
      BY DEF SnapshotInv, EpochInv, WeightInv, TableCounted
    <2>3. DelegationsCountedOnce
      BY <2>2 DEF SnapshotInv, OperatorInv, DelegationsCountedOnce
    <2>. QED  BY <2>1, <2>3
  <1>. QED  BY <1>1, SnapshotInvariant, PTL

\* What the two totals are sums of.
StakeInv ==
    /\ epoch_snapshot.stake_weight = SumFunctionOnSet(OperatorStake, Done)
    /\ \A o \in Operators : operator_snapshot[o].stake_weight =
           SumFunctionOnSet(operator_snapshot[o].vault_weight,
                            operator_snapshot[o].vaults)

\* Steps that leave the snapshots alone leave the stakes alone.
LEMMA StakesKept ==
    ASSUME StakeInv, UNCHANGED operator_snapshot,
           epoch_snapshot'.stake_weight = epoch_snapshot.stake_weight
    PROVE  StakeInv'
  <1>1. Done' = Done /\ OperatorStake' = OperatorStake
    BY DEF Done, OperatorFinalized, OperatorStake
  <1>. QED  BY <1>1 DEF StakeInv

\* Both handlers that write an operator's snapshot give it a stake that is the
\* sum of its vaults', and add that stake to the epoch's when it is complete.
LEMMA StakeStep ==
    ASSUME TypeOK, StakeInv, NEW o \in Operators, o \notin Done,
           NEW s \in OperatorSnapshotType, s.exists,
           s.stake_weight = SumFunctionOnSet(s.vault_weight, s.vaults),
           operator_snapshot' = [operator_snapshot EXCEPT ![o] = s],
           epoch_snapshot'.stake_weight =
               IF OperatorFinalized(s) THEN epoch_snapshot.stake_weight + s.stake_weight
               ELSE epoch_snapshot.stake_weight
    PROVE  StakeInv'
  <1>1. operator_snapshot \in [Operators -> OperatorSnapshotType]
    BY DEF TypeOK
  <1>2. Done' = IF OperatorFinalized(s) THEN Done \cup {o} ELSE Done
    BY <1>1 DEF Done, OperatorFinalized
  <1>3. /\ OperatorStake'[o] = s.stake_weight /\ s.stake_weight \in Nat
        /\ \A p \in Done : OperatorStake[p] \in Nat /\ OperatorStake'[p] = OperatorStake[p]
    BY <1>1 DEF OperatorStake, Done, OperatorSnapshotType
  <1>4. SumFunctionOnSet(OperatorStake', Done) = SumFunctionOnSet(OperatorStake, Done)
    BY <1>3, DoneFinite, SumSame, SMTT(30)
  <1>5. SumFunctionOnSet(OperatorStake', Done \cup {o})
            = SumFunctionOnSet(OperatorStake', Done) + OperatorStake'[o]
    BY <1>3, DoneFinite, SumAdd, SMTT(30)
  <1>6. epoch_snapshot.stake_weight = SumFunctionOnSet(OperatorStake, Done)
    BY DEF StakeInv
  <1>7. epoch_snapshot'.stake_weight = SumFunctionOnSet(OperatorStake', Done')
    <2>1. CASE OperatorFinalized(s)
      BY <2>1, <1>2, <1>3, <1>4, <1>5, <1>6
    <2>2. CASE ~OperatorFinalized(s)
      BY <2>2, <1>2, <1>4, <1>6
    <2>. QED  BY <2>1, <2>2
  <1>8. ASSUME NEW p \in Operators
        PROVE  operator_snapshot'[p].stake_weight =
                   SumFunctionOnSet(operator_snapshot'[p].vault_weight,
                                    operator_snapshot'[p].vaults)
    <2>1. CASE p = o
      BY <1>1, <2>1
    <2>2. CASE p # o
      BY <1>1, <2>2 DEF StakeInv
    <2>. QED  BY <2>1, <2>2
  <1>. QED  BY <1>7, <1>8 DEF StakeInv

\* increment_operator_registration adds the operator's stake.
LEMMA StakeCounted ==
    ASSUME epoch_snapshot \in EpochType, NEW d \in Nat, NEW w \in Nat
    PROVE  IncrementOperatorRegistration(d, w).stake_weight = epoch_snapshot.stake_weight + w
  BY DEF IncrementOperatorRegistration, EpochType

\* A new snapshot has no vaults and no stake, and an inactive operator adds
\* none to the epoch.
LEMMA InitializeOperatorStake ==
    ASSUME SnapshotInv, StakeInv, NEW o \in Operators, NEW is_active \in BOOLEAN,
           InitializeOperatorSnapshot(o, is_active)
    PROVE  StakeInv'
  <1>. DEFINE s == NewOperatorSnapshot(is_active)
  <1>1. /\ operator_snapshot' = [operator_snapshot EXCEPT ![o] = s]
        /\ o \notin Done
        /\ epoch_snapshot.exists
        /\ TypeOK
    BY DEF InitializeOperatorSnapshot, CanInitializeOperatorSnapshot, Done, SnapshotInv
  <1>2. s.exists /\ s.stake_weight = 0 /\ s.vaults = {}
    BY DEF NewOperatorSnapshot, NoOperatorSnapshot
  <1>3. s \in OperatorSnapshotType
    <2>1. SnapshotInv'
      BY InitializeOperatorKeeps
    <2>2. operator_snapshot \in [Operators -> OperatorSnapshotType]
      BY DEF SnapshotInv, TypeOK
    <2>3. operator_snapshot'[o] \in OperatorSnapshotType
      BY <2>1 DEF SnapshotInv, TypeOK
    <2>. HIDE DEF s
    <2>. QED  BY <1>1, <2>2, <2>3
  <1>4. s.stake_weight = SumFunctionOnSet(s.vault_weight, s.vaults)
    BY <1>2, SumEmpty
  <1>5. epoch_snapshot'.stake_weight = epoch_snapshot.stake_weight
    <2>1. CASE UNCHANGED epoch_snapshot
      BY <2>1
    <2>2. CASE epoch_snapshot' = IncrementOperatorRegistration(0, 0)
      <3>1. epoch_snapshot \in EpochType /\ epoch_snapshot.stake_weight \in Nat
        BY DEF SnapshotInv, TypeOK, EpochType
      <3>2. epoch_snapshot'.stake_weight = epoch_snapshot.stake_weight + 0
        BY <2>2, <3>1, StakeCounted
      <3>. QED  BY <3>1, <3>2, SMTT(30)
    <2>. QED  BY <2>1, <2>2 DEF InitializeOperatorSnapshot
  <1>6. epoch_snapshot'.stake_weight =
            IF OperatorFinalized(s) THEN epoch_snapshot.stake_weight + s.stake_weight
            ELSE epoch_snapshot.stake_weight
    <2>1. epoch_snapshot.stake_weight \in Nat
      BY DEF SnapshotInv, TypeOK
    <2>. HIDE DEF s
    <2>. QED  BY <1>2, <1>5, <2>1, SMTT(30)
  <1>. HIDE DEF s
  <1>. QED  BY <1>1, <1>2, <1>3, <1>4, <1>6, StakeStep

\* A delegation adds the weight of a vault that was not there to the stake of
\* its operator; the last one adds the operator's stake to the epoch's.
LEMMA SnapshotDelegationStake ==
    ASSUME SnapshotInv, StakeInv,
           NEW o \in Operators, NEW v \in Vaults, NEW is_active \in BOOLEAN,
           NEW security \in Securities,
           SnapshotVaultOperatorDelegation(o, v, is_active, security)
    PROVE  StakeInv'
  <1>. DEFINE old == operator_snapshot[o]
              weight == TotalStakeWeight(v, is_active, security)
              s == IncrementDelegationRegistration(old, v, weight)
  <1>1. /\ operator_snapshot' = [operator_snapshot EXCEPT ![o] = s]
        /\ old.exists
        /\ v \notin old.vaults
        /\ ~OperatorFinalized(old)
        /\ TypeOK
    BY DEF SnapshotVaultOperatorDelegation, CanInsertVault, SnapshotInv
  <1>2. old \in OperatorSnapshotType /\ o \notin Done
    BY <1>1 DEF TypeOK, Done
  <1>3. weight \in Nat
    <2>1. security \in Nat /\ weight_table.weight[SupportedMint[v]] \in Nat
      BY NetworkAssumption, OperatorsAssumption DEF SnapshotInv, TypeOK, WeightTypeOK, TableType
    <2>2. \A a, b \in Nat : a * b \in Nat
      BY SMTT(30)
    <2>. QED  BY <2>1, <2>2 DEF TotalStakeWeight
  <1>4. s \in OperatorSnapshotType
    <2>1. SnapshotInv'
      BY SnapshotDelegationKeeps
    <2>2. operator_snapshot \in [Operators -> OperatorSnapshotType]
      BY DEF SnapshotInv, TypeOK
    <2>3. operator_snapshot'[o] \in OperatorSnapshotType
      BY <2>1 DEF SnapshotInv, TypeOK
    <2>. HIDE DEF s
    <2>. QED  BY <1>1, <2>2, <2>3
  <1>5. epoch_snapshot'.stake_weight =
            IF OperatorFinalized(s) THEN epoch_snapshot.stake_weight + s.stake_weight
            ELSE epoch_snapshot.stake_weight
    <2>1. CASE OperatorFinalized(s)
      <3>1. epoch_snapshot \in EpochType
        BY DEF SnapshotInv, TypeOK, EpochType
      <3>2. s.valid_delegations \in Nat /\ s.stake_weight \in Nat
        BY <1>4 DEF OperatorSnapshotType
      <3>3. epoch_snapshot' =
                IncrementOperatorRegistration(s.valid_delegations, s.stake_weight)
        BY <2>1 DEF SnapshotVaultOperatorDelegation
      <3>. HIDE DEF s
      <3>. QED  BY <2>1, <3>1, <3>2, <3>3, StakeCounted
    <2>2. CASE ~OperatorFinalized(s)
      BY <2>2 DEF SnapshotVaultOperatorDelegation
    <2>. QED  BY <2>1, <2>2
  <1>. DEFINE weights == [old.vault_weight EXCEPT ![v] = weight]
  <1>. HIDE DEF weight
  <1>6. /\ s.exists = old.exists
        /\ s.vaults = old.vaults \cup {v}
        /\ s.vault_weight = weights
        /\ s.stake_weight = old.stake_weight + weight
    <2>. DEFINE valid == IF weight > 0 THEN old.valid_delegations + 1
                         ELSE old.valid_delegations
    <2>1. s = [old EXCEPT !.vaults = old.vaults \cup {v}, !.vault_weight = weights,
                          !.delegations_registered = old.delegations_registered + 1,
                          !.valid_delegations = valid,
                          !.stake_weight = old.stake_weight + weight]
      BY <1>2 DEF IncrementDelegationRegistration, OperatorSnapshotType
    <2>. HIDE DEF old, valid, weights, s
    <2>. QED  BY <1>2, <2>1 DEF OperatorSnapshotType
  <1>7. s.stake_weight = SumFunctionOnSet(s.vault_weight, s.vaults)
    <2>1. /\ IsFiniteSet(old.vaults)
          /\ old.vaults \subseteq Vaults /\ old.vault_weight \in [Vaults -> Nat]
      BY <1>2, Counts DEF OperatorSnapshotType
    <2>2. old.stake_weight = SumFunctionOnSet(old.vault_weight, old.vaults)
      BY DEF StakeInv
    <2>3. /\ weights[v] = weight
          /\ \A u \in old.vaults : old.vault_weight[u] \in Nat /\ weights[u] = old.vault_weight[u]
      BY <1>1, <2>1
    <2>. HIDE DEF weights, s, old
    <2>4. SumFunctionOnSet(weights, old.vaults) = SumFunctionOnSet(old.vault_weight, old.vaults)
      BY <2>1, <2>3, SumSame
    <2>5. SumFunctionOnSet(weights, old.vaults \cup {v})
              = SumFunctionOnSet(weights, old.vaults) + weights[v]
      BY <1>1, <1>3, <2>1, <2>3, SumAdd
    <2>. QED  BY <1>6, <2>2, <2>3, <2>4, <2>5
  <1>. HIDE DEF s, old, weights
  <1>8. s.exists
    BY <1>1, <1>6
  <1>. QED  BY <1>1, <1>2, <1>4, <1>5, <1>7, <1>8, StakeStep

\* The stakes add up at first and after every step.
LEMMA StakeInvInductive ==
    /\ Init => StakeInv
    /\ SnapshotInv /\ StakeInv /\ [Next]_vars => StakeInv'
  <1>1. ASSUME Init PROVE StakeInv
    <2>1. Done = {} /\ epoch_snapshot.stake_weight = 0
      BY <1>1 DEF Init, Done, NoOperatorSnapshot, NoEpochSnapshot
    <2>2. \A o \in Operators : /\ operator_snapshot[o].stake_weight = 0
                               /\ operator_snapshot[o].vaults = {}
      BY <1>1 DEF Init, NoOperatorSnapshot
    <2>. QED  BY <2>1, <2>2, SumEmpty DEF StakeInv
  <1>2. ASSUME SnapshotInv, StakeInv, [Next]_vars PROVE StakeInv'
    <2>1. CASE WeightNext /\ UNCHANGED <<ncn_operator_count, snapshotVars>>
      BY <1>2, <2>1, StakesKept DEF snapshotVars
    <2>2. CASE NcnAddOperator
      BY <1>2, <2>2, StakesKept DEF NcnAddOperator, snapshotVars
    <2>3. CASE InitializeEpochSnapshot
      <3>1. epoch_snapshot.stake_weight = 0 /\ epoch_snapshot'.stake_weight = 0
        BY <1>2, <2>3, SMTT(30) DEF InitializeEpochSnapshot, SnapshotInv, EpochInv, NoEpochSnapshot
      <3>. QED  BY <1>2, <2>3, <3>1, StakesKept DEF InitializeEpochSnapshot
    <2>4. CASE InitializeOperators
      BY <1>2, <2>4, InitializeOperatorStake DEF InitializeOperators
    <2>5. CASE SnapshotDelegations
      BY <1>2, <2>5, SnapshotDelegationStake DEF SnapshotDelegations
    <2>6. CASE UNCHANGED vars
      BY <1>2, <2>6, StakesKept DEF vars, snapshotVars
    <2>. QED  BY <1>2, <2>1, <2>2, <2>3, <2>4, <2>5, <2>6 DEF Next
  <1>. QED  BY <1>1, <1>2

\* The stake total that decides the vote is the sum of the operators' stakes,
\* and every operator's the sum of its vaults', each counted once.
THEOREM StakeAlwaysAddsUp == Spec => []StakeAddsUp
  <1>1. StakeInv /\ OperatorsCountedOnce /\ DelegationsCountedOnce => StakeAddsUp
    BY DEF StakeInv, StakeAddsUp
  <1>. QED  BY <1>1, StakeInvInductive, SnapshotInvariant, AlwaysCountedOnce, PTL DEF Spec

\* EpochState's progress of weights, epoch and operators is complete exactly
\* when the accounts are, with any number of operators and vaults.
THEOREM ProgressAlwaysExact == Spec => []ProgressExact
  <1>1. SnapshotInv /\ WeightProgressExact => ProgressExact
    <2>. SUFFICES ASSUME SnapshotInv, WeightProgressExact PROVE ProgressExact
      OBVIOUS
    <2>1. /\ epoch_snapshot.operators_registered \in Nat
          /\ epoch_snapshot.operator_count \in Nat
      BY DEF SnapshotInv, TypeOK
    <2>2. CASE epoch_snapshot.exists
      <3>1. epoch_snapshot.operators_registered <= epoch_snapshot.operator_count
        BY <2>2, DoneBounded DEF SnapshotInv, EpochInv
      <3>2. /\ snapshot_state.epoch_progress.tally <= snapshot_state.epoch_progress.total
            /\ IsComplete(snapshot_state.epoch_progress) <=> EpochFinalized
            /\ snapshot_state.operator_count = epoch_snapshot.operator_count
        BY <2>1, <2>2, <3>1, SMTT(30) DEF SnapshotInv, EpochInv, IsComplete, EpochFinalized
      <3>3. ASSUME NEW o \in Operators, operator_snapshot[o].exists
            PROVE  /\ snapshot_state.operator_created[o]
                   /\ IsComplete(snapshot_state.operator_progress[o])
                        <=> OperatorFinalized(operator_snapshot[o])
        <4>. DEFINE s == operator_snapshot[o]
        <4>1. s \in OperatorSnapshotType
          BY DEF SnapshotInv, TypeOK
        <4>2. weight_table.vaults \in SUBSET Vaults
          BY DEF SnapshotInv, TypeOK, WeightTypeOK, TableType
        <4>3. OperatorInv(o)
          BY DEF SnapshotInv
        <4>4. Cardinality(s.vaults) <= Cardinality(weight_table.vaults)
          BY <4>2, <4>3, Counts, FS_Subset DEF OperatorInv
        <4>5. weight_table.vault_count = Cardinality(weight_table.vaults)
          BY <2>2 DEF SnapshotInv, EpochInv, WeightInv, TableCounted
        <4>6. s.delegations_registered \in Nat /\ s.delegation_count \in Nat
          BY <4>1 DEF OperatorSnapshotType
        <4>. QED
          BY <3>3, <4>3, <4>4, <4>5, <4>6, SMTT(30) DEF OperatorInv, IsComplete, OperatorFinalized
      <3>. QED  BY <2>2, <3>2, <3>3 DEF ProgressExact
    <2>3. CASE ~epoch_snapshot.exists
      <3>1. snapshot_state.epoch_progress.tally <= snapshot_state.epoch_progress.total
        BY <2>3, SMTT(30) DEF SnapshotInv, EpochInv, NewProgress
      <3>2. \A o \in Operators : ~operator_snapshot[o].exists
        BY <2>3 DEF SnapshotInv, OperatorInv
      <3>. QED  BY <2>3, <3>1, <3>2 DEF ProgressExact
    <2>. QED  BY <2>2, <2>3
  <1>. QED  BY <1>1, SnapshotInvariant, WeightProgressAlwaysExact, PTL

\* No transaction changes a finalized weight table or anything behind a
\* completed epoch snapshot: all operators of the snapshot are complete then,
\* so there is none whose snapshot could still be created or added to.
THEOREM FinalStaysFrozen == Spec => FinalIsFrozen
  <1>. DEFINE Frozen == epoch_snapshot.exists /\ EpochFinalized
                          => UNCHANGED <<snapshotVars, tableVars>>
  <1>1. SnapshotInv /\ [Next]_vars => [Frozen]_vars
    <2>. SUFFICES ASSUME SnapshotInv, Next, epoch_snapshot.exists, EpochFinalized
                  PROVE  UNCHANGED <<snapshotVars, tableVars>>
      OBVIOUS
    <2>1. \A o \in Operators : o < epoch_snapshot.operator_count => o \in Done
      BY DoneBounded
    <2>2. ~InitializeOperators
      BY <2>1 DEF InitializeOperators, InitializeOperatorSnapshot,
                  CanInitializeOperatorSnapshot, Done
    <2>3. ~SnapshotDelegations
      <3>1. \A o \in Operators : operator_snapshot[o].exists
                => OperatorFinalized(operator_snapshot[o])
        BY <2>1 DEF Done, SnapshotInv, OperatorInv
      <3>. QED
        BY <3>1, SMTT(30) DEF SnapshotDelegations, SnapshotVaultOperatorDelegation, CanInsertVault
    <2>4. CASE WeightNext /\ UNCHANGED <<ncn_operator_count, snapshotVars>>
      BY <2>4, FrozenStep DEF SnapshotInv, EpochInv
    <2>5. CASE NcnAddOperator
      BY <2>5 DEF NcnAddOperator, weightVars
    <2>6. ~InitializeEpochSnapshot
      BY DEF InitializeEpochSnapshot
    <2>. QED  BY <2>2, <2>3, <2>4, <2>5, <2>6 DEF Next
  <1>2. Spec => [][Frozen]_vars
    BY <1>1, SnapshotInvariant, PTL DEF Spec
  <1>. QED  BY <1>2, WeightsStayFrozen, PTL DEF FinalIsFrozen

============================================================================
