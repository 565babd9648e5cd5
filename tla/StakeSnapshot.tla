--------------------------- MODULE StakeSnapshot ---------------------------
(***************************************************************************)
(* The stake snapshot of one epoch (core/src/epoch_snapshot.rs and its     *)
(* handlers) on top of the weight table.  The epoch snapshot fixes how many*)
(* operators and vaults take part; every operator has a snapshot of its    *)
(* own, to which the delegation of each vault is added by a separate       *)
(* transaction; the transaction that completes an operator also adds the   *)
(* operator to the epoch snapshot.  Votes are accepted once all operators  *)
(* are in.                                                                 *)
(*                                                                         *)
(* The restaking network is external: whether an operator or a vault is    *)
(* active, and how much it delegates, is read at the time of the           *)
(* transaction and may differ from one transaction to the next.            *)
(***************************************************************************)
EXTENDS WeightTable, Functions

CONSTANTS
    Operators,      \* NcnOperatorState::index of the operators, from 0
    Securities,     \* DelegationState::total_security of a delegation
    MAX_OPERATORS   \* slots for operators in EpochState

ASSUME OperatorsAssumption ==
    /\ Operators \subseteq Nat
    /\ IsFiniteSet(Operators)
    /\ Securities \subseteq Nat
    /\ MAX_OPERATORS \in Nat

VARIABLES
    ncn_operator_count, \* external: Ncn::operator_count
    epoch_snapshot,     \* EpochSnapshot of the epoch
    operator_snapshot,  \* OperatorSnapshot of every operator
    snapshot_state      \* what EpochState keeps of the snapshots

snapshotVars == <<epoch_snapshot, operator_snapshot, snapshot_state>>
vars == <<weightVars, ncn_operator_count, snapshotVars>>

NoEpochSnapshot ==
    [exists |-> FALSE, operator_count |-> 0, vault_count |-> 0,
     operators_registered |-> 0, valid_delegations |-> 0, stake_weight |-> 0]

NoOperatorSnapshot ==
    [exists |-> FALSE, is_active |-> FALSE, delegation_count |-> 0,
     delegations_registered |-> 0, valid_delegations |-> 0, vaults |-> {},
     vault_weight |-> [v \in Vaults |-> 0], stake_weight |-> 0]

\* EpochSnapshot::finalized, for an account that exists.
EpochFinalized ==
    epoch_snapshot.operators_registered = epoch_snapshot.operator_count

\* OperatorSnapshot::finalized
OperatorFinalized(snapshot) ==
    snapshot.delegations_registered = snapshot.delegation_count

Init ==
    /\ WeightInit
    /\ ncn_operator_count = 0
    /\ epoch_snapshot = NoEpochSnapshot
    /\ operator_snapshot = [o \in Operators |-> NoOperatorSnapshot]
    /\ snapshot_state = [operator_count |-> 0,
                         epoch_progress |-> NewProgress(0),
                         operator_created |-> [o \in Operators |-> FALSE],
                         operator_progress |-> [o \in Operators |-> NewProgress(0)]]

----------------------------------------------------------------------------
(* The restaking program: an operator joins the NCN and gets the next index.*)

NcnAddOperator ==
    /\ ncn_operator_count \in Operators
    /\ ncn_operator_count' = ncn_operator_count + 1
    /\ UNCHANGED <<weightVars, snapshotVars>>

----------------------------------------------------------------------------
(* The epoch snapshot.                                                     *)

\* EpochState::update_initialize_epoch_snapshot
UpdateInitializeEpochSnapshot(count) ==
    [snapshot_state EXCEPT !.operator_count = count,
                           !.epoch_progress = NewProgress(count)]

\* process_initialize_epoch_snapshot
InitializeEpochSnapshot ==
    /\ ~epoch_snapshot.exists
    /\ weight_table.initialized
    /\ Finalized(weight_table)
    /\ ncn_operator_count # 0
    /\ epoch_snapshot' = [NoEpochSnapshot EXCEPT
           !.exists = TRUE, !.operator_count = ncn_operator_count,
           !.vault_count = weight_table.vault_count]
    /\ snapshot_state' = UpdateInitializeEpochSnapshot(ncn_operator_count)
    /\ UNCHANGED <<weightVars, ncn_operator_count, operator_snapshot>>

\* EpochSnapshot::increment_operator_registration, which fails on a finalized
\* snapshot.
IncrementOperatorRegistration(delegations, stake_weight) ==
    [epoch_snapshot EXCEPT
        !.operators_registered = @ + 1,
        !.valid_delegations = @ + delegations,
        !.stake_weight = @ + stake_weight]

----------------------------------------------------------------------------
(* The operator snapshots.                                                 *)

\* Mutant of NewOperatorSnapshot: the vaults are counted in the registry.
NewOperatorSnapshot_Registry(is_active) ==
    [NoOperatorSnapshot EXCEPT
        !.exists = TRUE, !.is_active = is_active,
        !.delegation_count = IF is_active THEN Cardinality(registry.vaults) ELSE 0]

\* OperatorSnapshot::initialize: an inactive operator has nothing to wait for.
NewOperatorSnapshot(is_active) ==
    [NoOperatorSnapshot EXCEPT
        !.exists = TRUE, !.is_active = is_active,
        !.delegation_count = IF is_active THEN epoch_snapshot.vault_count ELSE 0]

\* EpochState::update_realloc_operator_snapshot
UpdateReallocOperatorSnapshot(o, is_active) ==
    [snapshot_state EXCEPT
        !.operator_created[o] = TRUE,
        !.operator_progress[o] =
            IF is_active THEN NewProgress(weight_state.vault_count)
            ELSE [tally |-> 1, total |-> 1],
        !.epoch_progress.tally = IF is_active THEN @ ELSE @ + 1]

\* Mutant of CanInitializeOperatorSnapshot: operators that joined after the
\* epoch snapshot are let in.
CanInitializeOperatorSnapshot_Late(o) ==
    /\ o < ncn_operator_count
    /\ epoch_snapshot.exists
    /\ ~operator_snapshot[o].exists
    /\ o < MAX_OPERATORS

\* The account checks of the handler, the bound on the index and EpochState's
\* array of operators, which an index from MAX_OPERATORS on overruns.
CanInitializeOperatorSnapshot(o) ==
    /\ o < ncn_operator_count
    /\ epoch_snapshot.exists
    /\ ~operator_snapshot[o].exists
    /\ o < epoch_snapshot.operator_count
    /\ o < MAX_OPERATORS

\* process_initialize_operator_snapshot
InitializeOperatorSnapshot(o, is_active) ==
    /\ CanInitializeOperatorSnapshot(o)
    /\ epoch_snapshot.vault_count <= MAX_VAULTS
    /\ operator_snapshot' =
           [operator_snapshot EXCEPT ![o] = NewOperatorSnapshot(is_active)]
    /\ \/ is_active /\ UNCHANGED epoch_snapshot
       \/ /\ ~is_active
          /\ ~EpochFinalized
          /\ epoch_snapshot' = IncrementOperatorRegistration(0, 0)
    /\ snapshot_state' = UpdateReallocOperatorSnapshot(o, is_active)
    /\ UNCHANGED <<weightVars, ncn_operator_count>>

\* OperatorSnapshot::calculate_total_stake_weight; a vault or delegation that
\* is not active weighs nothing.
TotalStakeWeight(v, is_active, security) ==
    IF is_active THEN security * weight_table.weight[SupportedMint[v]] ELSE 0

\* Mutant of CanInsertVault: a vault may be inserted twice.
CanInsertVault_Twice(snapshot, v) ==
    /\ ~OperatorFinalized(snapshot)
    /\ snapshot.delegations_registered + 1 <= MAX_VAULTS

\* The refusals of increment_vault_operator_delegation_registration and
\* insert_vault_operator_stake_weight.
CanInsertVault(snapshot, v) ==
    /\ ~OperatorFinalized(snapshot)
    /\ snapshot.delegations_registered + 1 <= MAX_VAULTS
    /\ v \notin snapshot.vaults

\* OperatorSnapshot::increment_vault_operator_delegation_registration
IncrementDelegationRegistration(snapshot, v, weight) ==
    [snapshot EXCEPT
        !.vaults = @ \cup {v},
        !.vault_weight[v] = weight,
        !.delegations_registered = @ + 1,
        !.valid_delegations = IF weight > 0 THEN @ + 1 ELSE @,
        !.stake_weight = @ + weight]

\* Mutant of UpdateSnapshotDelegation: the epoch's progress counts vaults.
UpdateSnapshotDelegation_Every(o, finalized) ==
    [snapshot_state EXCEPT
        !.operator_progress[o] = [tally |-> @.tally + 1, total |-> @.total],
        !.epoch_progress = [tally |-> @.tally + 1, total |-> @.total]]

\* EpochState::update_snapshot_vault_operator_delegation
UpdateSnapshotDelegation(o, finalized) ==
    [snapshot_state EXCEPT
        !.operator_progress[o] = [tally |-> @.tally + 1, total |-> @.total],
        !.epoch_progress = [tally |-> IF finalized THEN @.tally + 1 ELSE @.tally,
                            total |-> @.total]]

\* process_snapshot_vault_operator_delegation.  A vault that needs an update
\* makes it fail; the keeper updates vaults first.
SnapshotVaultOperatorDelegation(o, v, is_active, security) ==
    LET weight == TotalStakeWeight(v, is_active, security)
        snapshot == IncrementDelegationRegistration(operator_snapshot[o], v, weight)
    IN  /\ weight_table.initialized
        /\ epoch_snapshot.exists
        /\ operator_snapshot[o].exists
        /\ v \in ncn_vaults
        /\ v \in weight_table.vaults
        /\ is_active => SupportedMint[v] \in weight_table.mints
        /\ CanInsertVault(operator_snapshot[o], v)
        /\ operator_snapshot' = [operator_snapshot EXCEPT ![o] = snapshot]
        /\ \/ ~OperatorFinalized(snapshot) /\ UNCHANGED epoch_snapshot
           \/ /\ OperatorFinalized(snapshot)
              /\ ~EpochFinalized
              /\ epoch_snapshot' = IncrementOperatorRegistration(
                     snapshot.valid_delegations, snapshot.stake_weight)
        /\ snapshot_state' =
               UpdateSnapshotDelegation(o, OperatorFinalized(snapshot))
        /\ UNCHANGED <<weightVars, ncn_operator_count>>

----------------------------------------------------------------------------

\* The transactions crank_snapshot sends, for all operators and vaults.
InitializeOperators ==
    \E o \in Operators, active \in BOOLEAN : InitializeOperatorSnapshot(o, active)

SnapshotDelegations ==
    \E o \in Operators, v \in Vaults, active \in BOOLEAN, s \in Securities :
        SnapshotVaultOperatorDelegation(o, v, active, s)

Next ==
    \/ WeightNext /\ UNCHANGED <<ncn_operator_count, snapshotVars>>
    \/ NcnAddOperator
    \/ InitializeEpochSnapshot
    \/ InitializeOperators
    \/ SnapshotDelegations

Spec == Init /\ [][Next]_vars

\* The keeper repeats crank_snapshot as long as the epoch is in the Snapshot
\* state, as it did the cranks of the weight table before, and anybody may
\* send these transactions.
Fairness ==
    /\ WeightFairness
    /\ WF_vars(InitializeOperators)
    /\ WF_vars(SnapshotDelegations)

FairSpec == Spec /\ Fairness

----------------------------------------------------------------------------

OperatorSnapshotType ==
    [exists : BOOLEAN, is_active : BOOLEAN, delegation_count : Nat,
     delegations_registered : Nat, valid_delegations : Nat,
     vaults : SUBSET Vaults, vault_weight : [Vaults -> Nat],
     stake_weight : Nat]

\* The accounts of the snapshot hold values of their types.
TypeOK ==
    /\ WeightTypeOK
    /\ ncn_operator_count \in Nat
    /\ epoch_snapshot \in
           [exists : BOOLEAN, operator_count : Nat, vault_count : Nat,
            operators_registered : Nat, valid_delegations : Nat,
            stake_weight : Nat]
    /\ operator_snapshot \in [Operators -> OperatorSnapshotType]
    /\ snapshot_state \in
           [operator_count : Nat, epoch_progress : Progress,
            operator_created : [Operators -> BOOLEAN],
            operator_progress : [Operators -> Progress]]

\* The operators whose snapshots are complete.
Done == {o \in Operators : operator_snapshot[o].exists
                             /\ OperatorFinalized(operator_snapshot[o])}

\* The stake of every operator.
OperatorStake == [o \in Operators |-> operator_snapshot[o].stake_weight]

\* Operators enter the epoch snapshot exactly once, when their own snapshot
\* completes, whichever of the two handlers completes it; no operator from
\* outside the snapshot enters, so the count cannot pass operator_count.
OperatorsCountedOnce ==
    /\ epoch_snapshot.operators_registered = Cardinality(Done)
    /\ \A o \in Operators : operator_snapshot[o].exists =>
           epoch_snapshot.exists /\ o < epoch_snapshot.operator_count

\* Every vault enters an operator's snapshot at most once, only vaults of the
\* epoch's weight table do, and an active operator waits for exactly as many
\* as the table lists: the snapshot of an operator can always be completed,
\* however much the registry has grown since.
DelegationsCountedOnce ==
    \A o \in Operators : LET s == operator_snapshot[o] IN
        /\ s.delegations_registered = Cardinality(s.vaults)
        /\ s.vaults \subseteq weight_table.vaults
        /\ s.exists => s.delegation_count =
               IF s.is_active THEN Cardinality(weight_table.vaults) ELSE 0

\* The stake total that decides the vote is the sum of the stakes of the
\* operators, and an operator's is the sum of its vaults'.  No stake is
\* counted twice and none is missed, whichever handler completes an operator
\* and however much registry and network have grown since the table was
\* copied.
StakeAddsUp ==
    /\ OperatorsCountedOnce
    /\ DelegationsCountedOnce
    /\ epoch_snapshot.stake_weight = SumFunctionOnSet(OperatorStake, Done)
    /\ \A o \in Operators : operator_snapshot[o].stake_weight =
           SumFunctionOnSet(operator_snapshot[o].vault_weight,
                            operator_snapshot[o].vaults)

\* EpochState's progress is complete exactly when the accounts themselves are
\* finalized, for the weights, the epoch and every operator, and never counts
\* past its total: the keeper neither moves on early nor waits for something
\* already done.
ProgressExact ==
    /\ WeightProgressExact
    /\ snapshot_state.epoch_progress.tally <= snapshot_state.epoch_progress.total
    /\ epoch_snapshot.exists =>
         /\ IsComplete(snapshot_state.epoch_progress) <=> EpochFinalized
         /\ snapshot_state.operator_count = epoch_snapshot.operator_count
    /\ \A o \in Operators : operator_snapshot[o].exists =>
         /\ snapshot_state.operator_created[o]
         /\ IsComplete(snapshot_state.operator_progress[o])
              <=> OperatorFinalized(operator_snapshot[o])

\* What is final stays as it is, whatever registry, network and admins do: no
\* transaction changes a finalized weight table (WeightsFrozen), and none
\* changes a completed epoch snapshot, the operators' snapshots or the
\* weights behind it, so votes are counted against the stakes the total was
\* computed from.
FinalIsFrozen ==
    /\ WeightsFrozen
    /\ [][epoch_snapshot.exists /\ EpochFinalized
            => UNCHANGED <<snapshotVars, tableVars>>]_vars

\* With a keeper that keeps cranking every epoch snapshot is completed, unless
\* the NCN had more operators than EpochState has room for.
SnapshotCompletes ==
    epoch_snapshot.exists ~>
        \/ EpochFinalized
        \/ epoch_snapshot.operator_count > MAX_OPERATORS

============================================================================
