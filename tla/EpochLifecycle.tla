--------------------------- MODULE EpochLifecycle ---------------------------
(***************************************************************************)
(* The accounts of one epoch, from initialize_epoch_state to the marker    *)
(* that closing the epoch leaves behind (core/src/epoch_state.rs, the      *)
(* initialize_*, realloc_* and close_epoch_account handlers).  EpochState  *)
(* records a status for every other account and stops being written when   *)
(* it is closed itself, which needs all of them to be closed.              *)
(*                                                                         *)
(* The contents of the accounts are reduced to what the lifecycle asks of  *)
(* them: whether the weights are final, which operators are snapshotted    *)
(* and when consensus was reached.  WeightTable, StakeSnapshot and         *)
(* BallotBox model how they come about.                                    *)
(***************************************************************************)
EXTENDS Integers, FiniteSets

CONSTANTS
    Operators,          \* operators counted by the epoch snapshot
    SLOTS_PER_EPOCH,    \* EpochSchedule, without warm-up
    MIN_EPOCHS_BEFORE_CLOSE,  \* MIN_EPOCHS_AFTER_CONSENSUS_BEFORE_CLOSE
    MAX_EPOCHS_BEFORE_CLOSE,  \* MAX_EPOCHS_AFTER_CONSENSUS_BEFORE_CLOSE
    MIN_VALID_SLOTS,    \* MIN_VALID_SLOTS_AFTER_CONSENSUS
    MAX_VALID_SLOTS,    \* MAX_VALID_SLOTS_AFTER_CONSENSUS
    MaxVoteSlot,        \* bound: consensus is reached by this slot
    MaxSlot             \* bound on the clock

ASSUME LifecycleAssumption ==
    /\ IsFiniteSet(Operators)
    /\ Operators # {}
    /\ SLOTS_PER_EPOCH \in Nat \ {0}
    /\ MIN_EPOCHS_BEFORE_CLOSE \in Nat
    /\ MAX_EPOCHS_BEFORE_CLOSE \in Nat
    /\ MIN_EPOCHS_BEFORE_CLOSE <= MAX_EPOCHS_BEFORE_CLOSE
    /\ MIN_VALID_SLOTS \in Nat
    /\ MAX_VALID_SLOTS \in Nat
    /\ MIN_VALID_SLOTS <= MAX_VALID_SLOTS
    /\ MaxVoteSlot \in Nat
    /\ MaxSlot \in Nat

\* The accounts EpochAccountStatus has an entry for, EpochState apart.
WeightTable == <<"weight_table", 0>>
EpochSnapshot == <<"epoch_snapshot", 0>>
BallotBox == <<"ballot_box", 0>>
NCNRewardRouter == <<"ncn_reward_router", 0>>
OperatorSnapshot(o) == <<"operator_snapshot", o>>
OperatorVaultRewardRouter(o) == <<"operator_vault_reward_router", o>>

EpochAccounts == {WeightTable, EpochSnapshot, BallotBox, NCNRewardRouter}
OperatorAccounts == {OperatorSnapshot(o) : o \in Operators}
                      \cup {OperatorVaultRewardRouter(o) : o \in Operators}
Accounts == EpochAccounts \cup OperatorAccounts

NotReached == -1  \* DEFAULT_CONSENSUS_REACHED_SLOT

VARIABLES
    slot,              \* Clock::slot
    config,            \* the parameters the lifecycle depends on
    account,           \* "none", "allocated" (no discriminator yet) or "live"
    epoch_state_live,  \* the EpochState account exists
    epoch_marker,      \* the EpochMarker account exists
    status,            \* EpochState::account_status
    is_closing,        \* EpochState::is_closing
    slot_consensus_reached, \* EpochState::slot_consensus_reached
    weights_final,     \* WeightTable::finalized
    operators_done     \* operators with a finalized OperatorSnapshot

progressVars == <<slot_consensus_reached, weights_final, operators_done>>
stateVars == <<epoch_state_live, epoch_marker, status, is_closing>>
vars == <<slot, config, account, stateVars, progressVars>>

Epoch(s) == s \div SLOTS_PER_EPOCH

IsConsensusReached == slot_consensus_reached # NotReached

SnapshotFinal == operators_done = Operators

Init ==
    /\ slot = 0
    /\ config \in [close : MIN_EPOCHS_BEFORE_CLOSE..MAX_EPOCHS_BEFORE_CLOSE,
                   valid : MIN_VALID_SLOTS..MAX_VALID_SLOTS]
    /\ account = [a \in Accounts |-> "none"]
    /\ epoch_state_live = FALSE
    /\ epoch_marker = FALSE
    /\ status = [a \in Accounts |-> "DNE"]
    /\ is_closing = FALSE
    /\ slot_consensus_reached = NotReached
    /\ weights_final = FALSE
    /\ operators_done = {}

----------------------------------------------------------------------------
(* Creating the accounts.                                                  *)

\* Mutant of InitializeEpochState: the marker is not looked at.
InitializeEpochState_NoMarker ==
    /\ ~epoch_state_live
    /\ epoch_state_live' = TRUE
    /\ status' = [a \in Accounts |-> "DNE"]
    /\ is_closing' = FALSE
    /\ slot_consensus_reached' = NotReached
    /\ UNCHANGED <<slot, config, account, epoch_marker, weights_final,
                   operators_done>>

\* process_initialize_epoch_state
InitializeEpochState ==
    /\ ~epoch_state_live
    /\ ~epoch_marker
    /\ epoch_state_live' = TRUE
    /\ status' = [a \in Accounts |-> "DNE"]
    /\ is_closing' = FALSE
    /\ slot_consensus_reached' = NotReached
    /\ UNCHANGED <<slot, config, account, epoch_marker, weights_final,
                   operators_done>>

\* What every initialize_* handler checks: load_and_check_is_closing,
\* EpochMarker::check_dne and load_system_account on the new account.
MayCreate(a) ==
    /\ epoch_state_live
    /\ ~is_closing
    /\ ~epoch_marker
    /\ account[a] = "none"

\* Accounts that are larger than one allocation start without discriminator
\* and without a status: process_initialize_weight_table, _ballot_box and
\* _ncn_reward_router.
Allocate(a) ==
    /\ MayCreate(a)
    /\ account' = [account EXCEPT ![a] = "allocated"]
    /\ UNCHANGED <<slot, config, stateVars, progressVars>>

InitializeWeightTable == Allocate(WeightTable)
InitializeBallotBox == Allocate(BallotBox)
InitializeNCNRewardRouter == Allocate(NCNRewardRouter)

\* The last of the realloc calls writes the discriminator and the status; it
\* asks neither whether the epoch is closing nor for the marker.
Complete(a, created) ==
    /\ epoch_state_live
    /\ account[a] = "allocated"
    /\ account' = [account EXCEPT ![a] = "live"]
    /\ status' = [status EXCEPT ![a] = created]
    /\ UNCHANGED <<slot, config, epoch_state_live, epoch_marker, is_closing,
                   progressVars>>

ReallocWeightTable == Complete(WeightTable, "Created")
ReallocBallotBox == Complete(BallotBox, "Created")
ReallocNCNRewardRouter == Complete(NCNRewardRouter, "CreatedWithReceiver")

\* An account that is created at its full size.
Create(a, created) ==
    /\ MayCreate(a)
    /\ account' = [account EXCEPT ![a] = "live"]
    /\ status' = [status EXCEPT ![a] = created]
    /\ UNCHANGED <<slot, config, epoch_state_live, epoch_marker, is_closing>>

InitializeEpochSnapshot ==
    /\ account[WeightTable] = "live"
    /\ weights_final
    /\ Create(EpochSnapshot, "Created")
    /\ UNCHANGED progressVars

\* An inactive operator is done at once.
InitializeOperatorSnapshot(o, is_active) ==
    /\ account[EpochSnapshot] = "live"
    /\ Create(OperatorSnapshot(o), "Created")
    /\ operators_done' = IF is_active THEN operators_done
                         ELSE operators_done \cup {o}
    /\ UNCHANGED <<slot_consensus_reached, weights_final>>

InitializeOperatorVaultRewardRouter(o) ==
    /\ account[OperatorSnapshot(o)] = "live"
    /\ Create(OperatorVaultRewardRouter(o), "CreatedWithReceiver")
    /\ UNCHANGED progressVars

----------------------------------------------------------------------------
(* The work of the epoch, as far as the lifecycle depends on it.           *)

\* The call of set_epoch_weights or admin_set_weight that finalizes.
FinalizeWeights ==
    /\ epoch_state_live
    /\ account[WeightTable] = "live"
    /\ ~weights_final
    /\ weights_final' = TRUE
    /\ UNCHANGED <<slot, config, account, stateVars, slot_consensus_reached,
                   operators_done>>

\* The call of snapshot_vault_operator_delegation that completes an operator.
CompleteOperatorSnapshot(o) ==
    /\ epoch_state_live
    /\ account[WeightTable] = "live"
    /\ account[EpochSnapshot] = "live"
    /\ account[OperatorSnapshot(o)] = "live"
    /\ o \notin operators_done
    /\ operators_done' = operators_done \cup {o}
    /\ UNCHANGED <<slot, config, account, stateVars, slot_consensus_reached,
                   weights_final>>

\* The cast_vote or admin_set_tie_breaker that decides the epoch.
ReachConsensus ==
    /\ epoch_state_live
    /\ account[BallotBox] = "live"
    /\ account[EpochSnapshot] = "live"
    /\ SnapshotFinal
    /\ ~IsConsensusReached
    /\ slot <= MaxVoteSlot
    /\ slot_consensus_reached' = slot
    /\ UNCHANGED <<slot, config, account, stateVars, weights_final,
                   operators_done>>

----------------------------------------------------------------------------
(* Closing the accounts.                                                   *)

\* Mutant of CanCloseEpochAccounts: consensus is not asked for.
CanCloseEpochAccounts_AnyTime ==
    Epoch(slot) - Epoch(slot_consensus_reached) >= config.close

\* Mutant of CanCloseEpochAccounts: an exact number of epochs.
CanCloseEpochAccounts_Exactly ==
    /\ IsConsensusReached
    /\ Epoch(slot) - Epoch(slot_consensus_reached) = config.close

\* EpochState::can_close_epoch_accounts
CanCloseEpochAccounts ==
    /\ IsConsensusReached
    /\ Epoch(slot) - Epoch(slot_consensus_reached) >= config.close

\* Mutant of AreAllClosed: accounts that never were are fine everywhere.
AreAllClosed_OrAbsent ==
    \A a \in Accounts : status[a] \in {"Closed", "DNE"}

\* Mutant of AreAllClosed: every operator must have had its accounts.
AreAllClosed_Every == \A a \in Accounts : status[a] = "Closed"

\* EpochAccountStatus::are_all_closed
AreAllClosed ==
    /\ \A a \in EpochAccounts : status[a] = "Closed"
    /\ \A a \in OperatorAccounts : status[a] \in {"DNE", "Closed"}

\* Mutant of CloseAccount: the status is not updated.
CloseAccount_NoStatus(a) ==
    /\ epoch_state_live
    /\ ~epoch_marker
    /\ account[a] = "live"
    /\ CanCloseEpochAccounts
    /\ is_closing' = TRUE
    /\ account' = [account EXCEPT ![a] = "none"]
    /\ UNCHANGED <<slot, config, epoch_state_live, epoch_marker, status,
                   progressVars>>

\* process_close_epoch_account on an account other than EpochState; one
\* without discriminator is refused.  A router goes with its receiver.
CloseAccount(a) ==
    /\ epoch_state_live
    /\ ~epoch_marker
    /\ account[a] = "live"
    /\ CanCloseEpochAccounts
    /\ is_closing' = TRUE
    /\ status' = [status EXCEPT ![a] = "Closed"]
    /\ account' = [account EXCEPT ![a] = "none"]
    /\ UNCHANGED <<slot, config, epoch_state_live, epoch_marker, progressVars>>

\* process_close_epoch_account on EpochState: the marker takes its place.
CloseEpochState ==
    /\ epoch_state_live
    /\ ~epoch_marker
    /\ CanCloseEpochAccounts
    /\ AreAllClosed
    /\ is_closing' = TRUE
    /\ epoch_state_live' = FALSE
    /\ epoch_marker' = TRUE
    /\ UNCHANGED <<slot, config, account, status, progressVars>>

----------------------------------------------------------------------------

\* process_admin_set_parameters, restricted to the parameters used here.
AdminSetParameters(close, valid) ==
    /\ close \in MIN_EPOCHS_BEFORE_CLOSE..MAX_EPOCHS_BEFORE_CLOSE
    /\ valid \in MIN_VALID_SLOTS..MAX_VALID_SLOTS
    /\ config' = [close |-> close, valid |-> valid]
    /\ UNCHANGED <<slot, account, stateVars, progressVars>>

ClockTick ==
    /\ slot < MaxSlot
    /\ slot' = slot + 1
    /\ UNCHANGED <<config, account, stateVars, progressVars>>

Create_ ==
    \/ InitializeEpochState
    \/ InitializeWeightTable \/ ReallocWeightTable
    \/ InitializeBallotBox \/ ReallocBallotBox
    \/ InitializeNCNRewardRouter \/ ReallocNCNRewardRouter
    \/ InitializeEpochSnapshot
    \/ \E o \in Operators, active \in BOOLEAN :
           InitializeOperatorSnapshot(o, active)
    \/ \E o \in Operators : InitializeOperatorVaultRewardRouter(o)

Work ==
    \/ FinalizeWeights
    \/ \E o \in Operators : CompleteOperatorSnapshot(o)
    \/ ReachConsensus

Close ==
    \/ \E a \in Accounts : CloseAccount(a)
    \/ CloseEpochState

Next ==
    \/ Create_
    \/ Work
    \/ Close
    \/ \E c \in 0..MAX_EPOCHS_BEFORE_CLOSE + 1, v \in 0..MAX_VALID_SLOTS + 1 :
           AdminSetParameters(c, v)
    \/ ClockTick

Spec == Init /\ [][Next]_vars

\* Time passes, an allocation that was begun is completed and somebody closes
\* what can be closed; closing is open to anybody.
Fairness ==
    /\ WF_vars(ClockTick)
    /\ WF_vars(ReallocNCNRewardRouter)
    /\ WF_vars(Close)

FairSpec == Spec /\ Fairness

----------------------------------------------------------------------------
(* EpochState::current_state, the phase that keeper and operators act on.   *)

CanStartRouting ==
    IsConsensusReached /\ slot >= slot_consensus_reached + config.valid

\* Phases in the order of the epoch.
Phases == [SetWeight |-> 0, Snapshot |-> 1, Vote |-> 2, PostVoteCooldown |-> 3,
           Distribute |-> 4, Close |-> 5]

\* Mutant of CurrentState: the ballot box need not be there for Vote.
CurrentState_NoBallotBox ==
    IF CanCloseEpochAccounts THEN "Close"
    ELSE IF status[WeightTable] = "DNE" \/ ~weights_final THEN "SetWeight"
    ELSE IF status[EpochSnapshot] = "DNE" \/ ~SnapshotFinal THEN "Snapshot"
    ELSE IF ~IsConsensusReached THEN "Vote"
    ELSE IF ~CanStartRouting THEN "PostVoteCooldown"
    ELSE "Distribute"

\* EpochState::current_state
CurrentState ==
    IF CanCloseEpochAccounts THEN "Close"
    ELSE IF status[WeightTable] = "DNE" \/ ~weights_final THEN "SetWeight"
    ELSE IF \/ status[EpochSnapshot] = "DNE"
            \/ ~SnapshotFinal
            \/ status[BallotBox] = "DNE" THEN "Snapshot"
    ELSE IF ~IsConsensusReached THEN "Vote"
    ELSE IF ~CanStartRouting THEN "PostVoteCooldown"
    ELSE "Distribute"

----------------------------------------------------------------------------

Statuses == {"DNE", "Created", "CreatedWithReceiver", "Closed"}

\* The variables have their types, a consensus slot is not in the future.
TypeOK ==
    /\ slot \in 0..MaxSlot
    /\ config \in [close : MIN_EPOCHS_BEFORE_CLOSE..MAX_EPOCHS_BEFORE_CLOSE,
                   valid : MIN_VALID_SLOTS..MAX_VALID_SLOTS]
    /\ account \in [Accounts -> {"none", "allocated", "live"}]
    /\ epoch_state_live \in BOOLEAN
    /\ epoch_marker \in BOOLEAN
    /\ status \in [Accounts -> Statuses]
    /\ is_closing \in BOOLEAN
    /\ slot_consensus_reached \in {NotReached} \cup 0..slot
    /\ weights_final \in BOOLEAN
    /\ operators_done \in SUBSET Operators

\* EpochState's statuses are the truth about the accounts: a status says
\* created exactly while the account is there, and what is closed is gone,
\* although each is written by a different handler.
StatusIsTrue ==
    \A a \in Accounts :
        /\ account[a] = "live"
             <=> epoch_state_live /\ status[a] \in {"Created", "CreatedWithReceiver"}
        /\ status[a] = "Closed" => account[a] = "none"

\* An epoch that is over leaves nothing behind: when the marker is there,
\* EpochState and all the accounts it tracked are gone, those that were only
\* allocated too, so that no rent is lost.
NothingLeftBehind ==
    epoch_marker => ~epoch_state_live /\ \A a \in Accounts : account[a] = "none"

\* Accounts are closed only after consensus and after the configured number
\* of epochs, however the admin changed the parameters in between.
ClosedInTime ==
    is_closing =>
        /\ IsConsensusReached
        /\ Epoch(slot) - Epoch(slot_consensus_reached) >= MIN_EPOCHS_BEFORE_CLOSE

\* In the phase called Vote the accounts a vote is checked against are all
\* there and final: a vote is not refused for the state of the epoch.
VoteIsPossible ==
    epoch_state_live /\ CurrentState = "Vote" =>
        /\ \A a \in {WeightTable, EpochSnapshot, BallotBox} : account[a] = "live"
        /\ weights_final /\ SnapshotFinal /\ ~is_closing

\* What was closed is never created again while EpochState lives, and the
\* epoch as a whole is never created again once the marker is there.
NeverReopened ==
    [][/\ epoch_marker => epoch_marker' /\ ~epoch_state_live'
       /\ \A a \in Accounts : status[a] = "Closed" => status'[a] = "Closed"]_vars

\* Only the admin (by changing the parameters) can make the epoch appear to
\* go back to an earlier phase.
PhasesAdvance ==
    [][epoch_state_live /\ epoch_state_live' /\ config' = config
         => Phases[CurrentState] <= Phases[CurrentState']]_vars

\* A decided epoch for which the NCN reward router was begun before closing
\* started is closed completely.  The condition is needed: are_all_closed
\* wants the router closed, and after the first close is_closing makes
\* initialize_ncn_reward_router fail, so that without it EpochState stays.
EpochCloses ==
    (IsConsensusReached /\ account[NCNRewardRouter] # "none") ~> epoch_marker

============================================================================
