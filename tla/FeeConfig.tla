----------------------------- MODULE FeeConfig ------------------------------
(***************************************************************************)
(* The fees of the NCN (core/src/fees.rs), created with the Config by      *)
(* process_admin_initialize_config and copied into every EpochSnapshot by  *)
(* process_initialize_epoch_snapshot.  Two Fees entries take turns: one is *)
(* in force while the other is prepared for the next epoch, and which is   *)
(* which follows from their activation epochs alone.                       *)
(*                                                                         *)
(* No instruction of the program calls update_fee_config; it is modelled   *)
(* as the core crate offers it, called within a transaction with the epoch *)
(* of the clock, so that an error undoes what it did before.               *)
(***************************************************************************)
EXTENDS Integers

CONSTANTS
    MAX_FEE_BPS,
    PROTOCOL_FEE_BPS,
    NcnFees,        \* NCN fees that are asked for, too large ones included
    Wallets,        \* wallets the NCN may name
    DefaultWallet,  \* Pubkey::default()
    SnapshotEpochs, \* epochs an EpochSnapshot is taken for
    LastEpoch       \* bound on the clock

ASSUME FeeAssumption ==
    /\ MAX_FEE_BPS \in Nat
    /\ PROTOCOL_FEE_BPS \in Nat
    /\ NcnFees \subseteq Nat
    /\ LastEpoch \in Nat

NoFees == [activation_epoch |-> 0, ncn_fee_bps |-> -1]  \* no snapshot yet
NoNewFee == -1  \* None for new_ncn_fee_bps

VARIABLES
    epoch,          \* Clock::epoch
    fee_1, fee_2,   \* FeeConfig
    ncn_fee_wallet,
    snapshot_fees   \* EpochSnapshot::fees, per epoch

feeVars == <<epoch, fee_1, fee_2, ncn_fee_wallet, snapshot_fees>>

Fees == [activation_epoch : Nat, ncn_fee_bps : Int]

TotalFeesBps(fees) == PROTOCOL_FEE_BPS + fees.ncn_fee_bps

\* FeeConfig::current_fees
CurrentFees(f1, f2, e) ==
    IF f1.activation_epoch > e THEN f2
    ELSE IF f2.activation_epoch > e THEN f1
    ELSE IF f1.activation_epoch >= f2.activation_epoch THEN f1 ELSE f2

\* FeeConfig::updatable_fees: is it fee_1?
FirstIsUpdatable(f1, f2, e) ==
    \/ f1.activation_epoch > e
    \/ f2.activation_epoch <= e /\ f1.activation_epoch <= f2.activation_epoch

\* Mutant of CheckFeesOkay: only the NCN's own fee is compared with the cap.
CheckFeesOkay_Own(fees) == fees.ncn_fee_bps <= MAX_FEE_BPS

\* FeeConfig::check_fees_okay
CheckFeesOkay(fees) ==
    /\ TotalFeesBps(fees) <= MAX_FEE_BPS
    /\ TotalFeesBps(fees) # 0

----------------------------------------------------------------------------

\* FeeConfig::new, in process_admin_initialize_config; the parameters of the
\* vote, which Config holds too, are in BallotBox and EpochLifecycle.
FeeInit ==
    /\ epoch \in 0..LastEpoch
    /\ ncn_fee_wallet \in Wallets \ {DefaultWallet}
    /\ fee_1 \in [activation_epoch : {epoch}, ncn_fee_bps : NcnFees]
    /\ fee_1.ncn_fee_bps <= MAX_FEE_BPS
    /\ CheckFeesOkay(fee_1)
    /\ fee_2 = fee_1
    /\ snapshot_fees = [e \in SnapshotEpochs |-> NoFees]

\* Mutant of SetFeesToCurrent: the entry keeps its old fees.
SetFeesToCurrent_Keep(f1, f2) == <<f1, f2>>

\* FeeConfig::set_fees_to_current.  update_fee_config calls it if the
\* updatable entry is not announced yet, in which case neither is.
SetFeesToCurrent(f1, f2) ==
    LET current == CurrentFees(f1, f2, epoch)
    IN  IF f1.activation_epoch > epoch \/ f2.activation_epoch > epoch
        THEN <<f1, f2>>
        ELSE IF FirstIsUpdatable(f1, f2, epoch)
        THEN <<current, f2>>
        ELSE <<f1, current>>

\* The updatable entry gets the new fee and the next epoch.
Prepared(fees, bps) ==
    [activation_epoch |-> epoch + 1,
     ncn_fee_bps |-> IF bps = NoNewFee THEN fees.ncn_fee_bps ELSE bps]

\* FeeConfig::update_fee_config
UpdateFeeConfig(bps, wallet) ==
    LET f == SetFeesToCurrent(fee_1, fee_2)
        first == FirstIsUpdatable(f[1], f[2], epoch)
    IN  /\ bps # NoNewFee => bps <= MAX_FEE_BPS
        /\ fee_1' = IF first THEN Prepared(f[1], bps) ELSE f[1]
        /\ fee_2' = IF first THEN f[2] ELSE Prepared(f[2], bps)
        /\ ncn_fee_wallet' = wallet
        /\ CheckFeesOkay(CurrentFees(fee_1', fee_2', epoch))
        /\ CheckFeesOkay(CurrentFees(fee_1', fee_2', epoch + 1))
        /\ UNCHANGED <<epoch, snapshot_fees>>

\* process_initialize_epoch_snapshot copies the fees of the epoch it is called
\* for, which has begun (process_initialize_epoch_state) but may be long over.
SnapshotFees(e) ==
    /\ e <= epoch
    /\ snapshot_fees[e] = NoFees
    /\ snapshot_fees' = [snapshot_fees EXCEPT ![e] = CurrentFees(fee_1, fee_2, e)]
    /\ UNCHANGED <<epoch, fee_1, fee_2, ncn_fee_wallet>>

EpochTick ==
    /\ epoch < LastEpoch
    /\ epoch' = epoch + 1
    /\ UNCHANGED <<fee_1, fee_2, ncn_fee_wallet, snapshot_fees>>

FeeNext ==
    \/ \E bps \in NcnFees \cup {NoNewFee}, wallet \in Wallets :
           UpdateFeeConfig(bps, wallet)
    \/ \E e \in SnapshotEpochs : SnapshotFees(e)
    \/ EpochTick

FeeSpec == FeeInit /\ [][FeeNext]_feeVars

----------------------------------------------------------------------------

InForce == CurrentFees(fee_1, fee_2, epoch).ncn_fee_bps
Announced == CurrentFees(fee_1, fee_2, epoch + 1).ncn_fee_bps

Schedule == INSTANCE FeeSchedule
    WITH in_force <- InForce, announced <- Announced

\* What a successful update announces: the fee asked for, or what was already
\* to be in force in the next epoch if it asks for none.
UpdateAnnounces ==
    \A bps \in NcnFees \cup {NoNewFee}, wallet \in Wallets :
        UpdateFeeConfig(bps, wallet) =>
            Announced' = IF bps = NoNewFee THEN Announced ELSE bps

\* The two entries implement a schedule: a change never touches the fee of
\* the running epoch, takes effect with the next one, and repeated changes in
\* one epoch, changes after idle epochs and changes without a new fee all
\* start from the right entry, although update_fee_config finds its entry
\* anew at every step.
ImplementsFeeSchedule == Schedule!ScheduleSpec /\ [][UpdateAnnounces]_feeVars

\* Whatever was announced when, and however late an epoch's snapshot is taken,
\* when both entries may be of later epochs, the fees in the entries and the
\* fees frozen in a snapshot are positive and within the cap, so a router
\* never splits more than it received.
FeesWithinCap ==
    \A fees \in {fee_1, fee_2} \cup {snapshot_fees[e] : e \in SnapshotEpochs} :
        fees = NoFees \/ TotalFeesBps(fees) \in 1..MAX_FEE_BPS

============================================================================
