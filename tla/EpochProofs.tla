---------------------------- MODULE EpochProofs -----------------------------
(***************************************************************************)
(* What epochs do: the lifecycle of an epoch's accounts for any number of  *)
(* operators, any epoch schedule and any range of the parameters; the      *)
(* keeper's loop over epochs, for any number of failing requests and       *)
(* whatever others do at the same time; and the fees that change from one  *)
(* epoch to the next, for any fees, wallets and epochs.                    *)
(*                                                                         *)
(* The invariants of the lifecycle rest on each other.  A status can only  *)
(* be true after the next creation if nothing that was closed is created   *)
(* again, which is_closing prevents, and nothing is left when EpochState   *)
(* goes because of the statuses it looks at.                               *)
(***************************************************************************)
EXTENDS EpochLifecycle, Keeper, FeeConfig, TLAPS

\* Zenon is tried first; a step that needs arithmetic asks for the SMT solver.
USE ZenonT(30), SMTT(30)

----------------------------------------------------------------------------
(* The fees.                                                               *)

\* An entry of FeeConfig holds a fee that was asked for.
Entry == [activation_epoch : Nat, ncn_fee_bps : NcnFees]

\* The inductive invariant: at most one entry is announced, for the next
\* epoch; entries with equal activation epochs are equal, which is what makes
\* it harmless that current_fees and updatable_fees then pick the same one.
FeeInv ==
    /\ epoch \in Nat
    /\ fee_1 \in Entry
    /\ fee_2 \in Entry
    /\ fee_1.activation_epoch <= epoch + 1
    /\ fee_2.activation_epoch <= epoch + 1
    /\ fee_1.activation_epoch <= epoch \/ fee_2.activation_epoch <= epoch
    /\ fee_1.activation_epoch = fee_2.activation_epoch => fee_1 = fee_2

\* What the fees in the entries and in the snapshots satisfy.
CapInv ==
    /\ CheckFeesOkay(fee_1)
    /\ CheckFeesOkay(fee_2)
    /\ snapshot_fees \in [SnapshotEpochs -> Entry \cup {NoFees}]
    /\ \A e \in SnapshotEpochs :
           snapshot_fees[e] = NoFees \/ CheckFeesOkay(snapshot_fees[e])

\* FeeConfig::new establishes the invariant: its two entries are the same.
LEMMA InitFees == FeeInit => FeeInv /\ CapInv
BY FeeAssumption, SMTT(30) DEF FeeInit, FeeInv, CapInv, Entry

\* current_fees returns one of the two entries.
LEMMA CurrentIsEntry ==
    ASSUME NEW f1, NEW f2, NEW e
    PROVE  CurrentFees(f1, f2, e) \in {f1, f2}
BY DEF CurrentFees

\* update_fee_config leaves the fee in force alone, announces the fee asked
\* for, or again the one already announced, and keeps the invariant.
LEMMA UpdateFees ==
    ASSUME FeeInv, NEW bps \in NcnFees \cup {NoNewFee}, NEW wallet,
           UpdateFeeConfig(bps, wallet)
    PROVE  /\ FeeInv'
           /\ InForce' = InForce
           /\ Announced' = IF bps = NoNewFee THEN Announced ELSE bps
           /\ Announced' \in NcnFees
           /\ {fee_1', fee_2'} = {CurrentFees(fee_1, fee_2, epoch)', CurrentFees(fee_1, fee_2, epoch + 1)'}
<1> DEFINE f == SetFeesToCurrent(fee_1, fee_2)
           first == FirstIsUpdatable(f[1], f[2], epoch)
<1>1. /\ f[1] \in Entry /\ f[2] \in Entry
      /\ f[1].activation_epoch <= epoch + 1 /\ f[2].activation_epoch <= epoch + 1
      /\ f[1].activation_epoch <= epoch \/ f[2].activation_epoch <= epoch
      /\ f[1].activation_epoch = f[2].activation_epoch => f[1] = f[2]
      /\ CurrentFees(f[1], f[2], epoch) = CurrentFees(fee_1, fee_2, epoch)
      /\ CurrentFees(f[1], f[2], epoch + 1) = CurrentFees(fee_1, fee_2, epoch + 1)
      /\ \/ f[1].activation_epoch > epoch
         \/ f[2].activation_epoch > epoch
         \/ f[1] = f[2]
  BY SMTT(30) DEF FeeInv, SetFeesToCurrent, CurrentFees, FirstIsUpdatable, Entry
<1>2. /\ fee_1' = IF first THEN Prepared(f[1], bps) ELSE f[1]
      /\ fee_2' = IF first THEN f[2] ELSE Prepared(f[2], bps)
      /\ epoch' = epoch
  BY DEF UpdateFeeConfig
<1>3. \A g \in Entry : /\ Prepared(g, bps) \in Entry
                       /\ Prepared(g, bps).activation_epoch = epoch + 1
                       /\ Prepared(g, bps).ncn_fee_bps =
                            IF bps = NoNewFee THEN g.ncn_fee_bps ELSE bps
  BY SMTT(30) DEF Prepared, Entry, FeeInv
<1> HIDE DEF f
<1>4. CASE first
  <2>1. f[2].activation_epoch <= epoch
    BY <1>1, <1>4, SMTT(30) DEF FirstIsUpdatable, Entry, FeeInv
  <2>2. fee_1' = Prepared(f[1], bps) /\ fee_2' = f[2]
    BY <1>2, <1>4
  <2>3. FeeInv'
    BY <1>1, <1>2, <1>3, <2>1, <2>2, SMTT(30) DEF FeeInv, Entry
  <2>4. CurrentFees(fee_1, fee_2, epoch)' = f[2] /\ CurrentFees(fee_1, fee_2, epoch + 1)' = fee_1'
    BY <1>1, <1>2, <1>3, <2>1, <2>2, SMTT(30) DEF CurrentFees, FeeInv, Entry
  <2>5. CurrentFees(f[1], f[2], epoch) = f[2] /\ CurrentFees(f[1], f[2], epoch + 1) = f[1]
    BY <1>1, <1>4, <2>1, SMTT(30) DEF CurrentFees, FeeInv, Entry, FirstIsUpdatable
  <2> QED
    BY <1>1, <1>2, <1>3, <2>2, <2>3, <2>4, <2>5, SMTT(30) DEF InForce, Announced, Entry
<1>5. CASE ~first
  <2>1. f[1].activation_epoch <= epoch
    BY <1>1, <1>5, SMTT(30) DEF FirstIsUpdatable, Entry, FeeInv
  <2>2. fee_1' = f[1] /\ fee_2' = Prepared(f[2], bps)
    BY <1>2, <1>5
  <2>3. FeeInv'
    BY <1>1, <1>2, <1>3, <2>1, <2>2, SMTT(30) DEF FeeInv, Entry
  <2>4. CurrentFees(fee_1, fee_2, epoch)' = f[1] /\ CurrentFees(fee_1, fee_2, epoch + 1)' = fee_2'
    BY <1>1, <1>2, <1>3, <2>1, <2>2, SMTT(30) DEF CurrentFees, FeeInv, Entry
  <2>5. CurrentFees(f[1], f[2], epoch) = f[1] /\ CurrentFees(f[1], f[2], epoch + 1) = f[2]
    BY <1>1, <1>5, <2>1, SMTT(30) DEF CurrentFees, FeeInv, Entry, FirstIsUpdatable
  <2> QED
    BY <1>1, <1>2, <1>3, <2>2, <2>3, <2>4, <2>5, SMTT(30) DEF InForce, Announced, Entry
<1> QED
  BY <1>4, <1>5

\* A new epoch puts the announced fee in force and announces nothing else.
LEMMA TickFees ==
    ASSUME FeeInv, EpochTick
    PROVE  FeeInv' /\ InForce' = Announced /\ Announced' = Announced
BY SMTT(30) DEF FeeInv, EpochTick, Entry, InForce, Announced, CurrentFees

\* Every step keeps the invariant of the entries.
LEMMA NextFees == FeeInv /\ [FeeNext]_feeVars => FeeInv'
<1> SUFFICES ASSUME FeeInv, [FeeNext]_feeVars PROVE FeeInv'
  OBVIOUS
<1>1. ASSUME NEW bps \in NcnFees \cup {NoNewFee}, NEW wallet \in Wallets,
             UpdateFeeConfig(bps, wallet)
      PROVE  FeeInv'
  BY <1>1, UpdateFees
<1>2. ASSUME NEW e \in SnapshotEpochs, SnapshotFees(e)
      PROVE  FeeInv'
  BY <1>2 DEF SnapshotFees, FeeInv
<1>3. CASE EpochTick
  BY <1>3, TickFees
<1>4. CASE UNCHANGED feeVars
  BY <1>4 DEF feeVars, FeeInv
<1> QED
  BY <1>1, <1>2, <1>3, <1>4 DEF FeeNext

\* The entries always form a schedule of at most one announced change.
THEOREM EntriesWellFormed == FeeSpec => []FeeInv
BY InitFees, NextFees, PTL DEF FeeSpec

\* Every step keeps the fees within the cap: update_fee_config checks the
\* entry in force and the announced one, and there are no others.
LEMMA NextCap == FeeInv /\ CapInv /\ [FeeNext]_feeVars => CapInv'
<1> SUFFICES ASSUME FeeInv, CapInv, [FeeNext]_feeVars PROVE CapInv'
  OBVIOUS
<1>1. ASSUME NEW bps \in NcnFees \cup {NoNewFee}, NEW wallet \in Wallets,
             UpdateFeeConfig(bps, wallet)
      PROVE  CapInv'
  <2>1. {fee_1', fee_2'} = {CurrentFees(fee_1, fee_2, epoch)',
                            CurrentFees(fee_1, fee_2, epoch + 1)'}
    BY <1>1, UpdateFees
  <2>2. CheckFeesOkay(CurrentFees(fee_1', fee_2', epoch))
    BY <1>1 DEF UpdateFeeConfig
  <2>3. CheckFeesOkay(CurrentFees(fee_1', fee_2', epoch + 1))
    BY <1>1 DEF UpdateFeeConfig
  <2>4. epoch' = epoch /\ snapshot_fees' = snapshot_fees
    BY <1>1 DEF UpdateFeeConfig
  <2>5. CheckFeesOkay(fee_1') /\ CheckFeesOkay(fee_2')
    BY <2>1, <2>2, <2>3, <2>4
  <2> QED
    BY <2>4, <2>5 DEF CapInv
<1>2. ASSUME NEW e \in SnapshotEpochs, SnapshotFees(e)
      PROVE  CapInv'
  <2> DEFINE fees == CurrentFees(fee_1, fee_2, e)
  <2>1. fees \in Entry /\ CheckFeesOkay(fees)
    BY CurrentIsEntry DEF FeeInv, CapInv
  <2>2. /\ snapshot_fees' = [snapshot_fees EXCEPT ![e] = fees]
        /\ fee_1' = fee_1 /\ fee_2' = fee_2
    BY <1>2 DEF SnapshotFees
  <2> HIDE DEF fees
  <2> QED
    BY <2>1, <2>2 DEF CapInv
<1>3. CASE EpochTick
  BY <1>3 DEF EpochTick, CapInv
<1>4. CASE UNCHANGED feeVars
  BY <1>4 DEF feeVars, CapInv
<1> QED
  BY <1>1, <1>2, <1>3, <1>4 DEF FeeNext

\* The fees of both entries and of every snapshot are positive and within
\* the cap (FeeConfig::check_fees_okay), for any sequence of updates.
THEOREM FeesStayWithinCap == FeeSpec => []FeesWithinCap
<1>1. FeeInv /\ CapInv => FeesWithinCap
  <2> SUFFICES ASSUME FeeInv, CapInv,
                      NEW fees \in {fee_1, fee_2} \cup
                            {snapshot_fees[e] : e \in SnapshotEpochs},
                      fees # NoFees
               PROVE  TotalFeesBps(fees) \in 1..MAX_FEE_BPS
    BY DEF FeesWithinCap
  <2>1. CheckFeesOkay(fees) /\ fees \in Entry
    BY DEF FeeInv, CapInv
  <2>2. fees.ncn_fee_bps \in Nat
    BY <2>1, FeeAssumption DEF Entry
  <2> QED
    BY <2>1, <2>2, FeeAssumption, SMTT(30) DEF CheckFeesOkay, TotalFeesBps
<1> QED
  BY <1>1, InitFees, NextFees, NextCap, PTL DEF FeeSpec

\* FeeConfig implements FeeSchedule: the initial states map to its initial
\* states, an update to Announce with the fee asked for, a new epoch to
\* NewEpoch and everything else to a stuttering step.
THEOREM FeeConfigRefines == FeeSpec => ImplementsFeeSchedule
<1>1. FeeInit => Schedule!ScheduleInit
  <2> SUFFICES ASSUME FeeInit PROVE Schedule!ScheduleInit
    OBVIOUS
  <2>1. FeeInv /\ fee_1 = fee_2
    BY InitFees DEF FeeInit
  <2> QED
    BY <2>1 DEF FeeInv, Entry, Schedule!ScheduleInit, InForce, Announced,
                CurrentFees
<1>2. FeeInv /\ [FeeNext]_feeVars => [Schedule!ScheduleNext]_(Schedule!fvars)
  <2> SUFFICES ASSUME FeeInv, [FeeNext]_feeVars
               PROVE  [Schedule!ScheduleNext]_(Schedule!fvars)
    OBVIOUS
  <2> USE DEF Schedule!ScheduleNext, Schedule!fvars
  <2>1. ASSUME NEW bps \in NcnFees \cup {NoNewFee}, NEW wallet \in Wallets,
               UpdateFeeConfig(bps, wallet)
        PROVE  Schedule!ScheduleNext
    <3>1. /\ InForce' = InForce
          /\ Announced' \in NcnFees
      BY <2>1, UpdateFees
    <3>2. epoch' = epoch
      BY <2>1 DEF UpdateFeeConfig
    <3> QED
      BY <3>1, <3>2 DEF Schedule!Announce
  <2>2. ASSUME NEW e \in SnapshotEpochs, SnapshotFees(e)
        PROVE  UNCHANGED Schedule!fvars
    BY <2>2 DEF SnapshotFees, InForce, Announced
  <2>3. CASE EpochTick
    <3>1. InForce' = Announced /\ Announced' = Announced
      BY <2>3, TickFees
    <3> QED
      BY <2>3, <3>1 DEF EpochTick, Schedule!NewEpoch
  <2>4. CASE UNCHANGED feeVars
    BY <2>4 DEF feeVars, InForce, Announced
  <2> QED
    BY <2>1, <2>2, <2>3, <2>4 DEF FeeNext
<1>3. FeeInv => UpdateAnnounces
  BY UpdateFees DEF UpdateAnnounces
<1> QED
  BY <1>1, <1>2, <1>3, EntriesWellFormed, PTL
     DEF FeeSpec, ImplementsFeeSchedule, Schedule!ScheduleSpec

----------------------------------------------------------------------------
(* The lifecycle of an epoch's accounts.                                   *)

\* Operators' accounts are created at their full size.
OperatorAccountsWhole == \A a \in OperatorAccounts : account[a] # "allocated"

\* Without EpochState there is no account.
NoStateNoAccount ==
    ~epoch_state_live => \A a \in Accounts : account[a] = "none"

\* The marker replaces EpochState.
MarkerReplaces == epoch_marker => ~epoch_state_live

\* An account is Closed only in an epoch that is_closing.
ClosedOnlyWhenClosing ==
    epoch_state_live => \A a \in Accounts : status[a] = "Closed" => is_closing

\* Before EpochState is created no account has been closed.
NothingClosedBefore ==
    ~epoch_state_live /\ ~epoch_marker => \A a \in Accounts : status[a] # "Closed"

\* The accounts' part of the inductive invariant.
AccountInv ==
    /\ account \in [Accounts -> {"none", "allocated", "live"}]
    /\ status \in [Accounts -> Statuses]
    /\ epoch_state_live \in BOOLEAN
    /\ epoch_marker \in BOOLEAN
    /\ is_closing \in BOOLEAN
    /\ OperatorAccountsWhole
    /\ NoStateNoAccount
    /\ MarkerReplaces
    /\ ClosedOnlyWhenClosing
    /\ NothingClosedBefore
    /\ StatusIsTrue

\* The clock's part.
TimeInv ==
    /\ slot \in Nat
    /\ config.close \in Nat
    /\ config.close >= MIN_EPOCHS_BEFORE_CLOSE
    /\ config.valid \in Nat
    /\ slot_consensus_reached \in {NotReached} \cup Nat
    /\ ClosedInTime

----------------------------------------------------------------------------
(* The accounts' part is inductive.                                        *)

\* The accounts of the epoch are not those of an operator.
LEMMA AccountsApart ==
    /\ EpochAccounts \subseteq Accounts
    /\ OperatorAccounts \subseteq Accounts
    /\ \A a \in EpochAccounts : a \notin OperatorAccounts
    /\ \A a \in Accounts : a \in EpochAccounts \/ a \in OperatorAccounts
  BY SMTT(30) DEF Accounts, EpochAccounts, OperatorAccounts, WeightTable, EpochSnapshot,
         BallotBox, NCNRewardRouter, OperatorSnapshot, OperatorVaultRewardRouter

\* Initially there is no account.
LEMMA InitAccountInv == Init => AccountInv
  BY AccountsApart
     DEF Init, AccountInv, OperatorAccountsWhole, NoStateNoAccount, MarkerReplaces,
         ClosedOnlyWhenClosing, NothingClosedBefore, StatusIsTrue, Statuses

\* initialize_epoch_state finds no account and records none.
LEMMA InitializeEpochStateKeeps ==
    ASSUME AccountInv, InitializeEpochState
    PROVE  AccountInv'
  <1>1. /\ account' = account /\ epoch_marker' = epoch_marker
        /\ epoch_state_live' = TRUE /\ is_closing' = FALSE
        /\ status' = [a \in Accounts |-> "DNE"]
        /\ ~epoch_state_live /\ ~epoch_marker
    BY DEF InitializeEpochState
  <1>2. \A a \in Accounts : account[a] = "none"
    BY <1>1 DEF AccountInv, NoStateNoAccount
  <1>. QED
    BY <1>1, <1>2, AccountsApart
       DEF AccountInv, OperatorAccountsWhole, NoStateNoAccount, MarkerReplaces,
           ClosedOnlyWhenClosing, NothingClosedBefore, StatusIsTrue, Statuses

\* An allocation is not recorded, and nothing that was closed is allocated.
LEMMA AllocateKeeps ==
    ASSUME AccountInv, NEW a \in EpochAccounts, Allocate(a)
    PROVE  AccountInv'
  <1>1. /\ account' = [account EXCEPT ![a] = "allocated"]
        /\ UNCHANGED <<epoch_state_live, epoch_marker, status, is_closing>>
        /\ epoch_state_live /\ ~is_closing /\ account[a] = "none"
    BY DEF Allocate, MayCreate, stateVars
  <1>2. status[a] # "Closed"
    BY <1>1, AccountsApart DEF AccountInv, ClosedOnlyWhenClosing
  <1>. QED
    BY <1>1, <1>2, AccountsApart
       DEF AccountInv, OperatorAccountsWhole, NoStateNoAccount, MarkerReplaces,
           ClosedOnlyWhenClosing, NothingClosedBefore, StatusIsTrue, Statuses

\* Complete and Create: an account that was not live becomes so, with the
\* status that says it.
LEMMA BecomesLiveKeeps ==
    ASSUME AccountInv, NEW a \in Accounts, NEW s \in {"Created", "CreatedWithReceiver"},
           epoch_state_live,
           account' = [account EXCEPT ![a] = "live"],
           status' = [status EXCEPT ![a] = s],
           UNCHANGED <<epoch_state_live, epoch_marker, is_closing>>
    PROVE  AccountInv'
  BY AccountsApart
     DEF AccountInv, OperatorAccountsWhole, NoStateNoAccount, MarkerReplaces,
         ClosedOnlyWhenClosing, NothingClosedBefore, StatusIsTrue, Statuses

\* close_epoch_account removes an account and records it.
LEMMA CloseAccountKeeps ==
    ASSUME AccountInv, NEW a \in Accounts, CloseAccount(a)
    PROVE  AccountInv'
  <1>1. /\ epoch_state_live
        /\ is_closing' = TRUE
        /\ status' = [status EXCEPT ![a] = "Closed"]
        /\ account' = [account EXCEPT ![a] = "none"]
        /\ UNCHANGED <<epoch_state_live, epoch_marker>>
    BY DEF CloseAccount
  <1>. QED
    BY <1>1, AccountsApart
       DEF AccountInv, OperatorAccountsWhole, NoStateNoAccount, MarkerReplaces,
           ClosedOnlyWhenClosing, NothingClosedBefore, StatusIsTrue, Statuses

\* close_epoch_account on EpochState: are_all_closed speaks for the accounts.
LEMMA CloseEpochStateKeeps ==
    ASSUME AccountInv, CloseEpochState
    PROVE  AccountInv'
  <1>1. /\ epoch_state_live /\ AreAllClosed
        /\ is_closing' = TRUE /\ epoch_state_live' = FALSE /\ epoch_marker' = TRUE
        /\ UNCHANGED <<account, status>>
    BY DEF CloseEpochState
  <1>2. \A a \in EpochAccounts : account[a] = "none"
    BY <1>1, AccountsApart DEF AreAllClosed, AccountInv, StatusIsTrue
  <1>3. \A a \in OperatorAccounts : account[a] = "none"
    BY <1>1, AccountsApart
       DEF AreAllClosed, AccountInv, StatusIsTrue, OperatorAccountsWhole
  <1>4. \A a \in Accounts : account[a] = "none"
    BY <1>2, <1>3, AccountsApart
  <1>. QED
    BY <1>1, <1>4, AccountsApart
       DEF AccountInv, OperatorAccountsWhole, NoStateNoAccount, MarkerReplaces,
           ClosedOnlyWhenClosing, NothingClosedBefore, StatusIsTrue, Statuses

\* The handlers that leave accounts and statuses alone.
LEMMA OthersKeepAccounts ==
    ASSUME AccountInv,
           UNCHANGED <<account, epoch_state_live, epoch_marker, status, is_closing>>
    PROVE  AccountInv'
  BY DEF AccountInv, OperatorAccountsWhole, NoStateNoAccount, MarkerReplaces,
         ClosedOnlyWhenClosing, NothingClosedBefore, StatusIsTrue

\* The handlers that create accounts are instances of Allocate, Complete and
\* Create.
LEMMA CreateKeepsAccounts ==
    ASSUME AccountInv, Create_
    PROVE  AccountInv'
  <1>1. /\ {WeightTable, BallotBox, NCNRewardRouter, EpochSnapshot} \subseteq EpochAccounts
        /\ \A o \in Operators : /\ OperatorSnapshot(o) \in Accounts
                                /\ OperatorVaultRewardRouter(o) \in Accounts
    BY DEF Accounts, EpochAccounts, OperatorAccounts
  <1>2. ASSUME NEW a \in Accounts, NEW s \in {"Created", "CreatedWithReceiver"},
               Complete(a, s) \/ Create(a, s)
        PROVE  AccountInv'
    <2>1. /\ epoch_state_live
          /\ account' = [account EXCEPT ![a] = "live"]
          /\ status' = [status EXCEPT ![a] = s]
          /\ UNCHANGED <<epoch_state_live, epoch_marker, is_closing>>
      BY <1>2 DEF Complete, Create, MayCreate
    <2>. QED  BY <2>1, BecomesLiveKeeps
  <1>3. CASE InitializeEpochState
    BY <1>3, InitializeEpochStateKeeps
  <1>4. CASE InitializeWeightTable \/ InitializeBallotBox \/ InitializeNCNRewardRouter
    BY <1>1, <1>4, AllocateKeeps
       DEF InitializeWeightTable, InitializeBallotBox, InitializeNCNRewardRouter
  <1>5. CASE ReallocWeightTable \/ ReallocBallotBox \/ ReallocNCNRewardRouter
    BY <1>1, <1>2, <1>5, AccountsApart
       DEF ReallocWeightTable, ReallocBallotBox, ReallocNCNRewardRouter
  <1>6. CASE InitializeEpochSnapshot
    BY <1>1, <1>2, <1>6, AccountsApart DEF InitializeEpochSnapshot
  <1>7. CASE \E o \in Operators, active \in BOOLEAN : InitializeOperatorSnapshot(o, active)
    BY <1>1, <1>2, <1>7 DEF InitializeOperatorSnapshot
  <1>8. CASE \E o \in Operators : InitializeOperatorVaultRewardRouter(o)
    BY <1>1, <1>2, <1>8 DEF InitializeOperatorVaultRewardRouter
  <1>. QED  BY <1>3, <1>4, <1>5, <1>6, <1>7, <1>8 DEF Create_

\* Every step keeps the accounts' part.
LEMMA AccountInvIsInductive == AccountInv /\ [Next]_vars => AccountInv'
  <1>. SUFFICES ASSUME AccountInv, [Next]_vars PROVE AccountInv'
    OBVIOUS
  <1>1. CASE Create_
    BY <1>1, CreateKeepsAccounts
  <1>2. CASE Work
    BY <1>2, OthersKeepAccounts
       DEF Work, FinalizeWeights, CompleteOperatorSnapshot, ReachConsensus, stateVars
  <1>3. CASE Close
    BY <1>3, CloseAccountKeeps, CloseEpochStateKeeps DEF Close
  <1>4. ASSUME NEW c, NEW v, AdminSetParameters(c, v) PROVE AccountInv'
    BY <1>4, OthersKeepAccounts DEF AdminSetParameters, stateVars
  <1>5. CASE ClockTick
    BY <1>5, OthersKeepAccounts DEF ClockTick, stateVars
  <1>6. CASE UNCHANGED vars
    BY <1>6, OthersKeepAccounts DEF vars, stateVars
  <1>. QED  BY <1>1, <1>2, <1>3, <1>4, <1>5, <1>6 DEF Next

----------------------------------------------------------------------------
(* The clock's part is inductive.                                          *)

\* A later slot is not in an earlier epoch.
LEMMA EpochMonotone ==
    ASSUME NEW s \in Nat, NEW t \in Nat, s <= t
    PROVE  Epoch(s) \in Nat /\ Epoch(t) \in Nat /\ Epoch(s) <= Epoch(t)
  <1>1. SLOTS_PER_EPOCH \in Nat \ {0}
    BY LifecycleAssumption
  <1>. QED  BY <1>1, SMTT(30) DEF Epoch

\* Initially nothing is closing.
LEMMA InitTimeInv == Init => TimeInv
  BY LifecycleAssumption, SMTT(30) DEF Init, TimeInv, ClosedInTime

\* A close that can_close_epoch_accounts allows is in time.
LEMMA ClosingKeepsTime ==
    ASSUME TimeInv, CanCloseEpochAccounts, UNCHANGED <<slot, config, slot_consensus_reached>>
    PROVE  TimeInv'
  <1>1. slot_consensus_reached \in Nat /\ slot \in Nat
    BY DEF CanCloseEpochAccounts, IsConsensusReached, TimeInv
  <1>2. Epoch(slot) \in Nat /\ Epoch(slot_consensus_reached) \in Nat
    BY <1>1, EpochMonotone, SMTT(30)
  <1>3. Epoch(slot) - Epoch(slot_consensus_reached) >= MIN_EPOCHS_BEFORE_CLOSE
    BY <1>2, LifecycleAssumption, SMTT(30) DEF CanCloseEpochAccounts, TimeInv
  <1>. QED  BY <1>3 DEF TimeInv, ClosedInTime, CanCloseEpochAccounts, IsConsensusReached, Epoch

\* What was in time remains so.
LEMMA TickKeepsTime ==
    ASSUME TimeInv, ClockTick
    PROVE  TimeInv'
  <1>1. slot' = slot + 1 /\ slot \in Nat
        /\ UNCHANGED <<config, is_closing, slot_consensus_reached>>
    BY DEF ClockTick, TimeInv, stateVars, progressVars
  <1>2. CASE ~is_closing
    BY <1>1, <1>2, SMTT(30) DEF TimeInv, ClosedInTime
  <1>3. CASE is_closing
    <2>1. slot_consensus_reached \in Nat
      BY <1>3 DEF TimeInv, ClosedInTime, IsConsensusReached
    <2>2. Epoch(slot) <= Epoch(slot + 1) /\ Epoch(slot) \in Nat /\ Epoch(slot + 1) \in Nat
      BY <1>1, EpochMonotone, SMTT(30)
    <2>3. Epoch(slot_consensus_reached) \in Nat
      BY <2>1, EpochMonotone, SMTT(30)
    <2>4. Epoch(slot) - Epoch(slot_consensus_reached) >= MIN_EPOCHS_BEFORE_CLOSE
      BY <1>3 DEF TimeInv, ClosedInTime
    <2>5. Epoch(slot + 1) - Epoch(slot_consensus_reached) >= MIN_EPOCHS_BEFORE_CLOSE
      BY <2>2, <2>3, <2>4, LifecycleAssumption, SMTT(30)
    <2>. QED  BY <1>1, <1>3, <2>5, SMTT(30) DEF TimeInv, ClosedInTime, IsConsensusReached, Epoch
  <1>. QED  BY <1>2, <1>3

\* The steps that change neither clock, parameters nor consensus.
LEMMA OthersKeepTime ==
    ASSUME TimeInv, UNCHANGED <<slot, config, is_closing, slot_consensus_reached>>
    PROVE  TimeInv'
  BY DEF TimeInv, ClosedInTime, IsConsensusReached, Epoch

\* Every step keeps the clock's part.
LEMMA TimeInvIsInductive == TimeInv /\ [Next]_vars => TimeInv'
  <1>. SUFFICES ASSUME TimeInv, [Next]_vars PROVE TimeInv'
    OBVIOUS
  <1>1. CASE InitializeEpochState
    BY <1>1 DEF InitializeEpochState, TimeInv, ClosedInTime
  <1>2. CASE Create_ /\ ~InitializeEpochState
    BY <1>2, OthersKeepTime
       DEF Create_, InitializeWeightTable, InitializeBallotBox, InitializeNCNRewardRouter,
           ReallocWeightTable, ReallocBallotBox, ReallocNCNRewardRouter,
           InitializeEpochSnapshot, InitializeOperatorSnapshot,
           InitializeOperatorVaultRewardRouter, Allocate, Complete, Create,
           stateVars, progressVars
  <1>3. CASE ReachConsensus
    BY <1>3 DEF ReachConsensus, TimeInv, ClosedInTime, IsConsensusReached, stateVars, Epoch
  <1>4. CASE FinalizeWeights \/ \E o \in Operators : CompleteOperatorSnapshot(o)
    BY <1>4, OthersKeepTime DEF FinalizeWeights, CompleteOperatorSnapshot, stateVars
  <1>5. CASE Close
    BY <1>5, ClosingKeepsTime DEF Close, CloseAccount, CloseEpochState, progressVars
  <1>6. ASSUME NEW c \in 0..MAX_EPOCHS_BEFORE_CLOSE + 1, NEW v, AdminSetParameters(c, v)
        PROVE  TimeInv'
    BY <1>6, LifecycleAssumption, SMTT(30)
       DEF AdminSetParameters, TimeInv, ClosedInTime, IsConsensusReached, stateVars,
           progressVars, Epoch
  <1>7. CASE ClockTick
    BY <1>7, TickKeepsTime
  <1>8. CASE UNCHANGED vars
    BY <1>8, OthersKeepTime DEF vars, stateVars, progressVars
  <1>. QED  BY <1>1, <1>2, <1>3, <1>4, <1>5, <1>6, <1>7, <1>8 DEF Next, Work

----------------------------------------------------------------------------
(* Nothing is opened again.                                                *)

\* What a step of NeverReopened may not undo.
StaysClosed ==
    /\ epoch_marker => epoch_marker' /\ ~epoch_state_live'
    /\ \A a \in Accounts : status[a] = "Closed" => status'[a] = "Closed"

\* The handlers that create accounts create none that was closed.
LEMMA CreateReopensNothing ==
    ASSUME AccountInv, Create_
    PROVE  StaysClosed
  <1>1. CASE InitializeEpochState
    BY <1>1 DEF InitializeEpochState, AccountInv, NothingClosedBefore, StaysClosed
  <1>2. CASE InitializeWeightTable \/ InitializeBallotBox \/ InitializeNCNRewardRouter
    BY <1>2 DEF InitializeWeightTable, InitializeBallotBox, InitializeNCNRewardRouter,
                Allocate, MayCreate, stateVars, StaysClosed
  <1>3. ASSUME NEW a \in Accounts, NEW s, Complete(a, s)
        PROVE  StaysClosed
    <2>1. /\ epoch_state_live /\ account[a] = "allocated"
          /\ status' = [status EXCEPT ![a] = s]
      BY <1>3 DEF Complete
    <2>2. status[a] # "Closed"
      BY <2>1 DEF AccountInv, StatusIsTrue
    <2>3. ~epoch_marker
      BY <2>1 DEF AccountInv, MarkerReplaces
    <2>. QED  BY <2>1, <2>2, <2>3 DEF StaysClosed, AccountInv
  <1>4. ASSUME NEW a \in Accounts, NEW s, Create(a, s)
        PROVE  StaysClosed
    <2>1. /\ epoch_state_live /\ ~is_closing /\ ~epoch_marker
          /\ status' = [status EXCEPT ![a] = s]
      BY <1>4 DEF Create, MayCreate
    <2>2. status[a] # "Closed"
      BY <2>1 DEF AccountInv, ClosedOnlyWhenClosing
    <2>. QED  BY <2>1, <2>2 DEF StaysClosed, AccountInv
  <1>5. CASE ReallocWeightTable \/ ReallocBallotBox \/ ReallocNCNRewardRouter
    BY <1>3, <1>5 DEF ReallocWeightTable, ReallocBallotBox, ReallocNCNRewardRouter,
                      Accounts, EpochAccounts
  <1>6. CASE \/ InitializeEpochSnapshot
             \/ \E o \in Operators, active \in BOOLEAN : InitializeOperatorSnapshot(o, active)
             \/ \E o \in Operators : InitializeOperatorVaultRewardRouter(o)
    BY <1>4, <1>6 DEF InitializeEpochSnapshot, InitializeOperatorSnapshot,
                      InitializeOperatorVaultRewardRouter, Accounts, EpochAccounts,
                      OperatorAccounts
  <1>. QED  BY <1>1, <1>2, <1>5, <1>6 DEF Create_

\* No step reopens anything.
LEMMA StepReopensNothing ==
    ASSUME AccountInv, [Next]_vars
    PROVE  StaysClosed
  <1>1. CASE Create_
    BY <1>1, CreateReopensNothing
  <1>2. ASSUME NEW a \in Accounts, CloseAccount(a) PROVE StaysClosed
    BY <1>2 DEF CloseAccount, StaysClosed, AccountInv
  <1>3. CASE CloseEpochState
    BY <1>3 DEF CloseEpochState, StaysClosed, AccountInv
  <1>4. CASE UNCHANGED <<epoch_state_live, epoch_marker, status>>
    BY <1>4 DEF StaysClosed, AccountInv, MarkerReplaces
  <1>5. CASE Work
    BY <1>4, <1>5 DEF Work, FinalizeWeights, CompleteOperatorSnapshot, ReachConsensus,
                      stateVars
  <1>6. ASSUME NEW c, NEW v, AdminSetParameters(c, v) PROVE StaysClosed
    BY <1>4, <1>6 DEF AdminSetParameters, stateVars
  <1>7. CASE ClockTick
    BY <1>4, <1>7 DEF ClockTick, stateVars
  <1>8. CASE UNCHANGED vars
    BY <1>4, <1>8 DEF vars, stateVars
  <1>. QED  BY <1>1, <1>2, <1>3, <1>5, <1>6, <1>7, <1>8 DEF Next, Close

----------------------------------------------------------------------------
(* The phases.                                                             *)

\* Only operators of the epoch are snapshotted.
DoneInv == operators_done \in SUBSET Operators

\* What the steps of one epoch never undo: each condition that current_state
\* asks for stays true while EpochState lives and the parameters stay.
Advances ==
    /\ CanCloseEpochAccounts => CanCloseEpochAccounts'
    /\ status[WeightTable] # "DNE" => status'[WeightTable] # "DNE"
    /\ status[EpochSnapshot] # "DNE" => status'[EpochSnapshot] # "DNE"
    /\ status[BallotBox] # "DNE" => status'[BallotBox] # "DNE"
    /\ weights_final => weights_final'
    /\ SnapshotFinal => SnapshotFinal'
    /\ IsConsensusReached => IsConsensusReached'
    /\ CanStartRouting => CanStartRouting'

\* Every step keeps the set of snapshotted operators one of operators.
LEMMA DoneInvIsInductive == DoneInv /\ [Next]_vars => DoneInv'
  <1>. SUFFICES ASSUME DoneInv, [Next]_vars PROVE DoneInv'
    OBVIOUS
  <1>1. CASE operators_done' = operators_done
    BY <1>1 DEF DoneInv
  <1>2. CASE \E o \in Operators, active \in BOOLEAN : InitializeOperatorSnapshot(o, active)
    BY <1>2 DEF InitializeOperatorSnapshot, DoneInv
  <1>3. CASE \E o \in Operators : CompleteOperatorSnapshot(o)
    BY <1>3 DEF CompleteOperatorSnapshot, DoneInv
  <1>4. CASE Create_ /\ ~\E o \in Operators, active \in BOOLEAN : InitializeOperatorSnapshot(o, active)
    BY <1>1, <1>4
       DEF Create_, InitializeEpochState, InitializeWeightTable, InitializeBallotBox,
           InitializeNCNRewardRouter, ReallocWeightTable, ReallocBallotBox,
           ReallocNCNRewardRouter, InitializeEpochSnapshot,
           InitializeOperatorVaultRewardRouter, Allocate, Complete, progressVars
  <1>5. CASE FinalizeWeights \/ ReachConsensus
    BY <1>1, <1>5 DEF FinalizeWeights, ReachConsensus
  <1>6. CASE Close
    BY <1>1, <1>6 DEF Close, CloseAccount, CloseEpochState, progressVars
  <1>7. ASSUME NEW c, NEW v, AdminSetParameters(c, v) PROVE DoneInv'
    BY <1>1, <1>7 DEF AdminSetParameters, progressVars
  <1>8. CASE ClockTick \/ UNCHANGED vars
    BY <1>1, <1>8 DEF ClockTick, vars, progressVars
  <1>. QED  BY <1>2, <1>3, <1>4, <1>5, <1>6, <1>7, <1>8 DEF Next, Work

\* Time and the consensus slot: what was allowed stays allowed.
LEMMA TimeAdvances ==
    ASSUME TimeInv, config' = config, slot' = slot \/ slot' = slot + 1,
           IsConsensusReached => slot_consensus_reached' = slot_consensus_reached
    PROVE  /\ CanCloseEpochAccounts => CanCloseEpochAccounts'
           /\ IsConsensusReached => IsConsensusReached'
           /\ CanStartRouting => CanStartRouting'
  <1>. SUFFICES ASSUME IsConsensusReached
                PROVE  /\ CanCloseEpochAccounts => CanCloseEpochAccounts'
                       /\ IsConsensusReached'
                       /\ CanStartRouting => CanStartRouting'
    BY DEF CanCloseEpochAccounts, CanStartRouting
  <1>1. /\ slot \in Nat /\ slot' \in Nat /\ slot <= slot'
        /\ slot_consensus_reached \in Nat /\ slot_consensus_reached' = slot_consensus_reached
        /\ config.close \in Nat /\ config.valid \in Nat
    BY SMTT(30) DEF TimeInv, IsConsensusReached
  <1>2. IsConsensusReached'
    BY <1>1 DEF IsConsensusReached
  <1>3. ASSUME CanCloseEpochAccounts PROVE CanCloseEpochAccounts'
    <2>. DEFINE e == Epoch(slot)
                e1 == Epoch(slot')
                f == Epoch(slot_consensus_reached)
    <2>1. e \in Nat /\ e1 \in Nat /\ f \in Nat /\ e <= e1
      BY <1>1, EpochMonotone, SMTT(30)
    <2>2. e - f >= config.close
      BY <1>3 DEF CanCloseEpochAccounts
    <2>. HIDE DEF e, e1, f
    <2>3. e1 - f >= config.close
      BY <1>1, <2>1, <2>2, SMTT(30)
    <2>. QED  BY <1>1, <1>2, <2>3 DEF CanCloseEpochAccounts, e1, f, Epoch
  <1>4. ASSUME CanStartRouting PROVE CanStartRouting'
    BY <1>1, <1>2, <1>4, SMTT(30) DEF CanStartRouting
  <1>. QED  BY <1>2, <1>3, <1>4

\* No step undoes a condition of current_state.
LEMMA StepAdvances ==
    ASSUME AccountInv, TimeInv, DoneInv, [Next]_vars, epoch_state_live, config' = config
    PROVE  Advances
  <1>0. /\ WeightTable \in Accounts /\ EpochSnapshot \in Accounts /\ BallotBox \in Accounts
        /\ NCNRewardRouter \in Accounts
        /\ \A o \in Operators : /\ OperatorSnapshot(o) \in Accounts
                                /\ OperatorVaultRewardRouter(o) \in Accounts
    BY DEF Accounts, EpochAccounts, OperatorAccounts
  <1>1. ASSUME slot' = slot \/ slot' = slot + 1,
               IsConsensusReached => slot_consensus_reached' = slot_consensus_reached,
               \A a \in Accounts : status[a] # "DNE" => status'[a] # "DNE",
               weights_final => weights_final', SnapshotFinal => SnapshotFinal'
        PROVE  Advances
    BY <1>0, <1>1, TimeAdvances DEF Advances
  <1>2. ASSUME NEW a \in Accounts, NEW s, s # "DNE", status' = [status EXCEPT ![a] = s]
        PROVE  \A b \in Accounts : status[b] # "DNE" => status'[b] # "DNE"
    BY <1>2 DEF AccountInv
  <1>3. ASSUME NEW o \in Operators, operators_done' = operators_done \cup {o}
        PROVE  SnapshotFinal => SnapshotFinal'
    BY <1>3 DEF SnapshotFinal
  <1>4. CASE InitializeEpochState
    BY <1>4 DEF InitializeEpochState
  <1>5. CASE InitializeWeightTable \/ InitializeBallotBox \/ InitializeNCNRewardRouter
    BY <1>1, <1>5 DEF InitializeWeightTable, InitializeBallotBox, InitializeNCNRewardRouter,
                      Allocate, stateVars, progressVars, SnapshotFinal
  <1>6. ASSUME NEW a \in Accounts, NEW s, s # "DNE", Complete(a, s)
        PROVE  Advances
    BY <1>1, <1>2, <1>6 DEF Complete, progressVars, SnapshotFinal
  <1>7. CASE ReallocWeightTable \/ ReallocBallotBox \/ ReallocNCNRewardRouter
    BY <1>0, <1>6, <1>7 DEF ReallocWeightTable, ReallocBallotBox, ReallocNCNRewardRouter
  <1>8. CASE InitializeEpochSnapshot
    BY <1>0, <1>1, <1>2, <1>8 DEF InitializeEpochSnapshot, Create, progressVars, SnapshotFinal
  <1>9. ASSUME NEW o \in Operators, NEW active \in BOOLEAN, InitializeOperatorSnapshot(o, active)
        PROVE  Advances
    <2>1. /\ slot' = slot /\ slot_consensus_reached' = slot_consensus_reached
          /\ weights_final' = weights_final
          /\ status' = [status EXCEPT ![OperatorSnapshot(o)] = "Created"]
          /\ operators_done' = operators_done \/ operators_done' = operators_done \cup {o}
      BY <1>9 DEF InitializeOperatorSnapshot, Create
    <2>2. SnapshotFinal => SnapshotFinal'
      BY <1>3, <2>1 DEF SnapshotFinal
    <2>. QED  BY <1>0, <1>1, <1>2, <2>1, <2>2
  <1>10. ASSUME NEW o \in Operators, InitializeOperatorVaultRewardRouter(o)
         PROVE  Advances
    BY <1>0, <1>1, <1>2, <1>10
       DEF InitializeOperatorVaultRewardRouter, Create, progressVars, SnapshotFinal
  <1>11. CASE FinalizeWeights
    BY <1>1, <1>11 DEF FinalizeWeights, stateVars, SnapshotFinal
  <1>12. ASSUME NEW o \in Operators, CompleteOperatorSnapshot(o)
         PROVE  Advances
    BY <1>1, <1>3, <1>12 DEF CompleteOperatorSnapshot, stateVars
  <1>13. CASE ReachConsensus
    BY <1>1, <1>13 DEF ReachConsensus, stateVars, SnapshotFinal
  <1>14. ASSUME NEW a \in Accounts, CloseAccount(a)
         PROVE  Advances
    BY <1>1, <1>2, <1>14 DEF CloseAccount, progressVars, SnapshotFinal
  <1>15. CASE CloseEpochState
    BY <1>1, <1>15 DEF CloseEpochState, progressVars, SnapshotFinal
  <1>16. ASSUME NEW c, NEW v, AdminSetParameters(c, v)
         PROVE  Advances
    BY <1>1, <1>16 DEF AdminSetParameters, stateVars, progressVars, SnapshotFinal
  <1>17. CASE ClockTick
    BY <1>1, <1>17 DEF ClockTick, stateVars, progressVars, SnapshotFinal
  <1>18. CASE UNCHANGED vars
    BY <1>1, <1>18 DEF vars, stateVars, progressVars, SnapshotFinal
  <1>. QED
    BY <1>4, <1>5, <1>7, <1>8, <1>9, <1>10, <1>11, <1>12, <1>13, <1>14, <1>15, <1>16, <1>17,
       <1>18 DEF Next, Create_, Work, Close

\* A phase is left only for a later one when no condition is undone.
LEMMA PhaseFollows ==
    ASSUME Advances
    PROVE  Phases[CurrentState] <= Phases[CurrentState']
  <1>. DEFINE A == CanCloseEpochAccounts
              B == status[WeightTable] # "DNE" /\ weights_final
              C == status[EpochSnapshot] # "DNE" /\ SnapshotFinal /\ status[BallotBox] # "DNE"
              D == IsConsensusReached
              E == CanStartRouting
  <1>1. Phases[CurrentState] = IF A THEN 5 ELSE IF ~B THEN 0 ELSE IF ~C THEN 1
                               ELSE IF ~D THEN 2 ELSE IF ~E THEN 3 ELSE 4
    BY DEF CurrentState, Phases
  <1>2. Phases[CurrentState'] = IF A' THEN 5 ELSE IF ~B' THEN 0 ELSE IF ~C' THEN 1
                                ELSE IF ~D' THEN 2 ELSE IF ~E' THEN 3 ELSE 4
    BY DEF CurrentState, Phases
  <1>3. (A => A') /\ (B => B') /\ (C => C') /\ (D => D') /\ (E => E')
    BY DEF Advances
  <1>. HIDE DEF A, B, C, D, E
  <1>. QED  BY <1>1, <1>2, <1>3, SMTT(30)

----------------------------------------------------------------------------
(* The theorems.                                                           *)

\* The statuses that the handlers keep in EpochState are the truth about the
\* accounts of an epoch with any number of operators.
THEOREM StatusAlwaysTrue == Spec => []StatusIsTrue
  <1>1. AccountInv => StatusIsTrue
    BY DEF AccountInv
  <1>. QED  BY <1>1, InitAccountInv, AccountInvIsInductive, PTL DEF Spec

\* close_epoch_account writes the marker only when every account of the epoch
\* is gone, and none comes back.
THEOREM NothingIsLeftBehind == Spec => []NothingLeftBehind
  <1>1. AccountInv => NothingLeftBehind
    BY DEF AccountInv, NothingLeftBehind, MarkerReplaces, NoStateNoAccount
  <1>. QED  BY <1>1, InitAccountInv, AccountInvIsInductive, PTL DEF Spec

\* Accounts are closed only after consensus and the configured epochs, for any
\* epoch schedule and whatever the admin sets the parameters to.
THEOREM AlwaysClosedInTime == Spec => []ClosedInTime
  <1>1. TimeInv => ClosedInTime
    BY DEF TimeInv
  <1>. QED  BY <1>1, InitTimeInv, TimeInvIsInductive, PTL DEF Spec

\* No handler creates again what was closed, or an epoch that has its marker.
THEOREM NothingIsReopened == Spec => NeverReopened
  <1>1. AccountInv /\ [Next]_vars => [StaysClosed]_vars
    BY StepReopensNothing
  <1>. QED  BY <1>1, InitAccountInv, AccountInvIsInductive, PTL
            DEF Spec, NeverReopened, StaysClosed

\* In the phase Vote no account that cast_vote checks is missing or closed: an
\* account is closed only after consensus, which Vote excludes.
THEOREM VoteAlwaysPossible == Spec => []VoteIsPossible
  <1>1. AccountInv /\ TimeInv => VoteIsPossible
    <2>. SUFFICES ASSUME AccountInv, TimeInv, epoch_state_live, CurrentState = "Vote"
                  PROVE  /\ \A a \in {WeightTable, EpochSnapshot, BallotBox} : account[a] = "live"
                         /\ weights_final /\ SnapshotFinal /\ ~is_closing
      BY DEF VoteIsPossible
    <2>1. /\ status[WeightTable] # "DNE" /\ status[EpochSnapshot] # "DNE"
          /\ status[BallotBox] # "DNE"
          /\ weights_final /\ SnapshotFinal /\ ~IsConsensusReached
      BY DEF CurrentState
    <2>2. ~is_closing
      BY <2>1 DEF TimeInv, ClosedInTime
    <2>3. {WeightTable, EpochSnapshot, BallotBox} \subseteq Accounts
      BY DEF Accounts, EpochAccounts
    <2>4. ASSUME NEW a \in {WeightTable, EpochSnapshot, BallotBox}
          PROVE  account[a] = "live"
      <3>1. a \in Accounts /\ status[a] # "DNE"
        BY <2>1, <2>3
      <3>2. status[a] \in {"Created", "CreatedWithReceiver"}
        BY <2>2, <3>1 DEF AccountInv, ClosedOnlyWhenClosing, Statuses
      <3>. QED  BY <3>1, <3>2 DEF AccountInv, StatusIsTrue
    <2>. QED  BY <2>1, <2>2, <2>4
  <1>. QED  BY <1>1, InitAccountInv, AccountInvIsInductive, InitTimeInv, TimeInvIsInductive,
               PTL DEF Spec

\* The phase of a living epoch goes back only when the admin changes the
\* parameters.
THEOREM PhasesAlwaysAdvance == Spec => PhasesAdvance
  <1>. DEFINE Forward == epoch_state_live /\ epoch_state_live' /\ config' = config
                             => Phases[CurrentState] <= Phases[CurrentState']
  <1>1. AccountInv /\ TimeInv /\ DoneInv /\ [Next]_vars => [Forward]_vars
    BY StepAdvances, PhaseFollows
  <1>2. Init => DoneInv
    BY DEF Init, DoneInv
  <1>. QED  BY <1>1, <1>2, InitAccountInv, AccountInvIsInductive, InitTimeInv,
               TimeInvIsInductive, DoneInvIsInductive, PTL DEF Spec, PhasesAdvance

----------------------------------------------------------------------------
(* The keeper's loop.                                                      *)

KeeperTypes ==
    /\ chain_epoch \in Epochs
    /\ phase \in [Epochs -> EpochPhases]
    /\ current_keeper_epoch \in Epochs
    /\ current_keeper_epoch <= chain_epoch
    /\ state \in [epoch : Nat, current_state : EpochPhases, is_epoch_completed : BOOLEAN]

\* Between a fetch that succeeded and the next round, KeeperState is about
\* the epoch the keeper works on, and the chain is not behind it.
KeeperCurrent ==
    pc \in {"create", "crank", "close", "detect"} =>
        /\ state.epoch = current_keeper_epoch
        /\ PhaseOrder[state.current_state] <= PhaseOrder[phase[current_keeper_epoch]]

KeeperInv == KeeperTypes /\ KeeperCurrent

\* What the chain does to phases: they go forward, whoever acts.
PhasesForward ==
    /\ phase' \in [Epochs -> EpochPhases]
    /\ \A e \in Epochs : PhaseOrder[phase[e]] <= PhaseOrder[phase'[e]]

----------------------------------------------------------------------------
(* The chain.                                                              *)

\* The order of the phases is one of naturals.
LEMMA PhasesOrdered ==
    /\ EpochPhases = {"none", "SetWeight", "Snapshot", "Vote", "PostVoteCooldown",
                 "Distribute", "Close", "completed"}
    /\ \A p \in EpochPhases : PhaseOrder[p] \in Nat
  BY SMTT(30) DEF EpochPhases, PhaseOrder

\* Nothing happens to the phases.
LEMMA PhaseStays ==
    ASSUME KeeperTypes, phase' = phase
    PROVE  PhasesForward
  BY PhasesOrdered, SMTT(30) DEF KeeperTypes, PhasesForward

\* One epoch goes to a phase that is not earlier.
LEMMA PhaseMoves ==
    ASSUME KeeperTypes, NEW e \in Epochs, NEW to \in EpochPhases,
           phase' = [phase EXCEPT ![e] = to], PhaseOrder[phase[e]] <= PhaseOrder[to]
    PROVE  PhasesForward
  BY PhasesOrdered, SMTT(30) DEF KeeperTypes, PhasesForward

\* Every way into a phase that the program has.
LEMMA EnterForward ==
    ASSUME KeeperTypes, NEW e \in Epochs, NEW from \in EpochPhases, NEW to \in EpochPhases,
           NEW created, Enter(e, from, to, created), PhaseOrder[from] <= PhaseOrder[to]
    PROVE  PhasesForward
  BY PhaseMoves DEF Enter

\* The transitions that cranks cause.
LEMMA CrankOrder ==
    /\ PhaseOrder["none"] <= PhaseOrder["SetWeight"]
    /\ PhaseOrder["SetWeight"] <= PhaseOrder["Snapshot"]
    /\ PhaseOrder["Snapshot"] <= PhaseOrder["Vote"]
    /\ PhaseOrder["Vote"] <= PhaseOrder["PostVoteCooldown"]
    /\ PhaseOrder["PostVoteCooldown"] <= PhaseOrder["Distribute"]
    /\ PhaseOrder["PostVoteCooldown"] <= PhaseOrder["Close"]
    /\ PhaseOrder["Distribute"] <= PhaseOrder["Distribute"]
    /\ PhaseOrder["Distribute"] <= PhaseOrder["Close"]
    /\ PhaseOrder["Close"] <= PhaseOrder["completed"]
  BY SMTT(30) DEF PhaseOrder

\* close_epoch_account on EpochState completes the epoch.
LEMMA CloseForward ==
    ASSUME KeeperTypes, NEW e \in Epochs, CompleteEpoch(e)
    PROVE  PhasesForward
  BY PhaseMoves, PhasesOrdered, CrankOrder DEF CompleteEpoch

\* Whatever others and time do, no epoch goes back to an earlier phase, and
\* the chain's epoch only grows.
LEMMA ChainForward ==
    ASSUME KeeperTypes, ChainNext
    PROVE  PhasesForward /\ chain_epoch' \in Epochs /\ chain_epoch <= chain_epoch'
  <1>0. chain_epoch \in Nat /\ chain_epoch \in Epochs
    BY ChainAssumption, SMTT(30) DEF KeeperTypes, Epochs
  <1>1. CASE NextEpoch
    <2>1. PhasesForward
      BY <1>1, PhaseStays DEF NextEpoch
    <2>. QED  BY <1>0, <1>1, <2>1, ChainAssumption, SMTT(30) DEF NextEpoch, Epochs
  <1>2. ASSUME NEW e \in Epochs, OperatorsDecide(e) \/ TimePasses(e)
        PROVE  PhasesForward /\ chain_epoch' = chain_epoch
    BY <1>2, PhaseMoves, PhasesOrdered, CrankOrder DEF OperatorsDecide, TimePasses
  <1>3. ASSUME NEW e \in Epochs, VotingEnds(e) \/ RewardsArrive(e) \/ CloseRouterByHand(e)
        PROVE  PhasesForward /\ chain_epoch' = chain_epoch
    BY <1>3, PhaseStays DEF VotingEnds, RewardsArrive, CloseRouterByHand
  <1>4. ASSUME NEW e \in Epochs, OthersCrank(e)
        PROVE  PhasesForward /\ chain_epoch' = chain_epoch
    BY <1>4, EnterForward, PhasesOrdered, CrankOrder DEF OthersCrank
  <1>5. ASSUME NEW e \in Epochs, OthersClose(e)
        PROVE  PhasesForward /\ chain_epoch' = chain_epoch
    BY <1>5, PhaseStays, CloseForward DEF OthersClose
  <1>. QED  BY <1>0, <1>1, <1>2, <1>3, <1>4, <1>5, SMTT(30) DEF ChainNext

----------------------------------------------------------------------------
(* The keeper.                                                             *)

\* While the keeper keeps its epoch and its state, progress of the chain
\* does not make what it knows untrue.
LEMMA StaysCurrent ==
    ASSUME KeeperInv, PhasesForward, pc \in {"create", "crank", "close", "detect"},
           chain_epoch' = chain_epoch, current_keeper_epoch' = current_keeper_epoch,
           state' = state
    PROVE  KeeperInv'
  <1>1. KeeperTypes'
    BY DEF KeeperInv, KeeperTypes, PhasesForward
  <1>2. /\ state.epoch = current_keeper_epoch /\ current_keeper_epoch \in Epochs
        /\ PhaseOrder[state.current_state] <= PhaseOrder[phase[current_keeper_epoch]]
        /\ PhaseOrder[phase[current_keeper_epoch]] <= PhaseOrder[phase'[current_keeper_epoch]]
    BY DEF KeeperInv, KeeperTypes, KeeperCurrent, PhasesForward
  <1>3. /\ PhaseOrder[state.current_state] \in Nat
        /\ PhaseOrder[phase[current_keeper_epoch]] \in Nat
        /\ PhaseOrder[phase'[current_keeper_epoch]] \in Nat
    BY PhasesOrdered DEF KeeperInv, KeeperTypes, PhasesForward
  <1>4. PhaseOrder[state.current_state] <= PhaseOrder[phase'[current_keeper_epoch]]
    BY <1>2, <1>3, SMTT(30)
  <1>. QED  BY <1>1, <1>2, <1>4 DEF KeeperInv, KeeperCurrent

\* progress_epoch moves to the next epoch the chain has, or to the first one.
LEMMA ProgressKeeps ==
    ASSUME KeeperInv, KeeperProgress
    PROVE  KeeperInv'
  <1>1. /\ current_keeper_epoch' = ProgressEpoch /\ pc' \in {"fetch", "progress"}
        /\ chain_epoch' = chain_epoch /\ phase' = phase /\ state' = state
    BY DEF KeeperProgress, Ok, Fail, chainVars
  <1>2. ProgressEpoch \in Epochs /\ ProgressEpoch <= chain_epoch
    BY ChainAssumption, SMTT(30) DEF KeeperInv, KeeperTypes, Epochs, ProgressEpoch
  <1>. QED  BY <1>1, <1>2 DEF KeeperInv, KeeperTypes, KeeperCurrent

\* A fetch that succeeds makes the state current; one that fails starts over.
LEMMA FetchKeeps ==
    ASSUME KeeperInv, KeeperFetch
    PROVE  KeeperInv'
  <1>0. /\ current_keeper_epoch \in Epochs /\ current_keeper_epoch \in Nat
        /\ Fetched \in EpochPhases /\ PhaseOrder[Fetched] \in Nat
        /\ state \in [epoch : Nat, current_state : EpochPhases, is_epoch_completed : BOOLEAN]
    BY ChainAssumption, PhasesOrdered, SMTT(30) DEF KeeperInv, KeeperTypes, Epochs, Fetched
  <1>1. /\ chain_epoch' = chain_epoch /\ phase' = phase
        /\ current_keeper_epoch' = current_keeper_epoch
    BY DEF KeeperFetch, chainVars
  <1>2. ASSUME pc' = "progress",
               state' \in [epoch : Nat, current_state : EpochPhases, is_epoch_completed : BOOLEAN]
        PROVE  KeeperInv'
    BY <1>1, <1>2 DEF KeeperInv, KeeperTypes, KeeperCurrent
  <1>3. CASE /\ state' = [state EXCEPT !.epoch = current_keeper_epoch,
                                       !.is_epoch_completed = TRUE]
             /\ Ok("progress")
    BY <1>0, <1>2, <1>3 DEF Ok
  <1>4. CASE state' = [epoch |-> current_keeper_epoch, current_state |-> Fetched,
                       is_epoch_completed |-> FALSE]
    BY <1>0, <1>1, <1>4, SMTT(30) DEF KeeperInv, KeeperTypes, KeeperCurrent, Fetched
  <1>5. CASE /\ \E completed \in {FALSE, state.is_epoch_completed} :
                   state' = [state EXCEPT !.epoch = current_keeper_epoch,
                                          !.is_epoch_completed = completed]
             /\ Fail
    BY <1>0, <1>2, <1>5 DEF Fail
  <1>. QED  BY <1>3, <1>4, <1>5 DEF KeeperFetch

\* create_epoch_state
LEMMA CreateKeeps ==
    ASSUME KeeperInv, KeeperCreate
    PROVE  KeeperInv'
  <1>1. /\ chain_epoch' = chain_epoch /\ current_keeper_epoch' = current_keeper_epoch
        /\ state' = state /\ pc = "create" /\ KeeperTypes /\ state.epoch \in Epochs
    BY DEF KeeperCreate, KeeperInv, KeeperTypes, KeeperCurrent
  <1>2. PhasesForward
    BY <1>1, EnterForward, PhaseStays, PhasesOrdered, CrankOrder DEF KeeperCreate
  <1>. QED  BY <1>1, <1>2, StaysCurrent

\* The cranks of all phases, on the epoch that was fetched.
LEMMA CrankKeeps ==
    ASSUME KeeperInv, KeeperCrank
    PROVE  KeeperInv'
  <1>1. /\ chain_epoch' = chain_epoch /\ current_keeper_epoch' = current_keeper_epoch
        /\ state' = state /\ pc = "crank" /\ KeeperTypes /\ state.epoch \in Epochs
    BY DEF KeeperCrank, KeeperInv, KeeperTypes, KeeperCurrent
  <1>2. CASE CrankSetWeight \/ CrankSnapshot
    <2>1. PhasesForward
      BY <1>1, <1>2, EnterForward, PhaseStays, PhasesOrdered, CrankOrder
         DEF CrankSetWeight, CrankSnapshot, Advance
    <2>. QED  BY <1>1, <2>1, StaysCurrent
  <1>3. CASE phase' = phase
    BY <1>1, <1>3, PhaseStays, StaysCurrent
  <1>. QED  BY <1>2, <1>3 DEF KeeperCrank, CrankNothing, CrankDistribute

\* crank_close_epoch_accounts, one account after the other.
LEMMA CloseKeeps ==
    ASSUME KeeperInv, KeeperClose
    PROVE  KeeperInv'
  <1>1. /\ chain_epoch' = chain_epoch /\ current_keeper_epoch' = current_keeper_epoch
        /\ state' = state /\ pc = "close" /\ KeeperTypes /\ state.epoch \in Epochs
        /\ CloseNext(state.epoch, ClosedByCrank[to_close])
    BY DEF KeeperClose, KeeperInv, KeeperTypes, KeeperCurrent
  <1>2. phase' = phase \/ CompleteEpoch(state.epoch)
    BY <1>1 DEF CloseNext
  <1>3. PhasesForward
    BY <1>1, <1>2, CloseForward, PhaseStays
  <1>. QED  BY <1>1, <1>3, StaysCurrent

\* Every step of the keeper and of everybody else keeps the invariant.
LEMMA KeeperInvIsInductive == KeeperInv /\ [KeeperNext]_kvars => KeeperInv'
  <1>. SUFFICES ASSUME KeeperInv, [KeeperNext]_kvars PROVE KeeperInv'
    OBVIOUS
  <1>0. KeeperTypes
    BY DEF KeeperInv
  <1>1. CASE ChainNext /\ UNCHANGED keeperVars
    <2>1. /\ PhasesForward /\ chain_epoch' \in Epochs /\ chain_epoch <= chain_epoch'
          /\ pc' = pc /\ current_keeper_epoch' = current_keeper_epoch /\ state' = state
      BY <1>0, <1>1, ChainForward DEF keeperVars
    <2>2. KeeperTypes'
      BY <1>0, <2>1, ChainAssumption, SMTT(30) DEF KeeperTypes, PhasesForward, Epochs
    <2>3. CASE pc \in {"create", "crank", "close", "detect"}
      <3>1. /\ state.epoch = current_keeper_epoch /\ current_keeper_epoch \in Epochs
            /\ PhaseOrder[state.current_state] <= PhaseOrder[phase[current_keeper_epoch]]
            /\ PhaseOrder[phase[current_keeper_epoch]]
                   <= PhaseOrder[phase'[current_keeper_epoch]]
        BY <2>1, <2>3 DEF KeeperInv, KeeperTypes, KeeperCurrent, PhasesForward
      <3>2. /\ PhaseOrder[state.current_state] \in Nat
            /\ PhaseOrder[phase[current_keeper_epoch]] \in Nat
            /\ PhaseOrder[phase'[current_keeper_epoch]] \in Nat
        BY <2>1, PhasesOrdered DEF KeeperInv, KeeperTypes, PhasesForward
      <3>3. PhaseOrder[state.current_state] <= PhaseOrder[phase'[current_keeper_epoch]]
        BY <3>1, <3>2, SMTT(30)
      <3>. QED  BY <2>1, <2>2, <3>1, <3>3 DEF KeeperInv, KeeperCurrent
    <2>4. CASE pc \notin {"create", "crank", "close", "detect"}
      BY <2>1, <2>2, <2>4 DEF KeeperInv, KeeperCurrent
    <2>. QED  BY <2>3, <2>4
  <1>2. CASE Keep
    <2>1. CASE KeeperDetect
      <3>1. /\ chain_epoch' = chain_epoch /\ phase' = phase /\ pc' = "progress"
            /\ current_keeper_epoch' = current_keeper_epoch /\ state' = state
        BY <2>1 DEF KeeperDetect, chainVars, Ok, Fail
      <3>. QED  BY <3>1 DEF KeeperInv, KeeperTypes, KeeperCurrent
    <2>. QED  BY <1>2, <2>1, ProgressKeeps, FetchKeeps, CreateKeeps, CrankKeeps, CloseKeeps
              DEF Keep
  <1>3. CASE UNCHANGED kvars
    BY <1>3 DEF KeeperInv, KeeperTypes, KeeperCurrent, kvars, chainVars, keeperVars
  <1>. QED  BY <1>1, <1>2, <1>3 DEF KeeperNext

\* The loop starts at the first epoch, with nothing fetched.
LEMMA KeeperInitInv == KeeperInit => KeeperInv
  BY ChainAssumption, PhasesOrdered, SMTT(30)
     DEF KeeperInit, ChainInit, KeeperInv, KeeperTypes, KeeperCurrent, Epochs

----------------------------------------------------------------------------
(* The theorems.                                                           *)

\* Whatever the keeper cranks, closes or judges stalled, the epoch it works on
\* has reached that phase: KeeperState, which outlives epochs and failed
\* requests, is never acted on for an epoch it was not fetched for.
THEOREM KeeperActsOnReachedPhase == KeeperSpec => []ActsOnReachedPhase
  <1>1. KeeperInv => ActsOnReachedPhase
    BY DEF KeeperInv, KeeperCurrent, ActsOnReachedPhase
  <1>. QED  BY <1>1, KeeperInitInv, KeeperInvIsInductive, PTL DEF KeeperSpec

=============================================================================
