# A TLA+ verification of the NCN program

The repository is a template for a *node consensus network* (NCN) on Solana. Once
per epoch a set of operators, weighted by the stake that restaking vaults delegate
to them, votes on a value (the "weather status"); the program decides the winner by
a two-thirds stake majority, routes the epoch's rewards to everyone who took part
in the decision and finally closes the accounts of the epoch. This directory
models the on-chain program (`program/`, `core/`), the client functions that call it
(`cli/src/instructions.rs` over the generated builders in `clients/rust`) and the two
off-chain loops that drive it (`cli/src/keeper`, `cli/src/operator`) in TLA+, checks the models on small
instances with TLC and proves the central properties for every value of the
constants with TLAPS.

An instruction is a transaction: it runs alone and an error undoes all its writes.
One handler is therefore one atomic action, its guard is the conjunction of the
handler's checks, and a failing instruction is a step that changes nothing.
Concurrency is the order in which independent parties (keeper, operators, admins,
anybody) submit instructions while the clock advances. The off-chain loops are not
atomic: each request to the chain is a step of its own, may fail, and sees what
others did in the meantime.

## 1. Inventory

### 1.1 Components, their state and their operations

| component | state (account) | operations |
|---|---|---|
| Config and fees | `Config`, `FeeConfig` (two `Fees` with activation epochs) | `admin_initialize_config`, `admin_set_parameters`, `admin_set_new_admin`, `FeeConfig::update_fee_config` |
| Vault registry | `VaultRegistry` (64 mints, 64 vaults) | `initialize_/realloc_vault_registry`, `admin_register_st_mint`, `admin_set_st_mint`, `register_vault` |
| Weight table | `WeightTable` per epoch | `initialize_/realloc_weight_table`, `set_epoch_weights`, `admin_set_weight` |
| Stake snapshot | `EpochSnapshot`, one `OperatorSnapshot` per operator | `initialize_epoch_snapshot`, `initialize_operator_snapshot`, `snapshot_vault_operator_delegation` |
| Ballot box | `BallotBox`, `ConsensusResult` per epoch | `initialize_/realloc_ballot_box`, `cast_vote`, `admin_set_tie_breaker` |
| Reward routing | `NCNRewardRouter`/`NCNRewardReceiver`, one `OperatorVaultRewardRouter`/`Receiver` per operator | `initialize_/realloc_ncn_reward_router`, `initialize_operator_vault_reward_router`, `route_ncn_rewards`, `route_operator_vault_rewards`, five `distribute_*` |
| Epoch state and lifecycle | `EpochState` (account statuses, progress counters, consensus slot), `EpochMarker` | `initialize_epoch_state`, every handler above (it records its progress), `close_epoch_account` |
| Account payer | a lamport account that pays for and reclaims rent | `pay_and_create_account`, `pay_and_realloc`, `close_account`, `transfer` |
| Keeper | `KeeperState` (off chain) | the loop of `cli/src/keeper`: fetch, derive the state, crank, advance the epoch |
| Operator client | `OperatorState` (off chain) | the loop of `cli/src/operator`: wait for `Vote`, vote, submit |
| Instruction interface | none | `NCNProgramInstruction`, `process_instruction`, the accounts each handler takes by position; the generated Rust builders |
| CLI functions | what a call is doing (off chain) | `create_*`, `get_or_create_*`, `close_*`, `route_*`, `distribute_*`, `admin_*`; `send_transactions` with its retries |
| CLI arguments, JavaScript client, IDL, metrics | none | parsing, serialisation and reporting |

### 1.2 How the parts interact

Registry, weight table, stake snapshot, ballot box and reward routers form a
pipeline: each stage is created when the one before is final and copies what it
needs. `EpochState` runs alongside. Every handler reports to it, `current_state`
derives from it the phase of the epoch (SetWeight, Snapshot, Vote,
PostVoteCooldown, Distribute, Close), and keeper and operators act by that phase.
The ballot box feeds the reward routers twice: with the list of votes and with the
winning weight. The epoch ends when all accounts are closed and an `EpochMarker`
takes the place of `EpochState`.

### 1.3 What makes it hard

* *Open while in use.* Mints, vaults and operators join at any time; the counts of
  an epoch are fixed by three handlers at three moments.
* *Late events.* Votes are accepted for a window after consensus, deposits at any
  time, and the admin changes the length of the windows while they run.
* *Interrupted loops.* Routing stops after some iterations and resumes in a later
  transaction from saved state.
* *Duplicate bookkeeping.* Progress and outcome are stored in several accounts by
  different handlers.
* *Rounding.* Consensus and shares are fixed-point quotients.
* *One purse.* The accounts of all epochs are paid for by one account that reserves
  nothing and may not fall below its own rent.
* *Repetition.* A client that hears nothing sends again; a transaction may run twice,
  late, or stop half way through a sequence.
* *Memory between requests.* The loops keep state about an epoch over failing
  requests and over a change of epoch.

The hazards, with their lines and the properties that cover them, are listed in
`PROJECT.json`.

## 2. Modules

| module | models | state |
|---|---|---|
| `BallotBox` | `core/ballot_box.rs`, `consensus_result.rs`, `cast_vote`, `admin_set_tie_breaker`, two of the parameters of `admin_set_parameters` | `BallotBox`, `ConsensusResult`, the voting fields of `EpochState`, the slot |
| `EpochVote` | the promise of a vote, without accounts: an abstract specification | votes and outcome |
| `WeightTable` | registry, weight table, `initialize_/realloc_weight_table`, `set_epoch_weights`, `admin_set_weight`, `register_vault`, `admin_register_/set_st_mint` | the registry, one epoch's table, `EpochState`'s record of it |
| `StakeSnapshot` | the two snapshots and their three handlers; extends `WeightTable`, so the registry and the table keep moving | `EpochSnapshot`, every `OperatorSnapshot`, `EpochState`'s progress |
| `EpochLifecycle` | creation, growth, completion and closing of every account of an epoch, `current_state`, `are_all_closed`, the marker | account contents (none, allocated, live), `EpochState`'s statuses |
| `NCNRewardRouter` | the first routing stage, its receiver, payments, deposits, late votes, closing of the router and of the accounts it reads | router, receiver, votes, which of the read accounts are left |
| `OperatorVaultRewardRouter` | the second stage for every operator; extends `NCNRewardRouter`, whose payments feed it, and adds the tallies of `EpochState` | a router and a receiver for each operator |
| `FeeSchedule` | the promise of a fee schedule: an abstract specification | fee in force, fee announced |
| `FeeConfig` | `core/fees.rs`, creation and use of the fees | two entries, snapshots, the epoch |
| `EpochChain` | the program as the loops see it: phases and accounts of each epoch, and what other people do to them | phase, accounts, rewards for each epoch |
| `Keeper` | `cli/src/keeper`, with the cranks of `cli/src/instructions.rs`; extends `EpochChain` | `KeeperState`, the loop's variables and place |
| `OperatorLoop` | `cli/src/operator`; extends `EpochChain` | `OperatorState`, the loop's variables and place |
| `AccountPayer` | `core/account_payer.rs` and the payments of all `initialize_*`, `realloc_*` and `close_epoch_account`, for several epochs at once | lamports and size of every account, the payer, the receivers |
| `ProgramInterface` | `core/instruction.rs`, `process_instruction`, and the account list, loads, writes and signatures of every handler | none |
| `NCNClient` | the generated Rust builders: metas, discriminator, arguments, what must be set | none |
| `CliCalls` | the functions of `cli/src/instructions.rs`: builders used, fields set, transactions, lookups before them | none |
| `ClientInterface` | the three together: whether each transaction can be built and is accepted | none |
| `ClientCall` | clients running those functions over a network that loses, delays and repeats: `send_transactions`, `get_or_create_*`, `check_created` | one account, lamports at its address, the calls, late transactions |
| `BallotBoxProofs`, `StakeSnapshotProofs` (with the weight table), `NcnRouterProofs` (the first routing stage), `RewardRouterProofs` (both stages), `EpochProofs` (fees, lifecycle, keeper), `AccountPayerProofs`, `ClientCallProofs` | theorems | |
| `SumTheorems` | facts about sums over finite sets that the proofs share | |
| `MCBallotBox`, `MCStakeSnapshot`, `MCNCNRewardRouter`, `MCOperatorVaultRewardRouter`, `MCFeeConfig`, `MCAccountPayer`, `MCClientCall` | instances for TLC | |

An action has the name of its handler (`CastVote` is `process_cast_vote`); its
guard is what the handler checks and its primed variables what the handler writes,
progress in `EpochState` included. `PROJECT.json` gives the lines for every
definition. Definitions named `X_Something` next to a definition `X` are wrong
variants of it, used to confirm that a property notices that mistake.

Abstractions common to the modules: accounts are named by what they are, so PDA and
ownership checks hold by construction; signers are implicit in who may take an
action (`ProgramInterface` has them as the handlers check them); a transaction that
fails changes nothing and is left out; rent is paid without limit, except in
`AccountPayer`. The restaking and vault programs are external: they
appear as vaults and operators that join, delegations of arbitrary size, and
vaults and operators that are active or not.

Particular to a module:

* `BallotBox`: a ballot is its status code; an invalid code is rejected as in
  `cast_vote`. `PreciseNumber` is division rounded down to 1/`PRECISION`. Slots are
  bounded by `MaxSlot`, and the u64 conversion by `U64_MAX`.
* `FeeConfig`: no instruction calls `update_fee_config` yet; it is modelled as the core
  crate offers it, called in a transaction with the epoch of the clock. A snapshot
  takes the fees of the epoch it is made for, which may be an earlier one.
* `WeightTable`: growth by 10 KB is growth by one of `TABLE_CHUNKS` chunks. The
  switchboard price feed is not read by this program; weights are the registry's.
* `EpochLifecycle`: weights and delegations are reduced to "final", the vote to the
  slot of consensus; `BallotBox`, `WeightTable` and `StakeSnapshot` have the detail.
* `NCNRewardRouter`: the end of the voting window is an action (`VotingEnds`). An
  admin who enlarges a window that has ended is another (`AdminExtendsVoting`, at
  most `MaxReopens` times). Exact resumption, termination and the bound on what an
  operator gets do not survive it and are stated for behaviours without it;
  solvency and conservation are stated with it. `received` is a history variable.
  `route_ncn_rewards` loads the epoch snapshot and the ballot box, which
  `close_epoch_account` may remove before the router: `CloseInputs` stands for the first
  of the two to go, since both are needed. Likewise `CloseOperatorSnapshot` for the
  snapshot that an operator's routing and payments read; `ClosedEarly` are the operators
  it may happen to. The delay after consensus before closing is not counted here.
* `EpochChain`: both snapshots are one account and all routers are one; people
  other than the keeper close accounts in the order the keeper's crank does. The
  parameters do not change during a run. `voting` holds the epochs whose ballot box
  still takes votes: it outlives the phase Vote by the slot in which `current_state`
  already says Distribute, and routing is refused there. Rewards arrive in
  `RewardedEpochs` only. The transactions of one crank are one step
  that may fail before or after; marker and `EpochState`, which the client fetches
  with two requests, are read at once. A crank may always succeed: one that is stuck
  for good, because a mint was registered late or there are too many operators, is in
  `WeightTable` and `StakeSnapshot` only.
* `AccountPayer`: lamports are counted in units of what storage costs, and an account
  grows by one unit per allocation. The order in which accounts may be created and
  closed is reduced to what decides over payments. Lamports sent from outside are
  bounded (`MaxGifted`), the payer's funds by `MaxFunded`. The rent of the config and of
  the vault registry, paid once before the first epoch, is left out.
* `ClientInterface`: an address is the name of the field it is derived for, so two
  derivations of one address count as equal; the keypair signs and is writable
  because it pays the fee. Several metas are marked read-only signers while the
  handler writes the account: this works for the keypair alone.
* `ClientCall`: a behaviour follows one account. `MaxLosses` failures of the RPC node
  and `MaxLate` transactions in flight after they were given up. `funded` says that
  there are lamports at the address and no account: `get_account` then answers `Some`,
  and the functions that create only on `is_none()` skip the creation.

## 3. Runs

The bounds are in the `.cfg` files. "Deadlock is not checked" is said where the
modelled part may really stop.

| run | configuration | result |
|---|---|---|
| `ballot_safety` | `BallotBox_safety.cfg`: operators with 333, 333, 234, 100 and 0 of 1000, precision 1/1000, so that 666 reaches the rounded threshold although it is below two thirds; six slots of two per epoch, so that stall, window and tie breaker all happen; 511 in the place of `u64::MAX`, so that recorded weights wrap | `VotesCounted`, `WeightsTallied`, `WinnerIsLegitimate`, `RecordsAgree`, `WinnerIsFinal`, `ImplementsEpochVote` and, under fairness, `EpochIsDecided` hold |
| `stake_snapshot` | `StakeSnapshot_safety.cfg`: three operators with room for two, three vaults (two share a mint) with a registry for two, a table allocated in two calls | `VaultsPriced`, `StakeAddsUp`, `ProgressExact`, `FinalIsFrozen` and, under fairness, `TableSettles` and `SnapshotCompletes` hold |
| `epoch_lifecycle` | `EpochLifecycle_safety.cfg`: two operators, closing after one or two epochs, windows of one to three slots | `StatusIsTrue`, `NothingLeftBehind`, `ClosedInTime`, `VoteIsPossible`, `NeverReopened`, `PhasesAdvance`, `EpochCloses` hold |
| `reward_routers` | `OperatorVaultRewardRouter_safety.cfg`: both stages, two operators of unequal stake, one with two vaults and an empty slot between them, whose snapshot may be closed at any time, one that shares a vault with it and may vote late, one operator or slot per call, two deposits of 5 at any receiver, the window reopened once | `RoutersSolvent`, `BooksBalance`, `ResumeIsExact`, `OperatorResumeIsExact`, `NobodyOverpaid`, `EveryLamportAccounted` and, under fairness, `UndisturbedRoutingFinishes` hold; deadlock is not checked, closed routers are the end |
| `fee_config` | `FeeConfig_safety.cfg`: fees 0, 1, 8, 9 and 11 with a protocol fee of 2 and a cap of 10, so that 8 is the largest allowed; three epochs after the first, snapshots for each of them at once or late | `FeesWithinCap`, `ImplementsFeeSchedule` hold |
| `keeper_loop` | `Keeper_safety.cfg`: two epochs, one failing request at any point, routers closed by somebody | `ActsOnReachedPhase`, `EpochsComplete` hold |
| `operator_loop` | `OperatorLoop_voting.cfg`: two epochs, one failing request | `OperatorVotes` holds; deadlock is not checked, the function may return |
| `account_payer` | `AccountPayer_safety.cfg`: two epochs of four kinds of accounts with two routers and their receivers, two of them grown once, and the two permanent accounts; funds of 22 twice, gifts of 2 | `RentExempt`, `LamportsConserved`, `RentComesBack` and, under fairness, `EpochsFinish` hold; deadlock is not checked, finished epochs are the end |
| `client_calls` | `ClientCall_safety.cfg`: a keeper that ensures and a user that creates and closes, for each of nine accounts and for the functions that only change contents; one retry, two failures, two late transactions, lamports at the address at any time before the account | `CallsAccepted`, `OkMeansDone`, `InitializedOnce` and, under fairness, `EnsureSucceeds` hold |
| `ballot_tie_record` | `BallotBox_tierecord.cfg` | `OutcomeIsRecorded` is violated |
| `routing_reopened` | `NCNRewardRouter_reopened.cfg`: one deposit of 12, the window reopened once | `RoutingFinishes` is violated |
| `keeper_close` | `Keeper_close.cfg`: no failures, nobody closes routers | `EpochsComplete` is violated |

Why the bounds are enough: the handlers treat operators, vaults and mints alike, so
two or three show every interaction of "one of them" with "another", and one more
than there is room for shows the limit. Two epochs show everything a loop carries
from one to the next, including the return to the first. One failing request at
every place shows each error path; a second only repeats one of them after the
loop's state has been fetched anew. What depends on arithmetic is chosen at the
edge (stakes around the threshold, indivisible rewards, fees around the cap), and
it is proved without bounds as well (section 4).

The funds of `account_payer` are tight. `Enough` is the rent of the accounts of both
epochs plus the payer's own minimum. With the rent alone `EpochsFinish` fails: both
epochs can hold everything but one reallocation of a ballot box, and the payer, left
with exactly its minimum, may not pay for either.

### 3.1 Fairness

* `BallotBox`: every operator, the tie breaker admin and the clock are weakly fair.
  Operators resubmit in a loop and the admin is there to settle stalls. Nothing is
  assumed of parameter changes.
* `WeightTable`, `StakeSnapshot`: the keeper's permissionless cranks are weakly fair,
  which is what its loop does; admins and joining vaults and operators are not.
* `EpochLifecycle`: the clock, growth of a router that was begun, and closing.
  Creation of accounts and the vote are not fair.
* `NCNRewardRouter`, `OperatorVaultRewardRouter`: the end of the window and `route_ncn_rewards`, which anybody may
  repeat. Payment and deposits are not fair.
* `Keeper`, `OperatorLoop`: the loop itself; in `Keeper` also operators deciding,
  time passing, the end of the window and somebody closing routers; in `OperatorLoop` the other people's
  cranks. Failures are bounded by `MaxFailures` and never forced.

* `AccountPayer`: every instruction of an epoch is weakly fair, as the keeper repeats
  them and anybody may send them. Funding and gifts are not.
* `ClientCall`: a client goes on with its call, an attempt that is not lost lands,
  and a keeper calls again in its next pass. Losses are bounded and never forced;
  users are not fair.

### 3.2 Where code and documentation disagree

Each run that is expected to be violated states a sentence of the repository; the
quotation and the line are in `PROJECT.json` under "findings". In short: an outcome
by tie breaker is not written to `ConsensusResult`; a routing that is interrupted while the window is enlarged
may be stuck; the keeper does not close the routers it creates.

The models also contain some smaller differences, as the code has them and without
a run of their own:

* `EpochLifecycle`: `close_epoch_account.rs:22` documents that the accounts "or
  `EpochState` itself" are closed after consensus and sufficient time. `are_all_closed`
  also wants the NCN reward router closed, and once the first account is closed the
  router can no longer be created; an epoch without it keeps its `EpochState`.
  `EpochCloses` and `EpochsFinish` make that exception.
* `NCNRewardRouter`: `ncn_reward_router.rs` keeps its routing state for "recovery from
  incomplete routing operations". Nothing keeps the ballot box or the epoch snapshot
  from being closed in between; the keeper's crank closes them and never the
  router. Routing then cannot go on, and closing the router sends what its receiver
  holds above the rent to the NCN's wallet. In the same way an operator's routed rewards can no
  longer be paid once its snapshot is closed. `RoutingFinishes` and
  `UndisturbedRoutingFinishes` make that exception; `EveryLamportAccounted` does not.
* `FeeConfig`: a snapshot made for an epoch before both entries takes the second
  one (`current_fees`), whatever was in force in that epoch. Without an instruction that calls
  `update_fee_config` this does not happen yet; `FeesWithinCap` covers it.
* `ClientCall`: the lookups that skip a creation (`cli/src/instructions.rs:422`, 520, 564,
  731, 855, 1891, 1988) are satisfied by lamports alone. A `create_*` of an account of
  one piece then returns Ok without creating it; one that also reallocates fails, and so
  does `get_or_create_*`, for as long as nobody else creates the account. `OkMeansDone`
  and `EnsureSucceeds` make these exceptions. The program itself accepts such an
  address: `pay_and_create_account` pays the difference.
* `ClientCall`: `get_or_create_vault_registry` does not complete a registry that was
  created and not grown, unlike the other `get_or_create_*`; it fails until
  `create_vault_registry` is called. `EnsureSucceeds` makes that exception.
* `AccountPayer`: `ConsensusResult` and the marker are never closed, so their rent does
  not return. Lamports that reach a receiver after its router was closed stay there.
* `AccountPayer`: the branch of `initialize_ballot_box` for an existing account is not
  reached, since `load_system_account` refuses it first.
* `BallotBox`: a vote is accepted within the window after consensus, while the
  documentation of `cast_vote` (`core/src/ballot_box.rs:496`) lists "Consensus
  already reached" as an error.
* `BallotBox`: `cast_vote.rs:159` records weights modulo 2^64; `RecordsAgree` states
  the recorded weight with that conversion.
* `Keeper`: after a failed request `progress_epoch` may be given the flag of the epoch
  before and leave an epoch it has not looked at; it comes back in a later round,
  which is why `EpochsComplete` holds.
* `OperatorLoop`: documented to loop indefinitely, it returns when a read fails, for
  instance of a ballot box already closed; `OperatorVotes` makes that exception.

## 4. Proofs

`BallotBoxProofs`, for every finite set of operators, every stake distribution,
every precision of 1/100 or finer and all parameter ranges, from the assumptions
named in `BallotBox` (`OperatorsAssumption`, `TotalAssumption`,
`PrecisionAssumption`, `ClockAssumption`, `ConfigAssumption`):
`BallotBoxTyped`, `BallotBoxCounts`, `BallotBoxSupermajority`,
`BallotBoxWinnerVoted`, `BallotBoxLegitimate`, `BallotBoxRecords`, `BallotBoxFinal`. The inductive
invariant `IndInv` joins `TypeOK`, `VotesCounted`, `WinnerWasVotedFor` and
`RecordsAgree` with `QuorumInv`. The last is needed because the supermajority is not
inductive as stated: from 66% alone the next vote does not show that the weight
still passes the rounded test on which `tally_votes` decided. `QuorumInv` keeps that
test for the winner's weight, `ReachesConsensusMonotonic` carries it over later
votes, and `ReachesConsensusIs66Percent` turns it into the percentage at the end.
`BallotBoxFinal` is an action property from the same invariant.

`BallotBoxWeights` adds the sums of `WeightsTallied`: an operator votes once, and its
stake goes into the tally of that ballot only. `BallotBoxImplementsEpochVote` is the refinement of
`EpochVote`; the mapping is in `BallotBox`. A step that does not decide must map to one
that does not in `EpochVote` either, which decides as soon as there is a quorum. That is
`BallotBoxDecidesAtOnce`: while the epoch is open and there is stake no ballot
has one, because `tally_votes` looks at the largest tally after every vote. Without
stake nobody can vote.

`EpochProofs`, on the fees, for all caps, fees, wallets and epochs, from `FeeAssumption`:
`EntriesWellFormed` (the inductive invariant `FeeInv`: no entry is announced for later
than the next epoch), `FeesStayWithinCap` (with `CapInv`, for the entries and the
snapshots) and `FeeConfigRefines`, the refinement of `FeeSchedule`: initial states map
to initial states, an update to `Announce` with the fee asked for, a new epoch to `NewEpoch`, everything else
to a stuttering step. `FeeInv` is needed to know which entry `update_fee_config`
finds at each of its steps.

`EpochProofs`, on the lifecycle, for any set of operators, any epoch schedule and any range of
the parameters: `StatusAlwaysTrue`, `NothingIsLeftBehind`, `AlwaysClosedInTime`,
`NothingIsReopened`, `VoteAlwaysPossible` and `PhasesAlwaysAdvance`. None is inductive alone. A status stays true over a creation only
if nothing closed is created again, which `is_closing` prevents; nothing is left when
`EpochState` goes because the statuses it looks at are true. `AccountInv` joins them
with what connects the two: an account is Closed only in an epoch that is closing,
there is no account without `EpochState`, and the marker replaces it. `TimeInv` carries
`ClosedInTime` over the clock and over changes of the parameters. `VoteIsPossible`
needs both: an account is closed only in an epoch that is closing, which is not before
consensus, and the phase Vote is. For `PhasesAdvance` every condition that
`current_state` asks for is shown to stay true while the parameters stay (`Advances`);
the order of the phases follows from that alone.

`AccountPayerProofs`, for any set of epochs, any sizes and allocation step and from
`PayerAssumption`: `AlwaysRentExempt`, `LamportsAlwaysConserved` and
`RentAlwaysComesBack`. Its invariant `PayerInv` adds that balances and
sizes are natural numbers. One lemma, on `Grow`, covers creation and
reallocation: what is paid is exactly the difference to the rent of the new size. The
two sums are carried by `BooksInv`, from what each handler changes of one account,
one receiver and the payer.

`StakeSnapshotProofs`, on the weight table while snapshots are taken, for any finite sets of
mints and vaults, any capacity and any number of allocation calls, from
`NetworkAssumption` and `SizeAssumption`: `VaultsAlwaysPriced`,
`WeightProgressAlwaysExact` and `WeightsStayFrozen`. `VaultsPriced` is not inductive:
the table is a copy, so the registry has to be priced too (`RegistryPriced`).
`TableCounted` says that an initialized table has its full size, so that no allocation
touches it again, and that `EpochState` counts its weights; progress and `finalized()`
then agree because the weights set are among the table's mints.

The same module, on the snapshots, with `OperatorsAssumption` added:
`AlwaysCountedOnce`, `StakeAlwaysAddsUp`, `ProgressAlwaysExact` and `FinalStaysFrozen`. The invariant
`SnapshotInv` has one part per operator (`OperatorInv`) and one for the epoch
(`EpochInv`). An operator whose snapshot does not exist has an untouched one, an
inactive one has no delegations, and a table is never without vaults; without these a
new active operator could count as complete at once. Both handlers that write an
operator's snapshot are instances of one lemma, `OperatorStep`. That a completed epoch
snapshot is frozen is a counting argument: the complete operators are among the first
`operator_count` indices, and when there are that many none is left to write to.

`RewardRouterProofs`, for any finite sets of operators and vaults, any stakes,
delegations, fees, deposits and `max_iterations`, from `RouterAssumption` and
`DelegationAssumption`: `RoutersAlwaysSolvent`, `BooksAlwaysBalance`,
`NcnAlwaysResumesExactly`, `OperatorAlwaysResumesExactly`, `NobodyEverOverpaid` and
`EveryLamportAlwaysAccounted`, over the composition of both stages. The inductive
invariant is `RoutersInv`; its part for the first stage, `NcnInv`, and that every
handler of that stage keeps it are in `NcnRouterProofs`. None of the six is inductive
alone:

* An interrupted call leaves an index and an amount. `RoutingState` says that they are
  saved together, that the amount is not 0 and that nothing is set aside for operators
  without them. Resuming is exact only because of it.
* `NobodyOverpaid` says nothing of a round that is half done. `FairRounds` adds to what
  an operator was given what the round in progress may still give it (`Unserved`), and
  bounds the two together; each call moves weight from the second to the first. Shares
  are rounded down, so the bound is kept. It also says that nothing was routed while the
  voting window was open: until then late votes may change every weight.
* `EveryLamportAccounted` is carried over a step by what the step does to each place
  (`LamportsMove`, `LamportsClosed`). That closing a router moves no more than the
  receiver has is solvency.

`ResumeIsExact` and `NobodyOverpaid` are for behaviours in which the window is not
reopened, as the runs check them; the other four are not restricted. A subtraction that
would underflow fails its transaction and is a guard in the model. That incoming rewards
never fail so is `RoutersSolvent`, and that a payment has enough processed rewards is
`BooksBalance`. Which of the accounts that routing reads are still there decides when a
handler may run and nothing else, so the invariant does not mention it; its type is kept
by itself (`InputTypes`).

`EpochProofs`, on the keeper, for any range of epochs, any number of failing requests and whatever
others do: `KeeperActsOnReachedPhase`. `KeeperInv` says that between a successful fetch
and the next round `KeeperState` is about the epoch the keeper works on. The rest is that
no step of anybody takes an epoch back (`ChainForward`, which holds for the phases of
`EpochChain`, where the parameters that only the admin changes do not appear).

`ClientCallProofs`, for any sets of keepers and users, any number of retries, failures
of the RPC node and late transactions, and any account sizes, from `CallsAssumption`
(how the functions of `CliCalls` are built: a creating function sends the instruction
that initializes and then as many reallocations as the account lacks; the functions
that create and close nothing send neither): `ReallocSafe` and `OkSafe`. The inductive
invariant is `ClientInv`:

* `AccountSound`: an account has its discriminator exactly when it has all its pieces,
  and in an epoch that is closing it is gone. `process_realloc_*` decides by the
  discriminator whether to initialize, so with `InitsCounted` no reallocation does so
  twice, whoever sent it and whenever it lands.
* `FollowsCall`: what a client has still to send is the rest of the function it called,
  whatever was skipped, repeated or lost.
* `DoneSoFar`: what the transactions a client has behind it were meant to achieve has
  been achieved, by whichever client, unless the epoch was closed since or a lookup
  took lamports at the address for the account. `OkMeansDone`
  needs it for every point of a call, not only for its end; a closing cannot be undone
  because `initialize_*` refuses an epoch that is closing.

`SumTheorems` makes the sums provable. The library defines a sum by recursion over a
finite set, and its induction theorems cannot be used here. `SumIsUnits` shows instead
that the sum is the cardinality of a disjoint union of intervals, by taking a smallest
set for which it is not; adding or changing an element, splitting a sum, and bounding it
are then facts about cardinalities. The sets summed over are assumed finite in the
modules that declare them, as the arrays of the accounts are.

Only model-checked: all liveness properties (`EpochIsDecided`, `TableSettles`,
`SnapshotCompletes`, `EpochCloses`, `UndisturbedRoutingFinishes`, `EpochsComplete`,
`OperatorVotes`, `EpochsFinish`, `EnsureSucceeds`), since fairness is out of the
prover's reach, and `CallsAccepted`, which is about the concrete account lists of
`ClientInterface`. Every other safety invariant and action property that a passing run
checks is also proved.

## 5. Not modelled

* The key that `admin_set_new_admin` replaces: one assignment behind a signature. Its
  call and accounts are in `CliCalls` and `ProgramInterface`.
* Address derivation, error codes, and the bytes of instructions and accounts.
* The CPI wrappers, account types and JavaScript version of the generated client, and
  the IDL: generated serialisation that the repository's Rust code does not call or
  that has no behaviour over time.
* `full_vault_update`, which sends instructions of the vault program only. Closing a
  router from the command line is not in `CliCalls`: the program always refuses it,
  as `keeper_close` shows.
* Errors of checked arithmetic on stake weights (u128 sums, the fixed-point product of
  `calculate_total_stake_weight`): weights are unbounded integers in `StakeSnapshot`.
* CLI arguments, handler, getters that only print, logging and metrics: no state.
* The restaking and vault programs and the runtime: external.

`PROJECT.json` lists the parts with reasons.

## 6. Plan

1. The phases of `EpochChain` as an abstraction of `EpochLifecycle`, with a refinement
   mapping.
2. The cranks of `Keeper` as sequences of the calls of `ClientCall`.
