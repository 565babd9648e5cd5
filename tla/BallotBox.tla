----------------------------- MODULE BallotBox -----------------------------
(***************************************************************************)
(* Voting on one epoch of an NCN: core/src/ballot_box.rs together with the *)
(* handlers that change it (program/src/cast_vote.rs,                      *)
(* admin_set_tie_breaker.rs), the ConsensusResult account and the voting   *)
(* fields of EpochState that those handlers keep in step, the two Config   *)
(* parameters they read and the handler that changes these while a vote is *)
(* running, and the Clock sysvar.                                          *)
(*                                                                         *)
(* A Solana transaction is atomic: a handler either runs to its end or     *)
(* leaves every account as it was.  So one handler is one action, and each *)
(* of its error returns is a guard.  Transactions of different signers     *)
(* reach the program in any order.                                         *)
(*                                                                         *)
(* The epoch snapshot is finalized when voting starts, so the stake        *)
(* weights are constants here.  Abstracted data: an operator vote is the   *)
(* ballot voted for (slot_voted and the copied stake weight are not read   *)
(* by voting), and ballot_tallies is indexed by ballot instead of by array *)
(* position.                                                               *)
(***************************************************************************)
EXTENDS Integers, FiniteSets, Functions

CONSTANTS
    Operators,          \* operators that have an OperatorSnapshot of this epoch
    StakeWeight,        \* StakeWeight[o]: its stake weight in that snapshot
    TotalStakeWeight,   \* the finalized EpochSnapshot's stake weight
    StatusCodes,        \* the u8 weather codes a transaction may carry
    NoBallot,           \* an invalid Ballot (Ballot::default)
    VotingEpoch,        \* ballot_box.epoch
    PRECISION,          \* PreciseNumber's ONE (10^12 in spl_math)
    U64_MAX,            \* u64::MAX
    MAX_OPERATORS,      \* length of the operator_votes array
    SLOTS_PER_EPOCH,
    MIN_EPOCHS_BEFORE_STALL, MAX_EPOCHS_BEFORE_STALL,
    MIN_VALID_SLOTS_AFTER_CONSENSUS, MAX_VALID_SLOTS_AFTER_CONSENSUS,
    MaxSlot             \* bound of the model: the Clock stops here

VARIABLES
    slot,                    \* Clock.slot
    config,                  \* epochs_before_stall, valid_slots_after_consensus
    operator_votes,          \* operator -> ballot, NoBallot for an empty entry
    ballot_tallies,          \* ballot -> stake_weight and tally of its BallotTally
    operators_voted,
    unique_ballots,
    slot_consensus_reached,  \* of the BallotBox
    winning_ballot,
    consensus_result,        \* the ConsensusResult account
    epoch_state              \* the fields of EpochState that voting writes

boxVars == <<operator_votes, ballot_tallies, operators_voted, unique_ballots,
             slot_consensus_reached, winning_ballot>>
vars == <<slot, config, boxVars, consensus_result, epoch_state>>

WeatherStatus == 0..2

DEFAULT_CONSENSUS_REACHED_SLOT == U64_MAX

EpochsBeforeStallRange == MIN_EPOCHS_BEFORE_STALL..MAX_EPOCHS_BEFORE_STALL
ValidSlotsRange ==
    MIN_VALID_SLOTS_AFTER_CONSENSUS..MAX_VALID_SLOTS_AFTER_CONSENSUS

ASSUME OperatorsAssumption ==
    /\ IsFiniteSet(Operators)
    /\ StakeWeight \in [Operators -> Nat]
    /\ NoBallot \notin WeatherStatus
    /\ StatusCodes \subseteq Nat

\* What the snapshot guarantees of its total.
ASSUME TotalAssumption ==
    /\ TotalStakeWeight \in Nat
    /\ TotalStakeWeight = SumFunctionOnSet(StakeWeight, Operators)

\* 2/3 is rounded down to a multiple of 1/PRECISION.
ASSUME PrecisionAssumption == PRECISION \in Nat /\ PRECISION >= 100

ASSUME ClockAssumption ==
    /\ MaxSlot \in Nat \ {0} /\ U64_MAX \in Nat
    /\ MaxSlot + MAX_VALID_SLOTS_AFTER_CONSENSUS < U64_MAX
    /\ SLOTS_PER_EPOCH \in Nat \ {0}
    /\ VotingEpoch \in Nat /\ MAX_OPERATORS \in Nat

ASSUME ConfigAssumption ==
    /\ MIN_EPOCHS_BEFORE_STALL \in Nat /\ MAX_EPOCHS_BEFORE_STALL \in Nat
    /\ MIN_VALID_SLOTS_AFTER_CONSENSUS \in Nat
    /\ MAX_VALID_SLOTS_AFTER_CONSENSUS \in Nat
-----------------------------------------------------------------------------
(* The operations of BallotBox                                             *)

\* Ballot::new: a code above Rainy gives a ballot that is not valid.
NewBallot(code) == IF code \in WeatherStatus THEN code ELSE NoBallot

IsConsensusReached ==
    \/ slot_consensus_reached # DEFAULT_CONSENSUS_REACHED_SLOT
    \/ winning_ballot # NoBallot

TieBreakerSet ==
    /\ slot_consensus_reached = DEFAULT_CONSENSUS_REACHED_SLOT
    /\ winning_ballot # NoBallot

HasBallot(ballot) == ballot # NoBallot /\ ballot_tallies[ballot].tally > 0

\* Mutant of IsVotingValid: the window is ignored after a tie breaker.
IsVotingValid_TieBreakIgnored ==
    slot_consensus_reached # DEFAULT_CONSENSUS_REACHED_SLOT =>
        slot <= slot_consensus_reached + config.valid_slots_after_consensus

IsVotingValid ==
    /\ ~TieBreakerSet
    /\ IsConsensusReached =>
          slot <= slot_consensus_reached + config.valid_slots_after_consensus

\* PreciseNumber::checked_div rounds down to a multiple of 1/PRECISION.
PreciseDiv(a, b) == (a * PRECISION) \div b

\* Mutant of PreciseConsensus: a simple majority.
PreciseConsensus_Half == PreciseDiv(1, 2)

PreciseConsensus == PreciseDiv(2, 3)

ReachesConsensus(weight) ==
    PreciseDiv(weight, TotalStakeWeight) >= PreciseConsensus

\* Mutant of IncrementOrCreateBallotTally: the weight replaces the old one.
IncrementOrCreateBallotTally_Overwrite(ballot, weight) ==
    [ballot_tallies EXCEPT ![ballot] =
        [stake_weight |-> weight, tally |-> @.tally + 1]]

\* Mutant of IncrementOrCreateBallotTally: the vote count is left alone.
IncrementOrCreateBallotTally_NoCount(ballot, weight) ==
    [ballot_tallies EXCEPT ![ballot] =
        [stake_weight |-> @.stake_weight + weight, tally |-> 1]]

IncrementOrCreateBallotTally(ballot, weight) ==
    [ballot_tallies EXCEPT ![ballot] =
        [stake_weight |-> @.stake_weight + weight, tally |-> @.tally + 1]]

\* A ballot of the largest stake weight.
MaxTally(tallies) ==
    CHOOSE b \in WeatherStatus :
        \A c \in WeatherStatus : tallies[b].stake_weight >= tallies[c].stake_weight

\* The `as u64` conversion of a u128 weight.
AsU64(weight) == weight % (U64_MAX + 1)

\* Mutant of RecordConsensus: the first weight recorded is kept.
RecordConsensus_KeepWeight(ballot, weight) ==
    IF consensus_result.consensus_slot # 0
    THEN consensus_result
    ELSE [weather_status |-> ballot, vote_weight |-> AsU64(weight),
          total_vote_weight |-> AsU64(TotalStakeWeight), consensus_slot |-> slot]

\* Mutant of RecordConsensus: a later record replaces the whole result.
RecordConsensus_Replace(ballot, weight) ==
    [weather_status |-> ballot, vote_weight |-> AsU64(weight),
     total_vote_weight |-> AsU64(TotalStakeWeight), consensus_slot |-> slot]

\* ConsensusResult::record_consensus: only the weight moves once recorded.
RecordConsensus(ballot, weight) ==
    IF consensus_result.consensus_slot # 0
    THEN [consensus_result EXCEPT !.vote_weight = AsU64(weight)]
    ELSE [weather_status |-> ballot, vote_weight |-> AsU64(weight),
          total_vote_weight |-> AsU64(TotalStakeWeight), consensus_slot |-> slot]
-----------------------------------------------------------------------------
(* The handlers                                                            *)

Init ==
    /\ slot = 1
    /\ config \in [epochs_before_stall : EpochsBeforeStallRange,
                   valid_slots_after_consensus : ValidSlotsRange]
    /\ operator_votes = [o \in Operators |-> NoBallot]
    /\ ballot_tallies = [b \in WeatherStatus |-> [stake_weight |-> 0, tally |-> 0]]
    /\ operators_voted = 0
    /\ unique_ballots = 0
    /\ slot_consensus_reached = DEFAULT_CONSENSUS_REACHED_SLOT
    /\ winning_ballot = NoBallot
    /\ consensus_result = [weather_status |-> 0, vote_weight |-> 0,
                           total_vote_weight |-> 0, consensus_slot |-> 0]
    /\ epoch_state = [slot_consensus_reached |-> DEFAULT_CONSENSUS_REACHED_SLOT,
                      was_tie_breaker_set |-> FALSE,
                      voting_tally |-> 0]

\* The guards of BallotBox::cast_vote and of the handler around it.
CanCastVote(o, ballot) ==
    /\ StakeWeight[o] # 0
    /\ IsVotingValid
    /\ ballot # NoBallot
    /\ operator_votes[o] = NoBallot
    /\ operators_voted < MAX_OPERATORS

\* BallotBox::tally_votes on the new tallies: once a slot is recorded it
\* returns early, and a winner that is already set is never replaced.
VoteDecides(tallies) ==
    /\ slot_consensus_reached = DEFAULT_CONSENSUS_REACHED_SLOT
    /\ winning_ballot = NoBallot
    /\ ReachesConsensus(tallies[MaxTally(tallies)].stake_weight)

\* The consensus slot kept by update_cast_vote and update_set_tie_breaker.
UpdateEpochState(reached) ==
    IF /\ reached
       /\ epoch_state.slot_consensus_reached = DEFAULT_CONSENSUS_REACHED_SLOT
    THEN slot
    ELSE epoch_state.slot_consensus_reached

\* process_cast_vote
CastVote(o, code) ==
    LET ballot  == NewBallot(code)
        tallies == IncrementOrCreateBallotTally(ballot, StakeWeight[o])
    IN  /\ CanCastVote(o, ballot)
        /\ slot_consensus_reached = DEFAULT_CONSENSUS_REACHED_SLOT =>
              TotalStakeWeight # 0
        /\ operator_votes' = [operator_votes EXCEPT ![o] = ballot]
        /\ operators_voted' = operators_voted + 1
        /\ ballot_tallies' = tallies
        /\ unique_ballots' = IF ballot_tallies[ballot].tally = 0
                             THEN unique_ballots + 1 ELSE unique_ballots
        /\ IF VoteDecides(tallies)
           THEN /\ slot_consensus_reached' = slot
                /\ winning_ballot' = MaxTally(tallies)
           ELSE UNCHANGED <<slot_consensus_reached, winning_ballot>>
        /\ consensus_result' =
              IF IsConsensusReached'
              THEN RecordConsensus(winning_ballot',
                                   tallies[winning_ballot'].stake_weight)
              ELSE consensus_result
        /\ epoch_state' =
              [epoch_state EXCEPT
                  !.slot_consensus_reached = UpdateEpochState(IsConsensusReached'),
                  !.voting_tally = operators_voted']
        /\ UNCHANGED <<slot, config>>

\* Mutant of CanSetTieBreaker: the stall test is turned around.
CanSetTieBreaker_NotStalled(ballot) ==
    /\ ~IsConsensusReached
    /\ slot \div SLOTS_PER_EPOCH <= VotingEpoch + config.epochs_before_stall
    /\ HasBallot(ballot)

\* The guards of set_tie_breaker_ballot.
CanSetTieBreaker(ballot) ==
    /\ ~IsConsensusReached
    /\ slot \div SLOTS_PER_EPOCH >= VotingEpoch + config.epochs_before_stall
    /\ HasBallot(ballot)

\* process_admin_set_tie_breaker: only the winning ballot is set, the
\* BallotBox keeps its default slot, ConsensusResult is not an account of it.
AdminSetTieBreaker(code) ==
    LET ballot == NewBallot(code)
    IN  /\ CanSetTieBreaker(ballot)
        /\ winning_ballot' = ballot
        /\ epoch_state' =
              [epoch_state EXCEPT
                  !.slot_consensus_reached = UpdateEpochState(TRUE),
                  !.was_tie_breaker_set =
                     @ \/ epoch_state.slot_consensus_reached
                             = DEFAULT_CONSENSUS_REACHED_SLOT]
        /\ UNCHANGED <<slot, config, operator_votes, ballot_tallies,
                       operators_voted, unique_ballots,
                       slot_consensus_reached, consensus_result>>

\* process_admin_set_parameters, restricted to the two parameters voting
\* reads; leaving one out is passing its present value.
AdminSetParameters(stall, slots) ==
    /\ stall \in EpochsBeforeStallRange
    /\ slots \in ValidSlotsRange
    /\ config' = [epochs_before_stall |-> stall,
                  valid_slots_after_consensus |-> slots]
    /\ UNCHANGED <<slot, boxVars, consensus_result, epoch_state>>

ClockTick ==
    /\ slot < MaxSlot
    /\ slot' = slot + 1
    /\ UNCHANGED <<config, boxVars, consensus_result, epoch_state>>

Next ==
    \/ \E o \in Operators, code \in StatusCodes : CastVote(o, code)
    \/ \E code \in StatusCodes : AdminSetTieBreaker(code)
    \/ \E stall \in 0..MAX_EPOCHS_BEFORE_STALL + 1,
          slots \in 0..MAX_VALID_SLOTS_AFTER_CONSENSUS + 1 :
             AdminSetParameters(stall, slots)
    \/ ClockTick

Spec == Init /\ [][Next]_vars

\* The operator loop (cli/src/operator/operator_loop.rs) retries until its
\* vote is in, the tie breaker admin acts on a stalled epoch, slots go by.
Fairness ==
    /\ \A o \in Operators : WF_vars(\E code \in StatusCodes : CastVote(o, code))
    /\ WF_vars(\E code \in StatusCodes : AdminSetTieBreaker(code))
    /\ WF_vars(ClockTick)

FairSpec == Spec /\ Fairness
-----------------------------------------------------------------------------
(* Properties                                                              *)

Slots == 1..MaxSlot
SlotOrDefault == Slots \cup {DEFAULT_CONSENSUS_REACHED_SLOT}

\* The accounts hold values of their fields' types.
TypeOK ==
    /\ slot \in Slots
    /\ config \in [epochs_before_stall : EpochsBeforeStallRange,
                   valid_slots_after_consensus : ValidSlotsRange]
    /\ operator_votes \in [Operators -> WeatherStatus \cup {NoBallot}]
    /\ ballot_tallies \in [WeatherStatus -> [stake_weight : Nat, tally : Nat]]
    /\ operators_voted \in Nat
    /\ unique_ballots \in Nat
    /\ slot_consensus_reached \in SlotOrDefault
    /\ winning_ballot \in WeatherStatus \cup {NoBallot}
    /\ consensus_result \in [weather_status : WeatherStatus, vote_weight : Nat,
                             total_vote_weight : Nat, consensus_slot : 0..MaxSlot]
    /\ epoch_state \in [slot_consensus_reached : SlotOrDefault,
                        was_tie_breaker_set : BOOLEAN,
                        voting_tally : Nat]

VotersFor(ballot) == {o \in Operators : operator_votes[o] = ballot}

\* The counters that cast_vote maintains agree with the votes it stored: each
\* tally counts the operators whose vote is that ballot, operators_voted counts
\* all of them, and EpochState shows that same number as voting progress.
VotesCounted ==
    /\ \A b \in WeatherStatus : ballot_tallies[b].tally = Cardinality(VotersFor(b))
    /\ operators_voted = Cardinality(Operators \ VotersFor(NoBallot))
    /\ epoch_state.voting_tally = operators_voted

\* The stake weight of each BallotTally is the sum of the snapshot weights of
\* the operators that voted for it, and unique_ballots counts the ballots
\* voted for: nothing is counted twice or lost over any order of votes.
WeightsTallied ==
    /\ \A b \in WeatherStatus :
          ballot_tallies[b].stake_weight = SumFunctionOnSet(StakeWeight, VotersFor(b))
    /\ unique_ballots = Cardinality({b \in WeatherStatus : VotersFor(b) # {}})

\* A winner found by tally_votes has at least 66% of the snapshot's stake
\* (README.md, "Achieve Consensus"), in spite of the rounding of PreciseNumber
\* and of the votes that are still accepted after consensus.
WinnerHasSupermajority ==
    slot_consensus_reached # DEFAULT_CONSENSUS_REACHED_SLOT =>
        /\ winning_ballot # NoBallot
        /\ 100 * ballot_tallies[winning_ballot].stake_weight >= 66 * TotalStakeWeight

\* A winner, found by vote or set by the tie breaker admin, is a ballot some
\* operator voted for: get_winning_ballot_tally, which reward routing calls,
\* always finds its tally.
WinnerWasVotedFor == winning_ballot # NoBallot => HasBallot(winning_ballot)

\* However the epoch was decided, its winner is legitimate: a ballot that was
\* voted for and, unless the tie breaker chose it, one that cast_vote found to
\* have a supermajority of the stake.
WinnerIsLegitimate == WinnerWasVotedFor /\ WinnerHasSupermajority

\* The three accounts that record the outcome agree.  EpochState knows of
\* consensus exactly when the BallotBox does, with the same slot unless the
\* tie breaker decided (the box then keeps its default slot); ConsensusResult
\* is filled exactly by consensus by vote, and follows the winner's weight.
RecordsAgree ==
    /\ epoch_state.slot_consensus_reached # DEFAULT_CONSENSUS_REACHED_SLOT
          <=> IsConsensusReached
    /\ epoch_state.was_tie_breaker_set <=> TieBreakerSet
    /\ IF slot_consensus_reached = DEFAULT_CONSENSUS_REACHED_SLOT
       THEN consensus_result.consensus_slot = 0
       ELSE /\ epoch_state.slot_consensus_reached = slot_consensus_reached
            /\ consensus_result =
                  [weather_status |-> winning_ballot,
                   vote_weight |->
                      AsU64(ballot_tallies[winning_ballot].stake_weight),
                   total_vote_weight |-> AsU64(TotalStakeWeight),
                   consensus_slot |-> slot_consensus_reached]

\* Once the epoch is decided no handler changes the winner, the slot of
\* consensus or the outcome in ConsensusResult, late votes and changes of the
\* parameters included.
WinnerIsFinal ==
    [][IsConsensusReached =>
          /\ UNCHANGED <<winning_ballot, slot_consensus_reached>>
          /\ epoch_state'.slot_consensus_reached = epoch_state.slot_consensus_reached
          /\ consensus_result'.weather_status = consensus_result.weather_status
          /\ consensus_result'.consensus_slot = consensus_result.consensus_slot]_vars

\* Every epoch with stake is decided in the end: by vote, or after the stall
\* by the tie breaker, however the operators split and the parameters move.
EpochIsDecided == <>IsConsensusReached

\* What the header of consensus_result.rs says: once consensus is reached in
\* the BallotBox the winning result is recorded in the ConsensusResult.
OutcomeIsRecorded ==
    IsConsensusReached => consensus_result.consensus_slot # 0
-----------------------------------------------------------------------------
(* The abstract specification that BallotBox implements                    *)

Outcome ==
    [by |-> IF TieBreakerSet THEN "settlement"
            ELSE IF IsConsensusReached THEN "quorum" ELSE "nobody",
     choice |-> winning_ballot]

Promise == INSTANCE EpochVote WITH
    Voters <- Operators, Weight <- StakeWeight, Options <- WeatherStatus,
    None <- NoBallot, IsQuorum <- ReachesConsensus,
    votes <- operator_votes, outcome <- Outcome

\* The tallies, the rounding, the slots and the configuration implement the
\* vote that EpochVote describes by sums over the votes themselves.
ImplementsEpochVote == Promise!Spec
=============================================================================
