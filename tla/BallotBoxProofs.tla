-------------------------- MODULE BallotBoxProofs --------------------------
(***************************************************************************)
(* Proofs about BallotBox, for every set of operators, stake weights,      *)
(* precision, configuration range and bound of the Clock.                  *)
(***************************************************************************)
EXTENDS BallotBox, SumTheorems

\* Zenon is tried first; a step that needs arithmetic asks for the SMT solver.
USE ZenonT(30), SMTT(30)

\* Consensus at one weight is consensus at every larger weight: late votes
\* cannot take it away.
LEMMA ReachesConsensusMonotonic ==
    ASSUME TotalStakeWeight # 0,
           NEW v \in Nat, NEW w \in Nat, v <= w, ReachesConsensus(v)
    PROVE  ReachesConsensus(w)
  <1>1. v * PRECISION \in Nat /\ w * PRECISION \in Nat
    BY PrecisionAssumption, SMTT(30)
  <1>2. v * PRECISION <= w * PRECISION
    BY PrecisionAssumption, SMTT(30)
  <1>3. (v * PRECISION) \div TotalStakeWeight <= (w * PRECISION) \div TotalStakeWeight
    BY <1>1, <1>2, DivMonotonic, TotalAssumption
  <1>4. /\ (v * PRECISION) \div TotalStakeWeight \in Nat
        /\ (w * PRECISION) \div TotalStakeWeight \in Nat
    BY <1>1, DivBounds, TotalAssumption
  <1>5. PreciseConsensus \in Nat
    BY DivBounds, PrecisionAssumption, SMTT(30) DEF PreciseConsensus, PreciseDiv
  <1> QED
    BY <1>3, <1>4, <1>5, SMTT(30) DEF ReachesConsensus, PreciseDiv

\* The rounded threshold still means 66% of the stake.
LEMMA ReachesConsensusIs66Percent ==
    ASSUME TotalStakeWeight # 0, NEW w \in Nat, ReachesConsensus(w)
    PROVE  100 * w >= 66 * TotalStakeWeight
  <1> DEFINE T == TotalStakeWeight
             P == PRECISION
             d == (w * P) \div T
             q == (2 * P) \div 3
  <1>0. T \in Nat \ {0} /\ P \in Nat /\ P >= 100
    BY TotalAssumption, PrecisionAssumption
  <1>1. w * P \in Nat
    BY <1>0, SMTT(30)
  <1>2. d \in Nat /\ T * d <= w * P
    BY <1>0, <1>1, DivBounds
  <1>3. q \in Nat /\ 3 * q >= 2 * P - 2
    BY <1>0, SMTT(30)
  <1>4. d >= q
    BY DEF ReachesConsensus, PreciseDiv, PreciseConsensus
  <1> HIDE DEF T, P, d, q
  <1>5. 3 * d >= 2 * P - 2
    BY <1>0, <1>2, <1>3, <1>4, SMTT(30)
  <1>6. 100 * (3 * d) >= 198 * P
    BY <1>0, <1>2, <1>5, SMTT(30)
  <1>7. T * (300 * d) >= T * (198 * P)
    BY <1>0, <1>2, <1>6, SMTT(30)
  <1>8. 300 * (w * P) >= 198 * (T * P)
    BY <1>0, <1>1, <1>2, <1>7, SMTT(30)
  <1>9. P * (300 * w) >= P * (198 * T)
    BY <1>0, <1>8, SMTT(30)
  <1>10. 300 * w >= 198 * T
    <2>1. SUFFICES ASSUME 300 * w < 198 * T PROVE FALSE
      BY <1>0, SMTT(30)
    <2>2. P * (300 * w) < P * (198 * T)
      BY <2>1, <1>0, SMTT(30)
    <2> QED BY <2>2, <1>9, <1>0, SMTT(30)
  <1>11. 100 * w >= 66 * T
    BY <1>0, <1>10, SMTT(30)
  <1> QED
    BY <1>11 DEF T

\* A ballot that reaches consensus has some stake.
LEMMA ReachesConsensusPositive ==
    ASSUME TotalStakeWeight # 0, NEW w \in Nat, ReachesConsensus(w)
    PROVE  w > 0
  <1>1. 100 * w >= 66 * TotalStakeWeight
    BY ReachesConsensusIs66Percent
  <1> QED
    BY <1>1, TotalAssumption, SMTT(30)

\* tally_votes finds a ballot of maximal weight: no ballot outweighs it.
LEMMA MaxTallyIsTop ==
    ASSUME NEW tallies \in [WeatherStatus -> [stake_weight : Nat, tally : Nat]]
    PROVE  /\ MaxTally(tallies) \in WeatherStatus
           /\ \A b \in WeatherStatus :
                 tallies[MaxTally(tallies)].stake_weight >= tallies[b].stake_weight
  <1>1. \E b \in WeatherStatus : \A c \in WeatherStatus :
            tallies[b].stake_weight >= tallies[c].stake_weight
    <2>1. /\ tallies[0].stake_weight \in Nat
          /\ tallies[1].stake_weight \in Nat
          /\ tallies[2].stake_weight \in Nat
      BY SMTT(30) DEF WeatherStatus
    <2>2. WeatherStatus = {0, 1, 2}
      BY SMTT(30) DEF WeatherStatus
    <2> QED BY <2>1, <2>2, SMTT(30)
  <1> QED
    BY <1>1 DEF MaxTally
-----------------------------------------------------------------------------
(* The inductive invariant.                                                *)

\* A slot of consensus goes with a winner whose tally still reaches the
\* threshold, and a ballot nobody voted for has no weight: what is needed for
\* the invariants of BallotBox to be preserved by a late vote.
QuorumInv ==
    /\ slot_consensus_reached # DEFAULT_CONSENSUS_REACHED_SLOT =>
          /\ TotalStakeWeight # 0
          /\ winning_ballot # NoBallot
          /\ ReachesConsensus(ballot_tallies[winning_ballot].stake_weight)
    /\ \A b \in WeatherStatus :
          ballot_tallies[b].tally = 0 => ballot_tallies[b].stake_weight = 0

IndInv ==
    /\ TypeOK
    /\ VotesCounted
    /\ WinnerWasVotedFor
    /\ RecordsAgree
    /\ QuorumInv

\* The accounts as initialize_ballot_box leaves them satisfy the invariant.
LEMMA InitIndInv == Init => IndInv
  <1> SUFFICES ASSUME Init PROVE IndInv
    OBVIOUS
  <1> USE OperatorsAssumption, ClockAssumption, ConfigAssumption
  <1>1. TypeOK
    BY SMTT(30) DEF Init, TypeOK, Slots, SlotOrDefault, WeatherStatus,
           DEFAULT_CONSENSUS_REACHED_SLOT
  <1>2. VotesCounted
    <2>1. \A b \in WeatherStatus : VotersFor(b) = {}
      BY DEF Init, VotersFor
    <2>2. Operators \ VotersFor(NoBallot) = {}
      BY DEF Init, VotersFor
    <2> QED
      BY <2>1, <2>2, FS_EmptySet DEF Init, VotesCounted
  <1>3. WinnerWasVotedFor
    BY DEF Init, WinnerWasVotedFor
  <1>4. RecordsAgree
    BY DEF Init, RecordsAgree, IsConsensusReached, TieBreakerSet
  <1>5. QuorumInv
    BY DEF Init, QuorumInv
  <1> QED
    BY <1>1, <1>2, <1>3, <1>4, <1>5 DEF IndInv

\* A stored vote adds one operator to the voters of its ballot and to nobody
\* else's.
LEMMA VoteAddsVoter ==
    ASSUME TypeOK, NEW o \in Operators, NEW ballot \in WeatherStatus,
           operator_votes[o] = NoBallot,
           operator_votes' = [operator_votes EXCEPT ![o] = ballot]
    PROVE  /\ Cardinality(VotersFor(ballot)') = Cardinality(VotersFor(ballot)) + 1
           /\ \A b \in WeatherStatus \ {ballot} : VotersFor(b)' = VotersFor(b)
           /\ Cardinality(Operators \ VotersFor(NoBallot)')
                 = Cardinality(Operators \ VotersFor(NoBallot)) + 1
           /\ \A b \in WeatherStatus : Cardinality(VotersFor(b)) \in Nat
           /\ Cardinality(Operators \ VotersFor(NoBallot)) \in Nat
  <1> USE OperatorsAssumption
  <1>1. /\ VotersFor(ballot)' = VotersFor(ballot) \cup {o}
        /\ o \notin VotersFor(ballot)
    BY DEF TypeOK, VotersFor
  <1>2. \A b \in WeatherStatus \ {ballot} : VotersFor(b)' = VotersFor(b)
    BY DEF TypeOK, VotersFor
  <1>3. /\ Operators \ VotersFor(NoBallot)' = (Operators \ VotersFor(NoBallot)) \cup {o}
        /\ o \notin Operators \ VotersFor(NoBallot)
    BY DEF TypeOK, VotersFor
  <1>4. /\ \A b \in WeatherStatus : IsFiniteSet(VotersFor(b))
        /\ IsFiniteSet(Operators \ VotersFor(NoBallot))
    <2>1. \A b : VotersFor(b) \subseteq Operators
      BY DEF VotersFor
    <2> QED BY <2>1, FS_Subset
  <1>5. Cardinality(VotersFor(ballot)') = Cardinality(VotersFor(ballot)) + 1
    BY <1>1, <1>4, FS_AddElement
  <1>6. Cardinality(Operators \ VotersFor(NoBallot)')
            = Cardinality(Operators \ VotersFor(NoBallot)) + 1
    BY <1>3, <1>4, FS_AddElement
  <1>7. /\ \A b \in WeatherStatus : Cardinality(VotersFor(b)) \in Nat
        /\ Cardinality(Operators \ VotersFor(NoBallot)) \in Nat
    BY <1>4, FS_CardinalityType
  <1> QED
    BY <1>2, <1>5, <1>6, <1>7

\* The tallies after a vote: the voted ballot gains the weight and one vote,
\* no other entry moves.
LEMMA TallyAfterVote ==
    ASSUME TypeOK, NEW ballot \in WeatherStatus, NEW weight \in Nat
    PROVE  LET tallies == IncrementOrCreateBallotTally(ballot, weight)
           IN  /\ tallies \in [WeatherStatus -> [stake_weight : Nat, tally : Nat]]
               /\ tallies[ballot].stake_weight
                     = ballot_tallies[ballot].stake_weight + weight
               /\ tallies[ballot].tally = ballot_tallies[ballot].tally + 1
               /\ \A b \in WeatherStatus \ {ballot} : tallies[b] = ballot_tallies[b]
  BY SMTT(30) DEF TypeOK, IncrementOrCreateBallotTally

\* process_cast_vote preserves the invariant.
LEMMA CastVoteIndInv ==
    ASSUME IndInv, NEW o \in Operators, NEW code \in StatusCodes, CastVote(o, code)
    PROVE  IndInv'
  <1> DEFINE ballot  == NewBallot(code)
             weight  == StakeWeight[o]
             tallies == IncrementOrCreateBallotTally(ballot, weight)
             top     == MaxTally(tallies)
  <1> USE OperatorsAssumption
  <1>1. ballot \in WeatherStatus /\ weight \in Nat
    BY DEF CastVote, CanCastVote, NewBallot
  <1>2. /\ tallies \in [WeatherStatus -> [stake_weight : Nat, tally : Nat]]
        /\ tallies[ballot].stake_weight = ballot_tallies[ballot].stake_weight + weight
        /\ tallies[ballot].tally = ballot_tallies[ballot].tally + 1
        /\ \A b \in WeatherStatus \ {ballot} : tallies[b] = ballot_tallies[b]
    BY <1>1, TallyAfterVote DEF IndInv
  <1>3. top \in WeatherStatus
    BY <1>2, MaxTallyIsTop
  <1>4. ballot_tallies' = tallies
    BY DEF CastVote
  <1>5. ~TieBreakerSet
    BY DEF CastVote, CanCastVote, IsVotingValid
  <1>6. \A b \in WeatherStatus :
            /\ tallies[b].stake_weight >= ballot_tallies[b].stake_weight
            /\ tallies[b].tally >= ballot_tallies[b].tally
            /\ tallies[b].tally = 0 => tallies[b].stake_weight = 0
    BY <1>1, <1>2, SMTT(30) DEF IndInv, TypeOK, QuorumInv
  <1>7. /\ slot \in Nat /\ slot \in Slots
        /\ DEFAULT_CONSENSUS_REACHED_SLOT \in Nat
        /\ DEFAULT_CONSENSUS_REACHED_SLOT \notin Slots
        /\ 0 \notin Slots
    BY ClockAssumption, ConfigAssumption, SMTT(30)
       DEF IndInv, TypeOK, Slots, DEFAULT_CONSENSUS_REACHED_SLOT
  <1>8. /\ slot' = slot /\ config' = config
        /\ operators_voted' = operators_voted + 1
        /\ unique_ballots' \in Nat
        /\ operator_votes' = [operator_votes EXCEPT ![o] = ballot]
    BY SMTT(30) DEF CastVote, IndInv, TypeOK
  <1>9. VotesCounted'
    <2>1. operator_votes[o] = NoBallot
      BY DEF CastVote, CanCastVote
    <2>2. /\ Cardinality(VotersFor(ballot)') = Cardinality(VotersFor(ballot)) + 1
          /\ \A b \in WeatherStatus \ {ballot} : VotersFor(b)' = VotersFor(b)
          /\ Cardinality(Operators \ VotersFor(NoBallot)')
                = Cardinality(Operators \ VotersFor(NoBallot)) + 1
      BY <1>1, <1>8, <2>1, VoteAddsVoter DEF IndInv
    <2>3. \A b \in WeatherStatus : tallies[b].tally = Cardinality(VotersFor(b)')
      BY <1>1, <1>2, <2>2 DEF IndInv, VotesCounted
    <2>4. operators_voted' = Cardinality(Operators \ VotersFor(NoBallot)')
      BY <1>8, <2>2 DEF IndInv, VotesCounted
    <2>5. epoch_state'.voting_tally = operators_voted'
      BY DEF CastVote, IndInv, TypeOK
    <2> QED
      BY <1>4, <2>3, <2>4, <2>5 DEF VotesCounted
  <1>10. CASE VoteDecides(tallies)
    <2>1. /\ slot_consensus_reached' = slot
          /\ winning_ballot' = top
          /\ slot_consensus_reached = DEFAULT_CONSENSUS_REACHED_SLOT
          /\ winning_ballot = NoBallot
          /\ ReachesConsensus(tallies[top].stake_weight)
          /\ TotalStakeWeight # 0
      BY <1>10 DEF CastVote, VoteDecides
    <2>2. ~IsConsensusReached /\ IsConsensusReached' /\ ~TieBreakerSet'
      BY <1>7, <2>1 DEF IsConsensusReached, TieBreakerSet
    <2>3. /\ consensus_result.consensus_slot = 0
          /\ epoch_state.slot_consensus_reached = DEFAULT_CONSENSUS_REACHED_SLOT
          /\ ~epoch_state.was_tie_breaker_set
      BY <1>5, <2>1, <2>2 DEF IndInv, RecordsAgree
    <2>4. consensus_result' =
            [weather_status |-> top, vote_weight |-> AsU64(tallies[top].stake_weight),
             total_vote_weight |-> AsU64(TotalStakeWeight), consensus_slot |-> slot]
      BY <2>1, <2>2, <2>3 DEF CastVote, RecordConsensus
    <2>5. epoch_state' = [slot_consensus_reached |-> slot,
                          was_tie_breaker_set |-> FALSE,
                          voting_tally |-> operators_voted']
      BY <2>2, <2>3 DEF CastVote, UpdateEpochState, IndInv, TypeOK
    <2>6. /\ AsU64(tallies[top].stake_weight) \in Nat
          /\ AsU64(TotalStakeWeight) \in Nat
      BY <1>2, <1>3, ClockAssumption, TotalAssumption, SMTT(30) DEF AsU64
    <2>7. TypeOK'
      BY <1>1, <1>2, <1>3, <1>4, <1>7, <1>8, <2>1, <2>4, <2>5, <2>6, SMTT(30)
         DEF IndInv, TypeOK, SlotOrDefault, Slots
    <2>8. tallies[top].stake_weight > 0 /\ tallies[top].tally > 0
      BY <1>2, <1>3, <1>6, <2>1, ReachesConsensusPositive, SMTT(30)
    <2>9. WinnerWasVotedFor'
      BY <1>3, <1>4, <2>1, <2>8 DEF WinnerWasVotedFor, HasBallot
    <2>10. RecordsAgree'
      BY <1>4, <1>7, <2>1, <2>2, <2>4, <2>5 DEF RecordsAgree
    <2>11. QuorumInv'
      BY <1>3, <1>4, <1>6, <2>1 DEF QuorumInv, ReachesConsensus
    <2> QED
      BY <1>9, <2>7, <2>9, <2>10, <2>11 DEF IndInv
  <1>11. CASE ~VoteDecides(tallies)
    <2>1. UNCHANGED <<slot_consensus_reached, winning_ballot>>
      BY <1>11 DEF CastVote
    <2>2. /\ IsConsensusReached' <=> IsConsensusReached
          /\ ~TieBreakerSet'
      BY <1>5, <2>1 DEF IsConsensusReached, TieBreakerSet
    <2>3. epoch_state' = [epoch_state EXCEPT !.voting_tally = operators_voted']
      BY <2>2 DEF CastVote, UpdateEpochState, IndInv, RecordsAgree, TypeOK
    <2>4. CASE ~IsConsensusReached
      <3>1. consensus_result' = consensus_result
        BY <2>2, <2>4 DEF CastVote
      <3>2. TypeOK'
        BY <1>1, <1>2, <1>4, <1>8, <2>1, <2>3, <3>1, SMTT(30) DEF IndInv, TypeOK
      <3>3. RecordsAgree'
        BY <1>5, <2>1, <2>2, <2>3, <2>4, <3>1
           DEF IndInv, RecordsAgree, TypeOK, IsConsensusReached
      <3>4. WinnerWasVotedFor' /\ QuorumInv'
        BY <1>4, <1>6, <2>1, <2>4 DEF WinnerWasVotedFor, QuorumInv, IsConsensusReached
      <3> QED
        BY <1>9, <3>2, <3>3, <3>4 DEF IndInv
    <2>5. CASE IsConsensusReached
      <3>1. /\ slot_consensus_reached # DEFAULT_CONSENSUS_REACHED_SLOT
            /\ slot_consensus_reached \in Slots
            /\ winning_ballot \in WeatherStatus
            /\ TotalStakeWeight # 0
            /\ ReachesConsensus(ballot_tallies[winning_ballot].stake_weight)
            /\ ballot_tallies[winning_ballot].tally > 0
        BY <1>5, <2>5 DEF IsConsensusReached, TieBreakerSet, IndInv, TypeOK,
                          QuorumInv, SlotOrDefault, WinnerWasVotedFor, HasBallot
      <3>2. consensus_result.consensus_slot # 0
        BY <1>7, <3>1, SMTT(30) DEF IndInv, RecordsAgree
      <3>3. consensus_result' =
              [consensus_result EXCEPT
                 !.vote_weight = AsU64(tallies[winning_ballot].stake_weight)]
        BY <2>1, <2>2, <2>5, <3>2 DEF CastVote, RecordConsensus
      <3>4. AsU64(tallies[winning_ballot].stake_weight) \in Nat
        BY <1>2, <3>1, ClockAssumption, SMTT(30) DEF AsU64
      <3>5. TypeOK'
        <4>1. consensus_result' \in
                [weather_status : WeatherStatus, vote_weight : Nat,
                 total_vote_weight : Nat, consensus_slot : 0..MaxSlot]
          BY <3>3, <3>4 DEF IndInv, TypeOK
        <4>2. epoch_state' \in [slot_consensus_reached : SlotOrDefault,
                                was_tie_breaker_set : BOOLEAN, voting_tally : Nat]
          BY <1>8, <2>3, SMTT(30) DEF IndInv, TypeOK
        <4> QED
          BY <1>1, <1>2, <1>4, <1>8, <2>1, <4>1, <4>2, SMTT(30) DEF IndInv, TypeOK
      <3>6. RecordsAgree'
        BY <1>4, <1>5, <2>1, <2>2, <2>3, <2>5, <3>1, <3>3, SMTT(30)
           DEF IndInv, RecordsAgree, TypeOK
      <3>7. WinnerWasVotedFor'
        BY <1>1, <1>2, <1>4, <1>6, <2>1, <3>1, SMTT(30)
           DEF WinnerWasVotedFor, HasBallot, IndInv, TypeOK
      <3>8. ReachesConsensus(tallies[winning_ballot].stake_weight)
        BY <1>2, <1>6, <3>1, ReachesConsensusMonotonic DEF IndInv, TypeOK
      <3>9. QuorumInv'
        BY <1>4, <1>6, <2>1, <3>1, <3>8 DEF QuorumInv, ReachesConsensus
      <3> QED
        BY <1>9, <3>5, <3>6, <3>7, <3>9 DEF IndInv
    <2> QED
      BY <2>4, <2>5
  <1> QED
    BY <1>10, <1>11

\* process_admin_set_tie_breaker preserves the invariant.
LEMMA TieBreakerIndInv ==
    ASSUME IndInv, NEW code \in StatusCodes, AdminSetTieBreaker(code)
    PROVE  IndInv'
  <1> DEFINE ballot == NewBallot(code)
  <1> USE OperatorsAssumption
  <1>1. /\ ballot \in WeatherStatus
        /\ ballot_tallies[ballot].tally > 0
        /\ ~IsConsensusReached
    BY DEF AdminSetTieBreaker, CanSetTieBreaker, HasBallot, NewBallot
  <1>2. /\ winning_ballot' = ballot
        /\ UNCHANGED <<slot, config, operator_votes, ballot_tallies, operators_voted,
                       unique_ballots, slot_consensus_reached, consensus_result>>
    BY DEF AdminSetTieBreaker
  <1>3. /\ slot_consensus_reached = DEFAULT_CONSENSUS_REACHED_SLOT
        /\ epoch_state.slot_consensus_reached = DEFAULT_CONSENSUS_REACHED_SLOT
    BY <1>1 DEF IndInv, RecordsAgree, IsConsensusReached
  <1>4. epoch_state' = [epoch_state EXCEPT !.slot_consensus_reached = slot,
                                           !.was_tie_breaker_set = TRUE]
    BY <1>3 DEF AdminSetTieBreaker, UpdateEpochState, IndInv, TypeOK
  <1>5. slot \in Slots /\ slot # DEFAULT_CONSENSUS_REACHED_SLOT
    BY ClockAssumption, ConfigAssumption, SMTT(30)
       DEF IndInv, TypeOK, Slots, DEFAULT_CONSENSUS_REACHED_SLOT
  <1>6. TypeOK'
    BY <1>1, <1>2, <1>4, <1>5 DEF IndInv, TypeOK, SlotOrDefault
  <1>7. VotesCounted'
    BY <1>2, <1>4, SMTT(30) DEF IndInv, VotesCounted, VotersFor, TypeOK
  <1>8. IsConsensusReached' /\ TieBreakerSet'
    BY <1>1, <1>2, <1>3 DEF IsConsensusReached, TieBreakerSet
  <1>9. RecordsAgree'
    BY <1>2, <1>3, <1>4, <1>5, <1>8 DEF IndInv, RecordsAgree, TypeOK
  <1>10. WinnerWasVotedFor' /\ QuorumInv'
    BY <1>1, <1>2, <1>3 DEF IndInv, WinnerWasVotedFor, HasBallot, QuorumInv
  <1> QED
    BY <1>6, <1>7, <1>9, <1>10 DEF IndInv

\* So does every step of the specification.
LEMMA NextIndInv == IndInv /\ [Next]_vars => IndInv'
  <1> SUFFICES ASSUME IndInv, [Next]_vars PROVE IndInv'
    OBVIOUS
  <1>1. ASSUME NEW o \in Operators, NEW code \in StatusCodes, CastVote(o, code)
        PROVE  IndInv'
    BY <1>1, CastVoteIndInv
  <1>2. ASSUME NEW code \in StatusCodes, AdminSetTieBreaker(code)
        PROVE  IndInv'
    BY <1>2, TieBreakerIndInv
  <1>3. ASSUME UNCHANGED <<boxVars, consensus_result, epoch_state>>,
               slot' \in Slots,
               config' \in [epochs_before_stall : EpochsBeforeStallRange,
                            valid_slots_after_consensus : ValidSlotsRange]
        PROVE  IndInv'
    <2>1. TypeOK'
      BY <1>3 DEF IndInv, TypeOK, boxVars
    <2>2. VotesCounted'
      BY <1>3 DEF IndInv, VotesCounted, VotersFor, boxVars
    <2>3. WinnerWasVotedFor' /\ QuorumInv'
      BY <1>3 DEF IndInv, WinnerWasVotedFor, HasBallot, QuorumInv, ReachesConsensus, boxVars
    <2>4. RecordsAgree'
      BY <1>3 DEF IndInv, RecordsAgree, IsConsensusReached, TieBreakerSet, boxVars
    <2> QED
      BY <2>1, <2>2, <2>3, <2>4 DEF IndInv
  <1>4. ASSUME NEW stall, NEW slots, AdminSetParameters(stall, slots)
        PROVE  IndInv'
    BY <1>3, <1>4 DEF AdminSetParameters, IndInv, TypeOK
  <1>5. CASE ClockTick
    BY <1>3, <1>5, ClockAssumption, SMTT(30) DEF ClockTick, IndInv, TypeOK, Slots
  <1>6. CASE UNCHANGED vars
    BY <1>3, <1>6 DEF vars, IndInv, TypeOK
  <1> QED
    BY <1>1, <1>2, <1>4, <1>5, <1>6 DEF Next
-----------------------------------------------------------------------------
(* The theorems.                                                           *)

\* IndInv holds in every reachable state.
THEOREM BallotBoxInvariant == Spec => []IndInv
  BY InitIndInv, NextIndInv, PTL DEF Spec

\* The accounts that voting writes always hold values of their types; in
\* particular ConsensusResult never receives an invalid ballot.
THEOREM BallotBoxTyped == Spec => []TypeOK
  <1>1. IndInv => TypeOK
    BY DEF IndInv
  <1> QED
    BY <1>1, BallotBoxInvariant, PTL

\* The counters of cast_vote agree with the stored votes, for any number of
\* operators voting in any order.
THEOREM BallotBoxCounts == Spec => []VotesCounted
  <1>1. IndInv => VotesCounted
    BY DEF IndInv
  <1> QED
    BY <1>1, BallotBoxInvariant, PTL

\* tally_votes only ever elects a ballot with at least 66% of the stake, for
\* every distribution of the stake and every precision of 1/100 or finer.
THEOREM BallotBoxSupermajority == Spec => []WinnerHasSupermajority
  <1>1. IndInv => WinnerHasSupermajority
    <2> SUFFICES ASSUME IndInv,
                        slot_consensus_reached # DEFAULT_CONSENSUS_REACHED_SLOT
                 PROVE  /\ winning_ballot # NoBallot
                        /\ 100 * ballot_tallies[winning_ballot].stake_weight
                              >= 66 * TotalStakeWeight
      BY DEF WinnerHasSupermajority
    <2>1. /\ TotalStakeWeight # 0
          /\ winning_ballot \in WeatherStatus
          /\ ReachesConsensus(ballot_tallies[winning_ballot].stake_weight)
      BY DEF IndInv, QuorumInv, TypeOK
    <2>2. ballot_tallies[winning_ballot].stake_weight \in Nat
      BY <2>1 DEF IndInv, TypeOK
    <2>3. 100 * ballot_tallies[winning_ballot].stake_weight >= 66 * TotalStakeWeight
      BY <2>1, <2>2, ReachesConsensusIs66Percent
    <2> QED
      BY <2>1, <2>3, OperatorsAssumption
  <1> QED
    BY <1>1, BallotBoxInvariant, PTL

\* Every winner has a tally, whether found by vote or set by the admin.
THEOREM BallotBoxWinnerVoted == Spec => []WinnerWasVotedFor
  <1>1. IndInv => WinnerWasVotedFor
    BY DEF IndInv
  <1> QED
    BY <1>1, BallotBoxInvariant, PTL

\* Both together: whoever decided the epoch, cast_vote or the tie breaker, its
\* winner was voted for, and by 66% of the stake in the former case.
THEOREM BallotBoxLegitimate == Spec => []WinnerIsLegitimate
  <1>1. WinnerHasSupermajority /\ WinnerWasVotedFor => WinnerIsLegitimate
    BY DEF WinnerIsLegitimate
  <1> QED
    BY <1>1, BallotBoxSupermajority, BallotBoxWinnerVoted, PTL

\* BallotBox, EpochState and ConsensusResult agree on the outcome.
THEOREM BallotBoxRecords == Spec => []RecordsAgree
  <1>1. IndInv => RecordsAgree
    BY DEF IndInv
  <1> QED
    BY <1>1, BallotBoxInvariant, PTL

\* No step revises the outcome of a decided epoch.
THEOREM BallotBoxFinal == Spec => WinnerIsFinal
  <1> DEFINE Final ==
        IsConsensusReached =>
          /\ UNCHANGED <<winning_ballot, slot_consensus_reached>>
          /\ epoch_state'.slot_consensus_reached = epoch_state.slot_consensus_reached
          /\ consensus_result'.weather_status = consensus_result.weather_status
          /\ consensus_result'.consensus_slot = consensus_result.consensus_slot
  <1>1. IndInv /\ IndInv' /\ [Next]_vars => [Final]_vars
    <2> SUFFICES ASSUME IndInv, IndInv', Next, IsConsensusReached
                 PROVE  /\ UNCHANGED <<winning_ballot, slot_consensus_reached>>
                        /\ epoch_state'.slot_consensus_reached
                              = epoch_state.slot_consensus_reached
                        /\ consensus_result'.weather_status
                              = consensus_result.weather_status
                        /\ consensus_result'.consensus_slot
                              = consensus_result.consensus_slot
      OBVIOUS
    <2>1. ASSUME NEW o \in Operators, NEW code \in StatusCodes, CastVote(o, code)
          PROVE  Final
      <3>1. ~TieBreakerSet /\ slot_consensus_reached # DEFAULT_CONSENSUS_REACHED_SLOT
        BY <2>1 DEF CastVote, CanCastVote, IsVotingValid, TieBreakerSet,
                    IsConsensusReached
      <3>2. UNCHANGED <<winning_ballot, slot_consensus_reached>>
        BY <2>1, <3>1 DEF CastVote, VoteDecides
      <3> QED
        BY <3>1, <3>2, SMTT(30) DEF IndInv, RecordsAgree
    <2>2. \A code \in StatusCodes : ~AdminSetTieBreaker(code)
      BY DEF AdminSetTieBreaker, CanSetTieBreaker
    <2>3. ASSUME NEW stall, NEW slots, AdminSetParameters(stall, slots)
          PROVE  Final
      BY <2>3 DEF AdminSetParameters, boxVars
    <2>4. CASE ClockTick
      BY <2>4 DEF ClockTick, boxVars
    <2> QED
      BY <2>1, <2>2, <2>3, <2>4 DEF Next
  <1> QED
    BY <1>1, BallotBoxInvariant, PTL DEF Spec, WinnerIsFinal
-----------------------------------------------------------------------------
(* The weights, and the refinement of EpochVote.                           *)

\* While the epoch is open no ballot has a quorum: a vote that completes one
\* decides the epoch in the same step.
NoQuorumWhileOpen ==
    ~IsConsensusReached /\ TotalStakeWeight # 0 =>
        \A b \in WeatherStatus : ~ReachesConsensus(ballot_tallies[b].stake_weight)

\* An operator that can vote has stake, so there is some in total.
LEMMA VoterHasStake ==
    ASSUME NEW o \in Operators, StakeWeight[o] # 0
    PROVE  TotalStakeWeight # 0
  <1>1. StakeWeight[o] <= SumFunctionOnSet(StakeWeight, Operators)
    BY SumMember, OperatorsAssumption
  <1> QED
    BY <1>1, TotalAssumption, OperatorsAssumption, SMTT(30)

\* No stake, no quorum.
LEMMA NothingIsNoQuorum ==
    ASSUME TotalStakeWeight # 0
    PROVE  ~ReachesConsensus(0)
  BY ReachesConsensusPositive, SMTT(30)

\* What a stored vote does to the weights: the supporters of the ballot gain
\* the voter's stake, those of the other ballots stay.
LEMMA VoteAddsWeight ==
    ASSUME TypeOK, NEW o \in Operators, NEW ballot \in WeatherStatus,
           operator_votes[o] = NoBallot,
           operator_votes' = [operator_votes EXCEPT ![o] = ballot]
    PROVE  /\ SumFunctionOnSet(StakeWeight, VotersFor(ballot)')
                 = SumFunctionOnSet(StakeWeight, VotersFor(ballot)) + StakeWeight[o]
           /\ \A b \in WeatherStatus \ {ballot} : VotersFor(b)' = VotersFor(b)
           /\ VotersFor(ballot)' # {}
  <1> USE OperatorsAssumption
  <1>1. /\ VotersFor(ballot)' = VotersFor(ballot) \cup {o}
        /\ o \notin VotersFor(ballot)
        /\ VotersFor(ballot) \subseteq Operators
    BY DEF TypeOK, VotersFor
  <1>2. \A b \in WeatherStatus \ {ballot} : VotersFor(b)' = VotersFor(b)
    BY DEF TypeOK, VotersFor
  <1>3. IsFiniteSet(VotersFor(ballot)) /\ \A x \in VotersFor(ballot) : StakeWeight[x] \in Nat
    BY <1>1, FS_Subset
  <1>4. SumFunctionOnSet(StakeWeight, VotersFor(ballot) \cup {o})
            = SumFunctionOnSet(StakeWeight, VotersFor(ballot)) + StakeWeight[o]
    BY <1>1, <1>3, SumAdd
  <1> QED
    BY <1>1, <1>2, <1>4

\* process_cast_vote keeps the weights and unique_ballots true to the votes.
LEMMA CastVoteTallies ==
    ASSUME IndInv, WeightsTallied,
           NEW o \in Operators, NEW code \in StatusCodes, CastVote(o, code)
    PROVE  WeightsTallied'
  <1> DEFINE ballot  == NewBallot(code)
             weight  == StakeWeight[o]
             tallies == IncrementOrCreateBallotTally(ballot, weight)
             voted   == {b \in WeatherStatus : VotersFor(b) # {}}
  <1> USE OperatorsAssumption
  <1>1. ballot \in WeatherStatus /\ weight \in Nat
    BY DEF CastVote, CanCastVote, NewBallot
  <1>2. /\ tallies[ballot].stake_weight = ballot_tallies[ballot].stake_weight + weight
        /\ \A b \in WeatherStatus \ {ballot} : tallies[b] = ballot_tallies[b]
        /\ ballot_tallies' = tallies
    BY <1>1, TallyAfterVote DEF IndInv, CastVote
  <1>3. /\ SumFunctionOnSet(StakeWeight, VotersFor(ballot)')
              = SumFunctionOnSet(StakeWeight, VotersFor(ballot)) + weight
        /\ \A b \in WeatherStatus \ {ballot} : VotersFor(b)' = VotersFor(b)
        /\ VotersFor(ballot)' # {}
    BY <1>1, VoteAddsWeight DEF IndInv, CastVote, CanCastVote
  <1>4. ASSUME NEW b \in WeatherStatus
        PROVE  ballot_tallies'[b].stake_weight = SumFunctionOnSet(StakeWeight, VotersFor(b)')
    <2>1. CASE b = ballot
      BY <1>1, <1>2, <1>3, <2>1 DEF WeightsTallied
    <2>2. CASE b # ballot
      BY <1>2, <1>3, <2>2 DEF WeightsTallied
    <2> QED BY <2>1, <2>2
  <1>5. voted' = voted \cup {ballot}
    BY <1>1, <1>3
  <1>6. IsFiniteSet(voted)
    <2>1. IsFiniteSet(WeatherStatus)
      <3>1. 0 \in Int /\ 2 \in Int
        BY SMTT(30)
      <3>2. IsFiniteSet(0..2)
        BY <3>1, FS_Interval
      <3> QED BY <3>2 DEF WeatherStatus
    <2> QED BY <2>1, FS_Subset
  <1>7. ballot_tallies[ballot].tally = 0 <=> ballot \notin voted
    <2>1. IsFiniteSet(VotersFor(ballot))
      <3>1. VotersFor(ballot) \subseteq Operators
        BY DEF VotersFor
      <3> QED BY <3>1, FS_Subset
    <2>2. ballot_tallies[ballot].tally = Cardinality(VotersFor(ballot))
      BY <1>1 DEF IndInv, VotesCounted
    <2> QED BY <1>1, <2>1, <2>2, FS_EmptySet
  <1>8. Cardinality(voted') = IF ballot_tallies[ballot].tally = 0
                              THEN Cardinality(voted) + 1 ELSE Cardinality(voted)
    <2> HIDE DEF voted
    <2> QED BY <1>5, <1>6, <1>7, FS_AddElement
  <1>9. unique_ballots' = Cardinality(voted')
    BY <1>8 DEF WeightsTallied, CastVote
  <1> QED
    BY <1>4, <1>9 DEF WeightsTallied

\* A vote decides the epoch exactly when it completes the quorum of the ballot
\* it is for, and then that ballot is the one tally_votes finds at the top.
LEMMA CastVoteDecides ==
    ASSUME IndInv, NoQuorumWhileOpen,
           NEW o \in Operators, NEW code \in StatusCodes, CastVote(o, code)
    PROVE  LET ballot  == NewBallot(code)
               tallies == IncrementOrCreateBallotTally(ballot, StakeWeight[o])
           IN  /\ TotalStakeWeight # 0
               /\ VoteDecides(tallies) => MaxTally(tallies) = ballot
               /\ VoteDecides(tallies) <=>
                     ~IsConsensusReached /\ ReachesConsensus(tallies[ballot].stake_weight)
               /\ NoQuorumWhileOpen'
  <1> DEFINE ballot  == NewBallot(code)
             weight  == StakeWeight[o]
             tallies == IncrementOrCreateBallotTally(ballot, weight)
             top     == MaxTally(tallies)
  <1> USE OperatorsAssumption
  <1>1. ballot \in WeatherStatus /\ weight \in Nat
    BY DEF CastVote, CanCastVote, NewBallot
  <1>2. /\ tallies \in [WeatherStatus -> [stake_weight : Nat, tally : Nat]]
        /\ \A b \in WeatherStatus \ {ballot} : tallies[b] = ballot_tallies[b]
    BY <1>1, TallyAfterVote DEF IndInv
  <1>3. TotalStakeWeight # 0
    BY VoterHasStake DEF CastVote, CanCastVote
  <1>4. ballot_tallies' = tallies
    BY DEF CastVote
  <1>5. top \in WeatherStatus /\ tallies[top].stake_weight >= tallies[ballot].stake_weight
    BY <1>1, <1>2, MaxTallyIsTop
  <1>6. \A b \in WeatherStatus : tallies[b].stake_weight \in Nat
    BY <1>2
  <1>7. ASSUME VoteDecides(tallies)
        PROVE  top = ballot /\ ~IsConsensusReached /\ IsConsensusReached'
    <2>1. ~IsConsensusReached /\ ReachesConsensus(tallies[top].stake_weight)
      BY <1>7 DEF VoteDecides, IsConsensusReached
    <2>2. \A b \in WeatherStatus \ {ballot} : ~ReachesConsensus(tallies[b].stake_weight)
      BY <1>2, <1>3, <2>1 DEF NoQuorumWhileOpen
    <2>3. winning_ballot' = top
      BY <1>7 DEF CastVote
    <2> HIDE DEF top, tallies, ballot
    <2> QED BY <1>5, <2>1, <2>2, <2>3 DEF IsConsensusReached
  <1>8. ASSUME ~IsConsensusReached, ReachesConsensus(tallies[ballot].stake_weight)
        PROVE  VoteDecides(tallies)
    <2>1. ReachesConsensus(tallies[top].stake_weight)
      <3> HIDE DEF top, tallies, ballot
      <3> QED BY <1>1, <1>3, <1>5, <1>6, <1>8, ReachesConsensusMonotonic
    <2> QED BY <1>8, <2>1 DEF VoteDecides, IsConsensusReached
  <1>9. NoQuorumWhileOpen'
    <2>1. SUFFICES ASSUME ~IsConsensusReached', NEW b \in WeatherStatus
                   PROVE  ~ReachesConsensus(tallies[b].stake_weight)
      BY <1>4 DEF NoQuorumWhileOpen, ReachesConsensus
    <2>2. ~VoteDecides(tallies)
      BY <1>7, <2>1
    <2>3. ~IsConsensusReached
      BY <2>1, <2>2 DEF CastVote, IsConsensusReached
    <2>4. CASE b = ballot
      BY <1>8, <2>2, <2>3, <2>4
    <2>5. CASE b # ballot
      BY <1>2, <1>3, <2>3, <2>5 DEF NoQuorumWhileOpen
    <2> QED BY <2>4, <2>5
  <1>10. /\ VoteDecides(tallies) => MaxTally(tallies) = ballot
         /\ VoteDecides(tallies) <=>
               ~IsConsensusReached /\ ReachesConsensus(tallies[ballot].stake_weight)
    <2>1. VoteDecides(tallies) => ReachesConsensus(tallies[top].stake_weight)
      BY DEF VoteDecides
    <2> HIDE DEF tallies, ballot
    <2> QED BY <1>7, <1>8, <2>1
  <1> QED
    BY <1>3, <1>9, <1>10

\* The invariant of the weights is inductive next to IndInv.
LEMMA TallyInvInductive ==
    /\ Init => WeightsTallied /\ NoQuorumWhileOpen
    /\ IndInv /\ WeightsTallied /\ NoQuorumWhileOpen /\ [Next]_vars
          => WeightsTallied' /\ NoQuorumWhileOpen'
  <1>1. ASSUME Init PROVE WeightsTallied /\ NoQuorumWhileOpen
    <2>1. \A b \in WeatherStatus : VotersFor(b) = {}
      BY <1>1, OperatorsAssumption DEF Init, VotersFor
    <2>2. {b \in WeatherStatus : VotersFor(b) # {}} = {}
      BY <2>1
    <2>3. \A b \in WeatherStatus : ballot_tallies[b].stake_weight = 0
      BY <1>1 DEF Init
    <2>4. WeightsTallied
      BY <1>1, <2>1, <2>2, <2>3, SumEmpty, FS_EmptySet DEF WeightsTallied, Init
    <2>5. NoQuorumWhileOpen
      BY <2>3, NothingIsNoQuorum DEF NoQuorumWhileOpen
    <2> QED BY <2>4, <2>5
  <1>2. ASSUME IndInv, WeightsTallied, NoQuorumWhileOpen, [Next]_vars
        PROVE  WeightsTallied' /\ NoQuorumWhileOpen'
    <2>1. ASSUME NEW o \in Operators, NEW code \in StatusCodes, CastVote(o, code)
          PROVE  WeightsTallied' /\ NoQuorumWhileOpen'
      BY <1>2, <2>1, CastVoteTallies, CastVoteDecides
    <2>2. ASSUME UNCHANGED <<operator_votes, ballot_tallies, unique_ballots,
                             slot_consensus_reached>>,
                 IsConsensusReached => UNCHANGED winning_ballot
          PROVE  WeightsTallied' /\ NoQuorumWhileOpen'
      <3>1. WeightsTallied'
        BY <1>2, <2>2 DEF WeightsTallied, VotersFor
      <3>2. NoQuorumWhileOpen'
        BY <1>2, <2>2 DEF NoQuorumWhileOpen, IsConsensusReached, ReachesConsensus
      <3> QED BY <3>1, <3>2
    <2>3. ASSUME NEW code \in StatusCodes, AdminSetTieBreaker(code)
          PROVE  WeightsTallied' /\ NoQuorumWhileOpen'
      BY <2>2, <2>3 DEF AdminSetTieBreaker, CanSetTieBreaker
    <2>4. ASSUME NEW stall, NEW slots, AdminSetParameters(stall, slots)
          PROVE  WeightsTallied' /\ NoQuorumWhileOpen'
      BY <2>2, <2>4 DEF AdminSetParameters, boxVars
    <2>5. CASE ClockTick
      BY <2>2, <2>5 DEF ClockTick, boxVars
    <2>6. CASE UNCHANGED vars
      BY <2>2, <2>6 DEF vars, boxVars
    <2> QED
      BY <1>2, <2>1, <2>3, <2>4, <2>5, <2>6 DEF Next
  <1> QED
    BY <1>1, <1>2

\* The stake weight of every tally is the sum of the stakes of the operators
\* that voted for it, and unique_ballots the number of ballots voted for.
THEOREM BallotBoxWeights == Spec => []WeightsTallied
  BY TallyInvInductive, BallotBoxInvariant, PTL DEF Spec

\* No ballot of an open epoch has a quorum.
THEOREM BallotBoxDecidesAtOnce == Spec => []NoQuorumWhileOpen
  BY TallyInvInductive, BallotBoxInvariant, PTL DEF Spec

\* Every vote of the program is a vote of EpochVote.
LEMMA CastVoteImplements ==
    ASSUME IndInv, WeightsTallied, NoQuorumWhileOpen, WeightsTallied',
           NEW o \in Operators, NEW code \in StatusCodes, CastVote(o, code)
    PROVE  Promise!Cast(o, NewBallot(code))
  <1> DEFINE ballot  == NewBallot(code)
             tallies == IncrementOrCreateBallotTally(ballot, StakeWeight[o])
  <1> USE OperatorsAssumption
  <1>1. ballot \in WeatherStatus /\ ~TieBreakerSet /\ operator_votes[o] = NoBallot
    BY DEF CastVote, CanCastVote, NewBallot, IsVotingValid
  <1>2. operator_votes' = [operator_votes EXCEPT ![o] = ballot]
    BY DEF CastVote
  <1>3. /\ VoteDecides(tallies) => MaxTally(tallies) = ballot
        /\ VoteDecides(tallies) <=>
              ~IsConsensusReached /\ ReachesConsensus(tallies[ballot].stake_weight)
    BY CastVoteDecides
  <1>4. tallies[ballot].stake_weight = Promise!Support(operator_votes', ballot)
    <2>1. tallies = ballot_tallies'
      BY DEF CastVote
    <2>2. ballot_tallies'[ballot].stake_weight
              = SumFunctionOnSet(StakeWeight, VotersFor(ballot)')
      BY <1>1 DEF WeightsTallied
    <2>3. VotersFor(ballot)' = {x \in Operators : operator_votes'[x] = ballot}
      BY DEF VotersFor
    <2> HIDE DEF tallies, ballot
    <2>4. Promise!Support(operator_votes', ballot)
              = SumFunctionOnSet(StakeWeight, {x \in Operators : operator_votes'[x] = ballot})
      BY DEF Promise!Support, SumFunctionOnSet, FoldFunctionOnSet, MapThenFoldSet,
             Promise!SumFunctionOnSet, Promise!FoldFunctionOnSet, Promise!MapThenFoldSet
    <2> QED BY <2>1, <2>2, <2>3, <2>4
  <1>5. ~IsConsensusReached <=> Outcome = Promise!Open
    BY <1>1 DEF Outcome, Promise!Open, IsConsensusReached
  <1>6. Outcome.by # "settlement"
    BY <1>1 DEF Outcome
  <1>7. CASE VoteDecides(tallies)
    <2>1. slot_consensus_reached' = slot /\ winning_ballot' = ballot
      BY <1>3, <1>7 DEF CastVote
    <2>2. slot # DEFAULT_CONSENSUS_REACHED_SLOT
      BY ClockAssumption, ConfigAssumption, SMTT(30)
         DEF IndInv, TypeOK, Slots, DEFAULT_CONSENSUS_REACHED_SLOT
    <2>3. Outcome' = [by |-> "quorum", choice |-> ballot]
      BY <2>1, <2>2 DEF Outcome, TieBreakerSet, IsConsensusReached
    <2> HIDE DEF ballot, tallies
    <2> QED
      BY <1>1, <1>2, <1>3, <1>4, <1>5, <1>6, <1>7, <2>3 DEF Promise!Cast, ballot
  <1>8. CASE ~VoteDecides(tallies)
    <2>1. UNCHANGED <<slot_consensus_reached, winning_ballot>>
      BY <1>8 DEF CastVote
    <2>2. Outcome' = Outcome
      BY <2>1 DEF Outcome, TieBreakerSet, IsConsensusReached
    <2> HIDE DEF ballot, tallies
    <2> QED
      BY <1>1, <1>2, <1>3, <1>4, <1>5, <1>6, <1>8, <2>2 DEF Promise!Cast, ballot
  <1> QED
    BY <1>7, <1>8

\* A tie breaker is a settlement of EpochVote, for a ballot with a vote.
LEMMA TieBreakerImplements ==
    ASSUME IndInv, NEW code \in StatusCodes, AdminSetTieBreaker(code)
    PROVE  NewBallot(code) \in WeatherStatus /\ Promise!Settle(NewBallot(code))
  <1> DEFINE ballot == NewBallot(code)
  <1> USE OperatorsAssumption
  <1>1. /\ ballot \in WeatherStatus
        /\ ballot_tallies[ballot].tally > 0
        /\ ~IsConsensusReached
    BY DEF AdminSetTieBreaker, CanSetTieBreaker, HasBallot, NewBallot
  <1>2. \E v \in Operators : operator_votes[v] = ballot
    <2>1. Cardinality(VotersFor(ballot)) > 0
      BY <1>1 DEF IndInv, VotesCounted
    <2>2. VotersFor(ballot) # {}
      BY <2>1, FS_EmptySet, SMTT(30)
    <2> QED BY <2>2 DEF VotersFor
  <1>3. Outcome = Promise!Open
    BY <1>1 DEF Outcome, Promise!Open, IsConsensusReached, TieBreakerSet
  <1>4. /\ winning_ballot' = ballot
        /\ UNCHANGED <<operator_votes, slot_consensus_reached>>
        /\ slot_consensus_reached = DEFAULT_CONSENSUS_REACHED_SLOT
    BY <1>1 DEF AdminSetTieBreaker, IsConsensusReached
  <1>5. Outcome' = [by |-> "settlement", choice |-> ballot]
    BY <1>1, <1>4 DEF Outcome, TieBreakerSet
  <1> HIDE DEF ballot
  <1>6. Promise!Settle(ballot)
    BY <1>2, <1>3, <1>4, <1>5 DEF Promise!Settle
  <1> QED
    BY <1>1, <1>6 DEF ballot

\* The program implements EpochVote: a vote is a vote, a tie breaker is a
\* settlement, and the clock and the configuration are invisible.
THEOREM BallotBoxImplementsEpochVote == Spec => ImplementsEpochVote
  <1>1. Init => Promise!Init
    BY DEF Init, Promise!Init, Promise!Open, Outcome, TieBreakerSet, IsConsensusReached
  <1>2. ASSUME IndInv, WeightsTallied, NoQuorumWhileOpen, WeightsTallied', [Next]_vars
        PROVE  [Promise!Next]_<<operator_votes, Outcome>>
    <2>1. ASSUME NEW o \in Operators, NEW code \in StatusCodes, CastVote(o, code)
          PROVE  Promise!Next
      <3>1. NewBallot(code) \in WeatherStatus
        BY <2>1 DEF CastVote, CanCastVote, NewBallot
      <3>2. Promise!Cast(o, NewBallot(code))
        BY <1>2, <2>1, CastVoteImplements
      <3> QED BY <3>1, <3>2 DEF Promise!Next
    <2>2. ASSUME NEW code \in StatusCodes, AdminSetTieBreaker(code)
          PROVE  Promise!Next
      BY <1>2, <2>2, TieBreakerImplements DEF Promise!Next
    <2>3. ASSUME UNCHANGED <<operator_votes, winning_ballot, slot_consensus_reached>>
          PROVE  UNCHANGED <<operator_votes, Outcome>>
      BY <2>3 DEF Outcome, TieBreakerSet, IsConsensusReached
    <2>4. ASSUME NEW stall, NEW slots, AdminSetParameters(stall, slots)
          PROVE  UNCHANGED <<operator_votes, Outcome>>
      BY <2>3, <2>4 DEF AdminSetParameters, boxVars
    <2>5. CASE ClockTick
      BY <2>3, <2>5 DEF ClockTick, boxVars
    <2>6. CASE UNCHANGED vars
      BY <2>3, <2>6 DEF vars, boxVars
    <2> QED
      BY <1>2, <2>1, <2>2, <2>4, <2>5, <2>6 DEF Next
  <1> QED
    BY <1>1, <1>2, BallotBoxInvariant, BallotBoxWeights, BallotBoxDecidesAtOnce, PTL
       DEF Spec, ImplementsEpochVote, Promise!Spec
=============================================================================
