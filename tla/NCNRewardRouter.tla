-------------------------- MODULE NCNRewardRouter --------------------------
(***************************************************************************)
(* The NCN reward router of one epoch (core/src/ncn_reward_router.rs and   *)
(* the route_ncn_rewards and distribute_* handlers).  Lamports arrive at   *)
(* the receiver, an account anybody may transfer to; routing splits them   *)
(* into the protocol's and the NCN's fee and the shares of the operators   *)
(* that voted for the winning ballot; distributing pays one of those parts *)
(* out.  A call routes to a bounded number of operators and saves where it *)
(* stopped, so that another call can go on.                                *)
(*                                                                         *)
(* The epoch has been decided when this module starts.  Late votes are     *)
(* still accepted until the voting window ends, and end it may more than   *)
(* once: the window is a parameter that the admin can change.  The         *)
(* accounts that routing and paying read may be closed before the routers  *)
(* are, by anybody and in any order.                                       *)
(***************************************************************************)
EXTENDS Integers, Sequences, FiniteSets, FiniteSetsExt, Functions

CONSTANTS
    Operators,          \* operators of the epoch
    Stake,              \* stake weight of each, from its operator snapshot
    ConsensusVotes,     \* the vote lists an epoch may be decided with
    Fees,               \* fees the epoch snapshot may have recorded
    MAX_BPS,            \* BASIS_POINTS_DENOMINATOR
    Rent,               \* rent-exempt minimum of an empty account
    Deposits,           \* amounts somebody transfers to the receiver
    MaxDeposited,       \* bound on the lamports that arrive
    MaxIterations,      \* bound on the max_iterations argument
    ClosedEarly,        \* operators whose snapshot may be closed meanwhile
    MaxReopens          \* bound: how often the admin enlarges the window

\* fees.rs keeps the sum of the fees within MAX_BPS (check_fees_okay).
ASSUME RouterAssumption ==
    /\ IsFiniteSet(Operators)
    /\ Stake \in [Operators -> Nat]
    /\ ConsensusVotes \subseteq Seq([operator : Operators, wins : BOOLEAN])
    /\ MAX_BPS \in Nat \ {0}
    /\ Fees \subseteq {f \in [protocol : 0..MAX_BPS, ncn : 0..MAX_BPS] :
                           f.protocol + f.ncn <= MAX_BPS}
    /\ Rent \in Nat
    /\ Deposits \subseteq Nat
    /\ MaxDeposited \in Nat
    /\ MaxIterations \in Nat
    /\ ClosedEarly \subseteq Operators
    /\ MaxReopens \in Nat

None == -1  \* NO_LAST_VOTE_INDEX, NO_LAST_REWARDS_TO_PROCESS

VARIABLES
    votes,              \* BallotBox::operator_votes, wins: for the winner
    voting_open,        \* BallotBox::is_voting_valid
    reopens,            \* how often the window was enlarged after it ended
    fees,               \* EpochSnapshot::fees
    inputs_live,        \* neither BallotBox nor EpochSnapshot has been closed
    snapshots_live,     \* operators whose OperatorSnapshot is not closed
    deposited,          \* lamports transferred to the receiver so far
    receiver,           \* lamports of the NCN reward receiver
    router_live,        \* the router and its receiver have not been closed
    total_rewards, reward_pool, rewards_processed,  \* the router's fields
    protocol_rewards, ncn_rewards, operator_vault_rewards,
    routes,             \* operator_vault_reward_routes, by operator
    last_vote_index, last_rewards_to_process,       \* where routing stopped
    protocol_fee_wallet, ncn_fee_wallet, \* lamports paid to the wallets
    operator_receiver,  \* lamports of the operators' reward receivers
    received,           \* history: what the router paid to each of them
    distribution        \* EpochState's distribution progress

inputVars == <<inputs_live, snapshots_live>>
ballotVars == <<votes, voting_open, reopens, fees, inputVars>>
routingVars == <<last_vote_index, last_rewards_to_process>>
poolVars == <<total_rewards, reward_pool, rewards_processed, protocol_rewards,
              ncn_rewards, operator_vault_rewards, routes>>
walletVars == <<protocol_fee_wallet, ncn_fee_wallet, operator_receiver,
                received>>
routerVars == <<ballotVars, deposited, receiver, router_live, poolVars,
                routingVars, walletVars, distribution>>

RouterInit ==
    /\ votes \in ConsensusVotes
    /\ voting_open = TRUE
    /\ reopens = 0
    /\ fees \in Fees
    /\ inputs_live = TRUE
    /\ snapshots_live = Operators
    /\ deposited = 0
    /\ receiver = Rent
    /\ router_live = TRUE
    /\ total_rewards = 0 /\ reward_pool = 0 /\ rewards_processed = 0
    /\ protocol_rewards = 0 /\ ncn_rewards = 0 /\ operator_vault_rewards = 0
    /\ routes = [o \in Operators |-> 0]
    /\ last_vote_index = None /\ last_rewards_to_process = None
    /\ protocol_fee_wallet = 0 /\ ncn_fee_wallet = 0
    /\ operator_receiver = [o \in Operators |-> Rent]
    /\ received = [o \in Operators |-> 0]
    /\ distribution = [p \in {"total", "ncn", "protocol", "operator_vault"} |->
                           [tally |-> 0, total |-> 0]]

\* Progress::set_total
SetTotal(p, n) == [p EXCEPT !.total = n]

\* Mutant of Increment: the tally is replaced.
Increment_Set(p, n) == [p EXCEPT !.tally = n]

\* Progress::increment
Increment(p, n) == [p EXCEPT !.tally = @ + n]

----------------------------------------------------------------------------
(* The surroundings: lamports arrive, the voting window closes, and so are *)
(* the accounts that are read below.                                       *)

\* A transfer to the receiver's address, by anybody and at any time.
Deposit(n) ==
    /\ router_live
    /\ deposited + n <= MaxDeposited
    /\ deposited' = deposited + n
    /\ receiver' = receiver + n
    /\ UNCHANGED <<ballotVars, router_live, poolVars, routingVars, walletVars,
                   distribution>>

\* BallotBox::cast_vote after consensus: a vote is added, none is changed.
CastLateVote(o, wins) ==
    /\ inputs_live
    /\ o \in snapshots_live
    /\ voting_open
    /\ Stake[o] > 0
    /\ \A k \in DOMAIN votes : votes[k].operator # o
    /\ votes' = Append(votes, [operator |-> o, wins |-> wins])
    /\ UNCHANGED <<voting_open, reopens, fees, inputVars, deposited, receiver,
                   router_live, poolVars, routingVars, walletVars, distribution>>

\* The last valid slot passes.
VotingEnds ==
    /\ voting_open
    /\ voting_open' = FALSE
    /\ UNCHANGED <<votes, reopens, fees, inputVars, deposited, receiver,
                   router_live, poolVars, routingVars, walletVars, distribution>>

\* process_admin_set_parameters with a larger valid_slots_after_consensus.
AdminExtendsVoting ==
    /\ reopens < MaxReopens
    /\ ~voting_open
    /\ voting_open' = TRUE
    /\ reopens' = reopens + 1
    /\ UNCHANGED <<votes, fees, inputVars, deposited, receiver, router_live,
                   poolVars, routingVars, walletVars, distribution>>

\* process_close_epoch_account on the ballot box or the epoch snapshot, which
\* are needed together.
CloseInputs ==
    /\ inputs_live
    /\ inputs_live' = FALSE
    /\ UNCHANGED <<votes, voting_open, reopens, fees, snapshots_live, deposited,
                   receiver, router_live, poolVars, routingVars, walletVars,
                   distribution>>

\* process_close_epoch_account on an operator's snapshot.
CloseOperatorSnapshot(o) ==
    /\ o \in snapshots_live
    /\ snapshots_live' = snapshots_live \ {o}
    /\ UNCHANGED <<votes, voting_open, reopens, fees, inputs_live, deposited,
                   receiver, router_live, poolVars, routingVars, walletVars,
                   distribution>>

----------------------------------------------------------------------------
(* Routing.                                                                *)

\* NCNRewardRouter::still_routing
StillRouting == last_vote_index # None \/ last_rewards_to_process # None

Winners == {k \in DOMAIN votes : votes[k].wins}
Weight == [k \in DOMAIN votes |-> Stake[votes[k].operator]]
WinningStakeWeight == SumFunctionOnSet(Weight, Winners)

\* NCNRewardRouter::calculate_reward_split
CalculateRewardSplit(bps, rewards) == (rewards * bps) \div MAX_BPS

\* Mutant of CalculateOperatorShare: rounded up.
CalculateOperatorShare_Up(weight, winning, rewards) ==
    (rewards * weight + winning - 1) \div winning

\* NCNRewardRouter::calculate_operator_vault_route_reward
CalculateOperatorShare(weight, winning, rewards) ==
    IF weight = 0 \/ rewards = 0 THEN 0 ELSE (rewards * weight) \div winning

\* What each vote is worth when that many rewards are routed.
Shares(rewards) ==
    [k \in DOMAIN votes |->
        CalculateOperatorShare(Weight[k], WinningStakeWeight, rewards)]

\* NCNRewardRouter::total_rewards_in_transit
TotalRewardsInTransit == reward_pool + rewards_processed

\* What a call that does not resume takes in (route_incoming_rewards).
IncomingRewards == receiver - TotalRewardsInTransit - Rent

\* The votes that a call starting at a given index has the iterations for.
RoutedNow(start, max_iterations) ==
    LET todo == {k \in Winners : k >= start}
        budget == IF max_iterations = 0 THEN 1 ELSE max_iterations
    IN  {k \in todo : Cardinality({j \in todo : j < k}) < budget}

\* Mutant of SaveRoutingState: the index after the vote it stopped at.
SaveRoutingState_After(vote_index, rewards) ==
    /\ last_vote_index' = vote_index + 1
    /\ last_rewards_to_process' = rewards

\* NCNRewardRouter::save_routing_state
SaveRoutingState(vote_index, rewards) ==
    /\ last_vote_index' = vote_index
    /\ last_rewards_to_process' = rewards

\* NCNRewardRouter::route_operator_vault_rewards on the operators' part,
\* "fresh" being what the same call has just added to the NCN's.
RouteOperatorVaultRewards(available, fresh, max_iterations) ==
    LET start == IF StillRouting THEN last_vote_index ELSE 1
        rewards == IF StillRouting THEN last_rewards_to_process ELSE available
        now == RoutedNow(start, max_iterations)
        later == {k \in Winners : k >= start} \ now
        share == Shares(rewards)
        left == available - SumFunctionOnSet(share, now)
        ShareOf(o) == SumFunctionOnSet(share, {k \in now : votes[k].operator = o})
    IN  /\ left >= 0
        /\ routes' = [o \in Operators |-> routes[o] + ShareOf(o)]
        /\ IF rewards > 0 /\ later # {}
           THEN /\ SaveRoutingState(Min(later), rewards)
                /\ operator_vault_rewards' = left
                /\ ncn_rewards' = ncn_rewards + fresh
           ELSE /\ operator_vault_rewards' = 0
                /\ ncn_rewards' = ncn_rewards + fresh + left
                /\ IF rewards > 0
                   THEN /\ last_vote_index' = None
                        /\ last_rewards_to_process' = None
                   ELSE UNCHANGED routingVars

\* A call that starts with what has arrived: route_incoming_rewards and
\* route_reward_pool, then the operators.
RouteFresh(max_iterations) ==
    LET pool == reward_pool + IncomingRewards
        protocol == CalculateRewardSplit(fees.protocol, pool)
        ncn == CalculateRewardSplit(fees.ncn, pool)
    IN  /\ ~StillRouting
        /\ IncomingRewards >= 0
        /\ protocol + ncn <= pool
        /\ total_rewards' = total_rewards + IncomingRewards
        /\ reward_pool' = 0
        /\ rewards_processed' = rewards_processed + pool
        /\ protocol_rewards' = protocol_rewards + protocol
        /\ RouteOperatorVaultRewards(
               operator_vault_rewards + pool - protocol - ncn, ncn, max_iterations)

\* A call that goes on where an earlier one stopped.
RouteResumed(max_iterations) ==
    /\ StillRouting
    /\ RouteOperatorVaultRewards(operator_vault_rewards, 0, max_iterations)
    /\ UNCHANGED <<total_rewards, reward_pool, rewards_processed,
                   protocol_rewards>>

\* process_route_ncn_rewards
RouteNcnRewards(max_iterations) ==
    /\ router_live
    /\ inputs_live
    /\ ~voting_open
    /\ RouteFresh(max_iterations) \/ RouteResumed(max_iterations)
    /\ distribution' = [distribution EXCEPT
                            !["ncn"] = SetTotal(@, ncn_rewards'),
                            !["protocol"] = SetTotal(@, protocol_rewards'),
                            !["total"] = SetTotal(@, total_rewards')]
    /\ UNCHANGED <<ballotVars, deposited, receiver, router_live, walletVars>>

----------------------------------------------------------------------------
(* Distributing.                                                           *)

\* What the distribute_* handlers check before they pay n lamports, and the
\* checked subtraction of decrement_rewards_processed.
CanPay(n) ==
    /\ router_live
    /\ ~StillRouting
    /\ rewards_processed >= n

Pay(n) ==
    /\ CanPay(n)
    /\ rewards_processed' = rewards_processed - n
    /\ receiver' = receiver - n
    /\ UNCHANGED <<ballotVars, deposited, router_live, total_rewards,
                   reward_pool, operator_vault_rewards, routingVars>>

\* process_distribute_ncn_rewards
DistributeNcnRewards ==
    /\ Pay(ncn_rewards)
    /\ ncn_rewards' = 0
    /\ ncn_fee_wallet' = ncn_fee_wallet + ncn_rewards
    /\ distribution' = [distribution EXCEPT !["ncn"] = Increment(@, ncn_rewards),
                                            !["total"] = Increment(@, ncn_rewards)]
    /\ UNCHANGED <<protocol_rewards, routes, protocol_fee_wallet,
                   operator_receiver, received>>

\* process_distribute_protocol_rewards
DistributeProtocolRewards ==
    /\ Pay(protocol_rewards)
    /\ protocol_rewards' = 0
    /\ protocol_fee_wallet' = protocol_fee_wallet + protocol_rewards
    /\ distribution' = [distribution EXCEPT
                            !["protocol"] = Increment(@, protocol_rewards),
                            !["total"] = Increment(@, protocol_rewards)]
    /\ UNCHANGED <<ncn_rewards, routes, ncn_fee_wallet, operator_receiver,
                   received>>

\* process_distribute_operator_vault_reward_route
DistributeOperatorVaultRewardRoute(o) ==
    /\ Pay(routes[o])
    /\ routes' = [routes EXCEPT ![o] = 0]
    /\ operator_receiver' = [operator_receiver EXCEPT ![o] = @ + routes[o]]
    /\ received' = [received EXCEPT ![o] = @ + routes[o]]
    /\ distribution' = [distribution EXCEPT
                            !["operator_vault"] = Increment(@, routes[o])]
    /\ UNCHANGED <<protocol_rewards, ncn_rewards, protocol_fee_wallet,
                   ncn_fee_wallet>>

\* process_close_epoch_account on the router: whatever the receiver holds
\* above the rent goes to the NCN's wallet, and the rent to the payer.
CloseRouter ==
    /\ router_live
    /\ router_live' = FALSE
    /\ receiver' = 0
    /\ ncn_fee_wallet' = ncn_fee_wallet + (receiver - Rent)
    /\ UNCHANGED <<ballotVars, deposited, poolVars, routingVars,
                   protocol_fee_wallet, operator_receiver, received,
                   distribution>>

----------------------------------------------------------------------------

RouterNext ==
    \/ \E n \in Deposits : Deposit(n)
    \/ \E o \in Operators, wins \in BOOLEAN : CastLateVote(o, wins)
    \/ VotingEnds
    \/ AdminExtendsVoting
    \/ CloseInputs
    \/ \E o \in ClosedEarly : CloseOperatorSnapshot(o)
    \/ \E m \in 0..MaxIterations : RouteNcnRewards(m)
    \/ DistributeNcnRewards
    \/ DistributeProtocolRewards
    \/ \E o \in Operators : DistributeOperatorVaultRewardRoute(o)
    \/ CloseRouter

\* Time passes, and the keeper's crank_distribute routes.
FairRouterSpec ==
    /\ RouterInit
    /\ [][RouterNext]_routerVars
    /\ WF_routerVars(VotingEnds)
    /\ \A m \in 1..MaxIterations : WF_routerVars(RouteNcnRewards(m))

----------------------------------------------------------------------------

Routed == SumFunctionOnSet(routes, Operators)

RouterTypeOK ==
    /\ votes \in Seq([operator : Operators, wins : BOOLEAN])
    /\ voting_open \in BOOLEAN
    /\ reopens \in Nat
    /\ fees \in Fees
    /\ inputs_live \in BOOLEAN
    /\ snapshots_live \subseteq Operators
    /\ {deposited, receiver, total_rewards, reward_pool, rewards_processed,
        protocol_rewards, ncn_rewards, operator_vault_rewards,
        protocol_fee_wallet, ncn_fee_wallet} \subseteq Nat
    /\ router_live \in BOOLEAN
    /\ routes \in [Operators -> Nat]
    /\ operator_receiver \in [Operators -> Nat]
    /\ last_vote_index \in {None} \cup Nat
    /\ last_rewards_to_process \in {None} \cup Nat

\* The router never promises more than its receiver holds: rent, pool and
\* processed rewards are covered, so that route_incoming_rewards does not
\* underflow and a payment leaves the receiver rent-exempt.
Solvent == router_live => receiver >= Rent + TotalRewardsInTransit

\* rewards_processed is the sum of what the protocol, the NCN and the
\* operators are still to be paid.
ProcessedAddsUp ==
    rewards_processed =
        protocol_rewards + ncn_rewards + operator_vault_rewards + Routed

\* However often routing is interrupted, what is left for the operators not
\* reached yet is the amount the round began with less the shares of those
\* that were reached, as long as the admin leaves the ended voting window
\* alone: resume_routing_state restores an amount and an index, while the
\* weights are read again from the ballot box.
ResumeIsExact ==
    StillRouting /\ reopens = 0 =>
        operator_vault_rewards =
            last_rewards_to_process
              - SumFunctionOnSet(Shares(last_rewards_to_process),
                                 {k \in Winners : k < last_vote_index})

\* No operator gets more than its part, by stake, of all that was routed, and
\* one that did not vote for the winner gets nothing, over any number of
\* rounds and interruptions in which the window is not reopened.
NobodyOverpaid ==
    \A o \in Operators : reopens = 0 =>
        LET weight == SumFunctionOnSet(Weight, {k \in Winners : votes[k].operator = o})
        IN  (routes[o] + received[o]) * WinningStakeWeight
                <= total_rewards * weight

\* The accounts that process_route_ncn_rewards loads are there.
Routable == router_live /\ inputs_live

\* "Routing state tracking - enables recovery from incomplete routing
\* operations": a routing that was interrupted is finished in the end, as long
\* as none of its accounts is closed.
RoutingFinishes == (StillRouting /\ Routable) ~> (~StillRouting \/ ~Routable)

============================================================================
