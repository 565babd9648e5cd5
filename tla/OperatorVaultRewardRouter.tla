--------------------- MODULE OperatorVaultRewardRouter ---------------------
(***************************************************************************)
(* The reward routers of the operators (core/src/                          *)
(* operator_vault_reward_router.rs), composed with the NCN's, which pays   *)
(* into their receivers.  An operator's router takes the operator's fee    *)
(* and splits the rest over the vaults that delegated to it, again a       *)
(* bounded number of vaults per call.                                      *)
(***************************************************************************)
EXTENDS NCNRewardRouter

CONSTANTS
    Vaults,             \* vaults of the epoch
    Delegations,        \* of each operator, its vault_operator_stake_weight
    OperatorFee         \* operator_fee_bps of each operator's snapshot

\* An operator's stake weight is the sum of its delegations, which is what
\* StakeSnapshot checks of the snapshots.
ASSUME DelegationAssumption ==
    /\ IsFiniteSet(Vaults)
    /\ Delegations \in [Operators -> Seq([vault : Vaults, stake : Nat])]
    /\ OperatorFee \in [Operators -> 0..MAX_BPS]
    /\ \A o \in Operators :
           SumFunctionOnSet([i \in DOMAIN Delegations[o] |-> Delegations[o][i].stake],
                            DOMAIN Delegations[o]) = Stake[o]

VARIABLES
    op_live,            \* operators whose router is not closed
    op_total, op_pool, op_processed, op_rewards,  \* the routers' fields
    vault_routes,       \* vault_reward_routes, by operator and vault
    op_last_index, op_last_rewards,               \* where routing stopped
    operator_account,   \* lamports paid to the operators
    vault_account,      \* lamports paid to the vaults
    op_distribution     \* operator_vault_routes_distribution_progress

opPoolVars == <<op_total, op_pool, op_processed, op_rewards, vault_routes>>
opRoutingVars == <<op_last_index, op_last_rewards>>
opVars == <<op_live, opPoolVars, opRoutingVars, operator_account,
            vault_account, op_distribution>>
vars == <<routerVars, opVars>>

Init ==
    /\ RouterInit
    /\ op_live = Operators
    /\ op_total = [o \in Operators |-> 0]
    /\ op_pool = [o \in Operators |-> 0]
    /\ op_processed = [o \in Operators |-> 0]
    /\ op_rewards = [o \in Operators |-> 0]
    /\ vault_routes = [o \in Operators |-> [v \in Vaults |-> 0]]
    /\ op_last_index = [o \in Operators |-> None]
    /\ op_last_rewards = [o \in Operators |-> None]
    /\ operator_account = [o \in Operators |-> 0]
    /\ vault_account = [v \in Vaults |-> 0]
    /\ op_distribution = [o \in Operators |-> [tally |-> 0, total |-> 0]]

----------------------------------------------------------------------------

\* A transfer to an operator's receiver from outside.
DepositOperator(o, n) ==
    /\ o \in op_live
    /\ deposited + n <= MaxDeposited
    /\ deposited' = deposited + n
    /\ operator_receiver' = [operator_receiver EXCEPT ![o] = @ + n]
    /\ UNCHANGED <<ballotVars, receiver, router_live, poolVars, routingVars,
                   protocol_fee_wallet, ncn_fee_wallet, received, distribution,
                   opVars>>

\* OperatorVaultRewardRouter::still_routing
OpStillRouting(o) == op_last_index[o] # None \/ op_last_rewards[o] # None

\* OperatorVaultRewardRouter::total_rewards_in_transit
OpInTransit(o) == op_pool[o] + op_processed[o]

\* Mutant of OpIncoming: the rent is taken for a reward.
OpIncoming_Rent(o) == operator_receiver[o] - OpInTransit(o)

\* OperatorVaultRewardRouter::route_incoming_rewards
OpIncoming(o) == operator_receiver[o] - OpInTransit(o) - Rent

\* calculate_vault_reward
CalculateVaultReward(o, i, rewards) ==
    IF Stake[o] = 0 \/ rewards = 0 THEN 0
    ELSE (rewards * Delegations[o][i].stake) \div Stake[o]

\* What each slot of the list is worth when that many rewards are routed.
VaultRewards(o, rewards) ==
    [i \in DOMAIN Delegations[o] |-> CalculateVaultReward(o, i, rewards)]

\* Mutant of RewardsToProcess: a call that resumes starts from what is left.
RewardsToProcess_Rest(o, pool) == pool

\* The amount that shares are computed from (resume_routing_state).
RewardsToProcess(o, pool) ==
    IF OpStillRouting(o) THEN op_last_rewards[o] ELSE pool

\* OperatorVaultRewardRouter::route_reward_pool on a pool from which the same
\* call has taken the operator's fee.  Every slot of the list counts as an
\* iteration.  Without rewards the call returns early, and no routing can be
\* unfinished then.
RouteRewardPool(o, pool, fee, max_iterations) ==
    LET start == IF OpStillRouting(o) THEN op_last_index[o] ELSE 1
        rewards == RewardsToProcess(o, pool)
        stop == start + (IF max_iterations = 0 THEN 1 ELSE max_iterations)
        now == {i \in DOMAIN Delegations[o] : start <= i /\ i < stop}
        reward == VaultRewards(o, rewards)
        routed == SumFunctionOnSet(reward, now)
        left == pool - routed
        RewardOf(v) == SumFunctionOnSet(reward, {i \in now : Delegations[o][i].vault = v})
        unfinished == rewards > 0 /\ stop <= Len(Delegations[o])
    IN  /\ left >= 0
        /\ vault_routes' = [vault_routes EXCEPT ![o] = [v \in Vaults |-> @[v] + RewardOf(v)]]
        /\ op_pool' = [op_pool EXCEPT ![o] = IF unfinished THEN left ELSE 0]
        /\ op_processed' = [op_processed EXCEPT
                                ![o] = @ + fee + (IF unfinished THEN routed ELSE pool)]
        /\ op_rewards' = [op_rewards EXCEPT
                              ![o] = @ + fee + (IF unfinished THEN 0 ELSE left)]
        /\ op_last_index' = [op_last_index EXCEPT ![o] = IF unfinished THEN stop ELSE None]
        /\ op_last_rewards' = [op_last_rewards EXCEPT ![o] = IF unfinished THEN rewards ELSE None]

\* calculate_operator_reward
OperatorReward(o, rewards) == (rewards * OperatorFee[o]) \div MAX_BPS

OpRouteFresh(o, max_iterations) ==
    LET pool == op_pool[o] + OpIncoming(o)
        fee == OperatorReward(o, pool)
    IN  /\ ~OpStillRouting(o)
        /\ OpIncoming(o) >= 0
        /\ op_total' = [op_total EXCEPT ![o] = @ + OpIncoming(o)]
        /\ RouteRewardPool(o, pool - fee, fee, max_iterations)

OpRouteResumed(o, max_iterations) ==
    /\ OpStillRouting(o)
    /\ RouteRewardPool(o, op_pool[o], 0, max_iterations)
    /\ UNCHANGED op_total

\* process_route_operator_vault_rewards
RouteOperatorRewards(o, max_iterations) ==
    /\ o \in op_live \cap snapshots_live
    /\ OpRouteFresh(o, max_iterations) \/ OpRouteResumed(o, max_iterations)
    /\ op_distribution' = [op_distribution EXCEPT ![o] = SetTotal(@, op_total'[o])]
    /\ UNCHANGED <<routerVars, op_live, operator_account, vault_account>>

\* What distribute_operator_rewards and distribute_vault_rewards check.
OpCanPay(o, n) ==
    /\ o \in op_live \cap snapshots_live
    /\ ~OpStillRouting(o)
    /\ op_processed[o] >= n

\* The payment of n lamports out of an operator's receiver, with
\* update_distribute_operator_vault_route_rewards.
OpPay(o, n) ==
    /\ OpCanPay(o, n)
    /\ op_processed' = [op_processed EXCEPT ![o] = @ - n]
    /\ operator_receiver' = [operator_receiver EXCEPT ![o] = @ - n]
    /\ distribution' = [distribution EXCEPT !["total"] = Increment(@, n)]
    /\ op_distribution' = [op_distribution EXCEPT ![o] = Increment(@, n)]
    /\ UNCHANGED <<ballotVars, deposited, receiver, router_live, poolVars,
                   routingVars, protocol_fee_wallet, ncn_fee_wallet, received,
                   op_live, op_total, op_pool, opRoutingVars>>

\* process_distribute_operator_rewards
DistributeOperatorRewards(o) ==
    /\ OpPay(o, op_rewards[o])
    /\ op_rewards' = [op_rewards EXCEPT ![o] = 0]
    /\ operator_account' = [operator_account EXCEPT ![o] = @ + op_rewards[o]]
    /\ UNCHANGED <<vault_routes, vault_account>>

\* Mutant of DistributeVaultRewards: the paid route is not reset.
DistributeVaultRewards_NoReset(o, v) ==
    /\ OpPay(o, vault_routes[o][v])
    /\ vault_account' = [vault_account EXCEPT ![v] = @ + vault_routes[o][v]]
    /\ UNCHANGED <<vault_routes, op_rewards, operator_account>>

\* process_distribute_vault_rewards
DistributeVaultRewards(o, v) ==
    /\ OpPay(o, vault_routes[o][v])
    /\ vault_routes' = [vault_routes EXCEPT ![o] = [@ EXCEPT ![v] = 0]]
    /\ vault_account' = [vault_account EXCEPT ![v] = @ + vault_routes[o][v]]
    /\ UNCHANGED <<op_rewards, operator_account>>

\* process_close_epoch_account on an operator's router: what the receiver
\* holds above the rent goes to the NCN's wallet.
CloseOperatorRouter(o) ==
    /\ o \in op_live
    /\ op_live' = op_live \ {o}
    /\ operator_receiver' = [operator_receiver EXCEPT ![o] = 0]
    /\ ncn_fee_wallet' = ncn_fee_wallet + (operator_receiver[o] - Rent)
    /\ UNCHANGED <<ballotVars, deposited, receiver, router_live, poolVars,
                   routingVars, protocol_fee_wallet, received, distribution, opPoolVars,
                   opRoutingVars, operator_account, vault_account,
                   op_distribution>>

----------------------------------------------------------------------------

\* The NCN router's part; paying an operator's receiver needs its router.
NcnRouterStep ==
    /\ \/ \E n \in Deposits : Deposit(n)
       \/ \E o \in Operators, wins \in BOOLEAN : CastLateVote(o, wins)
       \/ VotingEnds
       \/ AdminExtendsVoting
       \/ CloseInputs
       \/ \E o \in ClosedEarly : CloseOperatorSnapshot(o)
       \/ \E m \in 0..MaxIterations : RouteNcnRewards(m)
       \/ DistributeNcnRewards
       \/ DistributeProtocolRewards
       \/ \E o \in op_live : DistributeOperatorVaultRewardRoute(o)
       \/ CloseRouter
    /\ UNCHANGED opVars

OperatorRouterStep ==
    \/ \E o \in Operators, n \in Deposits : DepositOperator(o, n)
    \/ \E o \in Operators, m \in 0..MaxIterations : RouteOperatorRewards(o, m)
    \/ \E o \in Operators : DistributeOperatorRewards(o)
    \/ \E o \in Operators, v \in Vaults : DistributeVaultRewards(o, v)
    \/ \E o \in Operators : CloseOperatorRouter(o)

Next == NcnRouterStep \/ OperatorRouterStep

Spec == Init /\ [][Next]_vars

\* As for the NCN's router alone: time passes and crank_distribute routes.
Fairness ==
    /\ WF_vars(VotingEnds /\ UNCHANGED opVars)
    /\ \A m \in 1..MaxIterations : WF_vars(RouteNcnRewards(m) /\ UNCHANGED opVars)

FairSpec == Spec /\ Fairness

----------------------------------------------------------------------------

TypeOK ==
    /\ RouterTypeOK
    /\ op_live \subseteq Operators
    /\ {op_total, op_pool, op_processed, op_rewards, operator_account}
           \subseteq [Operators -> Nat]
    /\ vault_routes \in [Operators -> [Vaults -> Nat]]
    /\ {op_last_index, op_last_rewards} \subseteq [Operators -> {None} \cup Nat]
    /\ vault_account \in [Vaults -> Nat]

\* No router promises more than its receiver holds, whatever the NCN's router
\* and others pay in at any moment, also during a routing and after the
\* voting window was reopened: route_incoming_rewards does not underflow, and
\* a payment leaves the receiver rent-exempt.
RoutersSolvent ==
    /\ Solvent
    /\ \A o \in op_live : operator_receiver[o] >= Rent + OpInTransit(o)

\* The processed rewards of every router, a counter maintained on its own,
\* are the sum of what its recipients are still to be paid: no payment fails
\* for lack of them and none leaves a remainder.
BooksBalance ==
    /\ ProcessedAddsUp
    /\ \A o \in Operators :
           op_processed[o] = op_rewards[o] + SumFunctionOnSet(vault_routes[o], Vaults)

\* While an operator's routing is interrupted the pool is exactly what the
\* round began with less the rewards of the vaults that were reached.
OperatorResumeIsExact ==
    \A o \in Operators : OpStillRouting(o) =>
        op_pool[o] = op_last_rewards[o]
            - SumFunctionOnSet(VaultRewards(o, op_last_rewards[o]),
                               {i \in DOMAIN Delegations[o] : i < op_last_index[o]})

\* Over both stages everything that arrived is in a receiver or has reached a
\* wallet, an operator or a vault.
AllLamportsConserved ==
    deposited + (IF router_live THEN Rent ELSE 0) + Cardinality(op_live) * Rent
        = receiver + protocol_fee_wallet + ncn_fee_wallet
            + SumFunctionOnSet(operator_receiver, Operators)
            + SumFunctionOnSet(operator_account, Operators)
            + SumFunctionOnSet(vault_account, Vaults)

\* EpochState's total distribution progress is what was paid to final
\* recipients by both stages; what an operator's receiver gets on the way is
\* not counted twice.
PaymentsTallied ==
    router_live /\ op_live = Operators =>
        distribution["total"].tally =
            protocol_fee_wallet + ncn_fee_wallet
              + SumFunctionOnSet(operator_account, Operators)
              + SumFunctionOnSet(vault_account, Vaults)

\* Every lamport is accounted for: none is lost or made on the way through
\* the two stages, and the epoch's tally says how many have arrived.
EveryLamportAccounted == AllLamportsConserved /\ PaymentsTallied

\* An interrupted routing of the NCN's router is finished, whatever arrives
\* and is voted in the meantime, unless the admin reopens the voting window or
\* the router, the ballot box or the epoch snapshot is closed: the saved index
\* and amount suffice to go on, but only with the accounts the weights and the
\* fees are read from.
UndisturbedRoutingFinishes ==
    (StillRouting /\ Routable) ~> (~StillRouting \/ ~Routable \/ reopens > 0)

============================================================================
