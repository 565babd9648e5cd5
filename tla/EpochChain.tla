----------------------------- MODULE EpochChain -----------------------------
(***************************************************************************)
(* What the loops of the CLI see of the chain and of everybody else on it: *)
(* the phase of each epoch (EpochState::current_state), its accounts and   *)
(* whether rewards are due.  EpochLifecycle models how phases and accounts *)
(* come about.                                                             *)
(***************************************************************************)
EXTENDS Integers, Sequences

CONSTANTS
    StartingEpoch,       \* handler.epoch
    MaxEpoch,            \* bound: the chain's last epoch
    RewardedEpochs,      \* bound: epochs for which rewards may be sent
    RoutersClosedByHand  \* does somebody close the reward routers?

ASSUME ChainAssumption ==
    /\ StartingEpoch \in Nat
    /\ MaxEpoch \in Nat
    /\ StartingEpoch <= MaxEpoch
    /\ RewardedEpochs \subseteq StartingEpoch..MaxEpoch
    /\ RoutersClosedByHand \in BOOLEAN

Epochs == StartingEpoch..MaxEpoch

\* The phases of an epoch in their order; "none" before EpochState exists,
\* "completed" when the marker has taken its place.
PhaseOrder == [none |-> 0, SetWeight |-> 1, Snapshot |-> 2, Vote |-> 3,
               PostVoteCooldown |-> 4, Distribute |-> 5, Close |-> 6,
               completed |-> 7]
EpochPhases == DOMAIN PhaseOrder

\* What crank_close_epoch_accounts closes, in its order; the operators' and
\* the epoch's snapshots follow each other.
ClosedByCrank == <<"ballot_box", "snapshots", "weight_table", "epoch_state">>
Routers == {"ncn_reward_router", "operator_vault_reward_routers"}

VARIABLES
    chain_epoch,   \* the chain's current epoch
    phase,         \* phase of each epoch
    accounts,      \* accounts of each epoch that exist, EpochState apart
    closed,        \* accounts of each epoch with status Closed
    rewards,       \* "none", "due" (not dust), "routed" or "paid" per epoch
    voting         \* epochs with a ballot box that is_voting_valid

chainVars == <<chain_epoch, phase, accounts, closed, rewards, voting>>

ChainInit ==
    /\ chain_epoch = StartingEpoch
    /\ phase = [e \in Epochs |-> "none"]
    /\ accounts = [e \in Epochs |-> {}]
    /\ closed = [e \in Epochs |-> {}]
    /\ rewards = [e \in Epochs |-> "none"]
    /\ voting = {}

NextEpoch ==
    /\ chain_epoch < MaxEpoch
    /\ chain_epoch' = chain_epoch + 1
    /\ UNCHANGED <<phase, accounts, closed, rewards, voting>>

\* Consensus, or the tie breaker, which ends the voting at once.
OperatorsDecide(e) ==
    /\ phase[e] = "Vote"
    /\ phase' = [phase EXCEPT ![e] = "PostVoteCooldown"]
    /\ voting' \in {voting, voting \ {e}}
    /\ UNCHANGED <<chain_epoch, accounts, closed, rewards>>

\* Routing can start, or the epochs before closing have passed; the
\* parameters allow either to come first.
TimePasses(e) ==
    /\ \/ /\ phase[e] = "PostVoteCooldown"
          /\ phase' = [phase EXCEPT ![e] = "Distribute"]
       \/ /\ phase[e] \in {"PostVoteCooldown", "Distribute"}
          /\ phase' = [phase EXCEPT ![e] = "Close"]
    /\ UNCHANGED <<chain_epoch, accounts, closed, rewards, voting>>

\* The last slot in which votes are valid passes.  It is the first one of
\* Distribute: can_start_routing and is_voting_valid both include it.
VotingEnds(e) ==
    /\ phase[e] \in {"Distribute", "Close"}
    /\ e \in voting
    /\ voting' = voting \ {e}
    /\ UNCHANGED <<chain_epoch, phase, accounts, closed, rewards>>

\* Somebody sends rewards to the NCN's receiver.
RewardsArrive(e) ==
    /\ e \in RewardedEpochs
    /\ "ncn_reward_router" \in accounts[e]
    /\ rewards[e] = "none"
    /\ rewards' = [rewards EXCEPT ![e] = "due"]
    /\ UNCHANGED <<chain_epoch, phase, accounts, closed, voting>>

\* The program's part of a crank: the epoch goes from one phase to the next,
\* with the accounts that belong to it.
Enter(e, from, to, created) ==
    /\ phase[e] = from
    /\ phase' = [phase EXCEPT ![e] = to]
    /\ accounts' = [accounts EXCEPT ![e] = @ \cup created]
    /\ voting' = IF to = "Vote" THEN voting \cup {e} ELSE voting

\* process_close_epoch_account on an account other than EpochState.
CloseEpochAccount(e, a) ==
    /\ phase[e] = "Close"
    /\ a \in accounts[e]
    /\ accounts' = [accounts EXCEPT ![e] = @ \ {a}]
    /\ closed' = [closed EXCEPT ![e] = @ \cup {a}]
    /\ voting' = IF a = "ballot_box" THEN voting \ {e} ELSE voting
    /\ rewards' = [rewards EXCEPT ![e] =
                      IF a = "ncn_reward_router" /\ @ # "none" THEN "paid" ELSE @]

\* What process_close_epoch_account asks before it closes EpochState.
AllAccountsClosed(e) ==
    /\ accounts[e] = {}
    /\ {"ballot_box", "snapshots", "weight_table", "ncn_reward_router"}
           \subseteq closed[e]

\* It closes EpochState; the marker takes its place.
CompleteEpoch(e) ==
    /\ phase[e] = "Close"
    /\ AllAccountsClosed(e)
    /\ phase' = [phase EXCEPT ![e] = "completed"]

SnapshotAccounts == {"snapshots", "ballot_box"}

\* All of it is open to anybody.
OthersCrank(e) ==
    /\ \/ Enter(e, "none", "SetWeight", {})
       \/ Enter(e, "SetWeight", "Snapshot", {"weight_table"})
       \/ Enter(e, "Snapshot", "Vote", SnapshotAccounts)
       \/ Enter(e, "Distribute", "Distribute", Routers)
    /\ e <= chain_epoch
    /\ UNCHANGED <<chain_epoch, closed, rewards>>

\* Another keeper closes accounts in the same order.
OthersClose(e) ==
    /\ \/ /\ \E i \in DOMAIN ClosedByCrank :
                /\ \A j \in 1..(i - 1) : ClosedByCrank[j] \notin accounts[e]
                /\ CloseEpochAccount(e, ClosedByCrank[i])
          /\ UNCHANGED phase
       \/ /\ CompleteEpoch(e)
          /\ UNCHANGED <<accounts, closed, rewards, voting>>
    /\ UNCHANGED chain_epoch

\* A router is closed with optional accounts, which the CLI does not send.
CloseRouterByHand(e) ==
    /\ RoutersClosedByHand
    /\ \E a \in Routers : CloseEpochAccount(e, a)
    /\ UNCHANGED <<chain_epoch, phase>>

ChainNext ==
    \/ NextEpoch
    \/ \E e \in Epochs :
          \/ OperatorsDecide(e) \/ TimePasses(e) \/ VotingEnds(e)
          \/ RewardsArrive(e)
          \/ OthersCrank(e) \/ OthersClose(e) \/ CloseRouterByHand(e)

============================================================================
