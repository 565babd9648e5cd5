------------------------------- MODULE Keeper -------------------------------
(***************************************************************************)
(* The keeper of the CLI (cli/src/keeper and the crank_* functions of      *)
(* cli/src/instructions.rs): one loop that takes one epoch after the other *)
(* through its phases, by looking at the chain, cranking what the phase    *)
(* calls for and moving on when there is nothing left to do.  Requests to  *)
(* the chain may fail; MaxFailures bounds how often.                       *)
(***************************************************************************)
EXTENDS EpochChain

CONSTANT
    MaxFailures    \* bound: failing requests

ASSUME KeeperAssumption == MaxFailures \in Nat

VARIABLES
    pc,            \* where the keeper's loop is
    current_keeper_epoch,
    epoch_stall,
    state,         \* KeeperState
    to_close,      \* position in ClosedByCrank
    failures       \* failed requests so far

keeperVars == <<pc, current_keeper_epoch, epoch_stall, state, to_close, failures>>
kvars == <<chainVars, keeperVars>>

KeeperInit ==
    /\ ChainInit
    /\ pc = "progress"
    /\ current_keeper_epoch = StartingEpoch
    /\ epoch_stall = FALSE
    /\ state = [epoch |-> 0, current_state |-> "none", is_epoch_completed |-> FALSE]
    /\ to_close = 1
    /\ failures = 0

\* check_and_timeout_error found an error: back to the top of the loop.
Fail ==
    /\ failures < MaxFailures
    /\ failures' = failures + 1
    /\ pc' = "progress"

\* An error that is only logged.
FailLogged ==
    /\ failures < MaxFailures
    /\ failures' = failures + 1
    /\ pc' = "detect"

Ok(next) ==
    /\ pc' = next
    /\ UNCHANGED failures

\* Mutant of ProgressEpoch: the keeper never returns to its first epoch.
ProgressEpoch_NoReset ==
    IF (state.is_epoch_completed \/ epoch_stall) /\ current_keeper_epoch < chain_epoch
    THEN current_keeper_epoch + 1
    ELSE current_keeper_epoch

\* progress_epoch
ProgressEpoch ==
    IF state.is_epoch_completed \/ epoch_stall
    THEN IF current_keeper_epoch = chain_epoch THEN StartingEpoch
         ELSE current_keeper_epoch + 1
    ELSE current_keeper_epoch

\* Phases 0.1 to 0.3 of the loop; crank_register_vaults may fail.
KeeperProgress ==
    /\ pc = "progress"
    /\ current_keeper_epoch' = ProgressEpoch
    /\ epoch_stall' = FALSE
    /\ Ok("fetch") \/ Fail
    /\ UNCHANGED <<chainVars, state, to_close>>

\* Mutant of Fetched: the state is read at the address of the last epoch.
Fetched_OldAddress ==
    IF state.epoch \in Epochs THEN phase[state.epoch] ELSE phase[current_keeper_epoch]

\* KeeperState::fetch and update_epoch_state read this.
Fetched == phase[current_keeper_epoch]

\* Phase 0.4 and the decision of phase 2.  A request that fails leaves
\* is_epoch_completed as it was or has already reset it.
KeeperFetch ==
    /\ pc = "fetch"
    /\ \/ /\ Fetched = "completed"
          /\ state' = [state EXCEPT !.epoch = current_keeper_epoch,
                                    !.is_epoch_completed = TRUE]
          /\ Ok("progress")
       \/ /\ Fetched # "completed"
          /\ state' = [epoch |-> current_keeper_epoch, current_state |-> Fetched,
                       is_epoch_completed |-> FALSE]
          /\ Ok(IF Fetched = "none" THEN "create" ELSE "crank")
       \/ /\ \E completed \in {FALSE, state.is_epoch_completed} :
                state' = [state EXCEPT !.epoch = current_keeper_epoch,
                                       !.is_epoch_completed = completed]
          /\ Fail
    /\ UNCHANGED <<chainVars, current_keeper_epoch, epoch_stall, to_close>>

\* create_epoch_state
KeeperCreate ==
    /\ pc = "create"
    /\ \/ Enter(state.epoch, "none", "SetWeight", {}) /\ Ok("progress")
       \/ /\ phase[state.epoch] # "none"
          /\ Ok("progress")
          /\ UNCHANGED <<phase, accounts, voting>>
       \/ Fail /\ UNCHANGED <<phase, accounts, voting>>
    /\ UNCHANGED <<chain_epoch, closed, rewards, current_keeper_epoch,
                   epoch_stall, state, to_close>>

\* A crank that takes the epoch from one phase to the next; if the chain is
\* past the phase it changes nothing, and fails or not.  What fails while
\* operators are snapshot and the ballot box is created is only logged, and the
\* phase stays.
Advance(from, to, created) ==
    /\ state.current_state = from
    /\ \/ Enter(state.epoch, from, to, created) /\ Ok("detect")
       \/ /\ phase[state.epoch] # from
          /\ Ok("detect") \/ Ok("progress")
          /\ UNCHANGED <<phase, accounts, voting>>
       \/ /\ Fail \/ (from = "Snapshot" /\ FailLogged)
          /\ UNCHANGED <<phase, accounts, voting>>
    /\ UNCHANGED rewards

CrankSetWeight == Advance("SetWeight", "Snapshot", {"weight_table"})
CrankSnapshot == Advance("Snapshot", "Vote", SnapshotAccounts)

\* No transaction: Vote, and crank_post_vote_cooldown.
CrankNothing ==
    /\ state.current_state \in {"Vote", "PostVoteCooldown"}
    /\ Ok("detect") \/ Fail
    /\ UNCHANGED <<phase, accounts, rewards, voting>>

\* The routers can be used: they exist, or may still be created.
Usable(e, router) == router \in accounts[e] \/ closed[e] = {}

\* What one round of crank_distribute makes of an epoch's rewards.  Operators
\* are paid by the routes the router had when the round began, so what this
\* round routes is paid by the next.
Distributed(e) ==
    CASE rewards[e] = "due" -> "routed"
      [] rewards[e] = "routed" /\ Usable(e, "operator_vault_reward_routers") -> "paid"
      [] OTHER -> rewards[e]

\* crank_distribute: the NCN's router must be there and is told to route as
\* long as its receiver holds lamports, routed ones that have not been paid to
\* the operators included; process_route_ncn_rewards wants the ballot box and
\* the epoch snapshot, and refuses while votes are valid.  Errors from then on
\* are logged.
CrankDistribute ==
    LET e == state.epoch
        can_route == /\ Usable(e, "ncn_reward_router")
                     /\ rewards[e] \in {"due", "routed"} =>
                            SnapshotAccounts \subseteq accounts[e] /\ e \notin voting
        with(routers) == [accounts EXCEPT ![e] =
                             IF closed[e] = {} THEN @ \cup routers ELSE @]
    IN
    /\ state.current_state = "Distribute"
    /\ \/ /\ can_route
          /\ accounts' = with(Routers)
          /\ rewards' = [rewards EXCEPT ![e] = Distributed(e)]
          /\ Ok("detect")
       \/ /\ ~can_route
          /\ Ok("progress")
          /\ UNCHANGED <<accounts, rewards>>
       \/ /\ can_route
          /\ accounts' = with({"ncn_reward_router"})
          /\ Fail \/ FailLogged
          /\ UNCHANGED rewards
    /\ UNCHANGED <<phase, voting>>

KeeperCrank ==
    /\ pc = "crank"
    /\ \/ /\ \/ CrankSetWeight \/ CrankSnapshot
             \/ CrankNothing \/ CrankDistribute
          /\ UNCHANGED to_close
       \/ /\ state.current_state = "Close"
          /\ to_close' = 1
          /\ Ok("close") \/ Fail
          /\ UNCHANGED <<phase, accounts, rewards, voting>>
    /\ UNCHANGED <<chain_epoch, closed, current_keeper_epoch, epoch_stall, state>>

\* One step of crank_close_epoch_accounts, which goes on whatever becomes of
\* it: the account is closed, it is not there or may not be closed yet, or
\* the request fails.
CloseNext(e, a) ==
    \/ /\ a # "epoch_state"
       /\ CloseEpochAccount(e, a)
       /\ UNCHANGED <<phase, failures>>
    \/ /\ a = "epoch_state"
       /\ CompleteEpoch(e)
       /\ UNCHANGED <<accounts, closed, rewards, voting, failures>>
    \/ /\ a \notin accounts[e]
       /\ a = "epoch_state" => ~(phase[e] = "Close" /\ AllAccountsClosed(e))
       /\ UNCHANGED <<phase, accounts, closed, rewards, voting, failures>>
    \/ /\ failures < MaxFailures
       /\ failures' = failures + 1
       /\ UNCHANGED <<phase, accounts, closed, rewards, voting>>

KeeperClose ==
    LET last == to_close = Len(ClosedByCrank) IN
    /\ pc = "close"
    /\ CloseNext(state.epoch, ClosedByCrank[to_close])
    /\ pc' = IF last THEN "detect" ELSE "close"
    /\ to_close' = IF last THEN 1 ELSE to_close + 1
    /\ UNCHANGED <<chain_epoch, current_keeper_epoch, epoch_stall, state>>

\* KeeperState::detect_stall; the ballot box is looked up for the rewards.
DetectStall ==
    \/ state.current_state \in {"Vote", "PostVoteCooldown"}
    \/ state.current_state = "Distribute" /\ rewards[state.epoch] \notin {"due", "routed"}

KeeperDetect ==
    /\ pc = "detect"
    /\ \/ /\ state.current_state = "Distribute"
               => "ballot_box" \in accounts[state.epoch]
          /\ epoch_stall' = DetectStall
          /\ Ok("progress")
       \/ /\ state.current_state = "Distribute"
          /\ "ballot_box" \notin accounts[state.epoch]
          /\ Ok("progress")
          /\ UNCHANGED epoch_stall
       \/ Fail /\ UNCHANGED epoch_stall
    /\ UNCHANGED <<chainVars, current_keeper_epoch, state, to_close>>

Keep ==
    \/ KeeperProgress \/ KeeperFetch \/ KeeperCreate
    \/ KeeperCrank \/ KeeperClose \/ KeeperDetect

KeeperNext ==
    \/ ChainNext /\ UNCHANGED keeperVars
    \/ Keep

\* The keeper's process runs, time passes and operators decide; routers are
\* closed if anybody closes them at all.
KeeperFairness ==
    /\ WF_kvars(Keep)
    /\ \A e \in Epochs :
          /\ WF_kvars(OperatorsDecide(e) /\ UNCHANGED keeperVars)
          /\ WF_kvars(TimePasses(e) /\ UNCHANGED keeperVars)
          /\ WF_kvars(VotingEnds(e) /\ UNCHANGED keeperVars)
          /\ WF_kvars(CloseRouterByHand(e) /\ UNCHANGED keeperVars)

KeeperSpec == KeeperInit /\ [][KeeperNext]_kvars /\ KeeperFairness

----------------------------------------------------------------------------

\* The keeper only acts on a phase which the epoch it works on has reached,
\* never on what it remembers of another epoch, although KeeperState is
\* reused for every epoch and survives failed requests.
ActsOnReachedPhase ==
    pc \in {"crank", "close", "detect"} =>
        PhaseOrder[state.current_state] <= PhaseOrder[phase[current_keeper_epoch]]

\* An epoch that began to close without an NCN reward router never ends.
ClosedWithoutRouter(e) ==
    phase[e] = "Close" /\ "ncn_reward_router" \notin accounts[e] \cup closed[e]

\* The keeper takes every epoch the chain reaches through all its phases to
\* the end, past failing requests and other people's transactions, unless
\* some epoch, on which it then stays, can no longer be closed.
EpochsComplete ==
    \A e \in Epochs :
        chain_epoch >= e ~> \/ phase[e] = "completed"
                           \/ \E f \in Epochs : ClosedWithoutRouter(f)

============================================================================
