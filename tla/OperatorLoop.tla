---------------------------- MODULE OperatorLoop ----------------------------
(***************************************************************************)
(* The operator's loop of the CLI (cli/src/operator): one operator, with   *)
(* stake in every epoch, goes through the epochs and votes in each, while  *)
(* keepers crank the same epochs.                                          *)
(*                                                                         *)
(* The loop catches the errors of its fetches and retries; the errors of   *)
(* what it reads while acting on a phase leave it ("exited").              *)
(***************************************************************************)
EXTENDS EpochChain

CONSTANT
    MaxFailures  \* bound: failing requests

ASSUME OperatorLoopAssumption == MaxFailures \in Nat

VARIABLES
    op_pc,     \* where the operator's loop is
    op_epoch,  \* its current_keeper_epoch
    op_state,  \* its KeeperState
    voted,     \* epochs whose ballot box holds the operator's vote
    failures   \* failed requests so far

opVars == <<op_pc, op_epoch, op_state, voted, failures>>
ovars == <<chainVars, opVars>>

OpInit ==
    /\ ChainInit
    /\ op_pc = "progress"
    /\ op_epoch = StartingEpoch
    /\ op_state = [current_state |-> "none", is_epoch_completed |-> FALSE]
    /\ voted = {}
    /\ failures = 0

OpGoto(next) == op_pc' = next /\ UNCHANGED failures

OpFail(next) ==
    /\ failures < MaxFailures
    /\ failures' = failures + 1
    /\ op_pc' = next

\* Mutant of OpProgressEpoch: the loop ends at the chain's epoch.
OpProgressEpoch_NoReset ==
    IF op_state.is_epoch_completed /\ op_epoch < chain_epoch
    THEN op_epoch + 1
    ELSE op_epoch

\* progress_epoch
OpProgressEpoch ==
    IF op_state.is_epoch_completed
    THEN IF op_epoch = chain_epoch THEN StartingEpoch ELSE op_epoch + 1
    ELSE op_epoch

OpProgress ==
    /\ op_pc = "progress"
    /\ op_epoch' = OpProgressEpoch
    /\ OpGoto("fetch")
    /\ UNCHANGED <<op_state, voted>>

\* KeeperState::fetch or update_epoch_state, and the look at what it found:
\* an epoch without EpochState counts as completed.
OpFetch ==
    LET found == phase[op_epoch] IN
    /\ op_pc = "fetch"
    /\ \/ /\ found \in {"none", "completed"}
          /\ op_state' = [op_state EXCEPT !.is_epoch_completed = TRUE]
          /\ OpGoto("progress")
       \/ /\ found \notin {"none", "completed"}
          /\ op_state' = [current_state |-> found, is_epoch_completed |-> FALSE]
          /\ OpGoto("act")
       \/ /\ \E completed \in {FALSE, op_state.is_epoch_completed} :
                op_state' = [op_state EXCEPT !.is_epoch_completed = completed]
          /\ OpFail("progress")
    /\ UNCHANGED <<op_epoch, voted>>

\* The phase calls for nothing.
OpWait ==
    /\ op_state.current_state \in {"SetWeight", "Snapshot"}
    /\ OpGoto("progress")
    /\ UNCHANGED op_state

\* The vote, if can_operator_vote says so.
OpReadBallotBox ==
    /\ op_state.current_state = "Vote"
    /\ {"ballot_box", "snapshots"} \subseteq accounts[op_epoch]
    /\ op_epoch \notin voted
    /\ OpGoto("vote")
    /\ UNCHANGED op_state

\* operator_crank_post_vote looks at the ballot box.
OpPostVote ==
    /\ \/ op_state.current_state = "Vote" /\ op_epoch \in voted
       \/ op_state.current_state \in {"PostVoteCooldown", "Distribute", "Close"}
    /\ "ballot_box" \in accounts[op_epoch]
    /\ op_state' = [op_state EXCEPT !.is_epoch_completed = TRUE]
    /\ OpGoto("progress")

\* One of the accounts is not there, or its request fails.
OpExit ==
    /\ op_state.current_state \notin {"SetWeight", "Snapshot"}
    /\ \/ "ballot_box" \notin accounts[op_epoch] /\ OpGoto("exited")
       \/ OpFail("exited")
    /\ UNCHANGED op_state

OpAct ==
    /\ op_pc = "act"
    /\ OpWait \/ OpReadBallotBox \/ OpPostVote \/ OpExit
    /\ UNCHANGED <<op_epoch, voted>>

\* What process_cast_vote asks of the epoch.
VoteAccepted(e) ==
    /\ {"ballot_box", "snapshots"} \subseteq accounts[e]
    /\ e \in voting

\* operator_crank_vote; a vote that fails is tried again in the next round.
OpVote ==
    /\ op_pc = "vote"
    /\ \/ /\ VoteAccepted(op_epoch)
          /\ voted' = voted \cup {op_epoch}
          /\ OpGoto("progress")
       \/ /\ ~VoteAccepted(op_epoch)
          /\ OpGoto("progress")
          /\ UNCHANGED voted
       \/ OpFail("progress") /\ UNCHANGED voted
    /\ UNCHANGED <<op_epoch, op_state>>

Operate ==
    /\ OpProgress \/ OpFetch \/ OpAct \/ OpVote
    /\ UNCHANGED chainVars

OpNext ==
    \/ ChainNext /\ UNCHANGED opVars
    \/ Operate

\* The operator's process runs, and some keeper cranks every epoch to its
\* vote (module Keeper).
OpSpec ==
    /\ OpInit
    /\ [][OpNext]_ovars
    /\ WF_ovars(Operate)
    /\ \A e \in Epochs : WF_ovars(OthersCrank(e) /\ UNCHANGED opVars)

----------------------------------------------------------------------------

\* The operator votes in every epoch that is up for a vote, wherever its loop
\* is at the time and whatever the keeper does to other epochs, unless others
\* decide the epoch first or the loop was left.
OperatorVotes ==
    \A e \in Epochs :
        phase[e] = "Vote" ~> \/ e \in voted
                             \/ phase[e] # "Vote"
                             \/ op_pc = "exited"

============================================================================
