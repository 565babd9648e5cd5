----------------------------- MODULE EpochVote -----------------------------
(***************************************************************************)
(* What the voting of one epoch promises, without accounts, tallies, slots *)
(* or configuration: every voter votes at most once, the first choice that *)
(* a quorum of weight supports is the outcome at the moment its quorum is  *)
(* complete, a vote that no quorum decides may be settled for a choice     *)
(* that was voted for, such a settlement ends the vote, and an outcome is  *)
(* never revised.                                                          *)
(***************************************************************************)
EXTENDS Integers, Functions

CONSTANTS Voters, Weight, Options, None, IsQuorum(_)

VARIABLES votes, outcome

Open == [by |-> "nobody", choice |-> None]

Support(v, c) == SumFunctionOnSet(Weight, {x \in Voters : v[x] = c})

Init ==
    /\ votes = [v \in Voters |-> None]
    /\ outcome = Open

Cast(v, c) ==
    /\ outcome.by # "settlement"
    /\ votes[v] = None
    /\ votes' = [votes EXCEPT ![v] = c]
    /\ outcome' = IF outcome = Open /\ IsQuorum(Support(votes', c))
                  THEN [by |-> "quorum", choice |-> c]
                  ELSE outcome

Settle(c) ==
    /\ outcome = Open
    /\ \E v \in Voters : votes[v] = c
    /\ outcome' = [by |-> "settlement", choice |-> c]
    /\ UNCHANGED votes

Next ==
    \/ \E v \in Voters, c \in Options : Cast(v, c)
    \/ \E c \in Options : Settle(c)

Spec == Init /\ [][Next]_<<votes, outcome>>
=============================================================================
