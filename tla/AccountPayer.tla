---------------------------- MODULE AccountPayer ----------------------------
(***************************************************************************)
(* The account payer of an NCN (core/src/account_payer.rs): one system     *)
(* account without data that pays the rent of every account the program    *)
(* creates, for all epochs at once, and that gets it back when they are    *)
(* closed.  Nobody reserves anything: each instruction takes what it needs *)
(* from what is there at the time.                                         *)
(*                                                                         *)
(* EpochLifecycle models when accounts may be created and closed; here an  *)
(* epoch keeps of it what decides over the order of the payments.  Lamports *)
(* are counted in what one unit of storage costs.  The config and the vault *)
(* registry, which are paid for once before the first epoch and never      *)
(* closed, are left out.                                                   *)
(***************************************************************************)
EXTENDS Integers, FiniteSets, FiniteSetsExt, Functions

CONSTANTS
    Epochs,
    Kinds,              \* the kinds of accounts an epoch has
    Size,               \* their sizes, in units of MAX_REALLOC_BYTES or less
    MAX_REALLOC_BYTES,
    OVERHEAD,           \* ACCOUNT_STORAGE_OVERHEAD: minimum_balance(0)
    Amounts,            \* amounts the payer is funded with
    MaxFunded,          \* bound on the funds
    Gifts,              \* amounts others send to the program's addresses
    MaxGifted           \* bound on these

Staged == {"weight_table", "ballot_box", "ncn_reward_router"}
WithReceiver == {"ncn_reward_router", "operator_vault_reward_router"}
EpochKinds == Staged \cup {"epoch_snapshot"}
OperatorKinds == {"operator_snapshot", "operator_vault_reward_router"}
Permanent == {"consensus_result", "epoch_marker"}

ASSUME PayerAssumption ==
    /\ IsFiniteSet(Epochs)
    /\ {"epoch_state", "ballot_box", "ncn_reward_router"} \cup Permanent \subseteq Kinds
    /\ Kinds \subseteq {"epoch_state"} \cup EpochKinds \cup OperatorKinds \cup Permanent
    /\ Size \in [Kinds -> Nat \ {0}]
    /\ MAX_REALLOC_BYTES \in Nat \ {0}
    /\ OVERHEAD \in Nat \ {0}
    /\ Amounts \subseteq Nat
    /\ Gifts \subseteq Nat
    /\ MaxFunded \in Nat
    /\ MaxGifted \in Nat

Accounts == Epochs \X Kinds
Receivers == Epochs \X (Kinds \cap WithReceiver)

VARIABLES
    payer,      \* lamports of the account payer
    lamports,   \* of every account's address
    size,       \* data of every account, 0 where there is none
    receiver,   \* lamports of the routers' receivers
    ncn_wallet, \* lamports the closing of receivers sent to the NCN
    can_close,  \* epochs that are decided and old enough
    is_closing, \* EpochState::is_closing, by epoch
    closed,     \* accounts with AccountStatus::Closed
    funded, gifted  \* lamports that came from outside

epochVars == <<can_close, is_closing, closed>>
sourceVars == <<funded, gifted>>
vars == <<payer, lamports, size, receiver, ncn_wallet, epochVars, sourceVars>>

Init ==
    /\ payer = 0
    /\ lamports = [a \in Accounts |-> 0]
    /\ size = [a \in Accounts |-> 0]
    /\ receiver = [r \in Receivers |-> 0]
    /\ ncn_wallet = 0
    /\ can_close = {} /\ is_closing = {} /\ closed = {}
    /\ funded = 0 /\ gifted = 0

----------------------------------------------------------------------------

\* Rent::minimum_balance
MinimumBalance(n) == OVERHEAD + n

\* The runtime refuses to leave an account between nothing and rent-exempt.
RentState(balance) == balance = 0 \/ balance >= MinimumBalance(0)

\* Mutant of Required: an account that has lamports needs no more.
Required_OnlyOnce(a, n) == IF lamports[a] > 0 THEN 0 ELSE MinimumBalance(n)

\* Mutant of Required: what the account has is not subtracted.
Required_Whole(a, n) == MinimumBalance(n)

\* required_lamports of pay_and_create_account and pay_and_realloc, with
\* saturating_sub.
Required(a, n) ==
    IF MinimumBalance(n) > lamports[a] THEN MinimumBalance(n) - lamports[a] ELSE 0

\* AccountPayer::transfer, of everything one instruction pays and gets.
PayerMoves(out, in) ==
    /\ payer >= out
    /\ payer' = payer - out + in
    /\ RentState(payer')

\* What pay_and_create_account and pay_and_realloc make of the accounts that
\* "new" gives a size to.
Rent(new) ==
    SumFunctionOnSet([a \in DOMAIN new |-> Required(a, new[a])], DOMAIN new)
Grow(new) ==
    /\ lamports' = [a \in Accounts |->
                       IF a \in DOMAIN new THEN lamports[a] + Required(a, new[a])
                       ELSE lamports[a]]
    /\ size' = [a \in Accounts |-> IF a \in DOMAIN new THEN new[a] ELSE size[a]]

Exists(a) == size[a] > 0
Live(e) == Exists(<<e, "epoch_state">>)
Completed(e) == Exists(<<e, "epoch_marker">>)

\* process_initialize_epoch_state
InitializeEpochState(e) ==
    LET new == [a \in {<<e, "epoch_state">>} |-> Size["epoch_state"]] IN
    /\ ~Live(e)
    /\ ~Completed(e)
    /\ PayerMoves(Rent(new), 0)
    /\ Grow(new)
    /\ UNCHANGED <<receiver, ncn_wallet, epochVars, sourceVars>>

\* The size an account is created with, at most one allocation.
FirstSize(k) == IF k \in Staged THEN MAX_REALLOC_BYTES ELSE Size[k]

\* The accounts an initialize_* handler creates: with the ballot box comes
\* the consensus result, which must not be there.
Created(e, k) ==
    {<<e, k>>} \cup (IF k = "ballot_box" THEN {<<e, "consensus_result">>} ELSE {})

\* The other initialize_* handlers; a router's receiver is given its rent
\* whatever it holds.
Initialize(e, k) ==
    LET new == [a \in Created(e, k) |-> FirstSize(a[2])]
        rent == IF k \in WithReceiver THEN MinimumBalance(0) ELSE 0
    IN
    /\ k \in EpochKinds \cup OperatorKinds
    /\ Live(e)
    /\ e \notin is_closing
    /\ ~Completed(e)
    /\ \A a \in Created(e, k) : ~Exists(a)
    /\ PayerMoves(Rent(new) + rent, 0)
    /\ Grow(new)
    /\ receiver' = [r \in Receivers |->
                       IF r = <<e, k>> THEN receiver[r] + rent ELSE receiver[r]]
    /\ UNCHANGED <<ncn_wallet, epochVars, sourceVars>>

\* get_new_size
NewSize(a) == Min({size[a] + MAX_REALLOC_BYTES, Size[a[2]]})

\* Mutant of Realloc: not while the epoch is closing.
Realloc_NotClosing(e, k) ==
    LET new == [a \in {<<e, k>>} |-> NewSize(a)] IN
    /\ k \in Staged
    /\ Live(e)
    /\ e \notin is_closing
    /\ Exists(<<e, k>>)
    /\ size[<<e, k>>] < Size[k]
    /\ PayerMoves(Rent(new), 0)
    /\ Grow(new)
    /\ UNCHANGED <<receiver, ncn_wallet, epochVars, sourceVars>>

\* process_realloc_weight_table, _ballot_box and _ncn_reward_router
Realloc(e, k) ==
    LET new == [a \in {<<e, k>>} |-> NewSize(a)] IN
    /\ k \in Staged
    /\ Live(e)
    /\ Exists(<<e, k>>)
    /\ size[<<e, k>>] < Size[k]
    /\ PayerMoves(Rent(new), 0)
    /\ Grow(new)
    /\ UNCHANGED <<receiver, ncn_wallet, epochVars, sourceVars>>

----------------------------------------------------------------------------
(* Closing.                                                                *)

\* The vote and the time that closing waits for.
BecomesClosable(e) ==
    /\ Live(e)
    /\ size[<<e, "ballot_box">>] = Size["ballot_box"]
    /\ e \notin can_close
    /\ can_close' = can_close \cup {e}
    /\ UNCHANGED <<payer, lamports, size, receiver, ncn_wallet, is_closing,
                   closed, sourceVars>>

\* Mutant of Refund: the rent-exempt minimum.
Refund_Minimum(a) == MinimumBalance(size[a])

\* What AccountPayer::close_account returns.
Refund(a) == lamports[a]

\* process_close_epoch_account on an account other than EpochState, with its
\* receiver: what that holds above the rent goes to the NCN's wallet.
CloseAccount(e, k) ==
    LET a == <<e, k>>
        rent == IF k \in WithReceiver THEN MinimumBalance(0) ELSE 0
    IN
    /\ k \in EpochKinds \cup OperatorKinds
    /\ Live(e)
    /\ ~Completed(e)
    /\ e \in can_close
    /\ size[a] = Size[k]
    /\ k \in WithReceiver => receiver[a] >= rent
    /\ PayerMoves(0, Refund(a) + rent)
    /\ lamports' = [lamports EXCEPT ![a] = 0]
    /\ size' = [size EXCEPT ![a] = 0]
    /\ receiver' = [r \in Receivers |-> IF r = a THEN 0 ELSE receiver[r]]
    /\ ncn_wallet' = ncn_wallet + (IF k \in WithReceiver THEN receiver[a] - rent ELSE 0)
    /\ is_closing' = is_closing \cup {e}
    /\ closed' = closed \cup {a}
    /\ UNCHANGED <<can_close, sourceVars>>

\* EpochAccountStatus::are_all_closed
AreAllClosed(e) ==
    /\ \A k \in Kinds \cap EpochKinds : <<e, k>> \in closed
    /\ \A k \in Kinds \cap OperatorKinds : ~Exists(<<e, k>>)

\* process_close_epoch_account on EpochState: the marker is paid for before
\* EpochState's lamports come back.
CloseEpochState(e) ==
    LET a == <<e, "epoch_state">>
        marker == <<e, "epoch_marker">>
    IN
    /\ Live(e)
    /\ ~Completed(e)
    /\ e \in can_close
    /\ AreAllClosed(e)
    /\ PayerMoves(Required(marker, Size["epoch_marker"]), Refund(a))
    /\ lamports' = [lamports EXCEPT ![a] = 0,
                                    ![marker] = @ + Required(marker, Size["epoch_marker"])]
    /\ size' = [size EXCEPT ![a] = 0, ![marker] = Size["epoch_marker"]]
    /\ is_closing' = is_closing \cup {e}
    /\ UNCHANGED <<receiver, ncn_wallet, can_close, closed, sourceVars>>

----------------------------------------------------------------------------
(* Lamports from outside.                                                  *)

\* admin_fund_account_payer, or a transfer by anybody.
Fund(n) ==
    /\ funded + n <= MaxFunded
    /\ funded' = funded + n
    /\ PayerMoves(0, n)
    /\ UNCHANGED <<lamports, size, receiver, ncn_wallet, epochVars, gifted>>

\* A transfer to the address of an account, there or not.
GiftAccount(a, n) ==
    /\ gifted + n <= MaxGifted
    /\ gifted' = gifted + n
    /\ lamports' = [lamports EXCEPT ![a] = @ + n]
    /\ RentState(lamports'[a])
    /\ UNCHANGED <<payer, size, receiver, ncn_wallet, epochVars, funded>>

\* A transfer to a router's receiver, as rewards are.
GiftReceiver(r, n) ==
    /\ gifted + n <= MaxGifted
    /\ gifted' = gifted + n
    /\ receiver' = [receiver EXCEPT ![r] = @ + n]
    /\ RentState(receiver'[r])
    /\ UNCHANGED <<payer, lamports, size, ncn_wallet, epochVars, funded>>

Step(e) ==
    \/ InitializeEpochState(e)
    \/ \E k \in Kinds : Initialize(e, k)
    \/ \E k \in Kinds : Realloc(e, k)
    \/ BecomesClosable(e)
    \/ \E k \in Kinds : CloseAccount(e, k)
    \/ CloseEpochState(e)

Next ==
    \/ \E e \in Epochs : Step(e)
    \/ \E n \in Amounts : Fund(n)
    \/ \E a \in Accounts, n \in Gifts : GiftAccount(a, n)
    \/ \E r \in Receivers, n \in Gifts : GiftReceiver(r, n)

Spec == Init /\ [][Next]_vars

\* Keepers crank every account of every epoch, which anybody may do, and
\* epochs are decided.
Fairness ==
    \A e \in Epochs :
        /\ WF_vars(InitializeEpochState(e))
        /\ WF_vars(BecomesClosable(e))
        /\ WF_vars(CloseEpochState(e))
        /\ \A k \in Kinds : /\ WF_vars(Initialize(e, k))
                            /\ WF_vars(Realloc(e, k))
                            /\ WF_vars(CloseAccount(e, k))

FairSpec == Spec /\ Fairness

----------------------------------------------------------------------------

\* Every account with data and every live router's receiver is rent-exempt
\* at all times, so that the runtime never refuses or collects it: also after
\* each reallocation, and whatever others sent to the address before.
RentExempt ==
    /\ RentState(payer)
    /\ \A a \in Accounts : Exists(a) => lamports[a] >= MinimumBalance(size[a])
    /\ \A r \in Receivers : Exists(r) => receiver[r] >= MinimumBalance(0)

\* No instruction makes or loses lamports, those that others sent included.
LamportsConserved ==
    funded + gifted = payer + ncn_wallet + SumFunctionOnSet(lamports, Accounts)
                        + SumFunctionOnSet(receiver, Receivers)

\* The minimum rent of the accounts and of the routers' receivers as they are.
AccountRent == [a \in Accounts |-> IF Exists(a) THEN MinimumBalance(size[a]) ELSE 0]
ReceiverRent == [r \in Receivers |-> IF Exists(r) THEN MinimumBalance(0) ELSE 0]

\* What the payer has spent is the minimum rent of accounts that exist now:
\* rent is paid once, over any number of reallocations, and closing an
\* account brings it back.  A completed epoch has cost the rent of its marker
\* and of its consensus result.
RentComesBack ==
    payer >= funded - SumFunctionOnSet(AccountRent, Accounts)
               - SumFunctionOnSet(ReceiverRent, Receivers)

\* The rent of all epochs at their largest, and what must remain on the
\* payer's account for it to pay at all.
Enough ==
    LET Whole == [k \in Kinds |-> MinimumBalance(Size[k])]
        epoch == SumFunctionOnSet(Whole, Kinds \ {"epoch_marker"})
                   + MinimumBalance(0) * Cardinality(Kinds \cap WithReceiver)
    IN  Cardinality(Epochs) * epoch + MinimumBalance(0)

\* The epoch began to close before its NCN reward router was created.
ClosedWithoutRouter(e) ==
    /\ e \in is_closing
    /\ ~Exists(<<e, "ncn_reward_router">>)
    /\ <<e, "ncn_reward_router">> \notin closed

\* A payer that was funded with the rent of the epochs that overlap takes all
\* of them to their end, however their instructions interleave: no epoch is
\* kept waiting by what another one has taken.  This includes the marker,
\* which is paid for last.
EpochsFinish ==
    funded >= Enough ~> \A e \in Epochs : Completed(e) \/ ClosedWithoutRouter(e)

============================================================================
