----------------------------- MODULE ClientCall -----------------------------
(***************************************************************************)
(* Command line clients calling the program over an RPC node that loses    *)
(* and delays transactions.  A call builds its instructions (CliCalls,     *)
(* NCNClient), sends each transaction up to Retries + 1 times              *)
(* (send_transactions) and gives up on an attempt without knowing whether  *)
(* it landed; the program checks the accounts (ProgramInterface) and       *)
(* creates, reallocates or closes an account.  The transactions of the     *)
(* functions, and whether they can be built and are accepted, are those of *)
(* ClientInterface.                                                        *)
(*                                                                         *)
(* A behaviour follows one account, focus, and the calls that create,      *)
(* complete or close it; the other accounts of the epoch are in place.     *)
(* With focus = "none" it follows the calls that only change contents: of  *)
(* those only the accounts and the outcome matter here.                    *)
(***************************************************************************)
EXTENDS Integers, Sequences, FiniteSetsExt, Functions

CONSTANTS Calls,        \* the transactions of each function, in order
          AccountPieces, \* how many pieces of MAX_REALLOC_BYTES each account has
          Keepers,      \* processes that crank: they call get_or_create_*, again and again
          Users,        \* processes that call one function after the other
          Retries,      \* handler.retries
          MaxLosses,    \* how often the RPC node fails a client
          MaxLate       \* how many given-up transactions may still land

ASSUME BoundsAssumption == Retries \in Nat /\ MaxLosses \in Nat /\ MaxLate \in Nat

VARIABLES focus,        \* the account this behaviour is about
          size,         \* its length, in pieces of MAX_REALLOC_BYTES
          funded,       \* its address holds lamports, and no account
          initialized,  \* its discriminator has been written
          inits,        \* how often initialize has been run on it since it was created
          due,          \* can_close_epoch_accounts holds
          closing,      \* the epoch state is marked as closing, or gone
          call,         \* what each client is doing
          late,         \* how many given-up attempts of each transaction may still land
          losses        \* failures of the RPC node so far

focusVars == <<focus, size, funded, initialized, inits, due, closing>>
callVars == <<focusVars, call, late, losses>>

-----------------------------------------------------------------------------
(* What the handlers do to the account; w is its state before, and whether *)
(* the transaction succeeds.                                               *)

Initializers ==
    {"InitializeConfig", "InitializeVaultRegistry", "InitializeEpochState",
     "InitializeWeightTable", "InitializeEpochSnapshot", "InitializeOperatorSnapshot",
     "InitializeBallotBox", "InitializeNCNRewardRouter",
     "InitializeOperatorVaultRewardRouter"}
Reallocators ==
    {"ReallocVaultRegistry", "ReallocWeightTable", "ReallocBallotBox",
     "ReallocNCNRewardRouter"}

\* The config and the vault registry belong to no epoch.
OfEpoch(a) == a \notin {"config", "vault_registry"}

\* process_initialize_*: load_system_account wants an address without data,
\* whatever lamports it holds, load_and_check_is_closing and check_dne an epoch that is not closing
\* or closed.  An account of one piece is initialised at once.
Initialize(w) ==
    IF w.size = 0 /\ ~(OfEpoch(focus) /\ w.closing)
    THEN [w EXCEPT !.size = 1,
                   !.initialized = AccountPieces[focus] = 1,
                   !.inits = IF AccountPieces[focus] = 1 THEN 1 ELSE 0]
    ELSE [w EXCEPT !.ok = FALSE]

\* Reallocations that start again whenever the account is large enough.
Realloc_Reinitializes(w, times) ==
    LET grown == Min({w.size + times, AccountPieces[focus]})
    IN IF w.size = 0 THEN [w EXCEPT !.ok = FALSE]
       ELSE [w EXCEPT !.size = grown,
                      !.initialized = grown = AccountPieces[focus],
                      !.inits = IF grown = AccountPieces[focus] THEN @ + 1 ELSE @]

\* process_realloc_*, so many times in a row: the account grows by one piece
\* each time it is too small, and is initialised if it is then large enough and
\* has no discriminator.  The runtime refuses to reallocate an account that
\* does not exist.
Realloc(w, times) ==
    LET grown == Min({w.size + times, AccountPieces[focus]})
        should_initialize == grown = AccountPieces[focus] /\ ~w.initialized
    IN IF w.size = 0 THEN [w EXCEPT !.ok = FALSE]
       ELSE [w EXCEPT !.size = grown,
                      !.initialized = @ \/ should_initialize,
                      !.inits = IF should_initialize THEN @ + 1 ELSE @]

\* process_close_epoch_account: an account that exists, has its discriminator
\* and belongs to an epoch that is due.
CloseFocus(w) ==
    IF w.size > 0 /\ w.initialized /\ due
    THEN [w EXCEPT !.size = 0, !.initialized = FALSE, !.closing = TRUE]
    ELSE [w EXCEPT !.ok = FALSE]

\* The transaction runs as a whole or not at all; the instructions that are
\* not named here have no effect on the account.
Executed(tx) ==
    LET w == [size |-> size, initialized |-> initialized, inits |-> inits,
              closing |-> closing, ok |-> tx.accepted]
    IN CASE ~w.ok -> w
         [] w.ok /\ tx.instruction \in Initializers -> Initialize(w)
         [] w.ok /\ tx.instruction \in Reallocators -> Realloc(w, tx.times)
         [] w.ok /\ tx.instruction = "CloseEpochAccount" -> CloseFocus(w)
         [] OTHER -> w

\* A transaction lands: with focus = "none" its handler may also refuse it for
\* what it finds in the accounts.
Land(tx, ok) ==
    /\ LET after == Executed(tx)
       IN /\ ok => after.ok
          /\ focus /= "none" => ok = after.ok
          /\ size' = after.size
          /\ funded' = (funded /\ after.size = 0)
          /\ initialized' = after.initialized
          /\ inits' = after.inits
          /\ closing' = after.closing
    /\ UNCHANGED <<focus, due>>

-----------------------------------------------------------------------------
(* The clients.                                                            *)

Clients == Keepers \cup Users

\* The function that creates an account, and the one that closes it.
Creator ==
    [config |-> "admin_create_config", vault_registry |-> "create_vault_registry",
     epoch_state |-> "create_epoch_state", weight_table |-> "create_weight_table",
     epoch_snapshot |-> "create_epoch_snapshot",
     operator_snapshot |-> "create_operator_snapshot",
     ballot_box |-> "create_ballot_box",
     ncn_reward_router |-> "create_ncn_reward_router",
     operator_vault_reward_router |-> "create_operator_vault_reward_router"]
Closer ==
    [epoch_state |-> "close_epoch_state", weight_table |-> "close_weight_table",
     epoch_snapshot |-> "close_epoch_snapshot",
     operator_snapshot |-> "close_operator_snapshot",
     ballot_box |-> "close_ballot_box"]

\* What the code of the functions fixes: a creating function first sends the
\* instruction that initialises the account, and in a second transaction, if
\* the account has more than one piece, as many reallocations as it lacks.  The
\* functions that create and close nothing use neither.
Transaction ==
    [unless : {"never", "exists", "gone"}, instruction : STRING, times : Nat,
     accepted : BOOLEAN, panics : BOOLEAN]

ASSUME CallsAssumption ==
    /\ \A f \in DOMAIN Calls : Calls[f] \in Seq(Transaction)
    /\ \A a \in DOMAIN Creator :
         LET n == AccountPieces[a]
             f == Creator[a]
         IN /\ n \in Nat \ {0}
            /\ f \in DOMAIN Calls
            /\ Len(Calls[f]) = IF n = 1 THEN 1 ELSE 2
            /\ Calls[f][1].instruction \in Initializers
            /\ Calls[f][1].unless /= "gone"
            /\ n > 1 => /\ Calls[f][2].instruction \in Reallocators
                        /\ Calls[f][2].unless = "never"
                        /\ Calls[f][2].times = n - 1
    /\ \A a \in DOMAIN Closer : Closer[a] \in DOMAIN Calls
    /\ \A f \in DOMAIN Calls \ (Range(Creator) \cup Range(Closer)) :
         \A i \in 1..Len(Calls[f]) :
             Calls[f][i].instruction \notin Initializers \cup Reallocators

Callable ==
    IF focus = "none" THEN DOMAIN Calls \ (Range(Creator) \cup Range(Closer))
    ELSE {Creator[focus]} \cup {Closer[a] : a \in DOMAIN Closer \cap {focus}}

CallableTxs == UNION {Range(Calls[f]) : f \in Callable}

Whole == focus /= "none" /\ size = AccountPieces[focus] /\ initialized

Idle == [function |-> "none", ensure |-> FALSE, txs |-> <<>>, tries |-> 0, status |-> "idle"]
Returned(c) == call[c].status \in {"idle", "ok", "err"}
CurrentTx(c) == Head(call[c].txs)

Begins(c, f, ensure) ==
    call' = [call EXCEPT ![c] = [function |-> f, ensure |-> ensure, txs |-> Calls[f],
                                 tries |-> 0, status |-> "step"]]
Returns(c, status) == call' = [call EXCEPT ![c].status = status]

Call(c) ==
    /\ Returned(c)
    /\ \E f \in Callable : Begins(c, f, FALSE)
    /\ UNCHANGED <<focusVars, late, losses>>

\* get_account finds something at the address, be it lamports alone.
Exists == size > 0 \/ funded

\* Asking only whether the account exists.
MustCreate_IfNone == ~Exists

\* get_or_create_*: whether the account has to be created or completed.
\* get_or_create_vault_registry only asks whether it exists.
MustCreate ==
    IF focus = "vault_registry" THEN ~Exists ELSE size < AccountPieces[focus]

Ensured == DOMAIN Creator \ {"config", "epoch_state"}

\* The account is returned if it can be read.
get_or_create(c) ==
    /\ Returned(c)
    /\ focus \in Ensured
    /\ \/ MustCreate /\ Begins(c, Creator[focus], TRUE)
       \/ ~MustCreate /\ Returns(c, IF Whole THEN "ok" ELSE "err")
    /\ UNCHANGED <<focusVars, late, losses>>

\* The lookup before a transaction finds that it is not needed: a creating
\* function asks whether get_account finds anything, close_epoch_account
\* whether the account has data.
NotNeeded(tx) ==
    \/ tx.unless = "exists" /\ Exists
    \/ tx.unless = "gone" /\ size = 0

Skip(c) ==
    /\ call[c].status = "step"
    /\ call[c].txs /= <<>>
    /\ NotNeeded(CurrentTx(c))
    /\ call' = [call EXCEPT ![c].txs = Tail(@)]
    /\ UNCHANGED <<focusVars, late, losses>>

\* The transaction is built and sent for the first time.
Build(c) ==
    /\ call[c].status = "step"
    /\ call[c].txs /= <<>>
    /\ ~NotNeeded(CurrentTx(c))
    /\ Returns(c, IF CurrentTx(c).panics THEN "panic" ELSE "sent")
    /\ UNCHANGED <<focusVars, late, losses>>

\* After the last transaction; get_or_create_* looks at the account again
\* (check_created, then the getter).
Return(c) ==
    /\ call[c].status = "step"
    /\ call[c].txs = <<>>
    /\ Returns(c, IF call[c].ensure /\ ~Whole THEN "err" ELSE "ok")
    /\ UNCHANGED <<focusVars, late, losses>>

\* An attempt lands while the client is waiting for it.
LandSent(c) ==
    /\ call[c].status = "sent"
    /\ \E ok \in BOOLEAN :
         /\ Land(CurrentTx(c), ok)
         /\ Returns(c, IF ok THEN "confirmed" ELSE "failed")
    /\ UNCHANGED <<late, losses>>

Confirm(c) ==
    /\ call[c].status = "confirmed"
    /\ call' = [call EXCEPT ![c].txs = Tail(@), ![c].tries = 0, ![c].status = "step"]
    /\ UNCHANGED <<focusVars, late, losses>>

\* The next attempt of send_transactions: Retries in the loop and the last one.
NextAttempt(c) ==
    call' = [call EXCEPT ![c].tries = IF @ < Retries THEN @ + 1 ELSE @,
                         ![c].status = IF call[c].tries < Retries THEN "sent" ELSE "err"]

\* The node reports that the transaction failed.
Failed(c) ==
    /\ call[c].status = "failed"
    /\ NextAttempt(c)
    /\ UNCHANGED <<focusVars, late, losses>>

\* A client that takes an attempt it heard nothing of for a success.
NoAnswer_TakenAsOk(c) ==
    /\ call[c].status \in {"sent", "confirmed"}
    /\ losses < MaxLosses
    /\ losses' = losses + 1
    /\ call' = [call EXCEPT ![c].txs = Tail(@), ![c].tries = 0, ![c].status = "step"]
    /\ UNCHANGED <<focusVars, late>>

\* send_and_confirm gives up on an attempt that has not landed, and may land
\* later, or that has landed without the client hearing of it.
NoAnswer(c) ==
    /\ call[c].status \in {"sent", "confirmed"}
    /\ losses < MaxLosses
    /\ losses' = losses + 1
    /\ NextAttempt(c)
    /\ \/ UNCHANGED late
       \/ /\ call[c].status = "sent"
          /\ SumFunctionOnSet(late, DOMAIN late) < MaxLate
          /\ late' = [late EXCEPT ![CurrentTx(c)] = @ + 1]
    /\ UNCHANGED focusVars

\* get_account fails, or get_latest_blockhash before one of the attempts,
\* which ends the call.
RpcError(c) ==
    /\ call[c].status \in {"step", "sent"}
    /\ losses < MaxLosses
    /\ losses' = losses + 1
    /\ Returns(c, "err")
    /\ UNCHANGED <<focusVars, late>>

-----------------------------------------------------------------------------
(* The network and the clock.                                              *)

Pending == {tx \in DOMAIN late : late[tx] > 0}

LandLate ==
    /\ \E tx \in Pending, ok \in BOOLEAN :
         /\ Land(tx, ok)
         /\ late' = [late EXCEPT ![tx] = @ - 1]
    /\ UNCHANGED <<call, losses>>

\* The epochs after consensus before close have passed.
BecomesDue ==
    /\ ~due
    /\ due' = TRUE
    /\ UNCHANGED <<focus, size, funded, initialized, inits, closing, call, late, losses>>

\* Someone transfers lamports to the address while there is no account.
Fund ==
    /\ focus /= "none"
    /\ size = 0
    /\ ~funded
    /\ funded' = TRUE
    /\ UNCHANGED <<focus, size, initialized, inits, due, closing, call, late, losses>>

CallInit ==
    /\ focus \in DOMAIN Creator \cup {"none"}
    /\ size = 0
    /\ funded = FALSE
    /\ initialized = FALSE
    /\ inits = 0
    /\ due = FALSE
    /\ closing = FALSE
    /\ call = [c \in Clients |-> Idle]
    /\ late = [tx \in CallableTxs |-> 0]
    /\ losses = 0

Proceed(c) == Skip(c) \/ Build(c) \/ Return(c) \/ Confirm(c) \/ Failed(c)

CallNext ==
    \/ \E c \in Users : Call(c)
    \/ \E c \in Keepers : get_or_create(c)
    \/ \E c \in Clients : Proceed(c) \/ LandSent(c) \/ NoAnswer(c) \/ RpcError(c)
    \/ LandLate
    \/ BecomesDue
    \/ Fund

\* A client goes on with its call, a keeper calls again in its next pass, and
\* an attempt that is not lost is processed.
CallFairness ==
    /\ \A c \in Clients : WF_callVars(Proceed(c)) /\ WF_callVars(LandSent(c))
    /\ \A c \in Keepers : WF_callVars(get_or_create(c))

CallSpec == CallInit /\ [][CallNext]_callVars /\ CallFairness

-----------------------------------------------------------------------------
(* Properties.                                                             *)

\* Every transaction a function of the command line sends, first or late,
\* passes the program's account checks: the instruction is the one meant, the
\* accounts are in the handler's order, and what the handler writes or wants
\* signed is writable or signed, if only because the keypair pays the fee.  No
\* builder is asked for an instruction before all it needs is set.
CallsAccepted ==
    /\ \A c \in Clients :
         /\ call[c].status /= "panic"
         /\ call[c].status \in {"sent", "failed"} => CurrentTx(c).accepted
    /\ \A tx \in Pending : tx.accepted

\* The creating function looks the account up first, and takes the lamports at
\* its address for it.
Mistaken == focus /= "none" /\ funded /\ Calls[Creator[focus]][1].unless = "exists"

\* What a client is told has been done, has been done, whatever was lost,
\* repeated or done by another client: after create_* and get_or_create_* the
\* account is whole and initialised, unless its epoch has been closed since,
\* and after close_epoch_account, once the epoch is closing, it is gone and
\* stays so.  One case is excepted: a create_* that looks up an account of one
\* piece skips everything and returns Ok when it finds lamports alone; a
\* create_* that also reallocates fails then, and so does get_or_create_*.
OkMeansDone ==
    \A c \in Clients : call[c].status = "ok" /\ focus /= "none" =>
        IF call[c].function \in Range(Closer) THEN closing => size = 0
        ELSE \/ Whole \/ closing
             \/ Mistaken /\ AccountPieces[focus] = 1 /\ ~call[c].ensure

\* A reallocation that lands again, late or for a second client, never
\* initialises the account a second time: that would erase the votes, weights
\* or rewards recorded in it meanwhile.
InitializedOnce == inits <= 1

\* A keeper that keeps calling get_or_create_* gets a whole account, however
\* the creation was cut short, unless the epoch is closed first, or the address
\* gets lamports before a function that looks it up has created the account,
\* and then for good.  The vault registry is excepted:
\* get_or_create_vault_registry does not complete one that was created and not
\* reallocated.
EnsureSucceeds ==
    focus \in Ensured \ {"vault_registry"} => <>(Whole \/ closing) \/ <>[]Mistaken

=============================================================================
