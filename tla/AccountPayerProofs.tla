------------------------- MODULE AccountPayerProofs -------------------------
(***************************************************************************)
(* Accounts stay rent-exempt, no lamport is made or lost and the payer's   *)
(* rent comes back, for any set of epochs, any sizes and any storage       *)
(* costs.                                                                  *)
(***************************************************************************)
EXTENDS AccountPayer, SumTheorems

\* Zenon is tried first; a step that needs arithmetic asks for the SMT solver.
USE ZenonT(30), SMTT(30)

\* The balances and sizes are natural numbers; together with RentExempt this
\* is inductive.
PayerInv ==
    /\ lamports \in [Accounts -> Nat]
    /\ size \in [Accounts -> Nat]
    /\ receiver \in [Receivers -> Nat]
    /\ RentExempt

\* An account and a receiver after an instruction: it has no data, or it is
\* rent-exempt.
AccountOk(a) == size'[a] > 0 => lamports'[a] >= MinimumBalance(size'[a])
ReceiverOk(r) == size'[r] > 0 => receiver'[r] >= MinimumBalance(0)

\* A receiver is named by the account of its router.
LEMMA ReceiversAreAccounts == Receivers \subseteq Accounts
  BY DEF Receivers, Accounts

\* What is required on top of an account's lamports makes it rent-exempt.
LEMMA RequiredSuffices ==
    ASSUME NEW a \in Accounts, NEW n \in Nat, lamports \in [Accounts -> Nat]
    PROVE  /\ Required(a, n) \in Nat
           /\ lamports[a] + Required(a, n) \in Nat
           /\ lamports[a] + Required(a, n) >= MinimumBalance(n)
  BY PayerAssumption, SMTT(30) DEF Required, MinimumBalance

\* pay_and_create_account and pay_and_realloc leave every account typed and
\* rent-exempt, and no receiver's router appears that they were not asked for.
LEMMA GrowKeepsExempt ==
    ASSUME PayerInv, NEW new, Grow(new),
           \A a \in DOMAIN new : a \in Accounts => new[a] \in Nat
    PROVE  /\ lamports' \in [Accounts -> Nat]
           /\ size' \in [Accounts -> Nat]
           /\ \A a \in Accounts : AccountOk(a)
           /\ \A a \in Accounts : a \notin DOMAIN new => size'[a] = size[a]
  <1>1. \A a \in Accounts : a \in DOMAIN new =>
            /\ lamports'[a] = lamports[a] + Required(a, new[a])
            /\ size'[a] = new[a]
    BY DEF Grow
  <1>2. \A a \in Accounts : a \notin DOMAIN new =>
            lamports'[a] = lamports[a] /\ size'[a] = size[a]
    BY DEF Grow
  <1>3. ASSUME NEW a \in Accounts
        PROVE  lamports'[a] \in Nat /\ size'[a] \in Nat /\ AccountOk(a)
    <2>1. CASE a \in DOMAIN new
      BY <2>1, <1>1, RequiredSuffices DEF AccountOk, PayerInv
    <2>2. CASE a \notin DOMAIN new
      BY <2>2, <1>2 DEF AccountOk, PayerInv, RentExempt, Exists
    <2>. QED  BY <2>1, <2>2
  <1>4. /\ lamports' = [a \in Accounts |-> lamports'[a]]
        /\ size' = [a \in Accounts |-> size'[a]]
    BY DEF Grow
  <1>. QED  BY <1>2, <1>3, <1>4

\* Putting the parts of the invariant together again.
LEMMA PayerInvAgain ==
    ASSUME lamports' \in [Accounts -> Nat], size' \in [Accounts -> Nat],
           receiver' \in [Receivers -> Nat], RentState(payer)',
           \A a \in Accounts : AccountOk(a),
           \A r \in Receivers : ReceiverOk(r)
    PROVE  PayerInv'
  BY DEF PayerInv, RentExempt, AccountOk, ReceiverOk, Exists, MinimumBalance

\* Initially nothing exists.
LEMMA InitIsExempt == Init => PayerInv
  BY ReceiversAreAccounts, SMTT(30)
     DEF Init, PayerInv, RentExempt, RentState, Exists

\* process_initialize_epoch_state pays the rent of the account it creates.
LEMMA InitializeEpochStateKeeps ==
    ASSUME PayerInv, NEW e \in Epochs, InitializeEpochState(e)
    PROVE  PayerInv'
  <1>. DEFINE new == [a \in {<<e, "epoch_state">>} |-> Size["epoch_state"]]
  <1>1. Grow(new) /\ RentState(payer)' /\ receiver' = receiver
    BY DEF InitializeEpochState, PayerMoves, RentState, MinimumBalance
  <1>2. \A a \in DOMAIN new : a \in Accounts => new[a] \in Nat
    BY PayerAssumption
  <1>3. \A r \in Receivers : r \notin DOMAIN new
    BY SMTT(30) DEF Receivers, WithReceiver
  <1>. HIDE DEF new
  <1>4. /\ lamports' \in [Accounts -> Nat]
        /\ size' \in [Accounts -> Nat]
        /\ \A a \in Accounts : AccountOk(a)
        /\ \A a \in Accounts : a \notin DOMAIN new => size'[a] = size[a]
    BY <1>1, <1>2, GrowKeepsExempt
  <1>5. \A r \in Receivers : ReceiverOk(r)
    BY <1>1, <1>3, <1>4, ReceiversAreAccounts
       DEF ReceiverOk, PayerInv, RentExempt, Exists
  <1>. QED  BY <1>1, <1>4, <1>5, PayerInvAgain DEF PayerInv

\* The other initialize_* handlers pay for what they create, receiver included.
LEMMA InitializeKeeps ==
    ASSUME PayerInv, NEW e \in Epochs, NEW k \in Kinds, Initialize(e, k)
    PROVE  PayerInv'
  <1>. DEFINE new == [a \in Created(e, k) |-> FirstSize(a[2])]
              rent == IF k \in WithReceiver THEN MinimumBalance(0) ELSE 0
  <1>1. Grow(new) /\ RentState(payer)'
    BY DEF Initialize, PayerMoves, RentState, MinimumBalance
  <1>2. receiver' = [r \in Receivers |->
                        IF r = <<e, k>> THEN receiver[r] + rent ELSE receiver[r]]
    BY DEF Initialize
  <1>3. \A a \in DOMAIN new : a \in Accounts => new[a] \in Nat
    BY PayerAssumption DEF FirstSize, Accounts
  <1>4. rent \in Nat
    BY PayerAssumption, SMTT(30) DEF MinimumBalance
  <1>5. \A r \in Receivers : r # <<e, k>> => r \notin DOMAIN new
    BY SMTT(30) DEF Receivers, WithReceiver, Created
  <1>6. <<e, k>> \in Receivers => rent = MinimumBalance(0)
    BY DEF Receivers
  <1>. HIDE DEF new, rent
  <1>7. /\ lamports' \in [Accounts -> Nat]
        /\ size' \in [Accounts -> Nat]
        /\ \A a \in Accounts : AccountOk(a)
        /\ \A a \in Accounts : a \notin DOMAIN new => size'[a] = size[a]
    BY <1>1, <1>3, GrowKeepsExempt
  <1>8. receiver' \in [Receivers -> Nat]
    BY <1>2, <1>4, SMTT(30) DEF PayerInv
  <1>9. ASSUME NEW r \in Receivers
        PROVE  ReceiverOk(r)
    <2>1. CASE r = <<e, k>>
      BY <2>1, <1>2, <1>6, PayerAssumption, SMTT(30)
         DEF ReceiverOk, PayerInv, MinimumBalance
    <2>2. CASE r # <<e, k>>
      <3>1. receiver'[r] = receiver[r] /\ size'[r] = size[r]
        BY <2>2, <1>2, <1>5, <1>7, ReceiversAreAccounts
      <3>. QED  BY <3>1 DEF ReceiverOk, PayerInv, RentExempt, Exists
    <2>. QED  BY <2>1, <2>2
  <1>. QED  BY <1>1, <1>7, <1>8, <1>9, PayerInvAgain

\* A reallocation pays for the bytes it adds.
LEMMA ReallocKeeps ==
    ASSUME PayerInv, NEW e \in Epochs, NEW k \in Kinds, Realloc(e, k)
    PROVE  PayerInv'
  <1>. DEFINE new == [a \in {<<e, k>>} |-> NewSize(a)]
  <1>1. Grow(new) /\ RentState(payer)' /\ receiver' = receiver
    BY DEF Realloc, PayerMoves, RentState, MinimumBalance
  <1>2. \A a \in Accounts : NewSize(a) \in Nat
    <2>. SUFFICES ASSUME NEW a \in Accounts PROVE NewSize(a) \in Nat
      OBVIOUS
    <2>1. size[a] + MAX_REALLOC_BYTES \in Nat /\ Size[a[2]] \in Nat
      <3>1. a[2] \in Kinds
        BY DEF Accounts
      <3>2. size[a] \in Nat
        BY DEF PayerInv
      <3>3. Size[a[2]] \in Nat /\ MAX_REALLOC_BYTES \in Nat
        BY <3>1, PayerAssumption
      <3>. QED  BY <3>2, <3>3, SMTT(30)
    <2>2. NewSize(a) = CHOOSE x \in {size[a] + MAX_REALLOC_BYTES, Size[a[2]]} :
              \A y \in {size[a] + MAX_REALLOC_BYTES, Size[a[2]]} : x <= y
      BY DEF NewSize, Min
    <2>3. \E x \in {size[a] + MAX_REALLOC_BYTES, Size[a[2]]} :
              \A y \in {size[a] + MAX_REALLOC_BYTES, Size[a[2]]} : x <= y
      BY <2>1, SMTT(30)
    <2>. QED  BY <2>1, <2>2, <2>3
  <1>3. \A a \in DOMAIN new : a \in Accounts => new[a] \in Nat
    BY <1>2
  <1>4. \A a \in DOMAIN new : size[a] > 0
    BY DEF Realloc, Exists
  <1>. HIDE DEF new
  <1>5. /\ lamports' \in [Accounts -> Nat]
        /\ size' \in [Accounts -> Nat]
        /\ \A a \in Accounts : AccountOk(a)
        /\ \A a \in Accounts : a \notin DOMAIN new => size'[a] = size[a]
    BY <1>1, <1>3, GrowKeepsExempt
  <1>6. \A r \in Receivers : ReceiverOk(r)
    BY <1>1, <1>4, <1>5, ReceiversAreAccounts
       DEF ReceiverOk, PayerInv, RentExempt, Exists
  <1>. QED  BY <1>1, <1>5, <1>6, PayerInvAgain DEF PayerInv

\* Time passing moves no lamports.
LEMMA BecomesClosableKeeps ==
    ASSUME PayerInv, NEW e \in Epochs, BecomesClosable(e)
    PROVE  PayerInv'
  BY DEF BecomesClosable, PayerInv, RentExempt, RentState, Exists, MinimumBalance

\* Closing an account empties it and, with a router, its receiver.
LEMMA CloseAccountKeeps ==
    ASSUME PayerInv, NEW e \in Epochs, NEW k \in Kinds, CloseAccount(e, k)
    PROVE  PayerInv'
  <1>. DEFINE a == <<e, k>>
  <1>1. /\ RentState(payer)'
        /\ lamports' = [lamports EXCEPT ![a] = 0]
        /\ size' = [size EXCEPT ![a] = 0]
        /\ receiver' = [r \in Receivers |-> IF r = a THEN 0 ELSE receiver[r]]
    BY DEF CloseAccount, PayerMoves, RentState, MinimumBalance
  <1>2. a \in Accounts
    BY DEF Accounts
  <1>. HIDE DEF a
  <1>3. /\ lamports' \in [Accounts -> Nat]
        /\ size' \in [Accounts -> Nat]
        /\ receiver' \in [Receivers -> Nat]
    BY <1>1 DEF PayerInv
  <1>4. \A b \in Accounts : AccountOk(b)
    BY <1>1, <1>2, SMTT(30) DEF AccountOk, PayerInv, RentExempt, Exists
  <1>5. \A r \in Receivers : ReceiverOk(r)
    BY <1>1, <1>2, ReceiversAreAccounts, SMTT(30) DEF ReceiverOk, PayerInv, RentExempt, Exists
  <1>. QED  BY <1>1, <1>3, <1>4, <1>5, PayerInvAgain

\* Closing EpochState pays for the marker.
LEMMA CloseEpochStateKeeps ==
    ASSUME PayerInv, NEW e \in Epochs, CloseEpochState(e)
    PROVE  PayerInv'
  <1>. DEFINE a == <<e, "epoch_state">>
              marker == <<e, "epoch_marker">>
              n == Size["epoch_marker"]
  <1>1. /\ RentState(payer)'
        /\ lamports' = [lamports EXCEPT ![a] = 0, ![marker] = @ + Required(marker, n)]
        /\ size' = [size EXCEPT ![a] = 0, ![marker] = n]
        /\ receiver' = receiver
    BY DEF CloseEpochState, PayerMoves, RentState, MinimumBalance
  <1>2. a \in Accounts /\ marker \in Accounts /\ a # marker /\ n \in Nat
    BY PayerAssumption DEF Accounts, Permanent
  <1>3. a \notin Receivers /\ marker \notin Receivers
    BY DEF Receivers, WithReceiver
  <1>. HIDE DEF a, marker, n
  <1>4. /\ lamports[marker] + Required(marker, n) \in Nat
        /\ lamports[marker] + Required(marker, n) >= MinimumBalance(n)
    BY <1>2, RequiredSuffices DEF PayerInv
  <1>5. /\ lamports' \in [Accounts -> Nat]
        /\ size' \in [Accounts -> Nat]
    BY <1>1, <1>2, <1>4 DEF PayerInv
  <1>6. ASSUME NEW b \in Accounts PROVE AccountOk(b)
    <2>1. CASE b = a
      BY <2>1, <1>1, <1>2, SMTT(30) DEF AccountOk, PayerInv
    <2>2. CASE b = marker
      BY <2>2, <1>1, <1>2, <1>4 DEF AccountOk, PayerInv
    <2>3. CASE b # a /\ b # marker
      BY <2>3, <1>1 DEF AccountOk, PayerInv, RentExempt, Exists
    <2>. QED  BY <2>1, <2>2, <2>3
  <1>7. \A r \in Receivers : ReceiverOk(r)
    BY <1>1, <1>3, ReceiversAreAccounts DEF ReceiverOk, PayerInv, RentExempt, Exists
  <1>. QED  BY <1>1, <1>5, <1>6, <1>7, PayerInvAgain DEF PayerInv

\* Transfers from outside leave an account exempt.
LEMMA OutsideKeeps ==
    ASSUME PayerInv,
           \/ \E n \in Amounts : Fund(n)
           \/ \E a \in Accounts, n \in Gifts : GiftAccount(a, n)
           \/ \E r \in Receivers, n \in Gifts : GiftReceiver(r, n)
    PROVE  PayerInv'
  <1>1. ASSUME NEW n \in Amounts, Fund(n) PROVE PayerInv'
    BY <1>1 DEF Fund, PayerMoves, PayerInv, RentExempt, RentState, Exists, MinimumBalance
  <1>2. ASSUME NEW a \in Accounts, NEW n \in Gifts, GiftAccount(a, n) PROVE PayerInv'
    <2>1. n \in Nat
      BY PayerAssumption
    <2>2. /\ lamports' = [lamports EXCEPT ![a] = @ + n]
          /\ size' = size /\ receiver' = receiver /\ payer' = payer
      BY <1>2 DEF GiftAccount
    <2>3. lamports' \in [Accounts -> Nat] /\ \A b \in Accounts : lamports'[b] >= lamports[b]
      BY <2>1, <2>2, SMTT(30) DEF PayerInv
    <2>. QED  BY <2>2, <2>3, PayerAssumption, SMTT(30)
              DEF PayerInv, RentExempt, RentState, Exists, MinimumBalance
  <1>3. ASSUME NEW r \in Receivers, NEW n \in Gifts, GiftReceiver(r, n) PROVE PayerInv'
    <2>1. n \in Nat
      BY PayerAssumption
    <2>2. /\ receiver' = [receiver EXCEPT ![r] = @ + n]
          /\ size' = size /\ lamports' = lamports /\ payer' = payer
      BY <1>3 DEF GiftReceiver
    <2>3. receiver' \in [Receivers -> Nat] /\ \A q \in Receivers : receiver'[q] >= receiver[q]
      BY <2>1, <2>2, SMTT(30) DEF PayerInv
    <2>. QED  BY <2>2, <2>3, PayerAssumption, SMTT(30)
              DEF PayerInv, RentExempt, RentState, Exists, MinimumBalance
  <1>. QED  BY <1>1, <1>2, <1>3

\* Every step keeps the accounts rent-exempt.
LEMMA PayerInvIsInductive == PayerInv /\ [Next]_vars => PayerInv'
  <1>. SUFFICES ASSUME PayerInv, [Next]_vars PROVE PayerInv'
    OBVIOUS
  <1>1. CASE \E e \in Epochs : Step(e)
    BY <1>1, InitializeEpochStateKeeps, InitializeKeeps, ReallocKeeps,
       BecomesClosableKeeps, CloseAccountKeeps, CloseEpochStateKeeps DEF Step
  <1>2. CASE \/ \E n \in Amounts : Fund(n)
             \/ \E a \in Accounts, n \in Gifts : GiftAccount(a, n)
             \/ \E r \in Receivers, n \in Gifts : GiftReceiver(r, n)
    BY <1>2, OutsideKeeps
  <1>3. CASE UNCHANGED vars
    BY <1>3 DEF vars, PayerInv, RentExempt, RentState, Exists, MinimumBalance
  <1>. QED  BY <1>1, <1>2, <1>3 DEF Next

\* pay_and_create_account, pay_and_realloc and close_account keep the payer,
\* every account and every live router's receiver rent-exempt, whatever the
\* epochs, the sizes of the accounts, the price of storage and the lamports
\* others send to the addresses.
THEOREM AlwaysRentExempt == Spec => []RentExempt
  <1>1. PayerInv => RentExempt
    BY DEF PayerInv
  <1>. QED  BY <1>1, InitIsExempt, PayerInvIsInductive, PTL DEF Spec

----------------------------------------------------------------------------
(* The books: where the lamports are, and what the payer has spent.         *)

Held == SumFunctionOnSet(lamports, Accounts)
ReceiversHold == SumFunctionOnSet(receiver, Receivers)
Rents == SumFunctionOnSet(AccountRent, Accounts)
ReceiverRents == SumFunctionOnSet(ReceiverRent, Receivers)

\* The two invariants about the payer's balance, with the types that the
\* arithmetic needs.
BooksInv ==
    /\ payer \in Nat /\ ncn_wallet \in Nat /\ funded \in Nat /\ gifted \in Nat
    /\ LamportsConserved
    /\ RentComesBack

\* There are finitely many accounts.
LEMMA AccountsFinite == IsFiniteSet(Accounts) /\ IsFiniteSet(Receivers)
  <1>. DEFINE A == {"epoch_state"}
              B == {"weight_table"} \cup {"ballot_box"}
              C == {"ncn_reward_router"} \cup {"epoch_snapshot"}
              D == {"operator_snapshot"} \cup {"operator_vault_reward_router"}
              E == {"consensus_result"} \cup {"epoch_marker"}
  <1>1. IsFiniteSet(A)
    BY FS_Singleton
  <1>2. IsFiniteSet(B)
    BY FS_Singleton, FS_Union
  <1>3. IsFiniteSet(C)
    BY FS_Singleton, FS_Union
  <1>4. IsFiniteSet(D)
    BY FS_Singleton, FS_Union
  <1>5. IsFiniteSet(E)
    BY FS_Singleton, FS_Union
  <1>6. Kinds \subseteq (A \cup B) \cup ((C \cup D) \cup E)
    BY PayerAssumption DEF EpochKinds, Staged, OperatorKinds, Permanent
  <1>. HIDE DEF A, B, C, D, E
  <1>7. IsFiniteSet((A \cup B) \cup ((C \cup D) \cup E))
    BY <1>1, <1>2, <1>3, <1>4, <1>5, FS_Union
  <1>8. IsFiniteSet(Kinds)
    BY <1>6, <1>7, FS_Subset
  <1>9. IsFiniteSet(Accounts)
    BY <1>8, PayerAssumption, FS_Product DEF Accounts
  <1>. QED  BY <1>9, ReceiversAreAccounts, FS_Subset

\* All of them are sums of natural numbers, and no account has less than its
\* minimum rent.
SumsOk ==
    /\ Held \in Nat /\ ReceiversHold \in Nat
    /\ Rents \in Nat /\ ReceiverRents \in Nat
    /\ \A a \in Accounts : AccountRent[a] \in Nat /\ AccountRent[a] <= lamports[a]
    /\ \A r \in Receivers : ReceiverRent[r] \in Nat
    /\ \A a \in Accounts : lamports[a] \in Nat
    /\ \A r \in Receivers : receiver[r] \in Nat

\* The sums over accounts and receivers are naturals.
LEMMA SumsTyped == PayerInv => SumsOk
  <1>. SUFFICES ASSUME PayerInv PROVE SumsOk
    OBVIOUS
  <1>1. \A a \in Accounts : lamports[a] \in Nat /\ size[a] \in Nat
    BY DEF PayerInv
  <1>2. \A r \in Receivers : receiver[r] \in Nat
    BY DEF PayerInv
  <1>3. \A a \in Accounts : AccountRent[a] \in Nat /\ AccountRent[a] <= lamports[a]
    <2>. SUFFICES ASSUME NEW a \in Accounts
                  PROVE  AccountRent[a] \in Nat /\ AccountRent[a] <= lamports[a]
      OBVIOUS
    <2>1. CASE Exists(a)
      BY <2>1, <1>1, PayerAssumption, SMTT(30) DEF AccountRent, MinimumBalance, PayerInv, RentExempt
    <2>2. CASE ~Exists(a)
      BY <2>2, <1>1, SMTT(30) DEF AccountRent
    <2>. QED  BY <2>1, <2>2
  <1>4. \A r \in Receivers : ReceiverRent[r] \in Nat
    BY PayerAssumption, SMTT(30) DEF ReceiverRent, MinimumBalance
  <1>. QED
    BY <1>1, <1>2, <1>3, <1>4, AccountsFinite, SumType
       DEF SumsOk, Held, ReceiversHold, Rents, ReceiverRents

\* pay_and_create_account and pay_and_realloc: the accounts get what the payer
\* gives, and their minimum rent rises by at least that.
LEMMA GrowSums ==
    ASSUME PayerInv, PayerInv', NEW new, Grow(new), DOMAIN new \subseteq Accounts,
           \A a \in DOMAIN new : new[a] \in Nat \ {0} /\ new[a] >= size[a]
    PROVE  /\ Rent(new) \in Nat
           /\ Held' = Held + Rent(new)
           /\ Rents' >= Rents + Rent(new)
  <1>. DEFINE pay == [a \in Accounts |-> IF a \in DOMAIN new THEN Required(a, new[a]) ELSE 0]
              paid == [a \in DOMAIN new |-> Required(a, new[a])]
              both == [a \in Accounts |-> AccountRent[a] + pay[a]]
  <1>1. /\ \A a \in Accounts : /\ lamports[a] \in Nat /\ AccountRent[a] \in Nat
                               /\ AccountRent[a] <= lamports[a]
        /\ \A a \in Accounts : AccountRent'[a] \in Nat
        /\ Rents \in Nat /\ Rents' \in Nat /\ Held \in Nat
    <2>1. SumsOk'
      BY SumsTyped, PTL
    <2>. QED  BY <2>1, SumsTyped DEF SumsOk
  <1>2. \A a \in DOMAIN new : Required(a, new[a]) \in Nat
    BY RequiredSuffices DEF PayerInv
  <1>3. \A a \in Accounts : /\ pay[a] \in Nat
                            /\ lamports'[a] = lamports[a] + pay[a]
    BY <1>1, <1>2, SMTT(30) DEF Grow
  <1>4. ASSUME NEW a \in Accounts PROVE AccountRent[a] + pay[a] <= AccountRent'[a]
    <2>1. CASE a \in DOMAIN new
      <3>1. size'[a] = new[a] /\ new[a] \in Nat \ {0} /\ new[a] >= size[a] /\ size[a] \in Nat
        BY <2>1 DEF Grow, PayerInv
      <3>2. AccountRent'[a] = MinimumBalance(new[a])
        BY <3>1, SMTT(30) DEF AccountRent, Exists, MinimumBalance
      <3>3. AccountRent[a] <= MinimumBalance(new[a])
        BY <3>1, PayerAssumption, SMTT(30) DEF AccountRent, Exists, MinimumBalance
      <3>4. pay[a] = IF MinimumBalance(new[a]) > lamports[a]
                     THEN MinimumBalance(new[a]) - lamports[a] ELSE 0
        BY <2>1 DEF Required
      <3>5. MinimumBalance(new[a]) \in Nat
        BY <3>1, PayerAssumption, SMTT(30) DEF MinimumBalance
      <3>. HIDE DEF pay
      <3>. QED  BY <1>1, <3>2, <3>3, <3>4, <3>5, SMTT(30)
    <2>2. CASE a \notin DOMAIN new
      <3>1. AccountRent'[a] = AccountRent[a] /\ pay[a] = 0
        BY <2>2 DEF Grow, AccountRent, Exists, MinimumBalance
      <3>. HIDE DEF pay
      <3>. QED  BY <1>1, <3>1, SMTT(30)
    <2>. QED  BY <2>1, <2>2
  <1>5. SumFunctionOnSet(pay, Accounts) = Rent(new)
    <2>1. SumFunctionOnSet(pay, Accounts) = SumFunctionOnSet(pay, DOMAIN new)
      <3>1. \A a \in Accounts \ DOMAIN new : pay[a] = 0
        OBVIOUS
      <3>. HIDE DEF pay
      <3>. QED  BY <1>3, <3>1, AccountsFinite, SumSupport
    <2>2. SumFunctionOnSet(pay, DOMAIN new) = SumFunctionOnSet(paid, DOMAIN new)
      <3>1. \A a \in DOMAIN new : paid[a] \in Nat /\ pay[a] = paid[a]
        BY <1>2
      <3>2. IsFiniteSet(DOMAIN new)
        BY AccountsFinite, FS_Subset
      <3>. HIDE DEF pay, paid
      <3>. QED  BY <3>1, <3>2, SumSame
    <2>. QED  BY <2>1, <2>2 DEF Rent
  <1>. HIDE DEF pay
  <1>6. SumFunctionOnSet(pay, Accounts) \in Nat
    BY <1>3, AccountsFinite, SumType
  <1>7. SumFunctionOnSet(lamports', Accounts)
            = SumFunctionOnSet(lamports, Accounts) + SumFunctionOnSet(pay, Accounts)
    BY <1>1, <1>3, AccountsFinite, SumPlus, SMTT(30)
  <1>8. \A a \in Accounts : both[a] = AccountRent[a] + pay[a] /\ both[a] \in Nat
    BY <1>1, <1>3, SMTT(30)
  <1>. HIDE DEF both
  <1>9. SumFunctionOnSet(both, Accounts)
            = SumFunctionOnSet(AccountRent, Accounts) + SumFunctionOnSet(pay, Accounts)
    BY <1>1, <1>3, <1>8, AccountsFinite, SumPlus, SMTT(30)
  <1>10. SumFunctionOnSet(both, Accounts) <= SumFunctionOnSet(AccountRent', Accounts)
    BY <1>1, <1>4, <1>8, AccountsFinite, SumMonotone
  <1>11. Rent(new) \in Nat
    BY <1>5, <1>6
  <1>12. Held' = Held + Rent(new)
    BY <1>5, <1>7 DEF Held
  <1>13. Rents' >= Rents + Rent(new)
    <2>1. Rents + Rent(new) <= Rents'
      BY <1>5, <1>9, <1>10 DEF Rents
    <2>. QED  BY <1>1, <1>11, <2>1
  <1>. QED  BY <1>11, <1>12, <1>13

\* An instruction that touches no receiver and creates or closes no router
\* leaves the sums over receivers alone.
LEMMA ReceiversKept ==
    ASSUME PayerInv, receiver' = receiver,
           \A r \in Receivers : size'[r] > 0 <=> size[r] > 0
    PROVE  ReceiversHold' = ReceiversHold /\ ReceiverRents' = ReceiverRents
  <1>1. ReceiverRent' = ReceiverRent
    BY DEF ReceiverRent, Exists, MinimumBalance
  <1>. QED  BY <1>1 DEF ReceiversHold, ReceiverRents

\* The balance after a payment that is matched on both sides.
LEMMA BooksAgain ==
    ASSUME BooksInv, PayerInv, PayerInv',
           NEW out \in Nat, NEW in \in Nat, PayerMoves(out, in), ncn_wallet' \in Nat,
           UNCHANGED sourceVars,
           ncn_wallet' + Held' + ReceiversHold' + in = ncn_wallet + Held + ReceiversHold + out,
           Rents' + ReceiverRents' + in >= Rents + ReceiverRents + out
    PROVE  BooksInv'
  <1>1. /\ Held \in Nat /\ ReceiversHold \in Nat /\ Rents \in Nat /\ ReceiverRents \in Nat
        /\ payer \in Nat /\ ncn_wallet \in Nat /\ funded \in Nat /\ gifted \in Nat
    BY SumsTyped DEF BooksInv, SumsOk
  <1>2. Held' \in Nat /\ ReceiversHold' \in Nat /\ Rents' \in Nat /\ ReceiverRents' \in Nat
    <2>1. SumsOk'
      BY SumsTyped, PTL
    <2>. QED  BY <2>1 DEF SumsOk
  <1>3. /\ payer' = payer - out + in /\ payer >= out
        /\ funded' = funded /\ gifted' = gifted
    BY DEF PayerMoves, sourceVars
  <1>4. payer' \in Nat
    BY <1>1, <1>3, SMTT(30)
  <1>5. /\ funded + gifted = payer + ncn_wallet + Held + ReceiversHold
        /\ payer >= funded - Rents - ReceiverRents
    BY DEF BooksInv, LamportsConserved, RentComesBack, Held, ReceiversHold, Rents,
           ReceiverRents
  <1>. DEFINE h == Held            hh == Held'
              c == ReceiversHold   cc == ReceiversHold'
              r == Rents           rr == Rents'
              q == ReceiverRents   qq == ReceiverRents'
              w == ncn_wallet      ww == ncn_wallet'
  <1>0. /\ h \in Nat /\ hh \in Nat /\ c \in Nat /\ cc \in Nat /\ r \in Nat /\ rr \in Nat
        /\ q \in Nat /\ qq \in Nat /\ w \in Nat /\ ww \in Nat
        /\ ww + hh + cc + in = w + h + c + out
        /\ rr + qq + in >= r + q + out
        /\ funded + gifted = payer + w + h + c
        /\ payer >= funded - r - q
    BY <1>1, <1>2, <1>5
  <1>6. funded' + gifted' = payer' + ww + hh + cc
    <2>. HIDE DEF h, hh, c, cc, r, rr, q, qq, w, ww
    <2>. QED  BY <1>0, <1>1, <1>3, SMTT(30)
  <1>7. payer' >= funded' - rr - qq
    <2>. HIDE DEF h, hh, c, cc, r, rr, q, qq, w, ww
    <2>. QED  BY <1>0, <1>1, <1>3, SMTT(30)
  <1>8. LamportsConserved'
    BY <1>6 DEF LamportsConserved, Held, ReceiversHold
  <1>9. RentComesBack'
    BY <1>7 DEF RentComesBack, Rents, ReceiverRents
  <1>. QED  BY <1>1, <1>3, <1>4, <1>8, <1>9 DEF BooksInv

\* A payment into accounts only.
LEMMA PayInBooks ==
    ASSUME BooksInv, PayerInv, PayerInv', NEW out \in Nat, PayerMoves(out, 0),
           ncn_wallet' = ncn_wallet, UNCHANGED sourceVars,
           Held' = Held + out, Rents' >= Rents + out,
           ReceiversHold' = ReceiversHold, ReceiverRents' = ReceiverRents
    PROVE  BooksInv'
  <1>1. SumsOk /\ SumsOk'
    BY SumsTyped, PTL
  <1>. DEFINE h == Held             hh == Held'
              c == ReceiversHold    cc == ReceiversHold'
              r == Rents            rr == Rents'
              q == ReceiverRents    qq == ReceiverRents'
              w == ncn_wallet       ww == ncn_wallet'
  <1>2. /\ h \in Nat /\ c \in Nat /\ r \in Nat /\ q \in Nat /\ w \in Nat /\ rr \in Nat
        /\ hh = h + out /\ cc = c /\ rr >= r + out /\ qq = q /\ ww = w
    BY <1>1 DEF SumsOk, BooksInv
  <1>3. /\ ww \in Nat
        /\ ww + hh + cc + 0 = w + h + c + out
        /\ rr + qq + 0 >= r + q + out
    <2>. HIDE DEF h, hh, c, cc, r, rr, q, qq, w, ww
    <2>. QED  BY <1>2, SMTT(30)
  <1>. QED  BY <1>3, BooksAgain

\* process_initialize_epoch_state: the payer gives what the account gets.
LEMMA InitializeEpochStateBooks ==
    ASSUME PayerInv, BooksInv, NEW e \in Epochs, InitializeEpochState(e)
    PROVE  BooksInv'
  <1>. DEFINE new == [a \in {<<e, "epoch_state">>} |-> Size["epoch_state"]]
  <1>1. /\ Grow(new) /\ PayerMoves(Rent(new), 0)
        /\ receiver' = receiver /\ ncn_wallet' = ncn_wallet /\ UNCHANGED sourceVars
    BY DEF InitializeEpochState
  <1>2. DOMAIN new \subseteq Accounts
    BY PayerAssumption, SMTT(30) DEF Accounts
  <1>3. \A a \in DOMAIN new : new[a] \in Nat \ {0} /\ new[a] >= size[a]
    <2>1. size[<<e, "epoch_state">>] = 0
      BY <1>2, SMTT(30) DEF InitializeEpochState, Live, Exists, PayerInv
    <2>. QED  BY <2>1, PayerAssumption, SMTT(30)
  <1>4. \A r \in Receivers : r \notin DOMAIN new
    BY SMTT(30) DEF Receivers, WithReceiver
  <1>. HIDE DEF new
  <1>5. PayerInv'
    BY InitializeEpochStateKeeps
  <1>6. Rent(new) \in Nat /\ Held' = Held + Rent(new) /\ Rents' >= Rents + Rent(new)
    BY <1>1, <1>2, <1>3, <1>5, GrowSums
  <1>7. ReceiversHold' = ReceiversHold /\ ReceiverRents' = ReceiverRents
    <2>1. \A r \in Receivers : size'[r] = size[r]
      BY <1>1, <1>4, ReceiversAreAccounts DEF Grow
    <2>. QED  BY <1>1, <2>1, ReceiversKept
  <1>. QED  BY <1>1, <1>5, <1>6, <1>7, PayInBooks

\* The receiver of a router gets one rent and needs one from then on.
LEMMA InitializeBooks ==
    ASSUME PayerInv, BooksInv, NEW e \in Epochs, NEW k \in Kinds, Initialize(e, k)
    PROVE  BooksInv'
  <1>. DEFINE new == [a \in Created(e, k) |-> FirstSize(a[2])]
              rent == IF k \in WithReceiver THEN MinimumBalance(0) ELSE 0
              x == <<e, k>>
  <1>1. /\ Grow(new) /\ PayerMoves(Rent(new) + rent, 0)
        /\ receiver' = [r \in Receivers |->
                           IF r = x THEN receiver[r] + rent ELSE receiver[r]]
        /\ ncn_wallet' = ncn_wallet /\ UNCHANGED sourceVars
    BY DEF Initialize
  <1>2. DOMAIN new \subseteq Accounts /\ x \in DOMAIN new
    BY PayerAssumption, SMTT(30) DEF Accounts, Created, Permanent
  <1>3. \A a \in DOMAIN new : new[a] \in Nat \ {0} /\ new[a] >= size[a] /\ size[a] = 0
    <2>1. \A a \in Created(e, k) : size[a] = 0
      BY <1>2, SMTT(30) DEF Initialize, Exists, PayerInv
    <2>2. \A a \in Accounts : FirstSize(a[2]) \in Nat \ {0}
      BY PayerAssumption DEF FirstSize, Accounts
    <2>. QED  BY <1>2, <2>1, <2>2, SMTT(30)
  <1>4. \A r \in Receivers : r # x => r \notin DOMAIN new
    BY SMTT(30) DEF Receivers, WithReceiver, Created
  <1>5. rent \in Nat /\ (x \in Receivers => rent = MinimumBalance(0))
        /\ (x \notin Receivers => rent = 0)
    BY PayerAssumption, SMTT(30) DEF MinimumBalance, Receivers
  <1>. HIDE DEF new, rent, x
  <1>6. PayerInv'
    BY InitializeKeeps
  <1>7. Rent(new) \in Nat /\ Held' = Held + Rent(new) /\ Rents' >= Rents + Rent(new)
    BY <1>1, <1>2, <1>3, <1>6, GrowSums
  <1>8. /\ \A r \in Receivers : r # x => size'[r] = size[r]
        /\ size[x] = 0 /\ size'[x] > 0
    BY <1>1, <1>2, <1>3, <1>4, ReceiversAreAccounts, SMTT(30) DEF Grow
  <1>9. SumsOk /\ SumsOk'
    BY <1>6, SumsTyped, PTL
  <1>10. ReceiversHold' = ReceiversHold + rent /\ ReceiverRents' = ReceiverRents + rent
    <2>1. CASE x \in Receivers
      <3>1. /\ \A r \in Receivers : receiver[r] \in Nat /\ receiver'[r] \in Nat
            /\ \A r \in Receivers \ {x} : receiver'[r] = receiver[r]
            /\ receiver'[x] = receiver[x] + rent
        BY <1>1, <1>9, <2>1 DEF SumsOk
      <3>2. /\ \A r \in Receivers : ReceiverRent[r] \in Nat /\ ReceiverRent'[r] \in Nat
            /\ \A r \in Receivers \ {x} : ReceiverRent'[r] = ReceiverRent[r]
        BY <1>8, <1>9 DEF SumsOk, ReceiverRent, Exists, MinimumBalance
      <3>3. ReceiverRent[x] = 0 /\ ReceiverRent'[x] = rent
        BY <1>5, <1>8, <2>1, SMTT(30) DEF ReceiverRent, Exists, MinimumBalance
      <3>4. ReceiversHold' + receiver[x] = ReceiversHold + receiver'[x]
        BY <2>1, <3>1, AccountsFinite, SumUpdate, SMTT(30) DEF ReceiversHold
      <3>5. ReceiverRents' + ReceiverRent[x] = ReceiverRents + ReceiverRent'[x]
        BY <2>1, <3>2, AccountsFinite, SumUpdate, SMTT(30) DEF ReceiverRents
      <3>. DEFINE h == ReceiversHold   hh == ReceiversHold'
                  q == ReceiverRents   qq == ReceiverRents'
      <3>6. /\ h \in Nat /\ hh \in Nat /\ q \in Nat /\ qq \in Nat /\ receiver[x] \in Nat
            /\ hh + receiver[x] = h + (receiver[x] + rent) /\ qq + 0 = q + rent
        BY <1>9, <2>1, <3>1, <3>3, <3>4, <3>5 DEF SumsOk
      <3>7. hh = h + rent /\ qq = q + rent
        <4>. HIDE DEF h, hh, q, qq
        <4>. QED  BY <1>5, <3>6, SMTT(30)
      <3>. QED  BY <3>7
    <2>2. CASE x \notin Receivers
      <3>1. receiver' = receiver
        BY <1>1, <2>2 DEF PayerInv
      <3>2. ReceiversHold' = ReceiversHold /\ ReceiverRents' = ReceiverRents
        BY <1>8, <2>2, <3>1, ReceiversKept
      <3>3. ReceiversHold \in Nat /\ ReceiverRents \in Nat /\ rent = 0
        BY <1>5, <1>9, <2>2 DEF SumsOk
      <3>. QED  BY <3>2, <3>3, SMTT(30)
    <2>. QED  BY <2>1, <2>2
  <1>. DEFINE out == Rent(new) + rent
              h == Held             hh == Held'
              c == ReceiversHold    cc == ReceiversHold'
              r == Rents            rr == Rents'
              q == ReceiverRents    qq == ReceiverRents'
              w == ncn_wallet       ww == ncn_wallet'
              n == Rent(new)
  <1>11. /\ h \in Nat /\ c \in Nat /\ r \in Nat /\ q \in Nat /\ w \in Nat /\ n \in Nat
         /\ hh = h + n /\ cc = c + rent /\ rr >= r + n /\ qq = q + rent /\ ww = w
         /\ rr \in Nat
    BY <1>1, <1>7, <1>9, <1>10 DEF SumsOk, BooksInv
  <1>12. /\ n + rent \in Nat /\ ww \in Nat
         /\ ww + hh + cc + 0 = w + h + c + (n + rent)
         /\ rr + qq + 0 >= r + q + (n + rent)
    <2>. HIDE DEF h, hh, c, cc, r, rr, q, qq, w, ww, n
    <2>. QED  BY <1>5, <1>11, SMTT(30)
  <1>. QED  BY <1>1, <1>6, <1>12, BooksAgain

\* get_new_size never shrinks an account.
LEMMA NewSizeGrows ==
    ASSUME PayerInv, NEW a \in Accounts, size[a] < Size[a[2]]
    PROVE  NewSize(a) \in Nat /\ NewSize(a) >= size[a]
  <1>. DEFINE S == {size[a] + MAX_REALLOC_BYTES, Size[a[2]]}
  <1>1. size[a] \in Nat /\ MAX_REALLOC_BYTES \in Nat /\ Size[a[2]] \in Nat
    BY PayerAssumption DEF Accounts, PayerInv
  <1>2. NewSize(a) = CHOOSE m \in S : \A y \in S : m <= y
    BY DEF NewSize, Min
  <1>3. \E m \in S : \A y \in S : m <= y
    BY <1>1, SMTT(30)
  <1>. QED  BY <1>1, <1>2, <1>3, SMTT(30)

\* A reallocation pays only for the growth.
LEMMA ReallocBooks ==
    ASSUME PayerInv, BooksInv, NEW e \in Epochs, NEW k \in Kinds, Realloc(e, k)
    PROVE  BooksInv'
  <1>. DEFINE x == <<e, k>>
              new == [a \in {x} |-> NewSize(a)]
  <1>1. /\ Grow(new) /\ PayerMoves(Rent(new), 0)
        /\ receiver' = receiver /\ ncn_wallet' = ncn_wallet /\ UNCHANGED sourceVars
        /\ size[x] > 0
    BY DEF Realloc, Exists
  <1>2. x \in Accounts /\ size[x] < Size[x[2]]
    BY DEF Accounts, Realloc
  <1>3. /\ \A a \in DOMAIN new : new[a] \in Nat \ {0} /\ new[a] >= size[a]
        /\ DOMAIN new = {x}
    <2>1. size[x] \in Nat
      BY <1>2 DEF PayerInv
    <2>. HIDE DEF x
    <2>. QED  BY <1>1, <1>2, <2>1, NewSizeGrows, SMTT(30)
  <1>. HIDE DEF new, x
  <1>4. PayerInv'
    BY ReallocKeeps
  <1>5. Rent(new) \in Nat /\ Held' = Held + Rent(new) /\ Rents' >= Rents + Rent(new)
    BY <1>1, <1>2, <1>3, <1>4, GrowSums
  <1>6. ReceiversHold' = ReceiversHold /\ ReceiverRents' = ReceiverRents
    <2>1. \A r \in Receivers : size'[r] > 0 <=> size[r] > 0
      <3>. SUFFICES ASSUME NEW r \in Receivers PROVE size'[r] > 0 <=> size[r] > 0
        OBVIOUS
      <3>1. CASE r = x
        BY <1>1, <1>2, <1>3, <3>1, SMTT(30) DEF Grow
      <3>2. CASE r # x
        BY <1>1, <1>3, <3>2, ReceiversAreAccounts DEF Grow
      <3>. QED  BY <3>1, <3>2
    <2>. QED  BY <1>1, <2>1, ReceiversKept
  <1>. QED  BY <1>1, <1>4, <1>5, <1>6, PayInBooks

\* Closing returns at least the rent the account and its receiver needed; what
\* the receiver has above it goes to the NCN.
LEMMA CloseAccountBooks ==
    ASSUME PayerInv, BooksInv, NEW e \in Epochs, NEW k \in Kinds, CloseAccount(e, k)
    PROVE  BooksInv'
  <1>. DEFINE x == <<e, k>>
              rent == IF k \in WithReceiver THEN MinimumBalance(0) ELSE 0
              got == IF k \in WithReceiver THEN receiver[x] - rent ELSE 0
  <1>1. /\ PayerMoves(0, lamports[x] + rent)
        /\ lamports' = [lamports EXCEPT ![x] = 0]
        /\ size' = [size EXCEPT ![x] = 0]
        /\ receiver' = [r \in Receivers |-> IF r = x THEN 0 ELSE receiver[r]]
        /\ ncn_wallet' = ncn_wallet + got
        /\ UNCHANGED sourceVars
    BY DEF CloseAccount, Refund
  <1>2. x \in Accounts /\ size[x] > 0
    <2>1. Size[k] > 0
      BY PayerAssumption, SMTT(30)
    <2>. QED  BY <2>1 DEF CloseAccount, Accounts
  <1>3. rent \in Nat /\ (x \in Receivers => rent = MinimumBalance(0))
        /\ (x \notin Receivers => rent = 0 /\ got = 0)
        /\ (x \in Receivers => got = receiver[x] - rent /\ receiver[x] >= rent)
    BY PayerAssumption, SMTT(30) DEF MinimumBalance, Receivers, CloseAccount
  <1>4. PayerInv'
    BY CloseAccountKeeps
  <1>5. SumsOk /\ SumsOk'
    BY <1>4, SumsTyped, PTL
  <1>. HIDE DEF x, rent, got
  <1>6. Held' + lamports[x] = Held
    <2>1. lamports \in [Accounts -> Nat]
      BY DEF PayerInv
    <2>0. /\ \A a \in Accounts : lamports[a] \in Nat
          /\ \A a \in Accounts \ {x} : lamports'[a] = lamports[a]
          /\ lamports'[x] = 0
      BY <1>1, <1>2, <2>1
    <2>2. Held' + lamports[x] = Held + lamports'[x] /\ lamports'[x] = 0
      BY <1>2, <2>0, AccountsFinite, SumUpdate, SMTT(30) DEF Held
    <2>. DEFINE h == Held  hh == Held'
    <2>3. h \in Nat /\ hh \in Nat /\ hh + lamports[x] = h + 0
      BY <1>5, <2>2 DEF SumsOk
    <2>4. hh + lamports[x] = h
      <3>. HIDE DEF h, hh
      <3>. QED  BY <2>3, SMTT(30)
    <2>. QED  BY <2>4
  <1>7. Rents' + AccountRent[x] = Rents
    <2>1. \A a \in Accounts : AccountRent[a] \in Nat /\ AccountRent'[a] \in Nat
      BY <1>5 DEF SumsOk
    <2>2. /\ \A a \in Accounts \ {x} : AccountRent'[a] = AccountRent[a]
          /\ AccountRent'[x] = 0
      BY <1>1, <1>2, SMTT(30) DEF AccountRent, Exists, MinimumBalance, PayerInv
    <2>3. Rents' + AccountRent[x] = Rents + AccountRent'[x]
      BY <1>2, <2>1, <2>2, AccountsFinite, SumUpdate, SMTT(30) DEF Rents
    <2>. DEFINE h == Rents  hh == Rents'  g == AccountRent[x]
    <2>4. h \in Nat /\ hh \in Nat /\ g \in Nat /\ hh + g = h + 0
      BY <1>2, <1>5, <2>1, <2>2, <2>3 DEF SumsOk
    <2>5. hh + g = h
      <3>. HIDE DEF h, hh, g
      <3>. QED  BY <2>4, SMTT(30)
    <2>. QED  BY <2>5
  <1>8. ReceiversHold' + got + rent = ReceiversHold /\ ReceiverRents' + rent = ReceiverRents
        /\ got \in Nat
    <2>1. CASE x \in Receivers
      <3>1. /\ \A r \in Receivers : receiver[r] \in Nat /\ receiver'[r] \in Nat
            /\ \A r \in Receivers \ {x} : receiver'[r] = receiver[r]
            /\ receiver'[x] = 0
        BY <1>1, <1>5, <2>1 DEF SumsOk
      <3>2. /\ \A r \in Receivers : ReceiverRent[r] \in Nat /\ ReceiverRent'[r] \in Nat
            /\ \A r \in Receivers \ {x} : ReceiverRent'[r] = ReceiverRent[r]
        BY <1>1, <1>2, <1>5, ReceiversAreAccounts
           DEF SumsOk, ReceiverRent, Exists, MinimumBalance, PayerInv
      <3>3. ReceiverRent[x] = rent /\ ReceiverRent'[x] = 0
        BY <1>1, <1>2, <1>3, <2>1, SMTT(30) DEF ReceiverRent, Exists, MinimumBalance, PayerInv
      <3>4. ReceiversHold' + receiver[x] = ReceiversHold + receiver'[x]
        BY <2>1, <3>1, AccountsFinite, SumUpdate, SMTT(30) DEF ReceiversHold
      <3>5. ReceiverRents' + ReceiverRent[x] = ReceiverRents + ReceiverRent'[x]
        BY <2>1, <3>2, AccountsFinite, SumUpdate, SMTT(30) DEF ReceiverRents
      <3>. DEFINE h == ReceiversHold   hh == ReceiversHold'
                  q == ReceiverRents   qq == ReceiverRents'
      <3>6. /\ h \in Nat /\ hh \in Nat /\ q \in Nat /\ qq \in Nat /\ receiver[x] \in Nat
            /\ hh + receiver[x] = h + 0 /\ qq + rent = q + 0
        BY <1>5, <2>1, <3>1, <3>3, <3>4, <3>5 DEF SumsOk
      <3>7. hh + got + rent = h /\ qq + rent = q /\ got \in Nat
        <4>. HIDE DEF h, hh, q, qq
        <4>. QED  BY <1>3, <2>1, <3>6, SMTT(30)
      <3>. QED  BY <3>7
    <2>2. CASE x \notin Receivers
      <3>1. receiver' = receiver
        BY <1>1, <2>2 DEF PayerInv
      <3>2. \A r \in Receivers : size'[r] = size[r]
        BY <1>1, <2>2, ReceiversAreAccounts DEF PayerInv
      <3>3. ReceiversHold' = ReceiversHold /\ ReceiverRents' = ReceiverRents
        BY <3>1, <3>2, ReceiversKept
      <3>4. ReceiversHold \in Nat /\ ReceiverRents \in Nat /\ rent = 0 /\ got = 0
        BY <1>3, <1>5, <2>2 DEF SumsOk
      <3>. QED  BY <3>3, <3>4, SMTT(30)
    <2>. QED  BY <2>1, <2>2
  <1>. DEFINE h == Held             hh == Held'
              c == ReceiversHold    cc == ReceiversHold'
              r == Rents            rr == Rents'
              q == ReceiverRents    qq == ReceiverRents'
              w == ncn_wallet       ww == ncn_wallet'
              m == AccountRent[x]   l == lamports[x]
              in == l + rent
  <1>9. /\ h \in Nat /\ c \in Nat /\ r \in Nat /\ q \in Nat /\ w \in Nat
        /\ hh \in Nat /\ cc \in Nat /\ rr \in Nat /\ qq \in Nat
        /\ m \in Nat /\ m <= l /\ l \in Nat /\ rent \in Nat
        /\ hh + l = h /\ rr + m = r /\ cc + got + rent = c /\ qq + rent = q
        /\ ww = w + got /\ got \in Nat
    BY <1>1, <1>2, <1>3, <1>5, <1>6, <1>7, <1>8 DEF SumsOk, BooksInv
  <1>10. /\ in \in Nat /\ ww \in Nat
         /\ ww + hh + cc + in = w + h + c + 0
         /\ rr + qq + in >= r + q + 0
    <2>. HIDE DEF h, hh, c, cc, r, rr, q, qq, w, ww, m, l
    <2>1. in \in Nat /\ ww \in Nat
      BY <1>9, SMTT(30)
    <2>2. ww + hh + cc + in = w + h + c
      BY <1>9, SMTT(30)
    <2>3. rr + qq + in >= r + q
      BY <1>9, SMTT(30)
    <2>. QED  BY <1>9, <2>1, <2>2, <2>3, SMTT(30)
  <1>. QED  BY <1>1, <1>4, <1>10, BooksAgain

\* The marker's rent is what a completed epoch costs beyond the consensus
\* result's.
LEMMA CloseEpochStateBooks ==
    ASSUME PayerInv, BooksInv, NEW e \in Epochs, CloseEpochState(e)
    PROVE  BooksInv'
  <1>. DEFINE x == <<e, "epoch_state">>
              y == <<e, "epoch_marker">>
              n == Size["epoch_marker"]
              pay == Required(y, n)
              min == MinimumBalance(n)
  <1>1. /\ PayerMoves(pay, lamports[x])
        /\ lamports' = [lamports EXCEPT ![x] = 0, ![y] = @ + pay]
        /\ size' = [size EXCEPT ![x] = 0, ![y] = n]
        /\ receiver' = receiver /\ ncn_wallet' = ncn_wallet
        /\ UNCHANGED sourceVars
    BY DEF CloseEpochState, Refund
  <1>2. x \in Accounts /\ y \in Accounts /\ x # y /\ n \in Nat \ {0}
    BY PayerAssumption DEF Accounts, Permanent
  <1>3. x \notin Receivers /\ y \notin Receivers
    BY DEF Receivers, WithReceiver
  <1>4. ~Exists(y)
    BY DEF CloseEpochState, Completed
  <1>5. pay \in Nat /\ min \in Nat /\ pay <= min
    BY <1>2, PayerAssumption, SMTT(30) DEF Required, MinimumBalance, PayerInv
  <1>6. PayerInv'
    BY CloseEpochStateKeeps
  <1>7. SumsOk /\ SumsOk'
    BY <1>6, SumsTyped, PTL
  <1>. HIDE DEF x, y, n, pay
  <1>8. Held' + lamports[x] = Held + pay
    <2>. DEFINE mid == [lamports EXCEPT ![x] = 0]
                S == SumFunctionOnSet(mid, Accounts)
    <2>1. lamports \in [Accounts -> Nat]
      BY DEF PayerInv
    <2>2. /\ \A a \in Accounts : mid[a] \in Nat
          /\ \A a \in Accounts \ {x} : mid[a] = lamports[a]
          /\ mid[x] = 0 /\ mid[y] = lamports[y]
      BY <1>2, <2>1
    <2>3. /\ lamports'[y] = lamports[y] + pay
          /\ \A a \in Accounts \ {y} : lamports'[a] = mid[a]
      BY <1>1, <1>2, <2>1
    <2>. HIDE DEF mid
    <2>4. S + lamports[x] = Held + mid[x]
      BY <1>2, <2>1, <2>2, AccountsFinite, SumUpdate, SMTT(30) DEF Held
    <2>5. lamports'[y] \in Nat
      BY <1>2, <1>5, <2>1, <2>3, SMTT(30)
    <2>6. Held' + mid[y] = S + lamports'[y]
      BY <1>2, <2>2, <2>3, <2>5, AccountsFinite, SumUpdate, SMTT(30) DEF Held
    <2>7. S \in Nat
      BY <2>2, AccountsFinite, SumType
    <2>. DEFINE h == Held  hh == Held'
    <2>8. /\ h \in Nat /\ hh \in Nat /\ lamports[x] \in Nat /\ lamports[y] \in Nat
          /\ S + lamports[x] = h + 0 /\ hh + lamports[y] = S + (lamports[y] + pay)
      BY <1>2, <1>7, <2>2, <2>3, <2>4, <2>6 DEF SumsOk
    <2>9. hh + lamports[x] = h + pay
      <3>. HIDE DEF h, hh, S
      <3>. QED  BY <1>5, <2>7, <2>8, SMTT(30)
    <2>. QED  BY <2>9
  <1>9. Rents' + AccountRent[x] = Rents + min
    <2>. DEFINE mid == [AccountRent EXCEPT ![x] = 0]
                S == SumFunctionOnSet(mid, Accounts)
    <2>1. \A a \in Accounts : AccountRent[a] \in Nat /\ AccountRent'[a] \in Nat
      BY <1>7 DEF SumsOk
    <2>2. AccountRent[y] = 0
      BY <1>2, <1>4 DEF AccountRent
    <2>3. /\ \A a \in Accounts : mid[a] \in Nat
          /\ \A a \in Accounts \ {x} : mid[a] = AccountRent[a]
          /\ mid[x] = 0 /\ mid[y] = 0
      BY <1>2, <2>1, <2>2 DEF AccountRent
    <2>4. size'[x] = 0 /\ size'[y] = n /\ \A a \in Accounts : a # x /\ a # y => size'[a] = size[a]
      BY <1>1, <1>2 DEF PayerInv
    <2>5. /\ AccountRent'[y] = min /\ AccountRent'[x] = 0
          /\ \A a \in Accounts : a # x /\ a # y => AccountRent'[a] = AccountRent[a]
      BY <1>2, <2>4, SMTT(30) DEF AccountRent, Exists, MinimumBalance
    <2>6. \A a \in Accounts \ {y} : AccountRent'[a] = mid[a]
      BY <2>3, <2>5
    <2>. HIDE DEF mid
    <2>7. S + AccountRent[x] = Rents + mid[x]
      BY <1>2, <2>1, <2>3, AccountsFinite, SumUpdate, SMTT(30) DEF Rents
    <2>8. Rents' + mid[y] = S + AccountRent'[y]
      BY <1>2, <2>1, <2>3, <2>6, AccountsFinite, SumUpdate, SMTT(30) DEF Rents
    <2>9. S \in Nat
      BY <2>3, AccountsFinite, SumType
    <2>. DEFINE h == Rents  hh == Rents'  g == AccountRent[x]
    <2>10. /\ h \in Nat /\ hh \in Nat /\ g \in Nat
           /\ S + g = h + 0 /\ hh + 0 = S + min
      BY <1>2, <1>7, <2>1, <2>3, <2>5, <2>7, <2>8 DEF SumsOk
    <2>11. hh + g = h + min
      <3>. HIDE DEF h, hh, g, S, min
      <3>. QED  BY <1>5, <2>9, <2>10, SMTT(30)
    <2>. QED  BY <2>11
  <1>10. ReceiversHold' = ReceiversHold /\ ReceiverRents' = ReceiverRents
    <2>1. \A r \in Receivers : size'[r] = size[r]
      BY <1>1, <1>3, ReceiversAreAccounts DEF PayerInv
    <2>. QED  BY <1>1, <2>1, ReceiversKept
  <1>. DEFINE h == Held             hh == Held'
              c == ReceiversHold    cc == ReceiversHold'
              r == Rents            rr == Rents'
              q == ReceiverRents    qq == ReceiverRents'
              w == ncn_wallet       ww == ncn_wallet'
              m == AccountRent[x]
  <1>11. /\ h \in Nat /\ c \in Nat /\ r \in Nat /\ q \in Nat /\ w \in Nat
         /\ hh \in Nat /\ rr \in Nat
         /\ m \in Nat /\ m <= lamports[x] /\ lamports[x] \in Nat
         /\ hh + lamports[x] = h + pay /\ rr + m = r + min /\ cc = c /\ qq = q
         /\ ww = w
    BY <1>1, <1>2, <1>7, <1>8, <1>9, <1>10 DEF SumsOk, BooksInv
  <1>12. /\ ww \in Nat
         /\ ww + hh + cc + lamports[x] = w + h + c + pay
         /\ rr + qq + lamports[x] >= r + q + pay
    <2>. HIDE DEF h, hh, c, cc, r, rr, q, qq, w, ww, m, min
    <2>. QED  BY <1>5, <1>11, SMTT(30)
  <1>13. lamports[x] \in Nat
    BY <1>11
  <1>. QED  BY <1>1, <1>5, <1>6, <1>12, <1>13, BooksAgain

\* Lamports from outside are counted where they arrive.
LEMMA OutsideBooks ==
    ASSUME PayerInv, BooksInv,
           \/ \E n \in Amounts : Fund(n)
           \/ \E a \in Accounts, n \in Gifts : GiftAccount(a, n)
           \/ \E r \in Receivers, n \in Gifts : GiftReceiver(r, n)
    PROVE  BooksInv'
  <1>. DEFINE h == Held             hh == Held'
              c == ReceiversHold    cc == ReceiversHold'
              r == Rents            rr == Rents'
              q == ReceiverRents    qq == ReceiverRents'
              w == ncn_wallet       ww == ncn_wallet'
  <1>0. PayerInv'
    BY OutsideKeeps
  <1>1. SumsOk /\ SumsOk'
    BY <1>0, SumsTyped, PTL
  <1>2. /\ h \in Nat /\ c \in Nat /\ r \in Nat /\ q \in Nat
        /\ hh \in Nat /\ cc \in Nat /\ rr \in Nat /\ qq \in Nat
    BY <1>1 DEF SumsOk
  <1>3. /\ w \in Nat /\ payer \in Nat /\ funded \in Nat /\ gifted \in Nat
        /\ funded + gifted = payer + w + h + c
        /\ payer >= funded - r - q
    BY DEF BooksInv, LamportsConserved, RentComesBack, Held, ReceiversHold, Rents,
           ReceiverRents
  <1>4. ASSUME ww = w, payer' \in Nat, funded' \in Nat, gifted' \in Nat,
               funded' + gifted' = payer' + w + hh + cc,
               payer' >= funded' - rr - qq
        PROVE  BooksInv'
    BY <1>3, <1>4 DEF BooksInv, LamportsConserved, RentComesBack, Held, ReceiversHold,
                      Rents, ReceiverRents
  <1>5. size' = size /\ ww = w
    BY DEF Fund, GiftAccount, GiftReceiver
  <1>6. rr = r /\ qq = q
    <2>1. AccountRent' = AccountRent /\ ReceiverRent' = ReceiverRent
      BY <1>5 DEF AccountRent, ReceiverRent, Exists, MinimumBalance
    <2>. QED  BY <2>1 DEF Rents, ReceiverRents
  <1>7. CASE \E n \in Amounts : Fund(n)
    <2>1. PICK n \in Amounts : Fund(n)
      BY <1>7
    <2>2. /\ n \in Nat /\ funded' = funded + n /\ payer' = payer - 0 + n /\ gifted' = gifted
          /\ lamports' = lamports /\ receiver' = receiver
      BY <2>1, PayerAssumption DEF Fund, PayerMoves
    <2>3. hh = h /\ cc = c
      BY <2>2 DEF Held, ReceiversHold
    <2>. HIDE DEF h, hh, c, cc, r, rr, q, qq, w, ww
    <2>4. /\ payer' \in Nat /\ funded' \in Nat /\ gifted' \in Nat
          /\ funded' + gifted' = payer' + w + hh + cc
          /\ payer' >= funded' - rr - qq
      BY <1>2, <1>3, <1>6, <2>2, <2>3, SMTT(30)
    <2>. QED  BY <1>4, <1>5, <2>4
  <1>8. CASE \E a \in Accounts, n \in Gifts : GiftAccount(a, n)
    <2>1. PICK a \in Accounts, n \in Gifts : GiftAccount(a, n)
      BY <1>8
    <2>2. /\ n \in Nat /\ funded' = funded /\ payer' = payer /\ gifted' = gifted + n
          /\ lamports' = [lamports EXCEPT ![a] = @ + n] /\ receiver' = receiver
      BY <2>1, PayerAssumption DEF GiftAccount
    <2>3. /\ lamports \in [Accounts -> Nat]
          /\ lamports'[a] = lamports[a] + n /\ lamports'[a] \in Nat
          /\ \A b \in Accounts \ {a} : lamports'[b] = lamports[b]
      BY <2>2, SMTT(30) DEF PayerInv
    <2>4. hh + lamports[a] = h + lamports'[a] /\ cc = c
      <3>1. \A b \in Accounts : lamports[b] \in Nat
        BY <2>3
      <3>2. hh + lamports[a] = h + lamports'[a]
        BY <2>3, <3>1, AccountsFinite, SumUpdate, SMTT(30) DEF Held, ReceiversHold
      <3>. QED  BY <2>2, <3>2 DEF Held, ReceiversHold
    <2>5. lamports[a] \in Nat
      BY <2>3
    <2>. HIDE DEF h, hh, c, cc, r, rr, q, qq, w, ww
    <2>6. hh = h + n
      BY <1>2, <2>2, <2>3, <2>4, <2>5, SMTT(30)
    <2>7. /\ payer' \in Nat /\ funded' \in Nat /\ gifted' \in Nat
          /\ funded' + gifted' = payer' + w + hh + cc
          /\ payer' >= funded' - rr - qq
      BY <1>2, <1>3, <1>6, <2>2, <2>4, <2>6, SMTT(30)
    <2>. QED  BY <1>4, <1>5, <2>7
  <1>9. CASE \E a \in Receivers, n \in Gifts : GiftReceiver(a, n)
    <2>1. PICK a \in Receivers, n \in Gifts : GiftReceiver(a, n)
      BY <1>9
    <2>2. /\ n \in Nat /\ funded' = funded /\ payer' = payer /\ gifted' = gifted + n
          /\ receiver' = [receiver EXCEPT ![a] = @ + n] /\ lamports' = lamports
      BY <2>1, PayerAssumption DEF GiftReceiver
    <2>3. /\ receiver \in [Receivers -> Nat]
          /\ receiver'[a] = receiver[a] + n /\ receiver'[a] \in Nat
          /\ \A b \in Receivers \ {a} : receiver'[b] = receiver[b]
      BY <2>2, SMTT(30) DEF PayerInv
    <2>4. cc + receiver[a] = c + receiver'[a] /\ hh = h
      <3>1. \A b \in Receivers : receiver[b] \in Nat
        BY <2>3
      <3>2. cc + receiver[a] = c + receiver'[a]
        BY <2>3, <3>1, AccountsFinite, SumUpdate, SMTT(30) DEF Held, ReceiversHold
      <3>. QED  BY <2>2, <3>2 DEF Held, ReceiversHold
    <2>5. receiver[a] \in Nat
      BY <2>3
    <2>. HIDE DEF h, hh, c, cc, r, rr, q, qq, w, ww
    <2>6. cc = c + n
      BY <1>2, <2>2, <2>3, <2>4, <2>5, SMTT(30)
    <2>7. /\ payer' \in Nat /\ funded' \in Nat /\ gifted' \in Nat
          /\ funded' + gifted' = payer' + w + hh + cc
          /\ payer' >= funded' - rr - qq
      BY <1>2, <1>3, <1>6, <2>2, <2>4, <2>6, SMTT(30)
    <2>. QED  BY <1>4, <1>5, <2>7
  <1>. QED  BY <1>7, <1>8, <1>9

\* Steps that move no lamports and create or close nothing.
LEMMA StillBooks ==
    ASSUME BooksInv,
           UNCHANGED <<payer, lamports, size, receiver, ncn_wallet, sourceVars>>
    PROVE  BooksInv'
  <1>1. AccountRent' = AccountRent /\ ReceiverRent' = ReceiverRent
    BY DEF AccountRent, ReceiverRent, Exists, MinimumBalance
  <1>. QED  BY <1>1 DEF BooksInv, LamportsConserved, RentComesBack, sourceVars

\* The books are balanced at first and after every instruction.
LEMMA BooksInvIsInductive ==
    /\ Init => BooksInv
    /\ PayerInv /\ BooksInv /\ [Next]_vars => BooksInv'
  <1>1. ASSUME Init PROVE BooksInv
    <2>1. PayerInv
      BY <1>1, InitIsExempt
    <2>2. SumsOk
      BY <2>1, SumsTyped
    <2>3. Held = 0
      <3>1. SumFunctionOnSet(lamports, Accounts) = SumFunctionOnSet(lamports, {})
        <4>1. \A a \in Accounts : lamports[a] = 0
          BY <1>1 DEF Init
        <4>. QED  BY <4>1, AccountsFinite, SumSupport, SMTT(30)
      <3>. QED  BY <3>1, SumEmpty DEF Held
    <2>4. ReceiversHold = 0
      <3>1. SumFunctionOnSet(receiver, Receivers) = SumFunctionOnSet(receiver, {})
        <4>1. \A a \in Receivers : receiver[a] = 0
          BY <1>1 DEF Init
        <4>. QED  BY <4>1, AccountsFinite, SumSupport, SMTT(30)
      <3>. QED  BY <3>1, SumEmpty DEF ReceiversHold
    <2>. DEFINE r == Rents  q == ReceiverRents
    <2>5. r \in Nat /\ q \in Nat
      BY <2>2 DEF SumsOk
    <2>6. payer = 0 /\ ncn_wallet = 0 /\ funded = 0 /\ gifted = 0
      BY <1>1 DEF Init
    <2>7. LamportsConserved
      BY <2>3, <2>4, <2>6, SMTT(30) DEF LamportsConserved, Held, ReceiversHold
    <2>8. payer >= funded - r - q
      <3>. HIDE DEF r, q
      <3>. QED  BY <2>5, <2>6, SMTT(30)
    <2>. QED  BY <2>6, <2>7, <2>8 DEF BooksInv, RentComesBack, Rents, ReceiverRents
  <1>2. ASSUME PayerInv, BooksInv, [Next]_vars PROVE BooksInv'
    <2>1. ASSUME NEW e \in Epochs, Step(e) PROVE BooksInv'
      <3>1. ASSUME BecomesClosable(e) PROVE BooksInv'
        BY <1>2, <3>1, StillBooks DEF BecomesClosable
      <3>. QED
        BY <1>2, <2>1, <3>1, InitializeEpochStateBooks, InitializeBooks, ReallocBooks,
           CloseAccountBooks, CloseEpochStateBooks DEF Step
    <2>2. CASE \/ \E n \in Amounts : Fund(n)
               \/ \E a \in Accounts, n \in Gifts : GiftAccount(a, n)
               \/ \E r \in Receivers, n \in Gifts : GiftReceiver(r, n)
      BY <1>2, <2>2, OutsideBooks
    <2>3. CASE UNCHANGED vars
      BY <1>2, <2>3, StillBooks DEF vars
    <2>. QED  BY <1>2, <2>1, <2>2, <2>3 DEF Next
  <1>. QED  BY <1>1, <1>2

\* The books agree in every reachable state.
LEMMA BooksAlways == Spec => []BooksInv
  BY InitIsExempt, PayerInvIsInductive, BooksInvIsInductive, PTL DEF Spec

\* No instruction makes or loses a lamport: what came from outside is on the
\* payer, the accounts, the receivers and the NCN's wallet.
THEOREM LamportsAlwaysConserved == Spec => []LamportsConserved
  <1>1. BooksInv => LamportsConserved
    BY DEF BooksInv
  <1>. QED  BY <1>1, BooksAlways, PTL

\* The payer has never spent more than the minimum rent of the accounts that
\* exist: reallocations are not paid twice and closing brings the rent back.
THEOREM RentAlwaysComesBack == Spec => []RentComesBack
  <1>1. BooksInv => RentComesBack
    BY DEF BooksInv
  <1>. QED  BY <1>1, BooksAlways, PTL

============================================================================
