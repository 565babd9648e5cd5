------------------------- MODULE ClientCallProofs -------------------------
(***************************************************************************)
(* For any number of clients, retries, failures of the RPC node and late   *)
(* transactions: an account is initialised at most once, and a client that *)
(* is told of a success can rely on it.                                    *)
(***************************************************************************)
EXTENDS ClientCall, TLAPS

\* Zenon is tried first; a step that needs arithmetic asks for the SMT solver.
USE ZenonT(30), SMTT(30)

CallState ==
    [function : DOMAIN Calls \cup {"none"}, ensure : BOOLEAN, txs : Seq(Transaction),
     tries : Nat,
     status : {"idle", "step", "sent", "confirmed", "failed", "panic", "ok", "err"}]

ClientTypes ==
    /\ focus \in DOMAIN Creator \cup {"none"}
    /\ size \in Nat /\ funded \in BOOLEAN /\ initialized \in BOOLEAN /\ inits \in Nat
    /\ due \in BOOLEAN /\ closing \in BOOLEAN
    /\ call \in [Clients -> CallState]

-----------------------------------------------------------------------------
(* The inductive invariant.                                                *)

\* An account without its discriminator has not been initialised.
InitsCounted == inits <= 1 /\ (size /= 0 /\ ~initialized => inits = 0)

\* The account is initialised as soon as it has all its pieces, its address
\* holds lamports alone only while there is none, and once its epoch is closing
\* it is gone.
AccountSound ==
    focus /= "none" =>
        /\ size <= AccountPieces[focus]
        /\ initialized <=> size = AccountPieces[focus]
        /\ funded => size = 0
        /\ closing => OfEpoch(focus) /\ size = 0

\* A behaviour that follows no account sees none.
NoAccount == focus = "none" => size = 0 /\ ~initialized /\ inits = 0 /\ ~closing

\* A transaction of one of the functions that may be called.
OfCallable(tx) == \E f \in Callable : \E i \in 1..Len(Calls[f]) : tx = Calls[f][i]

Busy(c) == call[c].status \in {"step", "sent", "confirmed", "failed"}

\* How many of its function's transactions a client has behind it.
Done(c) == Len(Calls[call[c].function]) - Len(call[c].txs)

\* What a client still has to send is the rest of the function it called.
FollowsCall(c) ==
    Busy(c) =>
        /\ call[c].function \in Callable
        /\ Done(c) \in Nat
        /\ \A i \in 1..Len(call[c].txs) : call[c].txs[i] = Calls[call[c].function][Done(c) + i]
        /\ call[c].status /= "step" => call[c].txs /= <<>>

\* What n transactions of the creating function have achieved, unless the
\* epoch has been closed since or they were skipped for lamports.
Achieved(n) ==
    closing \/ (/\ n >= 1 => size > 0 \/ Mistaken
                /\ n >= Len(Calls[Creator[focus]]) =>
                       Whole \/ (Mistaken /\ AccountPieces[focus] = 1))

DoneSoFar(c) ==
    focus /= "none" /\ Busy(c) /\ call[c].function = Creator[focus] =>
        Achieved(IF call[c].status = "confirmed" THEN Done(c) + 1 ELSE Done(c))

OkIsDone(c) ==
    call[c].status = "ok" /\ focus /= "none" =>
        IF call[c].function \in Range(Closer) THEN closing => size = 0
        ELSE \/ Whole \/ closing
             \/ Mistaken /\ AccountPieces[focus] = 1 /\ ~call[c].ensure

ClientOk(c) == FollowsCall(c) /\ DoneSoFar(c) /\ OkIsDone(c)

ClientInv ==
    /\ ClientTypes /\ InitsCounted /\ AccountSound /\ NoAccount
    /\ \A tx \in DOMAIN late : OfCallable(tx)
    /\ \A c \in Clients : ClientOk(c)

-----------------------------------------------------------------------------
(* How a step changes what a client is doing.                              *)

\* The smaller of two numbers.
LEMMA MinOfTwo ==
    ASSUME NEW a \in Nat, NEW b \in Nat
    PROVE  Min({a, b}) = IF a <= b THEN a ELSE b
  BY SMTT(30) DEF Min

\* The rest of a sequence of transactions.
LEMMA RestOf ==
    ASSUME NEW s \in Seq(Transaction), s /= <<>>
    PROVE  /\ Tail(s) \in Seq(Transaction) /\ Len(Tail(s)) = Len(s) - 1
           /\ \A i \in 1..Len(Tail(s)) : Tail(s)[i] = s[i + 1]
           /\ Len(s) >= 1 /\ Head(s) = s[1] /\ s[1] \in Transaction
  BY SMTT(30)

\* Client c gets on to status, with txs still to send; the others are as they were.
Moves(c, function, txs, outcome) ==
    /\ call' \in [Clients -> CallState]
    /\ call'[c].function = function /\ call'[c].txs = txs /\ call'[c].status = outcome
    /\ \A d \in Clients \ {c} : call'[d] = call[d]

\* A client calls a function.
LEMMA BeginsMoves ==
    ASSUME ClientTypes, NEW c \in Clients, NEW f \in DOMAIN Calls, NEW e \in BOOLEAN,
           Begins(c, f, e)
    PROVE  Moves(c, f, Calls[f], "step")
  <1>. DEFINE r == [function |-> f, ensure |-> e, txs |-> Calls[f],
                    tries |-> 0, status |-> "step"]
  <1>1. r \in CallState /\ r.function = f /\ r.txs = Calls[f] /\ r.status = "step"
    BY CallsAssumption DEF CallState
  <1>2. call \in [Clients -> CallState] /\ call' = [call EXCEPT ![c] = r]
    BY DEF ClientTypes, Begins
  <1>. HIDE DEF r
  <1>. QED  BY <1>1, <1>2 DEF Moves

\* Only the status changes.
LEMMA ReturnsMoves ==
    ASSUME ClientTypes, NEW c \in Clients,
           NEW outcome \in {"sent", "confirmed", "failed", "panic", "ok", "err"},
           Returns(c, outcome)
    PROVE  Moves(c, call[c].function, call[c].txs, outcome)
  <1>. DEFINE r == [call[c] EXCEPT !.status = outcome]
  <1>1. call \in [Clients -> CallState] /\ call' = [call EXCEPT ![c] = r]
    BY DEF ClientTypes, Returns
  <1>2. /\ r \in CallState /\ r.function = call[c].function /\ r.txs = call[c].txs
        /\ r.status = outcome
    BY <1>1 DEF CallState
  <1>. HIDE DEF r
  <1>. QED  BY <1>1, <1>2 DEF Moves

\* The same transaction is sent again, or the call fails.
LEMMA NextAttemptMoves ==
    ASSUME ClientTypes, NEW c \in Clients, NextAttempt(c)
    PROVE  \E outcome \in {"sent", "err"} : Moves(c, call[c].function, call[c].txs, outcome)
  <1>. DEFINE t == IF call[c].tries < Retries THEN call[c].tries + 1 ELSE call[c].tries
              st == IF call[c].tries < Retries THEN "sent" ELSE "err"
              r == [call[c] EXCEPT !.tries = t, !.status = st]
  <1>1. call \in [Clients -> CallState] /\ call[c] \in CallState
    BY DEF ClientTypes
  <1>2. call' = [call EXCEPT ![c].tries = t, ![c].status = st]
    BY <1>1 DEF NextAttempt
  <1>3. t \in Nat /\ st \in {"sent", "err"}
    BY <1>1, BoundsAssumption, SMTT(30) DEF CallState
  <1>. HIDE DEF t, st
  <1>4. call' = [call EXCEPT ![c] = r]
    BY <1>1, <1>2
  <1>5. /\ r \in CallState /\ r.function = call[c].function /\ r.txs = call[c].txs
        /\ r.status \in {"sent", "err"}
    BY <1>1, <1>3 DEF CallState
  <1>. HIDE DEF r
  <1>. QED  BY <1>1, <1>4, <1>5 DEF Moves

\* A client leaves out a transaction.
LEMMA SkipMoves ==
    ASSUME ClientTypes, NEW c \in Clients, Skip(c)
    PROVE  Moves(c, call[c].function, Tail(call[c].txs), "step")
  <1>. DEFINE r == [call[c] EXCEPT !.txs = Tail(@)]
  <1>1. call \in [Clients -> CallState] /\ call' = [call EXCEPT ![c] = r]
    BY DEF ClientTypes, Skip
  <1>2. /\ r \in CallState /\ r.function = call[c].function /\ r.txs = Tail(call[c].txs)
        /\ r.status = "step"
    BY <1>1, RestOf DEF CallState, Skip
  <1>. HIDE DEF r
  <1>. QED  BY <1>1, <1>2 DEF Moves

\* It goes on to the next one.
LEMMA ConfirmMoves ==
    ASSUME ClientTypes, NEW c \in Clients, Confirm(c), call[c].txs /= <<>>
    PROVE  Moves(c, call[c].function, Tail(call[c].txs), "step")
  <1>. DEFINE r == [call[c] EXCEPT !.txs = Tail(@), !.tries = 0, !.status = "step"]
  <1>1. call \in [Clients -> CallState] /\ call' = [call EXCEPT ![c] = r]
    BY DEF ClientTypes, Confirm
  <1>2. /\ r \in CallState /\ r.function = call[c].function /\ r.txs = Tail(call[c].txs)
        /\ r.status = "step"
    BY <1>1, RestOf DEF CallState
  <1>. HIDE DEF r
  <1>. QED  BY <1>1, <1>2 DEF Moves

-----------------------------------------------------------------------------
(* What a transaction does to the account when it lands.                   *)

Leaves == UNCHANGED <<size, initialized, inits, closing>>

Creates(n) ==
    /\ size = 0 /\ ~(OfEpoch(focus) /\ closing) /\ size' = 1
    /\ initialized' = (n = 1) /\ inits' = (IF n = 1 THEN 1 ELSE 0)
    /\ closing' = closing

Grows(n, times) ==
    /\ size /= 0 /\ size' = (IF size + times <= n THEN size + times ELSE n)
    /\ initialized' = (initialized \/ size' = n)
    /\ inits' = (IF size' = n /\ ~initialized THEN inits + 1 ELSE inits)
    /\ closing' = closing

Closes ==
    /\ size > 0 /\ initialized /\ size' = 0 /\ initialized' = FALSE
    /\ inits' = inits /\ closing' = TRUE

\* The instructions that are not the account's leave it alone.
LEMMA LandsOnNone ==
    ASSUME ClientTypes, NoAccount, NEW tx \in Transaction, NEW ok \in BOOLEAN,
           focus = "none", OfCallable(tx), Land(tx, ok)
    PROVE  Leaves
  <1>1. tx.instruction \notin Initializers /\ tx.instruction \notin Reallocators
    BY CallsAssumption DEF OfCallable, Callable
  <1>. DEFINE w == [size |-> size, initialized |-> initialized, inits |-> inits,
                    closing |-> closing, ok |-> tx.accepted]
  <1>2. Executed(tx) = w \/ Executed(tx) = CloseFocus(w)
    BY <1>1 DEF Executed
  <1>3. w.size = 0 /\ w.initialized = initialized /\ w.inits = inits /\ w.closing = closing
    BY DEF NoAccount
  <1>4. CloseFocus(w) = [w EXCEPT !.ok = FALSE]
    BY <1>3, SMTT(30) DEF CloseFocus
  <1>. QED  BY <1>2, <1>3, <1>4 DEF Land, Leaves

\* With an account, what happens is what the instruction does, or nothing; and
\* a client is told of a success only if it has happened.
LEMMA LandsOnAccount ==
    ASSUME ClientTypes, NEW tx \in Transaction, NEW ok \in BOOLEAN,
           focus /= "none", Land(tx, ok), NEW n \in Nat, n = AccountPieces[focus]
    PROVE  /\ \/ Leaves
              \/ tx.instruction \in Initializers /\ Creates(n)
              \/ tx.instruction \in Reallocators /\ Grows(n, tx.times)
              \/ tx.instruction = "CloseEpochAccount" /\ Closes
           /\ ok /\ tx.instruction \in Initializers => Creates(n)
           /\ ok /\ tx.instruction \in Reallocators => Grows(n, tx.times)
  <1>. DEFINE w == [size |-> size, initialized |-> initialized, inits |-> inits,
                    closing |-> closing, ok |-> tx.accepted]
              refused == [w EXCEPT !.ok = FALSE]
  <1>0. /\ size \in Nat /\ initialized \in BOOLEAN /\ inits \in Nat /\ closing \in BOOLEAN
        /\ tx.times \in Nat /\ tx.accepted \in BOOLEAN
    BY DEF ClientTypes, Transaction
  <1>1. /\ w.size = size /\ w.initialized = initialized /\ w.inits = inits
        /\ w.closing = closing /\ w.ok = tx.accepted
        /\ refused.size = size /\ refused.initialized = initialized /\ refused.inits = inits
        /\ refused.closing = closing /\ refused.ok = FALSE
    OBVIOUS
  <1>2. /\ ok = Executed(tx).ok /\ size' = Executed(tx).size /\ inits' = Executed(tx).inits
        /\ initialized' = Executed(tx).initialized /\ closing' = Executed(tx).closing
    BY DEF Land
  <1>3. CASE ~tx.accepted
    <2>1. Executed(tx) = w
      BY <1>3 DEF Executed
    <2>. QED  BY <1>1, <1>2, <1>3, <2>1 DEF Leaves
  <1>4. CASE tx.accepted /\ tx.instruction \in Initializers
    <2>1. Executed(tx) = Initialize(w) /\ tx.instruction \notin Reallocators
      BY <1>4 DEF Executed, Initializers, Reallocators
    <2>2. CASE size = 0 /\ ~(OfEpoch(focus) /\ closing)
      <3>1. Initialize(w) = [w EXCEPT !.size = 1, !.initialized = (n = 1),
                                      !.inits = IF n = 1 THEN 1 ELSE 0]
        BY <1>1, <2>2 DEF Initialize
      <3>2. /\ size' = 1 /\ initialized' = (n = 1) /\ closing' = closing
            /\ inits' = IF n = 1 THEN 1 ELSE 0
        BY <1>2, <2>1, <3>1
      <3>3. Creates(n)
        BY <2>2, <3>2 DEF Creates
      <3>. QED  BY <1>4, <2>1, <3>3
    <2>3. CASE ~(size = 0 /\ ~(OfEpoch(focus) /\ closing))
      <3>1. Initialize(w) = refused
        BY <1>1, <2>3 DEF Initialize
      <3>. QED  BY <1>1, <1>2, <2>1, <3>1 DEF Leaves
    <2>. QED  BY <2>2, <2>3
  <1>5. CASE tx.accepted /\ tx.instruction \in Reallocators
    <2>1. Executed(tx) = Realloc(w, tx.times) /\ tx.instruction \notin Initializers
      BY <1>5 DEF Executed, Initializers, Reallocators
    <2>2. CASE size /= 0
      <3>. DEFINE g == IF size + tx.times <= n THEN size + tx.times ELSE n
      <3>0. size + tx.times \in Nat /\ w.size = size
        BY <1>0, <1>1, SMTT(30)
      <3>1. Min({w.size + tx.times, AccountPieces[focus]}) = g
        BY <3>0, MinOfTwo
      <3>. HIDE DEF g
      <3>2. Realloc(w, tx.times)
              = [w EXCEPT !.size = g, !.initialized = initialized \/ (g = n /\ ~initialized),
                          !.inits = IF g = n /\ ~initialized THEN inits + 1 ELSE inits]
        BY <1>1, <2>2, <3>1 DEF Realloc
      <3>3. size' = g /\ initialized' = (initialized \/ (g = n /\ ~initialized))
            /\ inits' = (IF g = n /\ ~initialized THEN inits + 1 ELSE inits)
            /\ closing' = closing
        BY <1>2, <2>1, <3>2
      <3>4. Grows(n, tx.times)
        BY <1>0, <2>2, <3>3 DEF Grows, g
      <3>. QED  BY <1>5, <2>1, <3>4
    <2>3. CASE size = 0
      <3>1. Realloc(w, tx.times) = refused
        BY <1>1, <2>3 DEF Realloc
      <3>. QED  BY <1>1, <1>2, <2>1, <3>1 DEF Leaves
    <2>. QED  BY <2>2, <2>3
  <1>6. CASE tx.accepted /\ tx.instruction = "CloseEpochAccount"
    <2>1. Executed(tx) = CloseFocus(w) /\ tx.instruction \notin Initializers
          /\ tx.instruction \notin Reallocators
      BY <1>6 DEF Executed, Initializers, Reallocators
    <2>2. CASE size > 0 /\ initialized /\ due
      <3>1. CloseFocus(w) = [w EXCEPT !.size = 0, !.initialized = FALSE, !.closing = TRUE]
        BY <1>1, <2>2 DEF CloseFocus
      <3>. QED  BY <1>2, <1>6, <2>1, <2>2, <3>1 DEF Closes
    <2>3. CASE ~(size > 0 /\ initialized /\ due)
      <3>1. CloseFocus(w) = refused
        BY <1>1, <2>3 DEF CloseFocus
      <3>. QED  BY <1>1, <1>2, <2>1, <3>1 DEF Leaves
    <2>. QED  BY <2>2, <2>3
  <1>7. CASE tx.accepted /\ tx.instruction \notin Initializers
             /\ tx.instruction \notin Reallocators /\ tx.instruction /= "CloseEpochAccount"
    <2>1. Executed(tx) = w
      BY <1>7 DEF Executed
    <2>. QED  BY <1>1, <1>2, <1>7, <2>1 DEF Leaves
  <1>. QED  BY <1>0, <1>3, <1>4, <1>5, <1>6, <1>7

\* What the functions that create the account send, one transaction after the
\* other.
LEMMA CreatorCalls ==
    ASSUME ClientTypes, focus /= "none", NEW n, n = AccountPieces[focus],
           NEW txs, txs = Calls[Creator[focus]]
    PROVE  /\ n \in Nat /\ n >= 1 /\ Creator[focus] \in Callable
           /\ Creator[focus] \in DOMAIN Calls /\ txs \in Seq(Transaction)
           /\ Len(txs) = IF n = 1 THEN 1 ELSE 2
           /\ txs[1].instruction \in Initializers /\ txs[1].unless /= "gone"
           /\ n > 1 => /\ txs[2].instruction \in Reallocators
                       /\ txs[2].unless = "never" /\ txs[2].times = n - 1
  <1>1. focus \in DOMAIN Creator
    BY DEF ClientTypes
  <1>. QED  BY <1>1, CallsAssumption, SMTT(30) DEF Callable

\* Only functions of the command line are called, and only the accounts of an
\* epoch are closed.
LEMMA CallableCalls ==
    ASSUME ClientTypes
    PROVE  /\ Callable \subseteq DOMAIN Calls
           /\ focus /= "none" =>
                \A f \in Callable :
                    f = Creator[focus] \/ (f \in Range(Closer) /\ OfEpoch(focus))
           /\ \A tx : OfCallable(tx) => tx \in Transaction
  <1>1. focus \in DOMAIN Creator \cup {"none"}
    BY DEF ClientTypes
  <1>2. Callable \subseteq DOMAIN Calls
    BY <1>1, CallsAssumption, SMTT(30) DEF Callable
  <1>3. ASSUME focus /= "none", NEW f \in Callable
        PROVE  f = Creator[focus] \/ (f \in Range(Closer) /\ OfEpoch(focus))
    <2>1. ASSUME NEW a \in DOMAIN Closer \cap {focus}
          PROVE  Closer[a] \in Range(Closer) /\ OfEpoch(focus)
      BY DEF Closer, Range, OfEpoch
    <2>. QED  BY <1>3, <2>1 DEF Callable
  <1>4. ASSUME NEW tx, OfCallable(tx)
        PROVE  tx \in Transaction
    <2>1. PICK f \in Callable : \E i \in 1..Len(Calls[f]) : tx = Calls[f][i]
      BY <1>4 DEF OfCallable
    <2>2. Calls[f] \in Seq(Transaction)
      BY <1>2, CallsAssumption
    <2>. QED  BY <2>1, <2>2, SMTT(30)
  <1>. QED  BY <1>2, <1>3, <1>4

\* Only an epoch's account is ever closed.
LEMMA CloseIsOfEpoch ==
    ASSUME ClientTypes, focus /= "none", NEW tx, OfCallable(tx),
           tx.instruction = "CloseEpochAccount"
    PROVE  OfEpoch(focus)
  <1>1. PICK f \in Callable : \E i \in 1..Len(Calls[f]) : tx = Calls[f][i]
    BY DEF OfCallable
  <1>2. PICK i \in 1..Len(Calls[f]) : tx = Calls[f][i]
    BY <1>1
  <1>3. CASE f = Creator[focus]
    <2>. DEFINE n == AccountPieces[focus]
                txs == Calls[Creator[focus]]
    <2>1. /\ n \in Nat /\ n >= 1 /\ Len(txs) = IF n = 1 THEN 1 ELSE 2
          /\ txs[1].instruction \in Initializers
          /\ n > 1 => txs[2].instruction \in Reallocators
      BY CreatorCalls
    <2>2. i = 1 \/ (i = 2 /\ n > 1)
      BY <1>2, <1>3, <2>1, SMTT(30)
    <2>3. tx.instruction \in Initializers \cup Reallocators
      BY <1>2, <1>3, <2>1, <2>2
    <2>. QED  BY <2>3 DEF Initializers, Reallocators
  <1>. QED  BY <1>1, <1>3, CallableCalls

\* What a step of others may do to an account one relies on.
Better ==
    focus /= "none" =>
        /\ closing => closing'
        /\ size > 0 => size' > 0 \/ closing'
        /\ Whole => Whole' \/ closing'
        /\ Mistaken => Mistaken' \/ (size' > 0 /\ (AccountPieces[focus] = 1 => Whole'))

\* A transaction that lands keeps the account sound, and takes nothing away
\* unless it closes it.
LEMMA Lands ==
    ASSUME ClientTypes, InitsCounted, AccountSound, NoAccount,
           NEW tx, NEW ok \in BOOLEAN, OfCallable(tx), Land(tx, ok)
    PROVE  /\ focus' = focus /\ size' \in Nat /\ funded' \in BOOLEAN
           /\ initialized' \in BOOLEAN /\ inits' \in Nat /\ due' \in BOOLEAN /\ closing' \in BOOLEAN
           /\ InitsCounted' /\ AccountSound' /\ NoAccount' /\ Better
  <1>0. /\ focus' = focus /\ due' = due /\ tx \in Transaction
        /\ size \in Nat /\ initialized \in BOOLEAN /\ inits \in Nat /\ funded \in BOOLEAN
        /\ due \in BOOLEAN /\ closing \in BOOLEAN /\ tx.times \in Nat
    BY CallableCalls, SMTT(30) DEF Land, ClientTypes, Transaction
  <1>a. funded' = (funded /\ size' = 0) /\ funded' \in BOOLEAN
    BY DEF Land
  <1>1. CASE Leaves
    BY <1>0, <1>a, <1>1 DEF Leaves, InitsCounted, AccountSound, NoAccount, Better, Whole, Mistaken
  <1>2. CASE focus /= "none" /\ ~Leaves
    <2>. DEFINE n == AccountPieces[focus]
    <2>1. n \in Nat /\ n >= 1 /\ AccountPieces[focus'] = n /\ NoAccount'
      BY <1>0, <1>2, CreatorCalls DEF NoAccount
    <2>2. \/ Creates(n)
          \/ Grows(n, tx.times)
          \/ OfEpoch(focus) /\ Closes
      BY <1>0, <1>2, <2>1, LandsOnAccount, CloseIsOfEpoch
    <2>3. /\ size <= n /\ (initialized <=> size = n) /\ (funded => size = 0)
          /\ closing => OfEpoch(focus) /\ size = 0
      BY <1>2 DEF AccountSound
    <2>. SUFFICES /\ size' \in Nat /\ initialized' \in BOOLEAN /\ inits' \in Nat
                  /\ closing' \in BOOLEAN /\ InitsCounted'
                  /\ size' <= n /\ (initialized' <=> size' = n)
                  /\ closing' => OfEpoch(focus) /\ size' = 0
                  /\ closing => closing'
                  /\ size > 0 => size' > 0 \/ closing'
                  /\ size = n => size' = n \/ closing'
                  /\ funded => size' > 0 /\ (n = 1 => size' = n)
      <3>1. AccountSound'
        BY <1>0, <1>a, <2>1 DEF AccountSound, OfEpoch
      <3>2. Better
        BY <1>0, <2>1, <2>3 DEF Better, Whole, Mistaken
      <3>. QED  BY <1>0, <1>a, <2>1, <3>1, <3>2
    <2>. HIDE DEF n
    <2>4. CASE Creates(n)
      <3>1. /\ size' \in Nat /\ inits' \in Nat /\ size' <= n
            /\ initialized' \in BOOLEAN /\ closing' \in BOOLEAN
            /\ closing' => OfEpoch(focus) /\ size' = 0
        BY <1>0, <2>1, <2>3, <2>4 DEF Creates
      <3>2. /\ closing => closing'
            /\ size > 0 => size' > 0 \/ closing'
            /\ size = n => size' = n \/ closing'
            /\ funded => size' > 0 /\ (n = 1 => size' = n)
        BY <1>0, <2>1, <2>3, <2>4, SMTT(30) DEF Creates
      <3>3. InitsCounted'
        <4>1. CASE n = 1
          <5>1. inits' = 1 /\ initialized'
            BY <2>4, <4>1 DEF Creates
          <5>. QED  BY <5>1, SMTT(30) DEF InitsCounted
        <4>2. CASE n /= 1
          <5>1. inits' = 0
            BY <2>4, <4>2 DEF Creates
          <5>. QED  BY <5>1, SMTT(30) DEF InitsCounted
        <4>. QED  BY <4>1, <4>2
      <3>4. initialized' <=> size' = n
        BY <1>0, <2>1, <2>3, <2>4 DEF Creates
      <3>. QED  BY <3>1, <3>2, <3>3, <3>4
    <2>5. CASE Grows(n, tx.times)
      <3>1. /\ size' \in Nat /\ inits' \in Nat /\ size' <= n
            /\ initialized' \in BOOLEAN /\ closing' \in BOOLEAN
            /\ closing' => OfEpoch(focus) /\ size' = 0
        BY <1>0, <2>1, <2>3, <2>5, SMTT(30) DEF Grows
      <3>2. /\ closing => closing'
            /\ size > 0 => size' > 0 \/ closing'
            /\ size = n => size' = n \/ closing'
            /\ ~funded
        BY <1>0, <2>1, <2>3, <2>5, SMTT(30) DEF Grows
      <3>3. InitsCounted'
        <4>1. CASE size' = n /\ ~initialized
          <5>1. inits = 0 /\ initialized' /\ inits' = inits + 1
            BY <2>5, <4>1 DEF Grows, InitsCounted
          <5>. QED  BY <5>1, SMTT(30) DEF InitsCounted
        <4>2. CASE ~(size' = n /\ ~initialized)
          <5>1. inits' = inits /\ size /= 0 /\ (~initialized' => ~initialized)
            BY <1>0, <2>5, <4>2 DEF Grows
          <5>. QED  BY <5>1 DEF InitsCounted
        <4>. QED  BY <4>1, <4>2
      <3>4. initialized' <=> size' = n
        <4>1. initialized => size' = n
          BY <1>0, <2>1, <2>3, <2>5, SMTT(30) DEF Grows
        <4>2. initialized' = (initialized \/ size' = n)
          BY <2>5 DEF Grows
        <4>. QED  BY <4>1, <4>2
      <3>. QED  BY <3>1, <3>2, <3>3, <3>4
    <2>6. CASE OfEpoch(focus) /\ Closes
      <3>1. size' = 0 /\ inits' = inits /\ initialized' = FALSE /\ closing' = TRUE
        BY <2>6 DEF Closes
      <3>2. InitsCounted'
        BY <1>0, <3>1 DEF InitsCounted
      <3>3. size' \in Nat /\ size' <= n /\ size' /= n /\ inits' \in Nat /\ ~funded
        BY <1>0, <2>1, <2>3, <2>6, <3>1, SMTT(30) DEF Closes
      <3>. QED  BY <2>6, <3>1, <3>2, <3>3
    <2>. QED  BY <2>2, <2>4, <2>5, <2>6
  <1>. QED  BY <1>0, <1>1, <1>2, LandsOnNone

-----------------------------------------------------------------------------
(* What a step leaves as it was.                                           *)

\* A client can go on relying on what it relied on, whatever the others do.
LEMMA KeptClient ==
    ASSUME ClientTypes, NEW d \in Clients, ClientOk(d), focus' = focus, Better,
           AccountSound', call'[d] = call[d]
    PROVE  ClientOk(d)'
  <1>1. FollowsCall(d)'
    BY DEF ClientOk, FollowsCall, Busy, Done, Callable
  <1>2. DoneSoFar(d)'
    BY DEF ClientOk, DoneSoFar, Achieved, Busy, Done, Better
  <1>3. OkIsDone(d)'
    BY DEF ClientOk, OkIsDone, AccountSound, Better
  <1>. QED  BY <1>1, <1>2, <1>3 DEF ClientOk

\* A step of client c keeps the invariant if it keeps the account sound and
\* leaves c with what it may rely on.
LEMMA StepKeeps ==
    ASSUME ClientInv, NEW c \in Clients, ClientTypes', InitsCounted', AccountSound',
           NoAccount', focus' = focus, Better, ClientOk(c)',
           \A tx \in DOMAIN late' : OfCallable(tx),
           \A d \in Clients \ {c} : call'[d] = call[d]
    PROVE  ClientInv'
  <1>1. \A tx \in DOMAIN late' : OfCallable(tx)'
    BY DEF OfCallable, Callable
  <1>2. \A d \in Clients : ClientOk(d)'
    BY KeptClient DEF ClientInv
  <1>. QED  BY <1>1, <1>2 DEF ClientInv

\* The same for a step that does not touch the account.
LEMMA MoveKeeps ==
    ASSUME ClientInv, NEW c \in Clients, UNCHANGED focusVars, NEW f, NEW txs, NEW outcome,
           Moves(c, f, txs, outcome), ClientOk(c)',
           \A tx \in DOMAIN late' : OfCallable(tx)
    PROVE  ClientInv'
  <1>1. /\ focus' = focus /\ size' = size /\ initialized' = initialized /\ inits' = inits
        /\ due' = due /\ closing' = closing /\ funded' = funded
    BY DEF focusVars
  <1>2. ClientTypes' /\ InitsCounted' /\ AccountSound' /\ NoAccount' /\ Better
    BY <1>1 DEF ClientInv, ClientTypes, InitsCounted, AccountSound, NoAccount, Better, Whole,
                Mistaken, Moves
  <1>. QED  BY <1>1, <1>2, StepKeeps DEF Moves

\* The transaction a client is about to send, or is waiting for, is the one of
\* its function that is next.
LEMMA CurrentIsNext ==
    ASSUME ClientInv, NEW c \in Clients, Busy(c), call[c].txs /= <<>>
    PROVE  /\ call[c].function \in Callable /\ Calls[call[c].function] \in Seq(Transaction)
           /\ call[c].txs \in Seq(Transaction)
           /\ Done(c) \in Nat /\ Done(c) + 1 <= Len(Calls[call[c].function])
           /\ CurrentTx(c) = Calls[call[c].function][Done(c) + 1]
           /\ OfCallable(CurrentTx(c))
  <1>. DEFINE f == call[c].function
              txs == call[c].txs
              k == Done(c)
  <1>1. txs \in Seq(Transaction)
    BY DEF ClientInv, ClientTypes, CallState
  <1>2. f \in Callable /\ k \in Nat /\ \A i \in 1..Len(txs) : txs[i] = Calls[f][k + i]
    BY DEF ClientInv, ClientOk, FollowsCall
  <1>3. Calls[f] \in Seq(Transaction) /\ k = Len(Calls[f]) - Len(txs)
    BY <1>2, CallableCalls, CallsAssumption DEF ClientInv, Done
  <1>4. CurrentTx(c) = txs[1] /\ Len(txs) \in Nat /\ Len(txs) >= 1
    BY <1>1, RestOf, SMTT(30) DEF CurrentTx
  <1>5. Len(Calls[f]) \in Nat
    BY <1>3, SMTT(30)
  <1>. HIDE DEF f, txs, k
  <1>6. k + 1 \in 1..Len(Calls[f]) /\ CurrentTx(c) = Calls[f][k + 1]
    BY <1>2, <1>3, <1>4, <1>5, SMTT(30)
  <1>7. OfCallable(CurrentTx(c))
    BY <1>2, <1>6 DEF OfCallable
  <1>. QED  BY <1>1, <1>2, <1>3, <1>6, <1>7, SMTT(30) DEF f, txs, k

\* A client that gives up relies on nothing.
LEMMA QuitOk ==
    ASSUME NEW c \in Clients, NEW f, NEW txs, NEW outcome \in {"err", "panic"},
           Moves(c, f, txs, outcome)
    PROVE  ClientOk(c)'
  BY DEF Moves, ClientOk, FollowsCall, DoneSoFar, OkIsDone, Busy

\* A client that begins has done nothing yet.
LEMMA BeginKeeps ==
    ASSUME ClientInv, NEW c \in Clients, NEW f \in Callable, NEW e \in BOOLEAN,
           Begins(c, f, e), UNCHANGED <<focusVars, late>>
    PROVE  ClientInv'
  <1>0. focus' = focus /\ f \in DOMAIN Calls /\ Calls[f] \in Seq(Transaction)
    BY CallableCalls, CallsAssumption DEF ClientInv, focusVars
  <1>1. Moves(c, f, Calls[f], "step")
    BY <1>0, BeginsMoves DEF ClientInv
  <1>2. Done(c)' = 0
    BY <1>0, <1>1, SMTT(30) DEF Moves, Done
  <1>3. FollowsCall(c)'
    BY <1>0, <1>1, <1>2, SMTT(30) DEF Moves, FollowsCall, Callable
  <1>4. DoneSoFar(c)'
    <2>1. focus /= "none" => Len(Calls[Creator[focus]]) >= 1
      BY CreatorCalls, SMTT(30) DEF ClientInv
    <2>. QED  BY <1>0, <1>1, <1>2, <2>1, SMTT(30) DEF Moves, DoneSoFar, Achieved
  <1>5. OkIsDone(c)'
    BY <1>1 DEF Moves, OkIsDone
  <1>. QED  BY <1>1, <1>3, <1>4, <1>5, MoveKeeps, SMTT(30) DEF ClientOk, ClientInv

\* A client that sends a transaction, for the first time or again, has done
\* what it had done.
LEMMA SentOk ==
    ASSUME ClientInv, NEW c \in Clients, Busy(c), call[c].txs /= <<>>, UNCHANGED focusVars,
           Moves(c, call[c].function, call[c].txs, "sent")
    PROVE  ClientOk(c)'
  <1>0. /\ focus' = focus /\ size' = size /\ initialized' = initialized /\ closing' = closing
        /\ funded' = funded
    BY DEF focusVars
  <1>1. Done(c)' = Done(c) /\ Done(c) \in Nat
    BY CurrentIsNext DEF Moves, Done
  <1>2. FollowsCall(c)'
    BY <1>0, <1>1 DEF Moves, FollowsCall, Callable, ClientInv, ClientOk
  <1>3. DoneSoFar(c)'
    <2>. SUFFICES ASSUME focus /= "none", call[c].function = Creator[focus]
                  PROVE  Achieved(Done(c))
      BY <1>0, <1>1 DEF Moves, DoneSoFar, Achieved, Whole, Mistaken
    <2>1. Len(Calls[Creator[focus]]) \in Nat
      BY CreatorCalls, SMTT(30) DEF ClientInv
    <2>2. Achieved(Done(c)) \/ Achieved(Done(c) + 1)
      BY DEF ClientInv, ClientOk, DoneSoFar
    <2>. QED  BY <1>1, <2>1, <2>2, SMTT(30) DEF Achieved
  <1>4. OkIsDone(c)'
    BY DEF Moves, OkIsDone
  <1>. QED  BY <1>2, <1>3, <1>4 DEF ClientOk

\* A client that goes on to its next transaction relies on one more.
LEMMA AdvanceKeeps ==
    ASSUME ClientInv, NEW c \in Clients, Busy(c), call[c].txs /= <<>>,
           UNCHANGED <<focusVars, late>>,
           Moves(c, call[c].function, Tail(call[c].txs), "step"),
           focus /= "none" /\ call[c].function = Creator[focus] => Achieved(Done(c) + 1)
    PROVE  ClientInv'
  <1>0. /\ focus' = focus /\ size' = size /\ initialized' = initialized /\ closing' = closing
        /\ funded' = funded
    BY DEF focusVars
  <1>. DEFINE f == call[c].function
              txs == call[c].txs
              k == Done(c)
  <1>1. /\ Calls[f] \in Seq(Transaction) /\ f \in Callable /\ txs \in Seq(Transaction)
        /\ k \in Nat /\ k = Len(Calls[f]) - Len(txs)
        /\ \A i \in 1..Len(txs) : txs[i] = Calls[f][k + i]
    BY CurrentIsNext DEF ClientInv, ClientOk, FollowsCall, Done
  <1>. DEFINE rest == Tail(txs)
              l == Len(txs)
              m == Len(Calls[f])
  <1>2. Len(rest) = l - 1 /\ l \in Nat /\ l >= 1 /\ m \in Nat /\ k = m - l
    BY <1>1, RestOf, SMTT(30)
  <1>3. k \in Nat /\ \A i \in 1..Len(rest) : rest[i] = txs[i + 1]
    BY <1>1, RestOf
  <1>4. /\ call'[c].function = f /\ call'[c].txs = rest /\ call'[c].status = "step"
        /\ Done(c)' = m - Len(rest)
    BY DEF Moves, Done
  <1>. HIDE DEF f, txs, k, rest, l, m
  <1>5. Done(c)' = k + 1
    BY <1>2, <1>4, SMTT(30)
  <1>6. ASSUME NEW i \in 1..Len(rest)
        PROVE  rest[i] = Calls[f][k + 1 + i]
    <2>1. i \in Nat /\ i + 1 \in 1..l /\ k + (i + 1) = k + 1 + i
      BY <1>2, <1>3, SMTT(30)
    <2>. QED  BY <1>1, <1>3, <2>1 DEF l
  <1>7. FollowsCall(c)'
    BY <1>0, <1>1, <1>4, <1>5, <1>6, SMTT(30) DEF FollowsCall, Callable
  <1>8. DoneSoFar(c)'
    BY <1>0, <1>4, <1>5 DEF DoneSoFar, Achieved, Whole, Mistaken, f, k
  <1>9. OkIsDone(c)'
    BY <1>4 DEF OkIsDone
  <1>. QED  BY <1>7, <1>8, <1>9, MoveKeeps, SMTT(30) DEF ClientOk, ClientInv

-----------------------------------------------------------------------------
(* One lemma for each kind of step.                                        *)

\* Call and get_or_create_*: a client calls a function, or finds the account.
LEMMA CallKeeps ==
    ASSUME ClientInv, NEW c \in Clients, Call(c) \/ get_or_create(c)
    PROVE  ClientInv'
  <1>0. UNCHANGED <<focusVars, late>>
    BY DEF Call, get_or_create
  <1>1. CASE Call(c)
    BY <1>0, <1>1, BeginKeeps DEF Call
  <1>2. CASE focus \in Ensured /\ Begins(c, Creator[focus], TRUE)
    <2>1. Creator[focus] \in Callable
      BY <1>2, CreatorCalls DEF ClientInv, Ensured, Creator
    <2>. QED  BY <1>0, <1>2, <2>1, BeginKeeps
  <1>3. CASE focus \in Ensured /\ Returns(c, IF Whole THEN "ok" ELSE "err")
    <2>0. /\ focus' = focus /\ size' = size /\ initialized' = initialized
          /\ closing' = closing /\ focus /= "none"
      BY <1>0, <1>3 DEF focusVars, Ensured, Creator
    <2>1. CASE Whole
      <3>1. Moves(c, call[c].function, call[c].txs, "ok")
        BY <1>3, <2>1, ReturnsMoves DEF ClientInv
      <3>2. ClientOk(c)'
        BY <2>0, <2>1, <3>1 DEF Moves, ClientOk, FollowsCall, DoneSoFar, OkIsDone, Busy, Whole,
                                ClientInv, AccountSound
      <3>. QED  BY <1>0, <3>1, <3>2, MoveKeeps, SMTT(30) DEF ClientInv
    <2>2. CASE ~Whole
      <3>1. Moves(c, call[c].function, call[c].txs, "err")
        BY <1>3, <2>2, ReturnsMoves DEF ClientInv
      <3>. QED  BY <1>0, <3>1, QuitOk, MoveKeeps, SMTT(30) DEF ClientInv
    <2>. QED  BY <2>1, <2>2
  <1>. QED  BY <1>1, <1>2, <1>3 DEF get_or_create

\* Skip: a transaction that is not needed has been done by someone.
LEMMA SkipKeeps ==
    ASSUME ClientInv, NEW c \in Clients, Skip(c)
    PROVE  ClientInv'
  <1>0. Busy(c) /\ call[c].txs /= <<>> /\ UNCHANGED <<focusVars, late>>
    BY DEF Skip, Busy
  <1>1. ASSUME focus /= "none", call[c].function = Creator[focus]
        PROVE  Achieved(Done(c) + 1)
    <2>. DEFINE n == AccountPieces[focus]
                txs == Calls[Creator[focus]]
                k == Done(c)
    <2>1. /\ n \in Nat /\ n >= 1 /\ Len(txs) = IF n = 1 THEN 1 ELSE 2
          /\ txs[1].unless /= "gone" /\ (n > 1 => txs[2].unless = "never")
      BY <1>1, CreatorCalls DEF ClientInv
    <2>2. k \in Nat /\ k + 1 <= Len(txs) /\ CurrentTx(c) = txs[k + 1]
      BY <1>0, <1>1, CurrentIsNext
    <2>3. NotNeeded(CurrentTx(c))
      BY DEF Skip
    <2>4. size \in Nat /\ size <= n /\ (initialized <=> size = n)
      BY <1>1 DEF ClientInv, ClientTypes, AccountSound
    <2>. HIDE DEF k, n, txs
    <2>5. k = 0 \/ (k = 1 /\ n > 1)
      BY <2>1, <2>2, SMTT(30)
    <2>6. k = 0 /\ (size > 0 \/ (funded /\ txs[1].unless = "exists"))
      BY <2>1, <2>2, <2>3, <2>5, SMTT(30) DEF NotNeeded, Exists
    <2>7. n = 1 /\ size > 0 => size = n
      BY <2>1, <2>4, SMTT(30)
    <2>8. k + 1 >= Len(txs) => n = 1
      BY <2>1, <2>6, SMTT(30)
    <2>. QED  BY <1>1, <2>4, <2>6, <2>7, <2>8 DEF Achieved, Whole, Mistaken, n, txs, k
  <1>. QED  BY <1>0, <1>1, SkipMoves, AdvanceKeeps DEF ClientInv

\* Build: the transaction is sent, or cannot be built.
LEMMA BuildKeeps ==
    ASSUME ClientInv, NEW c \in Clients, Build(c)
    PROVE  ClientInv'
  <1>0. Busy(c) /\ call[c].txs /= <<>> /\ UNCHANGED <<focusVars, late>>
    BY DEF Build, Busy
  <1>1. CASE CurrentTx(c).panics
    <2>1. Moves(c, call[c].function, call[c].txs, "panic")
      BY <1>1, ReturnsMoves DEF Build, ClientInv
    <2>. QED  BY <1>0, <2>1, QuitOk, MoveKeeps DEF ClientInv
  <1>2. CASE ~CurrentTx(c).panics
    <2>1. Moves(c, call[c].function, call[c].txs, "sent")
      BY <1>2, ReturnsMoves DEF Build, ClientInv
    <2>. QED  BY <1>0, <2>1, SentOk, MoveKeeps, SMTT(30) DEF ClientInv
  <1>. QED  BY <1>1, <1>2

\* Return: after its last transaction a client is told of a success.
LEMMA ReturnKeeps ==
    ASSUME ClientInv, NEW c \in Clients, Return(c)
    PROVE  ClientInv'
  <1>0. Busy(c) /\ call[c].txs = <<>> /\ UNCHANGED <<focusVars, late>>
    BY DEF Return, Busy
  <1>1. CASE Returns(c, "err")
    <2>1. Moves(c, call[c].function, call[c].txs, "err")
      BY <1>1, ReturnsMoves DEF ClientInv
    <2>. QED  BY <1>0, <2>1, QuitOk, MoveKeeps, SMTT(30) DEF ClientInv
  <1>2. CASE Returns(c, "ok") /\ (Whole \/ ~call[c].ensure)
    <2>0. /\ focus' = focus /\ size' = size /\ initialized' = initialized
          /\ closing' = closing /\ funded' = funded
      BY <1>0 DEF focusVars
    <2>1. /\ Moves(c, call[c].function, call[c].txs, "ok")
          /\ call'[c].ensure = call[c].ensure
      BY <1>2, ReturnsMoves DEF ClientInv, ClientTypes, CallState, Returns
    <2>2. ASSUME focus /= "none", call[c].function \notin Range(Closer)
          PROVE  Whole \/ closing \/ (Mistaken /\ AccountPieces[focus] = 1)
      <3>1. call[c].function = Creator[focus]
        BY <1>0, <2>2, CallableCalls DEF ClientInv, ClientOk, FollowsCall
      <3>2. Len(Calls[Creator[focus]]) \in Nat /\ Len(call[c].txs) = 0
        BY <1>0, <2>2, CreatorCalls, SMTT(30) DEF ClientInv
      <3>3. Done(c) = Len(Calls[Creator[focus]])
        BY <3>1, <3>2, SMTT(30) DEF Done
      <3>4. Achieved(Done(c))
        BY <1>0, <2>2, <3>1 DEF ClientInv, ClientOk, DoneSoFar, Return
      <3>. QED  BY <3>2, <3>3, <3>4, SMTT(30) DEF Achieved
    <2>3. OkIsDone(c)'
      BY <1>2, <2>0, <2>1, <2>2 DEF Moves, OkIsDone, Whole, Mistaken, ClientInv, AccountSound
    <2>4. ClientOk(c)'
      BY <2>1, <2>3 DEF Moves, ClientOk, FollowsCall, DoneSoFar, Busy
    <2>. QED  BY <1>0, <2>1, <2>4, MoveKeeps, SMTT(30) DEF ClientInv
  <1>. QED  BY <1>1, <1>2 DEF Return

\* Confirm: the client hears that its transaction has landed.
LEMMA ConfirmKeeps ==
    ASSUME ClientInv, NEW c \in Clients, Confirm(c)
    PROVE  ClientInv'
  <1>0. Busy(c) /\ call[c].txs /= <<>> /\ UNCHANGED <<focusVars, late>>
    BY DEF Confirm, Busy, ClientInv, ClientOk, FollowsCall
  <1>1. focus /= "none" /\ call[c].function = Creator[focus] => Achieved(Done(c) + 1)
    BY <1>0 DEF Confirm, ClientInv, ClientOk, DoneSoFar
  <1>. QED  BY <1>0, <1>1, ConfirmMoves, AdvanceKeeps DEF ClientInv

\* Failed, NoAnswer, RpcError: the client tries again or gives up, and an
\* attempt it gave up on may land later.
LEMMA RetryKeeps ==
    ASSUME ClientInv, NEW c \in Clients, Failed(c) \/ NoAnswer(c) \/ RpcError(c)
    PROVE  ClientInv'
  <1>0. Busy(c) /\ UNCHANGED focusVars
    BY DEF Failed, NoAnswer, RpcError, Busy
  <1>1. CASE Failed(c) \/ NoAnswer(c)
    <2>0. call[c].txs /= <<>>
      BY <1>0, <1>1 DEF Failed, NoAnswer, ClientInv, ClientOk, FollowsCall
    <2>1. \A tx \in DOMAIN late' : OfCallable(tx)
      <3>1. DOMAIN late' = DOMAIN late
        BY <1>1 DEF Failed, NoAnswer
      <3>. QED  BY <3>1 DEF ClientInv
    <2>2. PICK outcome \in {"sent", "err"} : Moves(c, call[c].function, call[c].txs, outcome)
      BY <1>1, NextAttemptMoves DEF Failed, NoAnswer, ClientInv
    <2>3. ClientOk(c)'
      BY <1>0, <2>0, <2>2, SentOk, QuitOk
    <2>. QED  BY <1>0, <2>1, <2>2, <2>3, MoveKeeps
  <1>2. CASE RpcError(c)
    <2>1. Moves(c, call[c].function, call[c].txs, "err") /\ late' = late
      BY <1>2, ReturnsMoves DEF RpcError, ClientInv
    <2>. QED  BY <1>0, <2>1, QuitOk, MoveKeeps, SMTT(30) DEF ClientInv
  <1>. QED  BY <1>1, <1>2

\* LandSent: a transaction lands while its client waits for it, and does what
\* the client will be told it did.
LEMMA LandSentKeeps ==
    ASSUME ClientInv, NEW c \in Clients, LandSent(c)
    PROVE  ClientInv'
  <1>0. Busy(c) /\ call[c].status = "sent" /\ call[c].txs /= <<>> /\ late' = late
    BY DEF LandSent, Busy, ClientInv, ClientOk, FollowsCall
  <1>1. PICK ok \in BOOLEAN :
             Land(CurrentTx(c), ok) /\ Returns(c, IF ok THEN "confirmed" ELSE "failed")
    BY DEF LandSent
  <1>. DEFINE tx == CurrentTx(c)
              outcome == IF ok THEN "confirmed" ELSE "failed"
  <1>2. Moves(c, call[c].function, call[c].txs, outcome) /\ outcome \in {"confirmed", "failed"}
    BY <1>1, ReturnsMoves DEF ClientInv
  <1>3. /\ call[c].function \in Callable /\ Done(c) \in Nat /\ OfCallable(tx)
        /\ Done(c) + 1 <= Len(Calls[call[c].function])
        /\ tx = Calls[call[c].function][Done(c) + 1]
    BY <1>0, CurrentIsNext
  <1>4. /\ focus' = focus /\ size' \in Nat /\ funded' \in BOOLEAN
        /\ initialized' \in BOOLEAN /\ inits' \in Nat /\ due' \in BOOLEAN /\ closing' \in BOOLEAN
        /\ InitsCounted' /\ AccountSound' /\ NoAccount' /\ Better
    BY <1>1, <1>3, Lands DEF ClientInv
  <1>5. ClientTypes'
    BY <1>2, <1>4 DEF ClientInv, ClientTypes, Moves
  <1>6. Done(c)' = Done(c)
    BY <1>2 DEF Moves, Done
  <1>7. FollowsCall(c)'
    BY <1>0, <1>2, <1>4, <1>6 DEF Moves, FollowsCall, Callable, ClientInv, ClientOk
  <1>8. DoneSoFar(c)'
    <2>. SUFFICES ASSUME focus /= "none", call[c].function = Creator[focus]
                  PROVE  DoneSoFar(c)'
      BY <1>2, <1>4 DEF DoneSoFar, Moves
    <2>1. CASE ~ok
      <3>1. Achieved(Done(c))
        BY <1>0 DEF ClientInv, ClientOk, DoneSoFar
      <3>. QED  BY <1>2, <1>4, <1>6, <2>1, <3>1 DEF Moves, DoneSoFar, Achieved, Better
    <2>2. CASE ok
      <3>. DEFINE n == AccountPieces[focus]
                  txs == Calls[Creator[focus]]
                  k == Done(c)
      <3>1. /\ n \in Nat /\ n >= 1 /\ Len(txs) = IF n = 1 THEN 1 ELSE 2
            /\ txs[1].instruction \in Initializers
            /\ n > 1 => txs[2].instruction \in Reallocators /\ txs[2].times = n - 1
        BY CreatorCalls DEF ClientInv
      <3>2. k \in Nat /\ k + 1 <= Len(txs) /\ tx = txs[k + 1]
        BY <1>3
      <3>3. /\ tx.instruction \in Initializers => Creates(n)
            /\ tx.instruction \in Reallocators => Grows(n, tx.times)
        BY <1>1, <1>3, <2>2, <3>1, LandsOnAccount, CallableCalls DEF ClientInv
      <3>4. size \in Nat
        BY DEF ClientInv, ClientTypes
      <3>. HIDE DEF n, txs, k, tx
      <3>5. k = 0 \/ (k = 1 /\ n > 1)
        BY <3>1, <3>2, SMTT(30)
      <3>6. size' > 0 /\ (k + 1 >= Len(txs) => size' = n /\ initialized')
        <4>1. CASE k = 0
          <5>1. Creates(n)
            BY <3>1, <3>2, <3>3, <4>1, SMTT(30)
          <5>2. k + 1 >= Len(txs) => n = 1
            BY <3>1, <4>1, SMTT(30)
          <5>3. size' = 1 /\ size' > 0
            BY <5>1, SMTT(30) DEF Creates
          <5>4. n = 1 => initialized'
            BY <5>1 DEF Creates
          <5>. QED  BY <5>2, <5>3, <5>4
        <4>2. CASE k = 1 /\ n > 1
          <5>1. Grows(n, n - 1)
            BY <3>1, <3>2, <3>3, <4>2, SMTT(30)
          <5>2. size' = n
            BY <3>1, <3>4, <5>1, SMTT(30) DEF Grows
          <5>3. initialized'
            BY <5>1, <5>2 DEF Grows
          <5>4. size' > 0
            BY <3>1, <5>2, SMTT(30)
          <5>. QED  BY <5>2, <5>3, <5>4
        <4>. QED  BY <3>5, <4>1, <4>2
      <3>. QED  BY <1>2, <1>4, <1>6, <2>2, <3>6
                DEF Moves, DoneSoFar, Achieved, Whole, n, txs, k
    <2>. QED  BY <2>1, <2>2
  <1>9. OkIsDone(c)'
    BY <1>2 DEF Moves, OkIsDone
  <1>10. ClientOk(c)'
    BY <1>7, <1>8, <1>9 DEF ClientOk
  <1>. QED  BY <1>0, <1>2, <1>4, <1>5, <1>10, StepKeeps DEF Moves, ClientInv

\* LandLate: a transaction that was given up lands.
LEMMA LandLateKeeps ==
    ASSUME ClientInv, LandLate
    PROVE  ClientInv'
  <1>1. PICK tx \in Pending, ok \in BOOLEAN :
             Land(tx, ok) /\ late' = [late EXCEPT ![tx] = @ - 1]
    BY DEF LandLate
  <1>2. call' = call
    BY DEF LandLate
  <1>3. OfCallable(tx) /\ \A t \in DOMAIN late' : OfCallable(t)
    BY <1>1 DEF ClientInv, Pending
  <1>4. /\ focus' = focus /\ size' \in Nat /\ funded' \in BOOLEAN
        /\ initialized' \in BOOLEAN /\ inits' \in Nat /\ due' \in BOOLEAN /\ closing' \in BOOLEAN
        /\ InitsCounted' /\ AccountSound' /\ NoAccount' /\ Better
    BY <1>1, <1>3, Lands DEF ClientInv
  <1>5. ClientTypes'
    BY <1>2, <1>4 DEF ClientInv, ClientTypes
  <1>6. \A t \in DOMAIN late' : OfCallable(t)'
    BY <1>3, <1>4 DEF OfCallable, Callable
  <1>7. \A d \in Clients : ClientOk(d)'
    BY <1>2, <1>4, KeptClient DEF ClientInv
  <1>. QED  BY <1>2, <1>4, <1>5, <1>6, <1>7 DEF ClientInv

\* BecomesDue, and a step in which nothing happens.
LEMMA DueKeeps ==
    ASSUME ClientInv, BecomesDue \/ UNCHANGED callVars
    PROVE  ClientInv'
  <1>1. /\ focus' = focus /\ size' = size /\ initialized' = initialized /\ inits' = inits
        /\ closing' = closing /\ funded' = funded /\ call' = call /\ late' = late
    BY DEF BecomesDue, callVars, focusVars
  <1>2. due' \in BOOLEAN
    BY DEF BecomesDue, callVars, focusVars, ClientInv, ClientTypes
  <1>3. ClientTypes' /\ InitsCounted' /\ AccountSound' /\ NoAccount' /\ Better
    BY <1>1, <1>2 DEF ClientInv, ClientTypes, InitsCounted, AccountSound, NoAccount, Better,
                      Whole, Mistaken
  <1>4. \A tx \in DOMAIN late' : OfCallable(tx)'
    BY <1>1 DEF ClientInv, OfCallable, Callable
  <1>5. \A d \in Clients : ClientOk(d)'
    BY <1>1, <1>3, KeptClient DEF ClientInv
  <1>. QED  BY <1>1, <1>3, <1>4, <1>5 DEF ClientInv

\* Fund: lamports arrive where no account is, and nothing was relied on.
LEMMA FundKeeps ==
    ASSUME ClientInv, Fund
    PROVE  ClientInv'
  <1>1. /\ focus' = focus /\ size' = size /\ initialized' = initialized /\ inits' = inits
        /\ due' = due /\ closing' = closing /\ call' = call /\ late' = late
        /\ size = 0 /\ ~funded /\ funded' = TRUE
    BY DEF Fund
  <1>2. ClientTypes' /\ InitsCounted' /\ AccountSound' /\ NoAccount' /\ Better
    BY <1>1 DEF ClientInv, ClientTypes, InitsCounted, AccountSound, NoAccount, Better, Whole,
                Mistaken
  <1>3. \A tx \in DOMAIN late' : OfCallable(tx)'
    BY <1>1 DEF ClientInv, OfCallable, Callable
  <1>4. \A d \in Clients : ClientOk(d)'
    BY <1>1, <1>2, KeptClient DEF ClientInv
  <1>. QED  BY <1>1, <1>2, <1>3, <1>4 DEF ClientInv

\* The invariant holds from the start and in every step, for any number of
\* clients and any bounds.
LEMMA ClientInvariant == CallSpec => []ClientInv
  <1>1. CallInit => ClientInv
    <2>. SUFFICES ASSUME CallInit
                  PROVE  ClientInv
      OBVIOUS
    <2>1. Idle \in CallState /\ Idle.status = "idle"
      BY SMTT(30) DEF Idle, CallState
    <2>2. ClientTypes /\ \A c \in Clients : call[c].status = "idle"
      BY <2>1 DEF CallInit, ClientTypes
    <2>3. InitsCounted /\ NoAccount
      BY SMTT(30) DEF CallInit, InitsCounted, NoAccount
    <2>4. AccountSound
      <3>1. focus /= "none" => AccountPieces[focus] \in Nat /\ AccountPieces[focus] >= 1
        BY <2>2, CreatorCalls
      <3>. QED  BY <3>1, SMTT(30) DEF CallInit, AccountSound
    <2>5. \A tx \in DOMAIN late : OfCallable(tx)
      <3>1. \A f \in Callable : Calls[f] \in Seq(Transaction)
        BY <2>2, CallableCalls, CallsAssumption
      <3>. QED  BY <3>1, SMTT(30) DEF CallInit, CallableTxs, Range, OfCallable
    <2>6. \A c \in Clients : ClientOk(c)
      BY <2>2 DEF ClientOk, FollowsCall, DoneSoFar, OkIsDone, Busy
    <2>. QED  BY <2>2, <2>3, <2>4, <2>5, <2>6 DEF ClientInv
  <1>2. ClientInv /\ [CallNext]_callVars => ClientInv'
    <2>. SUFFICES ASSUME ClientInv, [CallNext]_callVars
                  PROVE  ClientInv'
      OBVIOUS
    <2>1. ASSUME NEW c \in Clients,
                 Call(c) \/ get_or_create(c) \/ Proceed(c) \/ LandSent(c) \/ NoAnswer(c)
                     \/ RpcError(c)
          PROVE  ClientInv'
      BY <2>1, CallKeeps, SkipKeeps, BuildKeeps, ReturnKeeps, ConfirmKeeps, RetryKeeps,
         LandSentKeeps DEF Proceed
    <2>. QED  BY <2>1, LandLateKeeps, DueKeeps, FundKeeps DEF CallNext, Clients
  <1>. QED  BY <1>1, <1>2, PTL DEF CallSpec

\* process_realloc_* writes the discriminator and the empty contents at most
\* once: reallocations of any number of clients, sent again or landing late,
\* never erase what has been recorded in an account.
THEOREM ReallocSafe == CallSpec => []InitializedOnce
  <1>1. ClientInv => InitializedOnce
    BY DEF ClientInv, InitsCounted, InitializedOnce
  <1>. QED  BY <1>1, ClientInvariant, PTL

\* send_transactions tells no client of a success that has not happened: for
\* any number of clients, retries, failures of the node and late transactions,
\* the account a client was told of is whole and initialised, unless its epoch
\* has been closed since, and what it was told is closed stays gone.  Lamports
\* at the address can only deceive a create_* of an account of one piece.
THEOREM OkSafe == CallSpec => []OkMeansDone
  <1>1. ClientInv => OkMeansDone
    BY DEF ClientInv, ClientOk, OkIsDone, OkMeansDone
  <1>. QED  BY <1>1, ClientInvariant, PTL

=============================================================================
