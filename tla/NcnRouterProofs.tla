-------------------------- MODULE NcnRouterProofs ---------------------------
(***************************************************************************)
(* The NCN's reward router, for any number of operators, any stakes and    *)
(* fees, any amounts that arrive and any max_iterations: every handler     *)
(* keeps the first stage's part of the invariant of RewardRouterProofs.    *)
(*                                                                         *)
(* Every part of it rests on what an interrupted call leaves behind: where *)
(* it stopped, the amount the shares are computed from, and what is left   *)
(* of it.                                                                  *)
(***************************************************************************)
EXTENDS NCNRewardRouter, SumTheorems

\* Zenon is tried first; a step that needs arithmetic asks for the SMT solver.
USE ZenonT(30), SMTT(30)

Progress == [tally : Nat, total : Nat]
Progresses == {"total", "ncn", "protocol", "operator_vault"}

\* RouterTypeOK one variable at a time, with the history and the progress.
RouterTypes ==
    /\ votes \in Seq([operator : Operators, wins : BOOLEAN])
    /\ voting_open \in BOOLEAN /\ reopens \in Nat /\ fees \in Fees
    /\ deposited \in Nat /\ receiver \in Nat /\ router_live \in BOOLEAN
    /\ total_rewards \in Nat /\ reward_pool \in Nat /\ rewards_processed \in Nat
    /\ protocol_rewards \in Nat /\ ncn_rewards \in Nat
    /\ operator_vault_rewards \in Nat
    /\ protocol_fee_wallet \in Nat /\ ncn_fee_wallet \in Nat
    /\ routes \in [Operators -> Nat]
    /\ operator_receiver \in [Operators -> Nat]
    /\ received \in [Operators -> Nat]
    /\ last_vote_index \in {None} \cup Nat
    /\ last_rewards_to_process \in {None} \cup Nat
    /\ distribution \in [Progresses -> Progress]

\* The index and the amount are saved together, the amount is not 0, and
\* without them nothing is set aside for the operators.
RoutingState ==
    /\ last_vote_index = None <=> last_rewards_to_process = None
    /\ StillRouting => last_rewards_to_process > 0
    /\ ~StillRouting => operator_vault_rewards = 0
    /\ reward_pool = 0

\* The winning votes of an operator from an index on, and their weight.
WinsFrom(o, start) == {k \in Winners : votes[k].operator = o /\ k >= start}
WeightFrom(o, start) == SumFunctionOnSet(Weight, WinsFrom(o, start))

\* The weight that the round in progress has not served yet.
Unserved(o) == IF StillRouting THEN last_rewards_to_process * WeightFrom(o, last_vote_index)
                               ELSE 0

\* What operators were given so far, and what the round in progress may still
\* give them, is within their part of all rewards, while the voting window
\* was not reopened.  Nothing is routed while it is open.
FairRounds == reopens = 0 =>
    /\ voting_open => /\ ~StillRouting /\ total_rewards = 0
                      /\ \A o \in Operators : routes[o] = 0 /\ received[o] = 0
    /\ StillRouting => last_rewards_to_process <= total_rewards
    /\ \A o \in Operators :
           (routes[o] + received[o]) * WinningStakeWeight + Unserved(o)
               <= total_rewards * WeightFrom(o, 0)

NcnInv ==
    /\ RouterTypes
    /\ RoutingState
    /\ Solvent
    /\ ProcessedAddsUp
    /\ ResumeIsExact
    /\ FairRounds

----------------------------------------------------------------------------
(* The shares of the operators.                                            *)

\* Every winning vote has a share, of at most its part by stake: the
\* divisor is not 0 when the weight is not.
LEMMA SharesOk ==
    ASSUME RouterTypes, NEW r \in Nat
    PROVE  /\ IsFiniteSet(Winners) /\ Winners \subseteq DOMAIN votes
           /\ Winners \subseteq Nat /\ WinningStakeWeight \in Nat
           /\ \A k \in Winners :
                  /\ votes[k].operator \in Operators
                  /\ Weight[k] \in Nat /\ Shares(r)[k] \in Nat
                  /\ Shares(r)[k] * WinningStakeWeight <= r * Weight[k]
  <1>1. Winners \subseteq DOMAIN votes /\ DOMAIN votes = 1..Len(votes) /\ Len(votes) \in Nat
    BY SMTT(30) DEF Winners, RouterTypes
  <1>2. IsFiniteSet(1..Len(votes))
    <2>1. 1 \in Int /\ Len(votes) \in Int
      BY <1>1, SMTT(30)
    <2>. QED  BY <2>1, FS_Interval
  <1>3. IsFiniteSet(Winners) /\ Winners \subseteq Nat
    BY <1>1, <1>2, FS_Subset, SMTT(30)
  <1>4. ASSUME NEW k \in Winners
        PROVE  votes[k].operator \in Operators
    <2>. DEFINE V == [operator : Operators, wins : BOOLEAN]
    <2>1. votes \in Seq(V)
      BY DEF RouterTypes
    <2>2. votes[k] \in V
      <3>. HIDE DEF V
      <3>. QED  BY <1>1, <2>1, SMTT(30)
    <2>. QED  BY <2>2
  <1>5. \A k \in Winners : Weight[k] \in Nat
    BY <1>1, <1>4, RouterAssumption DEF Weight
  <1>6. WinningStakeWeight \in Nat
    BY <1>3, <1>5, SumType DEF WinningStakeWeight
  <1>7. ASSUME NEW k \in Winners
        PROVE  Shares(r)[k] \in Nat /\ Shares(r)[k] * WinningStakeWeight <= r * Weight[k]
    <2>1. Shares(r)[k] = CalculateOperatorShare(Weight[k], WinningStakeWeight, r)
      BY <1>1 DEF Shares
    <2>2. Weight[k] <= WinningStakeWeight
      BY <1>3, <1>5, SumMember DEF WinningStakeWeight
    <2>. DEFINE w == Weight[k]
                W == WinningStakeWeight
                s == Shares(r)[k]
    <2>3. /\ w \in Nat /\ W \in Nat /\ w <= W
          /\ s = IF w = 0 \/ r = 0 THEN 0 ELSE (r * w) \div W
      BY <1>5, <1>6, <2>1, <2>2 DEF CalculateOperatorShare
    <2>. HIDE DEF w, W, s
    <2>4. CASE w = 0 \/ r = 0
      <3>1. s = 0 /\ r * w = 0
        BY <2>3, <2>4, SMTT(30)
      <3>2. s \in Nat /\ s * W <= r * w
        BY <2>3, <3>1, SMTT(30)
      <3>. QED  BY <3>2 DEF s, W, w
    <2>5. CASE ~(w = 0 \/ r = 0)
      <3>1. W \in Nat \ {0} /\ r * w \in Nat /\ s = (r * w) \div W
        BY <2>3, <2>5, SMTT(30)
      <3>2. s \in Nat /\ W * s <= r * w
        BY <3>1, DivBounds
      <3>3. s * W = W * s
        BY <3>1, <3>2, SMTT(30)
      <3>4. s \in Nat /\ s * W <= r * w
        BY <3>2, <3>3
      <3>. QED  BY <3>4 DEF s, W, w
    <2>. QED  BY <2>4, <2>5
  <1>. QED  BY <1>1, <1>3, <1>4, <1>5, <1>6, <1>7

\* The winning votes from an index on, and those that a call does not reach.
Todo(start) == {k \in Winners : k >= start}
Rest(start, m) == Todo(start) \ RoutedNow(start, m)

\* What such a call adds to an operator's route.
Given(o, start, m, rewards) ==
    SumFunctionOnSet(Shares(rewards), {k \in RoutedNow(start, m) : votes[k].operator = o})

\* A call serves the winning votes from its start in order, and the index it
\* saves is the first that is left.
LEMMA StopsAtMin ==
    ASSUME RouterTypes, NEW start \in Nat, NEW m \in Nat,
           NEW later, later = Rest(start, m)
    PROVE  /\ RoutedNow(start, m) \subseteq Todo(start)
           /\ later # {} =>
                  /\ Min(later) \in Nat /\ Min(later) >= start
                  /\ \A k \in Winners :
                         k \in RoutedNow(start, m) <=> k >= start /\ k < Min(later)
  <1>. DEFINE todo == {k \in Winners : k >= start}
              Before(k) == {j \in todo : j < k}
              budget == IF m = 0 THEN 1 ELSE m
  <1>8. todo = Todo(start) /\ later = todo \ RoutedNow(start, m)
    BY DEF Todo, Rest
  <1>0. 0 \in Nat
    OBVIOUS
  <1>1. IsFiniteSet(Winners) /\ Winners \subseteq Nat
    BY <1>0, SharesOk
  <1>2. IsFiniteSet(todo) /\ todo \subseteq Nat
    BY <1>1, FS_Subset
  <1>3. RoutedNow(start, m) = {k \in todo : Cardinality(Before(k)) < budget}
    BY DEF RoutedNow
  <1>4. ASSUME later # {}
        PROVE  Min(later) \in later /\ \A y \in later : Min(later) <= y
    <2>1. later \in SUBSET Nat /\ IsFiniteSet(later)
      BY <1>2, <1>8, FS_Subset
    <2>2. \E x \in later : \A y \in later : x <= y
      BY <1>4, <2>1, FiniteHasMin
    <2>. QED  BY <2>2 DEF Min
  <1>5. ASSUME NEW k \in RoutedNow(start, m), NEW j \in later
        PROVE  k < j
    <2>1. k \in todo /\ j \in todo /\ Cardinality(Before(k)) < budget
          /\ ~(Cardinality(Before(j)) < budget)
      BY <1>3, <1>8
    <2>2. k \in Nat /\ j \in Nat /\ budget \in Nat
      BY <1>2, <2>1
    <2>3. ASSUME ~(k < j)
          PROVE  FALSE
      <3>1. Before(j) \subseteq Before(k)
        BY <1>2, <2>2, <2>3, SMTT(30)
      <3>2. IsFiniteSet(Before(k)) /\ IsFiniteSet(Before(j))
        BY <1>2, FS_Subset
      <3>3. Cardinality(Before(j)) <= Cardinality(Before(k))
        BY <3>1, <3>2, FS_Subset
      <3>4. Cardinality(Before(j)) \in Nat /\ Cardinality(Before(k)) \in Nat
        BY <3>2, FS_CardinalityType
      <3>. DEFINE a == Cardinality(Before(j))
                  b == Cardinality(Before(k))
                  c == budget
      <3>5. a \in Nat /\ b \in Nat /\ c \in Nat /\ a <= b /\ b < c /\ ~(a < c)
        BY <2>1, <2>2, <3>3, <3>4
      <3>. HIDE DEF a, b, c
      <3>. QED  BY <3>5, SMTT(30)
    <2>. QED  BY <2>3
  <1>6. RoutedNow(start, m) \subseteq todo
    BY <1>3
  <1>7. ASSUME later # {}
        PROVE  /\ Min(later) \in Nat /\ Min(later) >= start
               /\ \A k \in Winners :
                      k \in RoutedNow(start, m) <=> k >= start /\ k < Min(later)
    <2>. DEFINE x == Min(later)
    <2>1. x \in later /\ \A y \in later : x <= y
      BY <1>4, <1>7
    <2>2. x \in Nat /\ x >= start
      BY <1>1, <1>8, <2>1
    <2>3. \A k \in RoutedNow(start, m) : k < x
      BY <1>5, <2>1
    <2>4. \A k \in Winners : k \in Nat
      BY <1>1
    <2>. HIDE DEF x
    <2>5. ASSUME NEW k \in Winners, k >= start, k < x
          PROVE  k \in RoutedNow(start, m)
      BY <1>8, <2>1, <2>2, <2>4, <2>5, SMTT(30)
    <2>6. \A k \in Winners : k \in RoutedNow(start, m) <=> k >= start /\ k < x
      BY <1>6, <2>3, <2>5
    <2>. QED  BY <2>2, <2>6 DEF x
  <1>. QED  BY <1>6, <1>7, <1>8

----------------------------------------------------------------------------
(* A call of route_operator_vault_rewards.                                 *)

\* The round a call works on: where it starts and the amount the shares are
\* computed from, the votes it reaches, those it leaves and what it gives.
Round(available, m, start, rewards, now, later, sum) ==
    /\ start = IF StillRouting THEN last_vote_index ELSE 1
    /\ rewards = IF StillRouting THEN last_rewards_to_process ELSE available
    /\ now = RoutedNow(start, m)
    /\ later = Rest(start, m)
    /\ sum = SumFunctionOnSet(Shares(rewards), now)

\* What a call does: every operator's route grows by the shares of its votes
\* that were reached, and what is left is kept for the next call or, when
\* there is none, goes to the NCN.
LEMMA RouteParts ==
    ASSUME RouterTypes, RoutingState,
           NEW available \in Nat, NEW fresh \in Nat, NEW m \in Nat,
           RouteOperatorVaultRewards(available, fresh, m),
           NEW start, NEW rewards, NEW now, NEW later, NEW sum,
           Round(available, m, start, rewards, now, later, sum)
    PROVE  /\ start \in Nat /\ rewards \in Nat /\ sum \in Nat /\ sum <= available
           /\ now \subseteq Winners
           /\ IsFiniteSet(now)
           /\ routes' \in [Operators -> Nat]
           /\ \A o \in Operators :
                  routes'[o] = routes[o] + Given(o, start, m, rewards)
           /\ Routed' = Routed + sum
           /\ rewards > 0 /\ later # {} =>
                  /\ last_vote_index' = Min(later)
                  /\ last_rewards_to_process' = rewards
                  /\ operator_vault_rewards' = available - sum
                  /\ ncn_rewards' = ncn_rewards + fresh
           /\ ~(rewards > 0 /\ later # {}) =>
                  /\ last_vote_index' = None
                  /\ last_rewards_to_process' = None
                  /\ operator_vault_rewards' = 0
                  /\ ncn_rewards' = ncn_rewards + fresh + (available - sum)
  <1>0. /\ start = IF StillRouting THEN last_vote_index ELSE 1
        /\ rewards = IF StillRouting THEN last_rewards_to_process ELSE available
        /\ now = RoutedNow(start, m) /\ later = Rest(start, m)
        /\ sum = SumFunctionOnSet(Shares(rewards), now)
    BY DEF Round
  <1>. USE <1>0
  <1>1. start \in Nat /\ rewards \in Nat
    BY DEF RouterTypes, RoutingState, StillRouting, None
  <1>2. /\ IsFiniteSet(Winners)
        /\ \A k \in Winners : votes[k].operator \in Operators /\ Shares(rewards)[k] \in Nat
    BY <1>1, SharesOk
  <1>3. now \subseteq Winners
    BY <1>1, StopsAtMin DEF Todo
  <1>4. IsFiniteSet(now) /\ now \subseteq Winners
    BY <1>2, <1>3, FS_Subset
  <1>5. sum \in Nat
    BY <1>2, <1>4, SumType
  <1>. DEFINE share == Shares(rewards)
              Of(o) == SumFunctionOnSet(share, {k \in now : votes[k].operator = o})
              h == [o \in Operators |-> Of(o)]
              part == [o \in Operators |-> {k \in now : votes[k].operator = o}]
  <1>6. /\ available - sum >= 0
        /\ routes' = [o \in Operators |-> routes[o] + Of(o)]
        /\ IF rewards > 0 /\ later # {}
           THEN /\ last_vote_index' = Min(later)
                /\ last_rewards_to_process' = rewards
                /\ operator_vault_rewards' = available - sum
                /\ ncn_rewards' = ncn_rewards + fresh
           ELSE /\ operator_vault_rewards' = 0
                /\ ncn_rewards' = ncn_rewards + fresh + (available - sum)
                /\ IF rewards > 0
                   THEN /\ last_vote_index' = None
                        /\ last_rewards_to_process' = None
                   ELSE UNCHANGED routingVars
    BY DEF RouteOperatorVaultRewards, SaveRoutingState, Rest, Todo
  <1>7. ~(rewards > 0) => last_vote_index = None /\ last_rewards_to_process = None
    BY <1>1 DEF RoutingState, StillRouting, RouterTypes
  <1>8. \A o \in Operators : Of(o) \in Nat
    <2>1. \A o \in Operators : IsFiniteSet({k \in now : votes[k].operator = o})
      BY <1>4, FS_Subset
    <2>. QED  BY <1>2, <1>4, <2>1, SumType
  <1>9. routes' \in [Operators -> Nat]
    <2>. HIDE DEF Of
    <2>. QED  BY <1>6, <1>8, SMTT(30) DEF RouterTypes
  <1>10. SumFunctionOnSet(h, Operators) = sum
    <2>1. IsFiniteSet(Operators)
      BY RouterAssumption
    <2>2. \A k \in now : share[k] \in Nat /\ \E o \in Operators : k \in part[o]
      BY <1>2, <1>4
    <2>3. /\ \A o \in Operators : part[o] \subseteq now /\ h[o] = SumFunctionOnSet(share, part[o])
          /\ \A o, p \in Operators : o # p => part[o] \cap part[p] = {}
      OBVIOUS
    <2>4. sum = SumFunctionOnSet(share, now)
      OBVIOUS
    <2>. HIDE DEF h, part, share
    <2>5. SumFunctionOnSet(h, Operators) = SumFunctionOnSet(share, now)
      BY <1>4, <2>1, <2>2, <2>3, SumByParts, SMTT(30)
    <2>. QED  BY <2>4, <2>5
  <1>11. SumFunctionOnSet(routes', Operators)
             = SumFunctionOnSet(routes, Operators) + SumFunctionOnSet(h, Operators)
    <2>1. \A o \in Operators : /\ routes[o] \in Nat /\ h[o] \in Nat
                               /\ routes'[o] = routes[o] + h[o]
      <3>. HIDE DEF Of
      <3>. QED  BY <1>6, <1>8 DEF RouterTypes
    <2>2. IsFiniteSet(Operators)
      BY RouterAssumption
    <2>. HIDE DEF h
    <2>. QED  BY <2>1, <2>2, SumPlus, SMTT(30)
  <1>12. Routed' = Routed + sum
    BY <1>10, <1>11 DEF Routed
  <1>13. \A o \in Operators : routes'[o] = routes[o] + Given(o, start, m, rewards)
    <2>1. \A o : Of(o) = Given(o, start, m, rewards)
      BY DEF Given
    <2>. HIDE DEF Of
    <2>. QED  BY <1>6, <2>1
  <1>14. sum <= available
    BY <1>5, <1>6, SMTT(30)
  <1>. QED  BY <1>1, <1>3, <1>4, <1>5, <1>6, <1>7, <1>9, <1>12, <1>13, <1>14
              DEF routingVars

\* What an interruption leaves is the amount of the round less the shares of
\* everybody reached so far, in this call and in the calls before it.
LEMMA RoundLeft ==
    ASSUME RouterTypes, NEW start \in Nat, NEW rewards \in Nat, NEW m \in Nat,
           NEW available \in Nat,
           available = rewards - SumFunctionOnSet(Shares(rewards), {k \in Winners : k < start}),
           NEW later, later = Rest(start, m),
           later # {}
    PROVE  available - SumFunctionOnSet(Shares(rewards), RoutedNow(start, m))
               = rewards - SumFunctionOnSet(Shares(rewards), {k \in Winners : k < Min(later)})
  <1>. DEFINE old == {k \in Winners : k < start}
              now == RoutedNow(start, m)
              all == {k \in Winners : k < Min(later)}
              share == Shares(rewards)
  <1>1. /\ IsFiniteSet(Winners) /\ Winners \subseteq Nat
        /\ \A k \in Winners : share[k] \in Nat
    BY SharesOk
  <1>2. /\ Min(later) \in Nat /\ Min(later) >= start
        /\ now \subseteq Winners
        /\ \A k \in Winners : k \in now <=> k >= start /\ k < Min(later)
    BY StopsAtMin DEF Todo
  <1>3. IsFiniteSet(old) /\ IsFiniteSet(now)
    BY <1>1, <1>2, FS_Subset
  <1>4. all = old \cup now /\ old \cap now = {}
    <2>. DEFINE x == Min(later)
    <2>1. x \in Nat /\ x >= start /\ all = {k \in Winners : k < x}
      BY <1>2
    <2>2. \A k \in Winners : k \in Nat /\ (k \in now <=> k >= start /\ k < x)
      BY <1>1, <1>2
    <2>. HIDE DEF now, all, x
    <2>. QED  BY <1>2, <2>1, <2>2, SMTT(30)
  <1>5. \A k \in old \cup now : share[k] \in Nat
    <2>. HIDE DEF now
    <2>. QED  BY <1>1, <1>2
  <1>. DEFINE a == SumFunctionOnSet(share, old)
              b == SumFunctionOnSet(share, now)
              c == SumFunctionOnSet(share, all)
  <1>6. a \in Nat /\ b \in Nat /\ c = a + b /\ available = rewards - a
    <2>. HIDE DEF old, now, all, share
    <2>1. c = SumFunctionOnSet(share, old \cup now)
      BY <1>4
    <2>2. c = a + b
      BY <1>3, <1>4, <1>5, <2>1, SumUnion
    <2>3. a \in Nat /\ b \in Nat
      BY <1>3, <1>5, SumType
    <2>. QED  BY <2>2, <2>3 DEF old, share
  <1>7. available - b = rewards - c
    <2>. HIDE DEF a, b, c
    <2>. QED  BY <1>6, SMTT(30)
  <1>. QED  BY <1>7

\* What a call gives an operator, and what the round may still give it,
\* is within the part by stake that the round had for it before the call.
LEMMA RoundShare ==
    ASSUME RouterTypes, NEW start \in Nat, NEW rewards \in Nat, NEW m \in Nat,
           NEW o \in Operators
    PROVE  /\ Given(o, start, m, rewards) \in Nat
           /\ WeightFrom(o, start) \in Nat
           /\ Given(o, start, m, rewards) * WinningStakeWeight
                  <= rewards * WeightFrom(o, start)
           /\ Rest(start, m) # {} =>
                  /\ WeightFrom(o, Min(Rest(start, m))) \in Nat
                  /\ Given(o, start, m, rewards) * WinningStakeWeight
                           + rewards * WeightFrom(o, Min(Rest(start, m)))
                         <= rewards * WeightFrom(o, start)
  <1>. DEFINE given == Given(o, start, m, rewards)
              later == Rest(start, m)
  <1>. DEFINE mine == {k \in RoutedNow(start, m) : votes[k].operator = o}
              share == Shares(rewards)
              W == WinningStakeWeight
              n == SumFunctionOnSet(Weight, mine)
              a == WeightFrom(o, start)
  <1>1. /\ IsFiniteSet(Winners) /\ Winners \subseteq Nat /\ W \in Nat
        /\ \A k \in Winners : /\ Weight[k] \in Nat /\ share[k] \in Nat
                              /\ share[k] * W <= rewards * Weight[k]
    BY SharesOk
  <1>2. mine \subseteq WinsFrom(o, start)
    BY StopsAtMin DEF WinsFrom, Todo
  <1>3. IsFiniteSet(WinsFrom(o, start)) /\ WinsFrom(o, start) \subseteq Winners
    BY <1>1, FS_Subset DEF WinsFrom
  <1>4. IsFiniteSet(mine) /\ mine \subseteq Winners
    BY <1>2, <1>3, FS_Subset
  <1>5. given \in Nat /\ given = SumFunctionOnSet(share, mine) /\ n \in Nat /\ a \in Nat
    BY <1>1, <1>3, <1>4, SumType DEF WeightFrom, Given
  <1>6. given * W <= rewards * n
    <2>1. \A k \in mine : /\ share[k] \in Nat /\ Weight[k] \in Nat
                          /\ share[k] * W <= rewards * Weight[k]
      BY <1>1, <1>4
    <2>. HIDE DEF mine, share, W
    <2>2. SumFunctionOnSet(share, mine) * W <= rewards * SumFunctionOnSet(Weight, mine)
      BY <1>1, <1>4, <2>1, SumScaled
    <2>. QED  BY <1>5, <2>2
  <1>7. n <= a
    <2>1. /\ \A k \in WinsFrom(o, start) : Weight[k] \in Nat
          /\ \A k \in mine : Weight[k] \in Nat /\ Weight[k] <= Weight[k]
      <3>1. \A k \in Winners : Weight[k] \in Nat
        BY <1>1
      <3>2. \A x \in Nat : x <= x
        BY SMTT(30)
      <3>. HIDE DEF mine
      <3>. QED  BY <1>3, <1>4, <3>1, <3>2
    <2>. HIDE DEF mine
    <2>. QED  BY <1>2, <1>3, <2>1, SumMonotone DEF WeightFrom
  <1>8. given * W <= rewards * a
    <2>. HIDE DEF n, a, W
    <2>1. rewards * n <= rewards * a
      BY <1>5, <1>7, SMTT(30)
    <2>2. given * W \in Nat /\ rewards * n \in Nat /\ rewards * a \in Nat
      BY <1>1, <1>5, SMTT(30)
    <2>. QED  BY <1>6, <2>1, <2>2, SMTT(30)
  <1>9. ASSUME later # {}
        PROVE  /\ WeightFrom(o, Min(later)) \in Nat
               /\ given * W + rewards * WeightFrom(o, Min(later)) <= rewards * a
    <2>. DEFINE rest == WinsFrom(o, Min(later))
                b == WeightFrom(o, Min(later))
    <2>1. /\ Min(later) \in Nat /\ Min(later) >= start
          /\ \A k \in Winners :
                 k \in RoutedNow(start, m) <=> k >= start /\ k < Min(later)
      BY <1>9, StopsAtMin
    <2>2. WinsFrom(o, start) = mine \cup rest /\ mine \cap rest = {}
      <3>1. \A k \in Winners : k \in Nat
        BY <1>1
      <3>. DEFINE x == Min(later)
      <3>2. x \in Nat /\ x >= start
        BY <2>1
      <3>3. \A k \in Winners : (k \in mine) <=> (votes[k].operator = o /\ k >= start /\ k < x)
        BY <2>1
      <3>4. \A k \in Winners : k \in rest <=> (votes[k].operator = o /\ k >= x)
        BY DEF WinsFrom
      <3>5. rest \subseteq Winners
        BY DEF WinsFrom
      <3>. HIDE DEF x, mine, rest
      <3>. QED  BY <1>4, <3>1, <3>2, <3>3, <3>4, <3>5, SMTT(30) DEF WinsFrom
    <2>3. IsFiniteSet(rest) /\ rest \subseteq Winners
      BY <1>1, FS_Subset DEF WinsFrom
    <2>4. a = n + b /\ b \in Nat
      <3>. HIDE DEF mine, rest
      <3>1. \A k \in mine \cup rest : Weight[k] \in Nat
        BY <1>1, <1>4, <2>3
      <3>2. SumFunctionOnSet(Weight, mine \cup rest)
                = SumFunctionOnSet(Weight, mine) + SumFunctionOnSet(Weight, rest)
        BY <1>4, <2>2, <2>3, <3>1, SumUnion
      <3>3. SumFunctionOnSet(Weight, rest) \in Nat
        BY <2>3, <3>1, SumType
      <3>4. b = SumFunctionOnSet(Weight, rest)
        BY DEF rest, WeightFrom
      <3>. QED  BY <2>2, <3>2, <3>3, <3>4 DEF WeightFrom
    <2>5. given * W + rewards * b <= rewards * a
      <3>. HIDE DEF n, a, W, b
      <3>1. rewards * a = rewards * n + rewards * b
        BY <1>5, <2>4, SMTT(30)
      <3>2. given * W \in Nat /\ rewards * n \in Nat /\ rewards * b \in Nat
        BY <1>1, <1>5, <2>4, SMTT(30)
      <3>. QED  BY <1>6, <3>1, <3>2, SMTT(30)
    <2>. QED  BY <2>4, <2>5
  <1>. QED  BY <1>5, <1>8, <1>9

\* The definitions that only depend on the votes.
LEMMA VotesKept ==
    ASSUME votes' = votes
    PROVE  /\ Winners' = Winners /\ Weight' = Weight
           /\ WinningStakeWeight' = WinningStakeWeight
           /\ \A r : Shares(r)' = Shares(r)
           /\ \A o, k : WeightFrom(o, k)' = WeightFrom(o, k)
  BY DEF Winners, Weight, WinningStakeWeight, Shares, WeightFrom, WinsFrom

\* A call keeps the saved state consistent and the books exact, and leaves
\* what the next call needs.
LEMMA RouteOperatorsKeeps ==
    ASSUME NcnInv, NEW available \in Nat, NEW fresh \in Nat, NEW m \in Nat,
           RouteOperatorVaultRewards(available, fresh, m),
           votes' = votes, reopens' = reopens, received' = received,
           StillRouting => available = operator_vault_rewards,
           NEW start, start = IF StillRouting THEN last_vote_index ELSE 1,
           NEW rewards,
           rewards = IF StillRouting THEN last_rewards_to_process ELSE available
    PROVE  /\ routes' \in [Operators -> Nat]
           /\ operator_vault_rewards' \in Nat /\ ncn_rewards' \in Nat
           /\ last_vote_index' \in {None} \cup Nat
           /\ last_rewards_to_process' \in {None} \cup Nat
           /\ last_vote_index' = None <=> last_rewards_to_process' = None
           /\ StillRouting' => last_rewards_to_process' > 0
                               /\ last_rewards_to_process' = rewards
           /\ ~StillRouting' => operator_vault_rewards' = 0
           /\ Routed' + operator_vault_rewards' + ncn_rewards'
                  = Routed + available + ncn_rewards + fresh
           /\ ResumeIsExact'
           /\ \A o \in Operators :
                  /\ WeightFrom(o, start) \in Nat
                  /\ (routes'[o] + received'[o]) * WinningStakeWeight + Unserved(o)'
                         <= (routes[o] + received[o]) * WinningStakeWeight
                              + rewards * WeightFrom(o, start)
  <1>. DEFINE now == RoutedNow(start, m)
              later == Rest(start, m)
              sum == SumFunctionOnSet(Shares(rewards), now)
              more == rewards > 0 /\ later # {}
  <1>0. RouterTypes /\ RoutingState
    BY DEF NcnInv
  <1>a. /\ Round(available, m, start, rewards, now, later, sum)
        /\ later = Rest(start, m)
    BY DEF Round
  <1>. HIDE DEF now, later, sum
  <1>1. /\ start \in Nat /\ rewards \in Nat /\ sum \in Nat /\ sum <= available
        /\ routes' \in [Operators -> Nat]
        /\ \A o \in Operators : routes'[o] = routes[o] + Given(o, start, m, rewards)
        /\ Routed' = Routed + sum
        /\ more => /\ last_vote_index' = Min(later)
                   /\ last_rewards_to_process' = rewards
                   /\ operator_vault_rewards' = available - sum
                   /\ ncn_rewards' = ncn_rewards + fresh
        /\ ~more => /\ last_vote_index' = None
                    /\ last_rewards_to_process' = None
                    /\ operator_vault_rewards' = 0
                    /\ ncn_rewards' = ncn_rewards + fresh + (available - sum)
    BY <1>0, <1>a, RouteParts, SMTT(30)
  <1>2. later # {} => Min(later) \in Nat
    BY <1>0, <1>a, <1>1, StopsAtMin
  <1>3. Routed \in Nat /\ ncn_rewards \in Nat
    <2>1. \A o \in Operators : routes[o] \in Nat
      BY <1>0 DEF RouterTypes
    <2>. QED  BY <1>0, <2>1, RouterAssumption, SumType DEF Routed, RouterTypes
  <1>4. /\ operator_vault_rewards' \in Nat /\ ncn_rewards' \in Nat
        /\ Routed' + operator_vault_rewards' + ncn_rewards'
               = Routed + available + ncn_rewards + fresh
    <2>. DEFINE a == Routed
                b == Routed'
    <2>1. a \in Nat /\ b = a + sum
      BY <1>1, <1>3
    <2>. HIDE DEF a, b
    <2>2. /\ operator_vault_rewards' \in Nat /\ ncn_rewards' \in Nat
          /\ b + operator_vault_rewards' + ncn_rewards' = a + available + ncn_rewards + fresh
      <3>1. CASE more
        BY <1>1, <1>3, <2>1, <3>1, SMTT(30)
      <3>2. CASE ~more
        BY <1>1, <1>3, <2>1, <3>2, SMTT(30)
      <3>. QED  BY <3>1, <3>2
    <2>. QED  BY <2>2 DEF a, b
  <1>5. /\ last_vote_index' \in {None} \cup Nat
        /\ last_rewards_to_process' \in {None} \cup Nat
        /\ last_vote_index' = None <=> last_rewards_to_process' = None
        /\ StillRouting' <=> more
        /\ more => last_rewards_to_process' > 0
        /\ ~more => operator_vault_rewards' = 0
    BY <1>1, <1>2, SMTT(30) DEF None, StillRouting
  <1>6. ResumeIsExact'
    <2>. SUFFICES ASSUME more, reopens = 0
                  PROVE  operator_vault_rewards' =
                             rewards - SumFunctionOnSet(Shares(rewards),
                                           {k \in Winners : k < last_vote_index'})
      <3>1. /\ Winners' = Winners /\ \A r : Shares(r)' = Shares(r)
        BY VotesKept
      <3>2. Shares(last_rewards_to_process)' = Shares(last_rewards_to_process')
        BY DEF Shares, Weight, WinningStakeWeight, Winners
      <3>. QED  BY <1>1, <1>5, <3>1, <3>2 DEF ResumeIsExact
    <2>1. available = rewards - SumFunctionOnSet(Shares(rewards), {k \in Winners : k < start})
      <3>1. CASE StillRouting
        BY <3>1 DEF NcnInv, ResumeIsExact
      <3>2. CASE ~StillRouting
        <4>1. {k \in Winners : k < 1} = {}
          BY <1>0, SMTT(30) DEF Winners, RouterTypes
        <4>2. SumFunctionOnSet(Shares(rewards), {k \in Winners : k < 1}) = 0
          BY <4>1, SumEmpty
        <4>. QED  BY <3>2, <4>2, SMTT(30)
      <3>. QED  BY <3>1, <3>2
    <2>2. available - sum
              = rewards - SumFunctionOnSet(Shares(rewards), {k \in Winners : k < Min(later)})
      BY <1>0, <1>1, <2>1, RoundLeft, SMTT(30) DEF later, sum, now
    <2>. QED  BY <1>1, <2>2
  <1>7. ASSUME NEW o \in Operators
        PROVE  /\ WeightFrom(o, start) \in Nat
               /\ (routes'[o] + received'[o]) * WinningStakeWeight + Unserved(o)'
                      <= (routes[o] + received[o]) * WinningStakeWeight
                           + rewards * WeightFrom(o, start)
    <2>. DEFINE g == Given(o, start, m, rewards)
                W == WinningStakeWeight
                a == WeightFrom(o, start)
                b == WeightFrom(o, Min(later))
                u == Unserved(o)'
                r == routes[o]
                s == routes'[o]
                q == received[o]
    <2>1. /\ g \in Nat /\ a \in Nat /\ g * W <= rewards * a
          /\ later # {} => b \in Nat /\ g * W + rewards * b <= rewards * a
      <3>1. start \in Nat /\ rewards \in Nat
        BY <1>1
      <3>. QED  BY <1>0, <3>1, RoundShare DEF later
    <2>2. W \in Nat
      BY <1>0, <1>1, SharesOk
    <2>3. u = IF more THEN rewards * b ELSE 0
      <3>1. \A k : WeightFrom(o, k)' = WeightFrom(o, k)
        BY VotesKept
      <3>2. WeightFrom(o, last_vote_index)' = WeightFrom(o, last_vote_index')
        BY DEF WeightFrom, WinsFrom, Weight, Winners
      <3>. QED  BY <1>1, <1>5, <3>1, <3>2 DEF Unserved
    <2>4. r \in Nat /\ q \in Nat /\ s = r + g /\ received'[o] = q
      BY <1>0, <1>1 DEF RouterTypes
    <2>. HIDE DEF g, W, a, b, u, r, s, q
    <2>5. g * W + u <= rewards * a /\ u \in Int /\ g * W \in Int /\ rewards * a \in Int
      BY <1>1, <2>1, <2>2, <2>3, SMTT(30)
    <2>6. (s + q) * W = (r + q) * W + g * W /\ (r + q) * W \in Int
      BY <2>1, <2>2, <2>4, SMTT(30)
    <2>7. (s + q) * W + u <= (r + q) * W + rewards * a
      <3>. DEFINE x == (s + q) * W
                  y == (r + q) * W
                  z == g * W
                  v == rewards * a
      <3>1. y \in Int /\ z \in Int /\ u \in Int /\ v \in Int /\ x = y + z /\ z + u <= v
        BY <2>5, <2>6
      <3>. HIDE DEF x, y, z, v
      <3>2. x + u <= y + v
        BY <3>1, SMTT(30)
      <3>. QED  BY <3>2 DEF x, y, z, v
    <2>. QED  BY <2>1, <2>4, <2>7 DEF g, W, a, b, u, r, s, q
  <1>. QED  BY <1>1, <1>4, <1>5, <1>6, <1>7

----------------------------------------------------------------------------
(* The steps of the NCN's router.                                          *)

\* Progress::set_total and Progress::increment.
LEMMA ProgressOps ==
    ASSUME NEW p \in Progress, NEW n \in Nat
    PROVE  /\ SetTotal(p, n) \in Progress /\ SetTotal(p, n).tally = p.tally
           /\ Increment(p, n) \in Progress /\ Increment(p, n).tally = p.tally + n
  BY SMTT(30) DEF Progress, SetTotal, Increment

\* The fees are naturals, and so is a fee of an amount.
LEMMA SplitOk ==
    ASSUME RouterTypes, NEW pool \in Nat
    PROVE  /\ CalculateRewardSplit(fees.protocol, pool) \in Nat
           /\ CalculateRewardSplit(fees.ncn, pool) \in Nat
  <1>1. fees.protocol \in Nat /\ fees.ncn \in Nat /\ MAX_BPS \in Nat \ {0}
    <2>1. fees \in [protocol : 0..MAX_BPS, ncn : 0..MAX_BPS] /\ MAX_BPS \in Nat \ {0}
      BY RouterAssumption DEF RouterTypes
    <2>. QED  BY <2>1, SMTT(30)
  <1>2. pool * fees.protocol \in Nat /\ pool * fees.ncn \in Nat
    BY <1>1, SMTT(30)
  <1>. QED  BY <1>1, <1>2, DivBounds DEF CalculateRewardSplit

\* process_route_ncn_rewards writes three totals and no tally.
LEMMA RouteDistribution ==
    ASSUME distribution \in [Progresses -> Progress],
           NEW a \in Nat, NEW b \in Nat, NEW c \in Nat,
           distribution' = [distribution EXCEPT !["ncn"] = SetTotal(@, a),
                                !["protocol"] = SetTotal(@, b),
                                !["total"] = SetTotal(@, c)]
    PROVE  /\ distribution' \in [Progresses -> Progress]
           /\ distribution'["total"].tally = distribution["total"].tally
  <1>. DEFINE x == SetTotal(distribution["ncn"], a)
              y == SetTotal(distribution["protocol"], b)
              z == SetTotal(distribution["total"], c)
  <1>1. x \in Progress /\ y \in Progress /\ z \in Progress
        /\ z.tally = distribution["total"].tally
    BY ProgressOps DEF Progresses
  <1>2. distribution' = [distribution EXCEPT !["ncn"] = x, !["protocol"] = y, !["total"] = z]
    BY DEF Progresses
  <1>. HIDE DEF x, y, z
  <1>. QED  BY <1>1, <1>2 DEF Progresses

\* Routing keeps the invariant, whether it starts or goes on.
LEMMA RouteKeeps ==
    ASSUME NcnInv, NEW m \in Nat, RouteNcnRewards(m)
    PROVE  NcnInv'
  <1>0. RouterTypes /\ RoutingState /\ Solvent /\ ProcessedAddsUp /\ FairRounds
    BY DEF NcnInv
  <1>1. /\ router_live /\ ~voting_open
        /\ votes' = votes /\ voting_open' = voting_open /\ reopens' = reopens
        /\ fees' = fees /\ deposited' = deposited /\ receiver' = receiver
        /\ router_live' = router_live /\ received' = received
        /\ protocol_fee_wallet' = protocol_fee_wallet /\ ncn_fee_wallet' = ncn_fee_wallet
        /\ operator_receiver' = operator_receiver
    BY DEF RouteNcnRewards, ballotVars, walletVars
  <1>. DEFINE start == IF StillRouting THEN last_vote_index ELSE 1
              After(available, fresh, rewards) ==
                /\ routes' \in [Operators -> Nat]
                /\ operator_vault_rewards' \in Nat /\ ncn_rewards' \in Nat
                /\ last_vote_index' \in {None} \cup Nat
                /\ last_rewards_to_process' \in {None} \cup Nat
                /\ last_vote_index' = None <=> last_rewards_to_process' = None
                /\ StillRouting' => last_rewards_to_process' > 0
                                    /\ last_rewards_to_process' = rewards
                /\ ~StillRouting' => operator_vault_rewards' = 0
                /\ Routed' + operator_vault_rewards' + ncn_rewards'
                       = Routed + available + ncn_rewards + fresh
                /\ ResumeIsExact'
                /\ \A o \in Operators :
                       /\ WeightFrom(o, start) \in Nat
                       /\ (routes'[o] + received'[o]) * WinningStakeWeight + Unserved(o)'
                              <= (routes[o] + received[o]) * WinningStakeWeight
                                   + rewards * WeightFrom(o, start)
  <1>2. Routed \in Nat
    <2>1. \A o \in Operators : routes[o] \in Nat
      BY <1>0 DEF RouterTypes
    <2>. QED  BY <2>1, RouterAssumption, SumType DEF Routed
  <1>3. \E available, fresh, rewards, incoming \in Nat, protocol \in Nat :
           /\ available \in Nat /\ fresh \in Nat /\ rewards \in Nat
           /\ After(available, fresh, rewards)
           /\ total_rewards' = total_rewards + incoming
           /\ reward_pool' = 0
           /\ rewards_processed' = rewards_processed + incoming
           /\ protocol_rewards' = protocol_rewards + protocol
           /\ available + fresh + protocol = operator_vault_rewards + incoming
           /\ incoming <= receiver - Rent - rewards_processed
           /\ StillRouting => incoming = 0 /\ rewards = last_rewards_to_process
           /\ ~StillRouting => rewards <= incoming
    <2>1. CASE StillRouting /\ RouteResumed(m)
      <3>1. /\ RouteOperatorVaultRewards(operator_vault_rewards, 0, m)
            /\ total_rewards' = total_rewards /\ reward_pool' = reward_pool
            /\ rewards_processed' = rewards_processed /\ protocol_rewards' = protocol_rewards
        BY <2>1 DEF RouteResumed
      <3>2. /\ operator_vault_rewards \in Nat /\ 0 \in Nat
            /\ last_rewards_to_process \in Nat /\ reward_pool = 0
            /\ total_rewards \in Nat /\ rewards_processed \in Nat /\ protocol_rewards \in Nat
            /\ receiver \in Nat /\ Rent \in Nat
        BY <1>0, <2>1, RouterAssumption DEF RouterTypes, RoutingState, StillRouting, None
      <3>3. After(operator_vault_rewards, 0, last_rewards_to_process)
        BY <1>1, <2>1, <3>1, <3>2, RouteOperatorsKeeps
      <3>4. 0 <= receiver - Rent - rewards_processed
        BY <1>0, <1>1, <3>2, SMTT(30) DEF Solvent, TotalRewardsInTransit
      <3>. HIDE DEF After
      <3>. QED  BY <2>1, <3>1, <3>2, <3>3, <3>4, SMTT(30)
    <2>2. CASE ~StillRouting /\ RouteFresh(m)
      <3>. DEFINE incoming == IncomingRewards
                  pool == reward_pool + IncomingRewards
                  protocol == CalculateRewardSplit(fees.protocol, pool)
                  ncn == CalculateRewardSplit(fees.ncn, pool)
                  available == operator_vault_rewards + pool - protocol - ncn
      <3>1. /\ incoming >= 0 /\ protocol + ncn <= pool
            /\ total_rewards' = total_rewards + incoming
            /\ reward_pool' = 0 /\ rewards_processed' = rewards_processed + pool
            /\ protocol_rewards' = protocol_rewards + protocol
            /\ RouteOperatorVaultRewards(available, ncn, m)
        BY <2>2 DEF RouteFresh
      <3>2. /\ operator_vault_rewards = 0 /\ reward_pool = 0
            /\ incoming = receiver - rewards_processed - Rent
            /\ total_rewards \in Nat /\ rewards_processed \in Nat /\ protocol_rewards \in Nat
            /\ receiver \in Nat /\ Rent \in Nat
        BY <1>0, <2>2, RouterAssumption, SMTT(30)
           DEF RouterTypes, RoutingState, IncomingRewards, TotalRewardsInTransit
      <3>3. incoming \in Nat /\ pool = incoming
        BY <3>1, <3>2, SMTT(30)
      <3>4. protocol \in Nat /\ ncn \in Nat
        BY <1>0, <3>3, SplitOk
      <3>. HIDE DEF incoming, pool, protocol, ncn
      <3>5. available \in Nat /\ available + ncn + protocol = incoming /\ available <= incoming
        BY <3>1, <3>2, <3>3, <3>4, SMTT(30)
      <3>. HIDE DEF available
      <3>6. After(available, ncn, available)
        BY <1>1, <2>2, <3>1, <3>4, <3>5, RouteOperatorsKeeps
      <3>. HIDE DEF After
      <3>7. incoming <= receiver - Rent - rewards_processed
        BY <3>2, SMTT(30)
      <3>8. available + ncn + protocol = operator_vault_rewards + incoming
        BY <3>2, <3>3, <3>5, SMTT(30)
      <3>. QED  BY <2>2, <3>1, <3>2, <3>3, <3>4, <3>5, <3>6, <3>7, <3>8
    <2>. QED  BY <2>1, <2>2 DEF RouteNcnRewards, RouteFresh, RouteResumed
  <1>4. PICK available, fresh, rewards, incoming \in Nat, protocol \in Nat :
           /\ available \in Nat /\ fresh \in Nat /\ rewards \in Nat
           /\ After(available, fresh, rewards)
           /\ total_rewards' = total_rewards + incoming
           /\ reward_pool' = 0
           /\ rewards_processed' = rewards_processed + incoming
           /\ protocol_rewards' = protocol_rewards + protocol
           /\ available + fresh + protocol = operator_vault_rewards + incoming
           /\ incoming <= receiver - Rent - rewards_processed
           /\ StillRouting => incoming = 0 /\ rewards = last_rewards_to_process
           /\ ~StillRouting => rewards <= incoming
    BY <1>3
  <1>. HIDE DEF start
  <1>5. RouterTypes'
    <2>1. /\ total_rewards' \in Nat /\ reward_pool' \in Nat /\ rewards_processed' \in Nat
          /\ protocol_rewards' \in Nat /\ ncn_rewards' \in Nat
      BY <1>0, <1>4, SMTT(30) DEF RouterTypes
    <2>2. distribution' \in [Progresses -> Progress]
      BY <1>0, <2>1, RouteDistribution DEF RouteNcnRewards, RouterTypes
    <2>. QED  BY <1>0, <1>1, <1>4, <2>1, <2>2 DEF RouterTypes
  <1>6. RoutingState'
    BY <1>4 DEF RoutingState
  <1>7. Solvent'
    BY <1>0, <1>1, <1>4, RouterAssumption, SMTT(30)
       DEF Solvent, TotalRewardsInTransit, RoutingState, RouterTypes
  <1>8. ProcessedAddsUp'
    <2>. DEFINE a == Routed
                b == Routed'
                ovr == operator_vault_rewards'
                ncn == ncn_rewards'
    <2>1. /\ a \in Nat /\ b + ovr + ncn = a + available + ncn_rewards + fresh
          /\ rewards_processed = protocol_rewards + ncn_rewards + operator_vault_rewards + a
      BY <1>0, <1>2, <1>4 DEF ProcessedAddsUp
    <2>2. b \in Nat /\ ovr \in Nat /\ ncn \in Nat
      <3>1. \A o \in Operators : routes'[o] \in Nat
        BY <1>4
      <3>2. b \in Nat
        BY <3>1, RouterAssumption, SumType DEF Routed
      <3>. QED  BY <1>4, <3>2
    <2>3. /\ protocol_rewards \in Nat /\ ncn_rewards \in Nat /\ operator_vault_rewards \in Nat
      BY <1>0 DEF RouterTypes
    <2>4. /\ rewards_processed' = rewards_processed + incoming
          /\ protocol_rewards' = protocol_rewards + protocol
          /\ available + fresh + protocol = operator_vault_rewards + incoming
          /\ available \in Nat /\ fresh \in Nat
      BY <1>4
    <2>. HIDE DEF a, b, ovr, ncn
    <2>5. rewards_processed' = protocol_rewards' + ncn + ovr + b
      BY <2>1, <2>2, <2>3, <2>4, SMTT(30)
    <2>. QED  BY <2>5 DEF a, b, ovr, ncn, ProcessedAddsUp
  <1>9. FairRounds'
    <2>. SUFFICES ASSUME reopens = 0
                  PROVE  /\ StillRouting' => last_rewards_to_process' <= total_rewards'
                         /\ \A o \in Operators :
                                (routes'[o] + received'[o]) * WinningStakeWeight' + Unserved(o)'
                                    <= total_rewards' * WeightFrom(o, 0)'
      BY <1>1 DEF FairRounds
    <2>1. total_rewards \in Nat
      BY <1>0 DEF RouterTypes
    <2>2. rewards <= total_rewards'
      BY <1>0, <1>4, <2>1, SMTT(30) DEF FairRounds
    <2>3. StillRouting' => last_rewards_to_process' <= total_rewards'
      BY <1>4, <2>2
    <2>4. ASSUME NEW o \in Operators
          PROVE  (routes'[o] + received'[o]) * WinningStakeWeight' + Unserved(o)'
                     <= total_rewards' * WeightFrom(o, 0)'
      <3>. DEFINE W == WinningStakeWeight
                  x == (routes'[o] + received'[o]) * W + Unserved(o)'
                  y == (routes[o] + received[o]) * W
                  T == total_rewards
                  w == WeightFrom(o, 0)
                  a == WeightFrom(o, start)
      <3>1. W' = W /\ WeightFrom(o, 0)' = w
        BY <1>1, VotesKept
      <3>2. a \in Nat /\ x <= y + rewards * a
        BY <1>4
      <3>3. y + Unserved(o) <= T * w
        BY <1>0 DEF FairRounds
      <3>4. w \in Nat /\ W \in Nat
        <4>1. 0 \in Nat
          OBVIOUS
        <4>. QED  BY <1>0, <4>1, RoundShare, SharesOk
      <3>5. y \in Int
        <4>1. routes[o] \in Nat /\ received[o] \in Nat
          BY <1>0 DEF RouterTypes
        <4>. HIDE DEF W
        <4>. QED  BY <3>4, <4>1, SMTT(30)
      <3>6. x \in Int
        <4>1. routes'[o] \in Nat /\ received'[o] \in Nat
          BY <1>5 DEF RouterTypes
        <4>2. Unserved(o)' \in Int
          <5>1. StillRouting' => last_vote_index' \in Nat /\ last_rewards_to_process' \in Nat
            BY <1>4 DEF None, StillRouting
          <5>2. StillRouting' => WeightFrom(o, last_vote_index') \in Nat
            BY <1>0, <5>1, RoundShare
          <5>3. WeightFrom(o, last_vote_index)' = WeightFrom(o, last_vote_index')
            BY <1>1 DEF WeightFrom, WinsFrom, Weight, Winners
          <5>. QED  BY <5>1, <5>2, <5>3, SMTT(30) DEF Unserved
        <4>3. \A p, q, u \in Int : p * q + u \in Int
          BY SMTT(30)
        <4>4. routes'[o] + received'[o] \in Int /\ W \in Int
          BY <3>4, <4>1, SMTT(30)
        <4>. QED  BY <4>2, <4>3, <4>4
      <3>7. x <= total_rewards' * w
        <4>1. CASE StillRouting
          <5>1. Unserved(o) = rewards * a /\ total_rewards' = T
            BY <1>4, <2>1, <4>1, SMTT(30) DEF Unserved, start
          <5>2. rewards * a \in Int /\ T * w \in Int
            BY <1>4, <2>1, <3>2, <3>4, SMTT(30)
          <5>. DEFINE p == rewards * a
                      q == T * w
          <5>3. /\ x \in Int /\ y \in Int /\ p \in Int /\ q \in Int
                /\ x <= y + p /\ y + p <= q /\ total_rewards' * w = q
            BY <3>2, <3>3, <3>5, <3>6, <5>1, <5>2
          <5>. HIDE DEF x, y, p, q
          <5>4. x <= q
            BY <5>3, SMTT(30)
          <5>. QED  BY <5>3, <5>4
        <4>2. CASE ~StillRouting
          <5>1. Unserved(o) = 0 /\ rewards <= incoming
            BY <1>4, <4>2 DEF Unserved
          <5>2. a = w
            <6>1. WinsFrom(o, 1) = WinsFrom(o, 0)
              BY <1>0, SMTT(30) DEF WinsFrom, Winners, RouterTypes
            <6>. QED  BY <4>2, <6>1 DEF WeightFrom, start
          <5>. DEFINE p == rewards * w
                      q == T * w
                      r == incoming * w
          <5>3. p \in Int /\ q \in Int /\ r \in Int /\ p <= r /\ total_rewards' * w = q + r
            <6>. HIDE DEF w, T
            <6>1. rewards \in Nat /\ incoming \in Nat /\ T \in Nat /\ w \in Nat
                  /\ total_rewards' = T + incoming
              BY <1>4, <2>1, <3>4 DEF T
            <6>. QED  BY <5>1, <6>1, SMTT(30)
          <5>4. x \in Int /\ y \in Int /\ x <= y + p /\ y <= q
            <6>. HIDE DEF x, y, p
            <6>1. y + 0 <= q
              BY <3>3, <5>1
            <6>. QED  BY <3>2, <3>5, <3>6, <5>2, <6>1, SMTT(30) DEF p
          <5>. HIDE DEF x, y, p, q, r
          <5>5. x <= q + r
            BY <5>3, <5>4, SMTT(30)
          <5>. QED  BY <5>3, <5>5
        <4>. QED  BY <4>1, <4>2
      <3>. QED  BY <3>1, <3>7
    <2>. QED  BY <2>3, <2>4
  <1>. QED  BY <1>4, <1>5, <1>6, <1>7, <1>8, <1>9 DEF NcnInv

\* Weights are naturals.
WeightsOk ==
    WinningStakeWeight \in Nat /\ \A o \in Operators : WeightFrom(o, 0) \in Nat

\* Weights are naturals in every state of the right type.
LEMMA WeightsTyped == RouterTypes => WeightsOk
  <1>1. 0 \in Nat
    OBVIOUS
  <1>. QED  BY <1>1, RoundShare, SharesOk DEF WeightsOk

\* The books of the router depend on its fields and the votes only, and the
\* end of the voting window does not disturb them.
LEMMA NcnKept ==
    ASSUME NcnInv, RouterTypes', Solvent', votes' = votes, reopens' = reopens,
           voting_open' => voting_open, UNCHANGED poolVars, UNCHANGED routingVars,
           received' = received
    PROVE  NcnInv'
  <1>1. RoutingState' /\ ProcessedAddsUp'
    BY DEF NcnInv, RoutingState, ProcessedAddsUp, StillRouting, poolVars, routingVars, Routed
  <1>2. ResumeIsExact'
    BY DEF NcnInv, ResumeIsExact, StillRouting, poolVars, routingVars, Winners, Weight,
           WinningStakeWeight, Shares
  <1>3. FairRounds'
    BY
       DEF NcnInv, FairRounds, StillRouting, poolVars, routingVars, Unserved, WeightFrom,
           WinsFrom, Winners, Weight, WinningStakeWeight
  <1>. QED  BY <1>1, <1>2, <1>3 DEF NcnInv

\* Paying out n of what was processed, to whomever it was set aside for.
LEMMA PayKeeps ==
    ASSUME NcnInv, NEW n \in Nat, Pay(n), RouterTypes', ProcessedAddsUp',
           \A o \in Operators : routes'[o] + received'[o] = routes[o] + received[o]
    PROVE  NcnInv'
  <1>1. /\ ~StillRouting /\ rewards_processed >= n /\ router_live
        /\ rewards_processed' = rewards_processed - n /\ receiver' = receiver - n
        /\ votes' = votes /\ voting_open' = voting_open /\ reopens' = reopens
        /\ router_live' = router_live /\ total_rewards' = total_rewards
        /\ reward_pool' = reward_pool /\ operator_vault_rewards' = operator_vault_rewards
        /\ last_vote_index' = last_vote_index
        /\ last_rewards_to_process' = last_rewards_to_process
    BY DEF Pay, CanPay, ballotVars, routingVars
  <1>2. ~StillRouting' /\ RoutingState'
    BY <1>1 DEF NcnInv, RoutingState, StillRouting
  <1>3. Solvent'
    BY <1>1, RouterAssumption, SMTT(30) DEF NcnInv, RouterTypes, Solvent, TotalRewardsInTransit
  <1>4. ResumeIsExact'
    BY <1>2 DEF ResumeIsExact
  <1>5. FairRounds'
    <2>. SUFFICES ASSUME reopens = 0
                  PROVE  FairRounds'
      BY <1>1 DEF FairRounds
    <2>1. ASSUME voting_open
          PROVE  \A o \in Operators : routes'[o] = 0 /\ received'[o] = 0
      <3>. TAKE o \in Operators
      <3>1. routes[o] = 0 /\ received[o] = 0
        BY <2>1 DEF NcnInv, FairRounds
      <3>2. routes'[o] \in Nat /\ received'[o] \in Nat
        BY DEF RouterTypes
      <3>3. routes'[o] + received'[o] = 0
        BY <3>1, SMTT(30)
      <3>. QED  BY <3>2, <3>3, SMTT(30)
    <2>2. voting_open => total_rewards = 0
      BY DEF NcnInv, FairRounds
    <2>3. ASSUME NEW o \in Operators
          PROVE  (routes'[o] + received'[o]) * WinningStakeWeight' + Unserved(o)'
                     <= total_rewards' * WeightFrom(o, 0)'
      <3>1. (routes[o] + received[o]) * WinningStakeWeight + Unserved(o)
                <= total_rewards * WeightFrom(o, 0)
        BY DEF NcnInv, FairRounds
      <3>2. Unserved(o) = 0 /\ Unserved(o)' = 0
        BY <1>1, <1>2 DEF Unserved
      <3>3. WinningStakeWeight' = WinningStakeWeight /\ WeightFrom(o, 0)' = WeightFrom(o, 0)
        BY <1>1, VotesKept
      <3>. QED  BY <1>1, <3>1, <3>2, <3>3
    <2>. QED  BY <1>1, <1>2, <2>1, <2>2, <2>3 DEF FairRounds
  <1>. QED  BY <1>2, <1>3, <1>4, <1>5 DEF NcnInv

\* An increment of the tally of one or two of the progresses.
LEMMA Incremented ==
    ASSUME distribution \in [Progresses -> Progress], NEW n \in Nat,
           NEW p \in Progresses \ {"total"}
    PROVE  /\ [distribution EXCEPT ![p] = Increment(@, n)] \in [Progresses -> Progress]
           /\ [distribution EXCEPT ![p] = Increment(@, n)]["total"] = distribution["total"]
           /\ [distribution EXCEPT !["total"] = Increment(@, n)] \in [Progresses -> Progress]
           /\ [distribution EXCEPT !["total"] = Increment(@, n)]["total"].tally
                  = distribution["total"].tally + n
           /\ [distribution EXCEPT ![p] = Increment(@, n), !["total"] = Increment(@, n)]
                  \in [Progresses -> Progress]
           /\ [distribution EXCEPT ![p] = Increment(@, n), !["total"] = Increment(@, n)]
                  ["total"].tally = distribution["total"].tally + n
  <1>. DEFINE x == Increment(distribution[p], n)
              y == Increment(distribution["total"], n)
  <1>0. "total" \in Progresses /\ p \in Progresses /\ p # "total"
    BY DEF Progresses
  <1>1. x \in Progress /\ y \in Progress /\ y.tally = distribution["total"].tally + n
    BY <1>0, ProgressOps
  <1>2. /\ [distribution EXCEPT ![p] = Increment(@, n)] = [distribution EXCEPT ![p] = x]
        /\ [distribution EXCEPT !["total"] = Increment(@, n)] = [distribution EXCEPT !["total"] = y]
        /\ [distribution EXCEPT ![p] = Increment(@, n), !["total"] = Increment(@, n)]
               = [distribution EXCEPT ![p] = x, !["total"] = y]
    BY <1>0
  <1>. HIDE DEF x, y
  <1>. QED  BY <1>0, <1>1, <1>2

\* Paying the NCN.
LEMMA DistributeNcnKeeps ==
    ASSUME NcnInv, DistributeNcnRewards
    PROVE  NcnInv' /\ distribution'["total"].tally = distribution["total"].tally + ncn_rewards
  <1>0. RouterTypes /\ ProcessedAddsUp /\ Pay(ncn_rewards) /\ ncn_rewards \in Nat
    BY DEF NcnInv, DistributeNcnRewards, RouterTypes
  <1>1. /\ distribution' \in [Progresses -> Progress]
        /\ distribution'["total"].tally = distribution["total"].tally + ncn_rewards
    <2>1. "ncn" \in Progresses \ {"total"} /\ distribution \in [Progresses -> Progress]
      BY <1>0 DEF Progresses, RouterTypes
    <2>. QED  BY <1>0, <2>1, Incremented DEF DistributeNcnRewards
  <1>2. /\ rewards_processed' \in Nat /\ receiver' \in Nat
    BY <1>0, RouterAssumption, SMTT(30)
       DEF Pay, CanPay, NcnInv, Solvent, TotalRewardsInTransit, RouterTypes
  <1>3. RouterTypes'
    BY <1>0, <1>1, <1>2, NatPlus
       DEF RouterTypes, DistributeNcnRewards, Pay, ballotVars, routingVars
  <1>4. ProcessedAddsUp'
    <2>. DEFINE a == Routed
    <2>1. a \in Nat
      <3>1. \A o \in Operators : routes[o] \in Nat
        BY <1>0 DEF RouterTypes
      <3>. QED  BY <3>1, RouterAssumption, SumType DEF Routed
    <2>2. /\ rewards_processed = protocol_rewards + ncn_rewards + operator_vault_rewards + a
          /\ rewards_processed' = rewards_processed - ncn_rewards /\ ncn_rewards' = 0
          /\ protocol_rewards' = protocol_rewards /\ Routed' = a
          /\ operator_vault_rewards' = operator_vault_rewards
          /\ protocol_rewards \in Nat /\ operator_vault_rewards \in Nat
      BY <1>0 DEF ProcessedAddsUp, DistributeNcnRewards, Pay, Routed, RouterTypes
    <2>. HIDE DEF a
    <2>. QED  BY <1>0, <2>1, <2>2, SMTT(30) DEF ProcessedAddsUp
  <1>5. \A o \in Operators : routes'[o] + received'[o] = routes[o] + received[o]
    BY DEF DistributeNcnRewards
  <1>. QED  BY <1>0, <1>1, <1>3, <1>4, <1>5, PayKeeps

\* Paying the protocol.
LEMMA DistributeProtocolKeeps ==
    ASSUME NcnInv, DistributeProtocolRewards
    PROVE  /\ NcnInv'
           /\ distribution'["total"].tally = distribution["total"].tally + protocol_rewards
  <1>0. RouterTypes /\ ProcessedAddsUp /\ Pay(protocol_rewards) /\ protocol_rewards \in Nat
    BY DEF NcnInv, DistributeProtocolRewards, RouterTypes
  <1>1. /\ distribution' \in [Progresses -> Progress]
        /\ distribution'["total"].tally = distribution["total"].tally + protocol_rewards
    <2>1. "protocol" \in Progresses \ {"total"} /\ distribution \in [Progresses -> Progress]
      BY <1>0 DEF Progresses, RouterTypes
    <2>. QED  BY <1>0, <2>1, Incremented DEF DistributeProtocolRewards
  <1>2. /\ rewards_processed' \in Nat /\ receiver' \in Nat
    BY <1>0, RouterAssumption, SMTT(30)
       DEF Pay, CanPay, NcnInv, Solvent, TotalRewardsInTransit, RouterTypes
  <1>3. RouterTypes'
    BY <1>0, <1>1, <1>2, NatPlus
       DEF RouterTypes, DistributeProtocolRewards, Pay, ballotVars, routingVars
  <1>4. ProcessedAddsUp'
    <2>. DEFINE a == Routed
    <2>1. a \in Nat
      <3>1. \A o \in Operators : routes[o] \in Nat
        BY <1>0 DEF RouterTypes
      <3>. QED  BY <3>1, RouterAssumption, SumType DEF Routed
    <2>2. /\ rewards_processed = protocol_rewards + ncn_rewards + operator_vault_rewards + a
          /\ rewards_processed' = rewards_processed - protocol_rewards
          /\ protocol_rewards' = 0 /\ ncn_rewards' = ncn_rewards /\ Routed' = a
          /\ operator_vault_rewards' = operator_vault_rewards
          /\ ncn_rewards \in Nat /\ operator_vault_rewards \in Nat
      BY <1>0 DEF ProcessedAddsUp, DistributeProtocolRewards, Pay, Routed, RouterTypes
    <2>. HIDE DEF a
    <2>. QED  BY <1>0, <2>1, <2>2, SMTT(30) DEF ProcessedAddsUp
  <1>5. \A o \in Operators : routes'[o] + received'[o] = routes[o] + received[o]
    BY DEF DistributeProtocolRewards
  <1>. QED  BY <1>0, <1>1, <1>3, <1>4, <1>5, PayKeeps

\* Paying an operator's receiver.
LEMMA DistributeRouteKeeps ==
    ASSUME NcnInv, NEW o \in Operators, DistributeOperatorVaultRewardRoute(o)
    PROVE  NcnInv' /\ distribution'["total"].tally = distribution["total"].tally
  <1>. DEFINE n == routes[o]
  <1>0. RouterTypes /\ ProcessedAddsUp /\ Pay(n) /\ n \in Nat
    BY DEF NcnInv, DistributeOperatorVaultRewardRoute, RouterTypes
  <1>1. /\ distribution' \in [Progresses -> Progress]
        /\ distribution'["total"].tally = distribution["total"].tally
    <2>1. "operator_vault" \in Progresses \ {"total"}
          /\ distribution \in [Progresses -> Progress]
      BY <1>0 DEF Progresses, RouterTypes
    <2>2. distribution' = [distribution EXCEPT !["operator_vault"] = Increment(@, n)]
      BY DEF DistributeOperatorVaultRewardRoute
    <2>. QED  BY <1>0, <2>1, <2>2, Incremented
  <1>2. /\ rewards_processed' \in Nat /\ receiver' \in Nat
    BY <1>0, RouterAssumption, SMTT(30)
       DEF Pay, CanPay, NcnInv, Solvent, TotalRewardsInTransit, RouterTypes
  <1>3. /\ routes' = [routes EXCEPT ![o] = 0]
        /\ operator_receiver' = [operator_receiver EXCEPT ![o] = @ + n]
        /\ received' = [received EXCEPT ![o] = @ + n]
        /\ protocol_rewards' = protocol_rewards /\ ncn_rewards' = ncn_rewards
        /\ protocol_fee_wallet' = protocol_fee_wallet /\ ncn_fee_wallet' = ncn_fee_wallet
    BY DEF DistributeOperatorVaultRewardRoute
  <1>4. RouterTypes'
    BY <1>0, <1>1, <1>2, <1>3, NatPlus DEF RouterTypes, Pay, ballotVars, routingVars
  <1>5. ProcessedAddsUp'
    <2>. DEFINE a == Routed
                b == Routed'
    <2>1. \A p \in Operators : routes[p] \in Nat
      BY <1>0 DEF RouterTypes
    <2>2. routes'[o] = 0 /\ \A p \in Operators \ {o} : routes'[p] = routes[p]
      BY <1>0, <1>3 DEF RouterTypes
    <2>3. a \in Nat /\ IsFiniteSet(Operators)
      BY <2>1, RouterAssumption, SumType DEF Routed
    <2>4. \A p \in Operators : routes'[p] \in Nat
      BY <1>4 DEF RouterTypes
    <2>5. b \in Nat
      BY <2>3, <2>4, SumType DEF Routed
    <2>6. b + routes[o] = a + routes'[o]
      <3>1. routes'[o] \in Nat
        BY <2>4
      <3>. QED  BY <2>1, <2>2, <2>3, <3>1, SumUpdate, SMTT(30) DEF Routed
    <2>7. /\ rewards_processed = protocol_rewards + ncn_rewards + operator_vault_rewards + a
          /\ rewards_processed' = rewards_processed - n
          /\ protocol_rewards' = protocol_rewards /\ ncn_rewards' = ncn_rewards
          /\ operator_vault_rewards' = operator_vault_rewards
          /\ protocol_rewards \in Nat /\ ncn_rewards \in Nat /\ operator_vault_rewards \in Nat
          /\ b + n = a + 0
      BY <1>0, <1>3, <2>2, <2>6 DEF ProcessedAddsUp, Pay, RouterTypes
    <2>8. n \in Nat
      BY <1>0
    <2>. HIDE DEF a, b, n
    <2>9. rewards_processed'
              = protocol_rewards' + ncn_rewards' + operator_vault_rewards' + b
      BY <2>3, <2>5, <2>7, <2>8, SMTT(30)
    <2>. QED  BY <2>9 DEF ProcessedAddsUp, b
  <1>6. ASSUME NEW p \in Operators
        PROVE  routes'[p] + received'[p] = routes[p] + received[p]
    <2>1. CASE p = o
      BY <1>0, <1>3, <2>1, SMTT(30) DEF RouterTypes
    <2>2. CASE p # o
      BY <1>0, <1>3, <2>2 DEF RouterTypes
    <2>. QED  BY <2>1, <2>2
  <1>. HIDE DEF n
  <1>. QED  BY <1>0, <1>1, <1>4, <1>5, <1>6, PayKeeps

\* Lamports arrive at the receiver.
LEMMA DepositKeeps ==
    ASSUME NcnInv, NEW n \in Deposits, Deposit(n)
    PROVE  NcnInv'
  <1>1. n \in Nat
    BY RouterAssumption
  <1>2. RouterTypes'
    BY <1>1, SMTT(30) DEF NcnInv, RouterTypes, Deposit, ballotVars, poolVars, routingVars, walletVars
  <1>3. Solvent'
    BY <1>1, RouterAssumption, SMTT(30)
       DEF NcnInv, RouterTypes, Deposit, Solvent, TotalRewardsInTransit, poolVars
  <1>. QED  BY <1>2, <1>3, NcnKept DEF Deposit, ballotVars, walletVars

\* A late vote, which only comes before anything is routed or after the
\* voting window was reopened.
LEMMA LateVoteKeeps ==
    ASSUME NcnInv, NEW o \in Operators, NEW wins \in BOOLEAN, CastLateVote(o, wins)
    PROVE  NcnInv'
  <1>1. votes' \in Seq([operator : Operators, wins : BOOLEAN])
    <2>. DEFINE V == [operator : Operators, wins : BOOLEAN]
                v == [operator |-> o, wins |-> wins]
    <2>1. votes \in Seq(V) /\ v \in V /\ votes' = Append(votes, v)
      BY DEF NcnInv, RouterTypes, CastLateVote
    <2>. HIDE DEF V, v
    <2>2. votes' \in Seq(V)
      BY <2>1, SMTT(30)
    <2>. QED  BY <2>2 DEF V
  <1>2. RouterTypes'
    BY <1>1 DEF NcnInv, RouterTypes, CastLateVote, poolVars, routingVars, walletVars
  <1>3. Solvent' /\ RoutingState' /\ ProcessedAddsUp'
    BY
       DEF NcnInv, CastLateVote, Solvent, TotalRewardsInTransit, RoutingState, StillRouting,
           ProcessedAddsUp, Routed, poolVars, routingVars
  <1>4. reopens = 0 =>
            /\ ~StillRouting' /\ total_rewards' = 0
            /\ \A p \in Operators : routes'[p] = 0 /\ received'[p] = 0
    BY
       DEF NcnInv, FairRounds, CastLateVote, StillRouting, poolVars, routingVars, walletVars
  <1>5. ResumeIsExact'
    BY <1>4 DEF ResumeIsExact, CastLateVote
  <1>6. FairRounds'
    <2>1. WeightsOk'
      BY <1>2, WeightsTyped, PTL
    <2>2. ASSUME reopens = 0, NEW p \in Operators
          PROVE  (routes'[p] + received'[p]) * WinningStakeWeight' + Unserved(p)'
                     <= total_rewards' * WeightFrom(p, 0)'
      <3>. DEFINE W == WinningStakeWeight'
                  w == WeightFrom(p, 0)'
                  u == Unserved(p)'
      <3>1. W \in Nat /\ w \in Nat
        BY <2>1 DEF WeightsOk
      <3>2. u = 0 /\ total_rewards' = 0 /\ routes'[p] = 0 /\ received'[p] = 0
        BY <1>4, <2>2 DEF Unserved
      <3>. HIDE DEF W, w, u
      <3>3. (routes'[p] + received'[p]) * W + u <= total_rewards' * w
        BY <3>1, <3>2, SMTT(30)
      <3>. QED  BY <3>3 DEF W, w, u
    <2>3. reopens' = reopens
      BY DEF CastLateVote
    <2>. QED  BY <1>4, <2>2, <2>3 DEF FairRounds
  <1>. QED  BY <1>2, <1>3, <1>5, <1>6 DEF NcnInv

\* The voting window ends, or is reopened.
LEMMA WindowKeeps ==
    ASSUME NcnInv, VotingEnds \/ AdminExtendsVoting
    PROVE  NcnInv'
  <1>1. CASE VotingEnds
    <2>1. RouterTypes' /\ Solvent'
      BY <1>1
         DEF NcnInv, RouterTypes, VotingEnds, poolVars, routingVars, walletVars,
                  Solvent, TotalRewardsInTransit
    <2>. QED  BY <1>1, <2>1, NcnKept DEF VotingEnds, walletVars
  <1>2. CASE AdminExtendsVoting
    <2>1. RouterTypes' /\ Solvent' /\ RoutingState' /\ ProcessedAddsUp'
      BY <1>2, SMTT(30) DEF NcnInv, RouterTypes, AdminExtendsVoting, poolVars, routingVars, walletVars,
                  Solvent, TotalRewardsInTransit, RoutingState, StillRouting,
                  ProcessedAddsUp, Routed
    <2>2. reopens' # 0
      BY <1>2, SMTT(30) DEF NcnInv, RouterTypes, AdminExtendsVoting
    <2>. QED  BY <2>1, <2>2 DEF NcnInv, ResumeIsExact, FairRounds
  <1>. QED  BY <1>1, <1>2

\* An account that routing or paying reads is closed: the router's books stay
\* as they are.
LEMMA InputsKeep ==
    ASSUME NcnInv, CloseInputs \/ \E o \in ClosedEarly : CloseOperatorSnapshot(o)
    PROVE  NcnInv'
  <1>1. /\ UNCHANGED <<votes, voting_open, reopens, fees, deposited, receiver, router_live>>
        /\ UNCHANGED poolVars /\ UNCHANGED routingVars /\ UNCHANGED walletVars
        /\ distribution' = distribution
    BY DEF CloseInputs, CloseOperatorSnapshot
  <1>2. RouterTypes' /\ Solvent'
    BY <1>1
       DEF NcnInv, RouterTypes, poolVars, routingVars, walletVars, Solvent,
           TotalRewardsInTransit
  <1>. QED  BY <1>1, <1>2, NcnKept DEF walletVars

\* The router is closed; the receiver holds at least its rent.
LEMMA CloseRouterKeeps ==
    ASSUME NcnInv, CloseRouter
    PROVE  NcnInv'
  <1>1. RouterTypes'
    <2>1. ncn_fee_wallet' \in Nat /\ receiver' \in Nat
      BY RouterAssumption, SMTT(30) DEF NcnInv, RouterTypes, CloseRouter, Solvent, TotalRewardsInTransit
    <2>. QED  BY <2>1 DEF NcnInv, RouterTypes, CloseRouter, ballotVars, poolVars, routingVars
  <1>2. Solvent'
    BY DEF CloseRouter, Solvent
  <1>. QED  BY <1>1, <1>2, NcnKept DEF CloseRouter, ballotVars

----------------------------------------------------------------------------
(* What the invariant says of the payments.                                *)

\* The bound on what an operator was given leaves room for the part of the
\* round in progress that it has not been given yet, which is not negative.
LEMMA OverpaidFromInv == NcnInv => NobodyOverpaid
  <1>. SUFFICES ASSUME NcnInv, NEW o \in Operators, reopens = 0
                PROVE  (routes[o] + received[o]) * WinningStakeWeight
                           <= total_rewards * SumFunctionOnSet(Weight,
                                  {k \in Winners : votes[k].operator = o})
    BY DEF NobodyOverpaid
  <1>0. RouterTypes /\ 0 \in Nat
    BY DEF NcnInv
  <1>1. /\ IsFiniteSet(Winners) /\ Winners \subseteq Nat /\ WinningStakeWeight \in Nat
        /\ \A k \in Winners : Weight[k] \in Nat
    BY <1>0, SharesOk
  <1>2. {k \in Winners : votes[k].operator = o} = WinsFrom(o, 0)
    <2>1. \A k \in Winners : k >= 0
      BY <1>1, SMTT(30)
    <2>. QED  BY <2>1 DEF WinsFrom
  <1>3. \A start : WeightFrom(o, start) \in Nat
    <2>. SUFFICES ASSUME NEW start
                  PROVE  WeightFrom(o, start) \in Nat
      OBVIOUS
    <2>1. IsFiniteSet(WinsFrom(o, start)) /\ \A k \in WinsFrom(o, start) : Weight[k] \in Nat
      BY <1>1, FS_Subset DEF WinsFrom
    <2>. QED  BY <2>1, SumType DEF WeightFrom
  <1>4. Unserved(o) \in Nat
    <2>1. CASE StillRouting
      <3>. DEFINE r == last_rewards_to_process
                  w == WeightFrom(o, last_vote_index)
      <3>1. r \in Nat /\ w \in Nat /\ Unserved(o) = r * w
        BY <1>0, <1>3, <2>1
           DEF NcnInv, RoutingState, RouterTypes, Unserved, None, StillRouting
      <3>. HIDE DEF r, w
      <3>2. r * w \in Nat
        BY <3>1, SMTT(30)
      <3>. QED  BY <3>1, <3>2
    <2>. QED  BY <2>1 DEF Unserved
  <1>. DEFINE g == (routes[o] + received[o]) * WinningStakeWeight
              u == Unserved(o)
              t == total_rewards * WeightFrom(o, 0)
  <1>5. g + u <= t
    BY DEF NcnInv, FairRounds
  <1>6. g \in Nat
    <2>. DEFINE a == routes[o] + received[o]
                W == WinningStakeWeight
    <2>1. a \in Nat /\ W \in Nat
      BY <1>0, <1>1, SMTT(30) DEF RouterTypes
    <2>. HIDE DEF a, W
    <2>2. a * W \in Nat
      BY <2>1, SMTT(30)
    <2>. QED  BY <2>2 DEF a, W
  <1>7. t \in Nat
    <2>. DEFINE w == WeightFrom(o, 0)
    <2>1. w \in Nat /\ total_rewards \in Nat
      BY <1>0, <1>3 DEF RouterTypes
    <2>. HIDE DEF w
    <2>2. total_rewards * w \in Nat
      BY <2>1, SMTT(30)
    <2>. QED  BY <2>2 DEF w
  <1>8. u \in Nat
    BY <1>4
  <1>. HIDE DEF g, u, t
  <1>9. g <= t
    BY <1>5, <1>6, <1>7, <1>8, SMTT(30)
  <1>. QED  BY <1>2, <1>9 DEF g, t, WeightFrom

=============================================================================
