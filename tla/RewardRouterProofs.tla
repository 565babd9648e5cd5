------------------------- MODULE RewardRouterProofs -------------------------
(***************************************************************************)
(* The operators' reward routers, every handler of which keeps the second  *)
(* stage's part of the invariant RoutersInv, and both stages together:     *)
(* their lamports, and the theorems, for any number of operators and       *)
(* vaults, any stakes, delegations and fees, any amounts that arrive and   *)
(* any max_iterations.                                                     *)
(***************************************************************************)
EXTENDS OperatorVaultRewardRouter, NcnRouterProofs

\* Zenon is tried first; a step that needs arithmetic asks for the SMT solver.
USE ZenonT(30), SMTT(30)

OpTypes ==
    /\ op_live \in SUBSET Operators
    /\ op_total \in [Operators -> Nat] /\ op_pool \in [Operators -> Nat]
    /\ op_processed \in [Operators -> Nat] /\ op_rewards \in [Operators -> Nat]
    /\ operator_account \in [Operators -> Nat]
    /\ vault_account \in [Vaults -> Nat]
    /\ vault_routes \in [Operators -> [Vaults -> Nat]]
    /\ op_last_index \in [Operators -> {None} \cup Nat]
    /\ op_last_rewards \in [Operators -> {None} \cup Nat]

\* An operator's router: as RoutingState, and the part of RoutersSolvent,
\* BooksBalance and OperatorResumeIsExact that is about it.
OpRoutingState(o) ==
    /\ op_last_index[o] = None <=> op_last_rewards[o] = None
    /\ OpStillRouting(o) => op_last_rewards[o] > 0

OpSolvent(o) == o \in op_live => operator_receiver[o] >= Rent + OpInTransit(o)

OpBooks(o) == op_processed[o] = op_rewards[o] + SumFunctionOnSet(vault_routes[o], Vaults)

OpExact(o) == OpStillRouting(o) =>
    op_pool[o] = op_last_rewards[o]
        - SumFunctionOnSet(VaultRewards(o, op_last_rewards[o]),
                           {i \in DOMAIN Delegations[o] : i < op_last_index[o]})

OpOk(o) == OpRoutingState(o) /\ OpSolvent(o) /\ OpBooks(o) /\ OpExact(o)

OpInv == OpTypes /\ \A o \in Operators : OpOk(o)

RoutersInv == NcnInv /\ OpInv /\ EveryLamportAccounted

----------------------------------------------------------------------------
(* The routers of the operators.                                           *)

\* Slots is the list of an operator's delegations, Reached the slots that a
\* call has the iterations for.
Slots(o) == DOMAIN Delegations[o]
Reached(o, start, stop) == {i \in Slots(o) : start <= i /\ i < stop}
VaultGiven(o, v, start, stop, rewards) ==
    SumFunctionOnSet(VaultRewards(o, rewards),
                     {i \in Reached(o, start, stop) : Delegations[o][i].vault = v})

\* Every slot is worth a natural number of lamports and names a vault.
LEMMA VaultRewardsOk ==
    ASSUME NEW o \in Operators, NEW r \in Nat
    PROVE  /\ IsFiniteSet(Slots(o)) /\ Slots(o) = 1..Len(Delegations[o])
           /\ Len(Delegations[o]) \in Nat
           /\ \A i \in Slots(o) : /\ VaultRewards(o, r)[i] \in Nat
                                  /\ Delegations[o][i].vault \in Vaults
  <1>. DEFINE D == [vault : Vaults, stake : Nat]
  <1>1. Delegations[o] \in Seq(D) /\ Stake[o] \in Nat
    BY DelegationAssumption, RouterAssumption
  <1>2. /\ Slots(o) = 1..Len(Delegations[o]) /\ Len(Delegations[o]) \in Nat
        /\ \A i \in Slots(o) : Delegations[o][i] \in D
    <2>. HIDE DEF D
    <2>. QED  BY <1>1, SMTT(30) DEF Slots
  <1>3. IsFiniteSet(Slots(o))
    <2>1. 1 \in Int /\ Len(Delegations[o]) \in Int
      BY <1>2, NatIsInt
    <2>. QED  BY <1>2, <2>1, FS_Interval
  <1>4. ASSUME NEW i \in Slots(o)
        PROVE  VaultRewards(o, r)[i] \in Nat /\ Delegations[o][i].vault \in Vaults
    <2>1. Delegations[o][i].vault \in Vaults /\ Delegations[o][i].stake \in Nat
      BY <1>2
    <2>2. VaultRewards(o, r)[i] = CalculateVaultReward(o, i, r)
      BY DEF VaultRewards, Slots
    <2>3. CASE Stake[o] = 0 \/ r = 0
      BY <2>1, <2>2, <2>3, SMTT(30) DEF CalculateVaultReward
    <2>4. CASE ~(Stake[o] = 0 \/ r = 0)
      <3>1. r * Delegations[o][i].stake \in Nat
        BY <2>1, SMTT(30)
      <3>2. (r * Delegations[o][i].stake) \div Stake[o] \in Nat
        BY <1>1, <2>4, <3>1, DivBounds
      <3>. QED  BY <2>1, <2>2, <2>4, <3>2 DEF CalculateVaultReward
    <2>. QED  BY <2>3, <2>4
  <1>. QED  BY <1>2, <1>3, <1>4

\* The operator's fee is at most what it is taken from.
LEMMA OperatorRewardOk ==
    ASSUME NEW o \in Operators, NEW r \in Nat
    PROVE  OperatorReward(o, r) \in Nat /\ OperatorReward(o, r) <= r
  <1>. DEFINE F == OperatorFee[o]
              M == MAX_BPS
              x == OperatorReward(o, r)
  <1>1. F \in Nat /\ M \in Nat \ {0} /\ F <= M /\ x = (r * F) \div M
    BY DelegationAssumption, RouterAssumption, SMTT(30) DEF OperatorReward
  <1>. HIDE DEF F, M, x
  <1>2. r * F \in Nat
    BY <1>1, SMTT(30)
  <1>3. x \in Nat /\ M * x <= r * F
    BY <1>1, <1>2, DivBounds
  <1>4. r * F <= r * M
    BY <1>1, SMTT(30)
  <1>5. M * x <= M * r
    <2>. DEFINE a == M * x
                b == r * F
                c == M * r
    <2>1. a \in Int /\ b \in Int /\ c \in Int /\ a <= b /\ c = r * M
      BY <1>1, <1>2, <1>3, SMTT(30)
    <2>2. b <= c
      BY <1>4, <2>1
    <2>. HIDE DEF a, b, c
    <2>3. a <= c
      BY <2>1, <2>2, SMTT(30)
    <2>. QED  BY <2>3 DEF a, c
  <1>6. x <= r
    <2>. SUFFICES ASSUME x >= r + 1
                  PROVE  FALSE
      BY <1>3, SMTT(30)
    <2>1. M * x >= M * (r + 1) /\ M * (r + 1) = M * r + M
      BY <1>1, <1>3, SMTT(30)
    <2>. QED  BY <1>1, <1>3, <1>5, <2>1, SMTT(30)
  <1>. QED  BY <1>3, <1>6 DEF x

\* What a call does to the operator's router: the routes grow by the rewards
\* of the slots that were reached, and the pool's rest waits or, when there
\* is nobody left, goes to the operator.
OpRouted(o, pool, fee, start, rewards, stop, routed) ==
    /\ start \in Nat /\ rewards \in Nat /\ stop \in Nat /\ stop > start
    /\ routed \in Nat /\ routed <= pool
    /\ vault_routes' \in [Operators -> [Vaults -> Nat]]
    /\ op_pool' \in [Operators -> Nat] /\ op_processed' \in [Operators -> Nat]
    /\ op_rewards' \in [Operators -> Nat]
    /\ op_last_index' \in [Operators -> {None} \cup Nat]
    /\ op_last_rewards' \in [Operators -> {None} \cup Nat]
    /\ \A p \in Operators \ {o} :
           /\ vault_routes'[p] = vault_routes[p] /\ op_pool'[p] = op_pool[p]
           /\ op_processed'[p] = op_processed[p] /\ op_rewards'[p] = op_rewards[p]
           /\ op_last_index'[p] = op_last_index[p]
           /\ op_last_rewards'[p] = op_last_rewards[p]
    /\ SumFunctionOnSet(vault_routes'[o], Vaults)
           = SumFunctionOnSet(vault_routes[o], Vaults) + routed
    /\ rewards > 0 /\ stop <= Len(Delegations[o]) =>
           /\ op_pool'[o] = pool - routed
           /\ op_processed'[o] = op_processed[o] + fee + routed
           /\ op_rewards'[o] = op_rewards[o] + fee
           /\ op_last_index'[o] = stop /\ op_last_rewards'[o] = rewards
    /\ ~(rewards > 0 /\ stop <= Len(Delegations[o])) =>
           /\ op_pool'[o] = 0
           /\ op_processed'[o] = op_processed[o] + fee + pool
           /\ op_rewards'[o] = op_rewards[o] + fee + (pool - routed)
           /\ op_last_index'[o] = None /\ op_last_rewards'[o] = None

\* A call does so, from where the last one stopped.
LEMMA OpRouteParts ==
    ASSUME OpTypes, NEW o \in Operators, OpRoutingState(o),
           NEW pool \in Nat, NEW fee \in Nat, NEW m \in Nat,
           RouteRewardPool(o, pool, fee, m),
           NEW start, start = IF OpStillRouting(o) THEN op_last_index[o] ELSE 1,
           NEW rewards, rewards = RewardsToProcess(o, pool),
           NEW stop, stop = start + (IF m = 0 THEN 1 ELSE m),
           NEW routed,
           routed = SumFunctionOnSet(VaultRewards(o, rewards), Reached(o, start, stop))
    PROVE  OpRouted(o, pool, fee, start, rewards, stop, routed)
  <1>1. start \in Nat /\ rewards \in Nat
    BY DEF OpTypes, OpRoutingState, OpStillRouting, RewardsToProcess, None
  <1>2. stop \in Nat /\ stop > start
    BY <1>1, SMTT(30)
  <1>3. /\ IsFiniteSet(Slots(o)) /\ Len(Delegations[o]) \in Nat
        /\ \A i \in Slots(o) : /\ VaultRewards(o, rewards)[i] \in Nat
                               /\ Delegations[o][i].vault \in Vaults
    BY <1>1, VaultRewardsOk
  <1>. DEFINE now == Reached(o, start, stop)
              reward == VaultRewards(o, rewards)
              more == rewards > 0 /\ stop <= Len(Delegations[o])
              h == [v \in Vaults |-> VaultGiven(o, v, start, stop, rewards)]
              part == [v \in Vaults |-> {i \in now : Delegations[o][i].vault = v}]
              old == vault_routes[o]
              new == [v \in Vaults |-> old[v] + h[v]]
              a == IF more THEN pool - routed ELSE 0
              b == op_processed[o] + fee + (IF more THEN routed ELSE pool)
              c == op_rewards[o] + fee + (IF more THEN 0 ELSE pool - routed)
              d == IF more THEN stop ELSE None
              e == IF more THEN rewards ELSE None
  <1>4. IsFiniteSet(now) /\ now \subseteq Slots(o)
    BY <1>3, FS_Subset DEF Reached
  <1>5. routed \in Nat
    BY <1>3, <1>4, SumType
  <1>6. /\ pool - routed >= 0
        /\ vault_routes' = [vault_routes EXCEPT ![o] = new]
        /\ op_pool' = [op_pool EXCEPT ![o] = a]
        /\ op_processed' = [op_processed EXCEPT ![o] = b]
        /\ op_rewards' = [op_rewards EXCEPT ![o] = c]
        /\ op_last_index' = [op_last_index EXCEPT ![o] = d]
        /\ op_last_rewards' = [op_last_rewards EXCEPT ![o] = e]
    BY DEF RouteRewardPool, Reached, Slots, VaultGiven, OpTypes
  <1>7. \A v \in Vaults : h[v] \in Nat /\ old[v] \in Nat /\ new[v] = old[v] + h[v] /\ new[v] \in Nat
    <2>1. \A v \in Vaults : VaultGiven(o, v, start, stop, rewards) \in Nat
      <3>. TAKE v \in Vaults
      <3>1. IsFiniteSet({i \in now : Delegations[o][i].vault = v})
        BY <1>4, FS_Subset
      <3>2. \A i \in {i \in now : Delegations[o][i].vault = v} : reward[i] \in Nat
        BY <1>3, <1>4
      <3>. QED  BY <3>1, <3>2, SumType DEF VaultGiven
    <2>2. \A v \in Vaults : old[v] \in Nat
      BY DEF OpTypes
    <2>. QED  BY <2>1, <2>2, NatPlus
  <1>8. SumFunctionOnSet(h, Vaults) = routed
    <2>1. IsFiniteSet(Vaults)
      BY DelegationAssumption
    <2>2. \A i \in now : reward[i] \in Nat /\ \E v \in Vaults : i \in part[v]
      BY <1>3, <1>4
    <2>3. /\ \A v \in Vaults : part[v] \subseteq now /\ h[v] = SumFunctionOnSet(reward, part[v])
          /\ \A v, w \in Vaults : v # w => part[v] \cap part[w] = {}
      BY DEF VaultGiven
    <2>4. routed = SumFunctionOnSet(reward, now)
      OBVIOUS
    <2>. HIDE DEF h, part, reward, now
    <2>5. SumFunctionOnSet(h, Vaults) = SumFunctionOnSet(reward, now)
      BY <1>4, <2>1, <2>2, <2>3, SumByParts, SMTT(30)
    <2>. QED  BY <2>4, <2>5
  <1>9. SumFunctionOnSet(new, Vaults) = SumFunctionOnSet(old, Vaults) + SumFunctionOnSet(h, Vaults)
    <2>. HIDE DEF h, old, new
    <2>. QED  BY <1>7, DelegationAssumption, SumPlus, SMTT(30)
  <1>10. a \in Nat /\ b \in Nat /\ c \in Nat /\ d \in {None} \cup Nat /\ e \in {None} \cup Nat
    <2>1. op_processed[o] \in Nat /\ op_rewards[o] \in Nat
      BY DEF OpTypes
    <2>2. pool - routed >= 0
      BY <1>6
    <2>. HIDE DEF more
    <2>. QED  BY <1>1, <1>2, <1>5, <2>1, <2>2, SMTT(30)
  <1>11. new \in [Vaults -> Nat]
    <2>. HIDE DEF h, old
    <2>. QED  BY <1>7
  <1>12. /\ vault_routes' \in [Operators -> [Vaults -> Nat]]
         /\ op_pool' \in [Operators -> Nat] /\ op_processed' \in [Operators -> Nat]
         /\ op_rewards' \in [Operators -> Nat]
         /\ op_last_index' \in [Operators -> {None} \cup Nat]
         /\ op_last_rewards' \in [Operators -> {None} \cup Nat]
    <2>. HIDE DEF a, b, c, d, e, new
    <2>. QED  BY <1>6, <1>10, <1>11 DEF OpTypes
  <1>13. /\ vault_routes'[o] = new /\ op_pool'[o] = a /\ op_processed'[o] = b
         /\ op_rewards'[o] = c /\ op_last_index'[o] = d /\ op_last_rewards'[o] = e
         /\ \A p \in Operators \ {o} :
                /\ vault_routes'[p] = vault_routes[p] /\ op_pool'[p] = op_pool[p]
                /\ op_processed'[p] = op_processed[p] /\ op_rewards'[p] = op_rewards[p]
                /\ op_last_index'[p] = op_last_index[p]
                /\ op_last_rewards'[p] = op_last_rewards[p]
    <2>. HIDE DEF a, b, c, d, e, new
    <2>. QED  BY <1>6 DEF OpTypes
  <1>14. SumFunctionOnSet(vault_routes'[o], Vaults)
             = SumFunctionOnSet(vault_routes[o], Vaults) + routed
    <2>. HIDE DEF new, h
    <2>. QED  BY <1>8, <1>9, <1>13
  <1>15. routed <= pool
    BY <1>5, <1>6, SMTT(30)
  <1>16. op_processed[o] \in Nat /\ op_rewards[o] \in Nat
    BY DEF OpTypes
  <1>17. /\ more => /\ op_pool'[o] = pool - routed
                    /\ op_processed'[o] = op_processed[o] + fee + routed
                    /\ op_rewards'[o] = op_rewards[o] + fee
                    /\ op_last_index'[o] = stop /\ op_last_rewards'[o] = rewards
         /\ ~more => /\ op_pool'[o] = 0
                     /\ op_processed'[o] = op_processed[o] + fee + pool
                     /\ op_rewards'[o] = op_rewards[o] + fee + (pool - routed)
                     /\ op_last_index'[o] = None /\ op_last_rewards'[o] = None
    <2>. HIDE DEF more, new
    <2>. QED  BY <1>5, <1>13, <1>16, SMTT(30)
  <1>. QED  BY <1>1, <1>2, <1>5, <1>12, <1>13, <1>14, <1>15, <1>17 DEF OpRouted

\* A router that is not touched, or whose receiver is paid into, stays as it
\* should be.
LEMMA OpOkKept ==
    ASSUME NEW p \in Operators, OpOk(p), OpTypes,
           operator_receiver[p] \in Nat, operator_receiver'[p] \in Nat,
           p \in op_live' => /\ p \in op_live
                             /\ operator_receiver'[p] >= operator_receiver[p],
           vault_routes'[p] = vault_routes[p], op_pool'[p] = op_pool[p],
           op_processed'[p] = op_processed[p], op_rewards'[p] = op_rewards[p],
           op_last_index'[p] = op_last_index[p], op_last_rewards'[p] = op_last_rewards[p]
    PROVE  OpOk(p)'
  <1>1. OpRoutingState(p)'
    BY DEF OpOk, OpRoutingState, OpStillRouting
  <1>2. OpSolvent(p)'
    <2>1. Rent \in Nat /\ op_pool[p] \in Nat /\ op_processed[p] \in Nat
      BY RouterAssumption DEF OpTypes
    <2>. QED  BY <2>1, SMTT(30) DEF OpOk, OpSolvent, OpInTransit
  <1>3. OpBooks(p)'
    BY DEF OpOk, OpBooks
  <1>4. OpExact(p)'
    BY DEF OpOk, OpExact, OpStillRouting, VaultRewards, CalculateVaultReward
  <1>. QED  BY <1>1, <1>2, <1>3, <1>4 DEF OpOk

\* A call that routes an operator's rewards: what it was given to route is in
\* the pool or processed afterwards, the books balance, and an interruption
\* leaves the amount of the round less the rewards of all slots reached.
LEMMA OpRouteOk ==
    ASSUME OpTypes, NEW o \in Operators, OpOk(o),
           NEW pool \in Nat, NEW fee \in Nat, NEW m \in Nat,
           RouteRewardPool(o, pool, fee, m),
           OpStillRouting(o) => pool = op_pool[o]
    PROVE  /\ OpRoutingState(o)' /\ OpBooks(o)' /\ OpExact(o)'
           /\ op_pool'[o] + op_processed'[o] = op_processed[o] + fee + pool
           /\ vault_routes' \in [Operators -> [Vaults -> Nat]]
           /\ op_pool' \in [Operators -> Nat] /\ op_processed' \in [Operators -> Nat]
           /\ op_rewards' \in [Operators -> Nat]
           /\ op_last_index' \in [Operators -> {None} \cup Nat]
           /\ op_last_rewards' \in [Operators -> {None} \cup Nat]
           /\ \A p \in Operators \ {o} :
                  /\ vault_routes'[p] = vault_routes[p] /\ op_pool'[p] = op_pool[p]
                  /\ op_processed'[p] = op_processed[p] /\ op_rewards'[p] = op_rewards[p]
                  /\ op_last_index'[p] = op_last_index[p]
                  /\ op_last_rewards'[p] = op_last_rewards[p]
  <1>. DEFINE start == IF OpStillRouting(o) THEN op_last_index[o] ELSE 1
              rewards == RewardsToProcess(o, pool)
              stop == start + (IF m = 0 THEN 1 ELSE m)
              routed == SumFunctionOnSet(VaultRewards(o, rewards), Reached(o, start, stop))
              more == rewards > 0 /\ stop <= Len(Delegations[o])
              x == SumFunctionOnSet(vault_routes[o], Vaults)
              y == SumFunctionOnSet(vault_routes'[o], Vaults)
  <1>0. OpRoutingState(o)
    BY DEF OpOk
  <1>1. /\ start \in Nat /\ rewards \in Nat /\ stop \in Nat /\ stop > start
        /\ routed \in Nat /\ routed <= pool
        /\ vault_routes' \in [Operators -> [Vaults -> Nat]]
        /\ op_pool' \in [Operators -> Nat] /\ op_processed' \in [Operators -> Nat]
        /\ op_rewards' \in [Operators -> Nat]
        /\ op_last_index' \in [Operators -> {None} \cup Nat]
        /\ op_last_rewards' \in [Operators -> {None} \cup Nat]
        /\ \A p \in Operators \ {o} :
               /\ vault_routes'[p] = vault_routes[p] /\ op_pool'[p] = op_pool[p]
               /\ op_processed'[p] = op_processed[p] /\ op_rewards'[p] = op_rewards[p]
               /\ op_last_index'[p] = op_last_index[p]
               /\ op_last_rewards'[p] = op_last_rewards[p]
        /\ y = x + routed
        /\ more =>
               /\ op_pool'[o] = pool - routed
               /\ op_processed'[o] = op_processed[o] + fee + routed
               /\ op_rewards'[o] = op_rewards[o] + fee
               /\ op_last_index'[o] = stop /\ op_last_rewards'[o] = rewards
        /\ ~more =>
               /\ op_pool'[o] = 0
               /\ op_processed'[o] = op_processed[o] + fee + pool
               /\ op_rewards'[o] = op_rewards[o] + fee + (pool - routed)
               /\ op_last_index'[o] = None /\ op_last_rewards'[o] = None
    <2>1. /\ start = IF OpStillRouting(o) THEN op_last_index[o] ELSE 1
          /\ rewards = RewardsToProcess(o, pool)
          /\ stop = start + (IF m = 0 THEN 1 ELSE m)
          /\ routed = SumFunctionOnSet(VaultRewards(o, rewards), Reached(o, start, stop))
      OBVIOUS
    <2>. HIDE DEF start, rewards, stop, routed
    <2>2. OpRouted(o, pool, fee, start, rewards, stop, routed)
      BY <1>0, <2>1, OpRouteParts
    <2>. QED  BY <2>2 DEF OpRouted
  <1>2. OpRoutingState(o)' /\ (OpStillRouting(o)' <=> more)
    <2>1. more => rewards > 0
      OBVIOUS
    <2>. HIDE DEF start, rewards, stop, routed, more
    <2>. QED  BY <1>1, <2>1, SMTT(30) DEF OpRoutingState, OpStillRouting, None
  <1>3. op_processed[o] \in Nat /\ op_rewards[o] \in Nat /\ op_processed[o] = op_rewards[o] + x
    BY DEF OpTypes, OpOk, OpBooks
  <1>4. x \in Nat
    <2>1. \A v \in Vaults : vault_routes[o][v] \in Nat
      BY DEF OpTypes
    <2>. QED  BY <2>1, DelegationAssumption, SumType
  <1>5. /\ op_processed'[o] = op_rewards'[o] + y
        /\ op_pool'[o] + op_processed'[o] = op_processed[o] + fee + pool
    <2>. HIDE DEF start, rewards, stop, routed, more, x, y
    <2>0. routed \in Nat /\ y = x + routed
      BY <1>1
    <2>1. CASE more
      <3>1. /\ op_pool'[o] = pool - routed
            /\ op_processed'[o] = op_processed[o] + fee + routed
            /\ op_rewards'[o] = op_rewards[o] + fee
        BY <1>1, <2>1
      <3>. QED  BY <1>3, <1>4, <2>0, <3>1, SMTT(30)
    <2>2. CASE ~more
      <3>1. /\ op_pool'[o] = 0
            /\ op_processed'[o] = op_processed[o] + fee + pool
            /\ op_rewards'[o] = op_rewards[o] + fee + (pool - routed)
        BY <1>1, <2>2
      <3>. QED  BY <1>3, <1>4, <2>0, <3>1, SMTT(30)
    <2>. QED  BY <2>1, <2>2
  <1>6. OpBooks(o)'
    BY <1>5 DEF OpBooks
  <1>7. OpExact(o)'
    <2>. SUFFICES ASSUME more
                  PROVE  op_pool'[o] = rewards
                             - SumFunctionOnSet(VaultRewards(o, rewards),
                                                {i \in Slots(o) : i < stop})
      <3>1. VaultRewards(o, op_last_rewards[o])' = VaultRewards(o, op_last_rewards'[o])
        BY DEF VaultRewards, CalculateVaultReward
      <3>2. more => op_last_index'[o] = stop /\ op_last_rewards'[o] = rewards
        BY <1>1
      <3>. HIDE DEF rewards, stop, more
      <3>. QED  BY <1>2, <3>1, <3>2 DEF OpExact, Slots
    <2>. DEFINE old == {i \in Slots(o) : i < start}
                now == Reached(o, start, stop)
                all == {i \in Slots(o) : i < stop}
                reward == VaultRewards(o, rewards)
                a == SumFunctionOnSet(reward, old)
                b == SumFunctionOnSet(reward, now)
                c == SumFunctionOnSet(reward, all)
    <2>1. /\ IsFiniteSet(Slots(o)) /\ Slots(o) \subseteq Nat /\ \A i \in Slots(o) : reward[i] \in Nat
          /\ \A i \in Slots(o) : i >= 1
      <3>1. rewards \in Nat
        BY <1>1
      <3>. HIDE DEF rewards
      <3>. QED  BY <3>1, VaultRewardsOk, SMTT(30)
    <2>2. IsFiniteSet(old) /\ IsFiniteSet(now)
      BY <2>1, FS_Subset DEF Reached
    <2>3. all = old \cup now /\ old \cap now = {} /\ old \cup now \subseteq Slots(o)
      <3>1. start \in Nat /\ stop \in Nat /\ stop > start
        BY <1>1
      <3>. HIDE DEF start, stop
      <3>. QED  BY <2>1, <3>1, SMTT(30) DEF Reached
    <2>4. a \in Nat /\ b \in Nat /\ c = a + b
      <3>. HIDE DEF old, now, all, reward
      <3>1. \A i \in old \cup now : reward[i] \in Nat
        BY <2>1, <2>3
      <3>2. a \in Nat /\ b \in Nat
        BY <2>2, <3>1, SumType
      <3>3. SumFunctionOnSet(reward, old \cup now) = a + b
        BY <2>2, <2>3, <3>1, SumUnion
      <3>. QED  BY <2>3, <3>2, <3>3
    <2>5. pool = rewards - a
      <3>1. CASE OpStillRouting(o)
        BY <3>1 DEF OpOk, OpExact, RewardsToProcess, Slots
      <3>2. CASE ~OpStillRouting(o)
        <4>1. old = {}
          BY <2>1, <3>2, SMTT(30)
        <4>2. a = 0
          BY <4>1, SumEmpty
        <4>3. rewards = pool
          BY <3>2 DEF RewardsToProcess
        <4>. HIDE DEF a, rewards
        <4>. QED  BY <4>2, <4>3, SMTT(30)
      <3>. QED  BY <3>1, <3>2
    <2>6. op_pool'[o] = pool - b
      BY <1>1
    <2>7. rewards \in Nat
      BY <1>1
    <2>. HIDE DEF a, b, rewards
    <2>8. op_pool'[o] = rewards - (a + b)
      BY <2>4, <2>5, <2>6, <2>7, SMTT(30)
    <2>. QED  BY <2>4, <2>8 DEF a, b, rewards
  <1>. QED  BY <1>1, <1>2, <1>5, <1>6, <1>7

\* The steps of an operator's router leave the NCN's alone.
LEMMA NcnNotTouched ==
    ASSUME NcnInv, RouterTypes', UNCHANGED <<ballotVars, receiver, router_live, poolVars,
                                             routingVars, received>>
    PROVE  NcnInv'
  <1>1. Solvent'
    BY DEF NcnInv, Solvent, TotalRewardsInTransit, poolVars
  <1>. QED  BY <1>1, NcnKept DEF ballotVars

\* Somebody pays into an operator's receiver.
LEMMA ReceiverGrows ==
    ASSUME RouterTypes, OpInv, NEW o \in Operators, NEW n \in Nat,
           operator_receiver' = [operator_receiver EXCEPT ![o] = @ + n], UNCHANGED opVars
    PROVE  OpInv' /\ operator_receiver' \in [Operators -> Nat]
  <1>1. /\ operator_receiver' \in [Operators -> Nat]
        /\ \A p \in Operators : operator_receiver[p] \in Nat
                                /\ operator_receiver'[p] \in Nat
                                /\ operator_receiver'[p] >= operator_receiver[p]
    BY SMTT(30) DEF RouterTypes
  <1>2. OpTypes'
    BY DEF OpInv, OpTypes, opVars, opPoolVars, opRoutingVars
  <1>3. \A p \in Operators : OpOk(p)'
    BY <1>1, OpOkKept DEF OpInv, opVars, opPoolVars, opRoutingVars
  <1>. QED  BY <1>1, <1>2, <1>3 DEF OpInv

\* The NCN's router changes nothing of the operators' routers.
LEMMA OpNotTouched ==
    ASSUME RouterTypes, OpInv, UNCHANGED opVars, operator_receiver' = operator_receiver
    PROVE  OpInv'
  <1>1. \A p \in Operators : /\ operator_receiver[p] \in Nat /\ operator_receiver'[p] \in Nat
                             /\ operator_receiver'[p] >= operator_receiver[p]
    BY SMTT(30) DEF RouterTypes
  <1>2. OpTypes'
    BY DEF OpInv, OpTypes, opVars, opPoolVars, opRoutingVars
  <1>3. \A p \in Operators : OpOk(p)'
    BY <1>1, OpOkKept DEF OpInv, opVars, opPoolVars, opRoutingVars
  <1>. QED  BY <1>2, <1>3 DEF OpInv

\* Routing an operator's rewards.
LEMMA OpRouteKeeps ==
    ASSUME NcnInv, OpInv, NEW o \in Operators, NEW m \in Nat, RouteOperatorRewards(o, m)
    PROVE  NcnInv' /\ OpInv'
  <1>0. RouterTypes /\ OpTypes /\ OpOk(o) /\ Rent \in Nat
    BY RouterAssumption DEF NcnInv, OpInv
  <1>1. UNCHANGED routerVars /\ op_live' = op_live /\ o \in op_live
        /\ operator_account' = operator_account /\ vault_account' = vault_account
    BY DEF RouteOperatorRewards
  <1>2. NcnInv'
    <2>1. RouterTypes'
      BY <1>0, <1>1 DEF RouterTypes, routerVars, ballotVars, poolVars, routingVars, walletVars
    <2>. QED  BY <1>1, <2>1, NcnNotTouched DEF routerVars, walletVars
  <1>3. operator_receiver' = operator_receiver /\ operator_receiver[o] \in Nat
        /\ op_pool[o] \in Nat /\ op_processed[o] \in Nat /\ op_total[o] \in Nat
        /\ operator_receiver[o] >= Rent + op_pool[o] + op_processed[o]
    BY <1>0, <1>1, SMTT(30)
       DEF routerVars, walletVars, RouterTypes, OpTypes, OpOk, OpSolvent, OpInTransit
  <1>4. \E pool \in Nat, fee \in Nat :
            /\ RouteRewardPool(o, pool, fee, m)
            /\ OpStillRouting(o) => pool = op_pool[o]
            /\ op_processed[o] + fee + pool <= operator_receiver[o] - Rent
            /\ op_total' \in [Operators -> Nat]
    <2>1. CASE OpRouteFresh(o, m)
      <3>. DEFINE in == OpIncoming(o)
                  whole == op_pool[o] + OpIncoming(o)
                  fee == OperatorReward(o, whole)
      <3>1. /\ ~OpStillRouting(o) /\ in >= 0
            /\ op_total' = [op_total EXCEPT ![o] = @ + in]
            /\ RouteRewardPool(o, whole - fee, fee, m)
        BY <2>1 DEF OpRouteFresh
      <3>2. in = operator_receiver[o] - (op_pool[o] + op_processed[o]) - Rent
        BY DEF OpIncoming, OpInTransit
      <3>3. in \in Nat /\ whole \in Nat /\ op_processed[o] + whole = operator_receiver[o] - Rent
        BY <1>0, <1>3, <3>1, <3>2, SMTT(30)
      <3>. HIDE DEF in, whole
      <3>4. fee \in Nat /\ fee <= whole
        BY <3>3, OperatorRewardOk
      <3>. HIDE DEF fee
      <3>5. whole - fee \in Nat /\ op_processed[o] + fee + (whole - fee) <= operator_receiver[o] - Rent
        BY <1>0, <1>3, <3>3, <3>4, SMTT(30)
      <3>6. op_total' \in [Operators -> Nat]
        BY <1>0, <3>1, <3>3, NatPlus DEF OpTypes
      <3>. QED  BY <3>1, <3>4, <3>5, <3>6
    <2>2. CASE OpRouteResumed(o, m)
      <3>1. RouteRewardPool(o, op_pool[o], 0, m) /\ op_total' = op_total
        BY <2>2 DEF OpRouteResumed
      <3>2. 0 \in Nat /\ op_processed[o] + 0 + op_pool[o] <= operator_receiver[o] - Rent
        BY <1>0, <1>3, SMTT(30)
      <3>3. op_total' \in [Operators -> Nat]
        BY <1>0, <3>1 DEF OpTypes
      <3>. QED  BY <1>3, <3>1, <3>2, <3>3
    <2>. QED  BY <2>1, <2>2 DEF RouteOperatorRewards
  <1>5. PICK pool \in Nat, fee \in Nat :
            /\ RouteRewardPool(o, pool, fee, m)
            /\ OpStillRouting(o) => pool = op_pool[o]
            /\ op_processed[o] + fee + pool <= operator_receiver[o] - Rent
            /\ op_total' \in [Operators -> Nat]
    BY <1>4
  <1>6. /\ OpRoutingState(o)' /\ OpBooks(o)' /\ OpExact(o)'
        /\ op_pool'[o] + op_processed'[o] = op_processed[o] + fee + pool
        /\ vault_routes' \in [Operators -> [Vaults -> Nat]]
        /\ op_pool' \in [Operators -> Nat] /\ op_processed' \in [Operators -> Nat]
        /\ op_rewards' \in [Operators -> Nat]
        /\ op_last_index' \in [Operators -> {None} \cup Nat]
        /\ op_last_rewards' \in [Operators -> {None} \cup Nat]
        /\ \A p \in Operators \ {o} :
               /\ vault_routes'[p] = vault_routes[p] /\ op_pool'[p] = op_pool[p]
               /\ op_processed'[p] = op_processed[p] /\ op_rewards'[p] = op_rewards[p]
               /\ op_last_index'[p] = op_last_index[p]
               /\ op_last_rewards'[p] = op_last_rewards[p]
    BY <1>0, <1>5, OpRouteOk
  <1>7. OpTypes'
    BY <1>0, <1>1, <1>5, <1>6 DEF OpTypes
  <1>8. OpSolvent(o)'
    <2>1. /\ op_pool'[o] \in Nat /\ op_processed'[o] \in Nat
          /\ op_pool'[o] + op_processed'[o] = op_processed[o] + fee + pool
      BY <1>6
    <2>2. op_processed[o] + fee + pool <= operator_receiver[o] - Rent
      BY <1>5
    <2>3. operator_receiver[o] >= Rent + (op_pool'[o] + op_processed'[o])
      BY <1>0, <1>3, <2>1, <2>2, SMTT(30)
    <2>. QED  BY <1>3, <2>3 DEF OpSolvent, OpInTransit
  <1>9. ASSUME NEW p \in Operators \ {o}
        PROVE  OpOk(p)'
    <2>1. OpOk(p) /\ OpTypes
      BY <1>0 DEF OpInv
    <2>2. operator_receiver[p] \in Nat
      BY <1>0 DEF RouterTypes
    <2>3. operator_receiver'[p] \in Nat /\ operator_receiver'[p] >= operator_receiver[p]
      BY <1>3, <2>2, SMTT(30)
    <2>. QED  BY <1>1, <1>6, <2>1, <2>2, <2>3, OpOkKept
  <1>. QED  BY <1>2, <1>6, <1>7, <1>8, <1>9 DEF OpInv, OpOk

\* What is paid comes out of what was processed, so the rest stays covered.
LEMMA PaidFromProcessed ==
    ASSUME NEW a \in Nat, NEW b \in Nat, NEW c \in Nat, NEW r \in Nat, NEW n \in Nat,
           a >= r + (b + c), c >= n
    PROVE  a - n \in Nat /\ a - n >= r + (b + (c - n))
  BY SMTT(30)

\* A payment out of an operator's receiver.
LEMMA OpPayKeeps ==
    ASSUME NcnInv, OpInv, NEW o \in Operators, NEW n \in Nat, OpPay(o, n),
           OpTypes', OpBooks(o)',
           \A p \in Operators \ {o} :
               op_rewards'[p] = op_rewards[p] /\ vault_routes'[p] = vault_routes[p]
    PROVE  /\ NcnInv' /\ OpInv'
           /\ distribution'["total"].tally = distribution["total"].tally + n
           /\ operator_receiver'[o] = operator_receiver[o] - n
           /\ \A p \in Operators \ {o} : operator_receiver'[p] = operator_receiver[p]
  <1>0. RouterTypes /\ OpTypes /\ OpOk(o) /\ Rent \in Nat
    BY RouterAssumption DEF NcnInv, OpInv
  <1>1. /\ o \in op_live /\ ~OpStillRouting(o) /\ op_processed[o] >= n
        /\ op_processed' = [op_processed EXCEPT ![o] = @ - n]
        /\ operator_receiver' = [operator_receiver EXCEPT ![o] = @ - n]
        /\ distribution' = [distribution EXCEPT !["total"] = Increment(@, n)]
        /\ op_live' = op_live /\ op_pool' = op_pool
        /\ op_last_index' = op_last_index /\ op_last_rewards' = op_last_rewards
        /\ UNCHANGED <<ballotVars, deposited, receiver, router_live, poolVars, routingVars,
                       protocol_fee_wallet, ncn_fee_wallet, received>>
    BY DEF OpPay, OpCanPay, opRoutingVars
  <1>2. /\ distribution' \in [Progresses -> Progress]
        /\ distribution'["total"].tally = distribution["total"].tally + n
    <2>1. "ncn" \in Progresses \ {"total"} /\ distribution \in [Progresses -> Progress]
      BY <1>0 DEF Progresses, RouterTypes
    <2>. QED  BY <1>1, <2>1, Incremented
  <1>3. /\ operator_receiver[o] \in Nat /\ op_pool[o] \in Nat /\ op_processed[o] \in Nat
        /\ operator_receiver[o] >= Rent + (op_pool[o] + op_processed[o])
        /\ operator_receiver'[o] = operator_receiver[o] - n
        /\ op_processed'[o] = op_processed[o] - n
    BY <1>0, <1>1 DEF RouterTypes, OpTypes, OpOk, OpSolvent, OpInTransit
  <1>4. /\ operator_receiver[o] - n \in Nat
        /\ operator_receiver[o] - n >= Rent + (op_pool[o] + (op_processed[o] - n))
    <2>1. Rent \in Nat /\ op_processed[o] >= n
      BY <1>0, <1>1
    <2>. QED  BY <1>3, <2>1, PaidFromProcessed
  <1>5. \A p \in Operators \ {o} : /\ operator_receiver'[p] = operator_receiver[p]
                                   /\ op_processed'[p] = op_processed[p]
    BY <1>0, <1>1 DEF RouterTypes, OpTypes
  <1>6. operator_receiver' \in [Operators -> Nat]
    BY <1>0, <1>1, <1>4 DEF RouterTypes
  <1>7. RouterTypes'
    BY <1>0, <1>1, <1>2, <1>6 DEF RouterTypes, ballotVars, poolVars, routingVars
  <1>8. NcnInv'
    BY <1>1, <1>7, NcnNotTouched
  <1>9. OpOk(o)'
    <2>1. OpRoutingState(o)' /\ OpExact(o)'
      BY <1>0, <1>1 DEF OpOk, OpRoutingState, OpExact, OpStillRouting
    <2>2. OpSolvent(o)'
      BY <1>1, <1>3, <1>4 DEF OpSolvent, OpInTransit
    <2>. QED  BY <2>1, <2>2 DEF OpOk
  <1>10. ASSUME NEW p \in Operators \ {o}
         PROVE  OpOk(p)'
    <2>1. OpOk(p) /\ OpTypes
      BY <1>0 DEF OpInv
    <2>2. operator_receiver[p] \in Nat
      BY <1>0 DEF RouterTypes
    <2>3. operator_receiver'[p] = operator_receiver[p]
      BY <1>5
    <2>4. operator_receiver'[p] \in Nat /\ operator_receiver'[p] >= operator_receiver[p]
      BY <2>2, <2>3, SMTT(30)
    <2>. QED  BY <1>1, <1>5, <2>1, <2>2, <2>4, OpOkKept
  <1>. QED  BY <1>2, <1>3, <1>5, <1>8, <1>9, <1>10 DEF OpInv


----------------------------------------------------------------------------
(* Every lamport.                                                          *)

AtReceivers == SumFunctionOnSet(operator_receiver, Operators)
AtOperators == SumFunctionOnSet(operator_account, Operators)
AtVaults == SumFunctionOnSet(vault_account, Vaults)
Tally == distribution["total"].tally

\* The amounts are naturals.
Amounts ==
    /\ AtReceivers \in Nat /\ AtOperators \in Nat /\ AtVaults \in Nat
    /\ Tally \in Nat /\ Cardinality(op_live) \in Nat

\* The amounts are naturals in every state of the right type.
LEMMA AmountsTyped == RouterTypes /\ OpTypes => Amounts
  <1>. SUFFICES ASSUME RouterTypes, OpTypes
                PROVE  Amounts
    OBVIOUS
  <1>1. /\ \A o \in Operators : operator_receiver[o] \in Nat /\ operator_account[o] \in Nat
        /\ \A v \in Vaults : vault_account[v] \in Nat
        /\ IsFiniteSet(Operators) /\ IsFiniteSet(Vaults)
    BY RouterAssumption, DelegationAssumption DEF RouterTypes, OpTypes
  <1>2. AtReceivers \in Nat /\ AtOperators \in Nat /\ AtVaults \in Nat
    BY <1>1, SumType DEF AtReceivers, AtOperators, AtVaults
  <1>3. Tally \in Nat
    <2>1. "total" \in Progresses
      BY DEF Progresses
    <2>2. distribution["total"] \in Progress
      BY <2>1 DEF RouterTypes
    <2>. QED  BY <2>2 DEF Progress, Tally
  <1>4. IsFiniteSet(op_live)
    BY <1>1, FS_Subset DEF OpTypes
  <1>. QED  BY <1>2, <1>3, <1>4, FS_CardinalityType DEF Amounts

\* Lamports that move between the places, or arrive, and no router is closed:
\* gained is what the last receivers and wallets get, which the tally records.
LEMMA LamportsMove ==
    ASSUME EveryLamportAccounted, RouterTypes, OpTypes, RouterTypes', OpTypes',
           router_live' = router_live, op_live' = op_live,
           NEW gained \in Int,
           protocol_fee_wallet' + ncn_fee_wallet' + AtOperators' + AtVaults'
               = protocol_fee_wallet + ncn_fee_wallet + AtOperators + AtVaults + gained,
           Tally' = Tally + gained,
           deposited' - (receiver' + AtReceivers') = deposited - (receiver + AtReceivers) + gained
    PROVE  EveryLamportAccounted'
  <1>. DEFINE N == Cardinality(op_live) * Rent
              L == IF router_live THEN Rent ELSE 0
              a == AtReceivers
              b == AtOperators
              c == AtVaults
              t == Tally
              a1 == AtReceivers'
              b1 == AtOperators'
              c1 == AtVaults'
              t1 == Tally'
  <1>1. Amounts
    BY AmountsTyped
  <1>2. Amounts'
    BY AmountsTyped, PTL
  <1>3. /\ a \in Int /\ b \in Int /\ c \in Int /\ t \in Int
        /\ a1 \in Int /\ b1 \in Int /\ c1 \in Int /\ t1 \in Int
        /\ t1 = t + gained
        /\ deposited' - (receiver' + a1) = deposited - (receiver + a) + gained
        /\ protocol_fee_wallet' + ncn_fee_wallet' + b1 + c1
               = protocol_fee_wallet + ncn_fee_wallet + b + c + gained
    BY <1>1, <1>2, NatIsInt DEF Amounts
  <1>4. /\ deposited \in Int /\ receiver \in Int /\ protocol_fee_wallet \in Int
        /\ ncn_fee_wallet \in Int /\ deposited' \in Int /\ receiver' \in Int
        /\ protocol_fee_wallet' \in Int /\ ncn_fee_wallet' \in Int
    BY NatIsInt DEF RouterTypes
  <1>5. N \in Int /\ L \in Int
    <2>1. Cardinality(op_live) \in Int /\ Rent \in Int
      BY <1>1, RouterAssumption, NatIsInt DEF Amounts
    <2>. QED  BY <2>1, SMTT(30)
  <1>6. /\ deposited + L + N = receiver + protocol_fee_wallet + ncn_fee_wallet + a + b + c
        /\ router_live /\ op_live = Operators =>
               t = protocol_fee_wallet + ncn_fee_wallet + b + c
    BY DEF EveryLamportAccounted, AllLamportsConserved, PaymentsTallied, AtReceivers,
           AtOperators, AtVaults, Tally
  <1>. HIDE DEF N, L, a, b, c, t, a1, b1, c1, t1
  <1>7. deposited' + L + N = receiver' + protocol_fee_wallet' + ncn_fee_wallet' + a1 + b1 + c1
    <2>. DEFINE k == L + N
                x == receiver + a
                x1 == receiver' + a1
                u == protocol_fee_wallet + ncn_fee_wallet + b + c
                u1 == protocol_fee_wallet' + ncn_fee_wallet' + b1 + c1
    <2>1. k \in Int /\ x \in Int /\ x1 \in Int /\ u \in Int /\ u1 \in Int
      BY <1>3, <1>4, <1>5, IntPlus
    <2>2. deposited + k = deposited + L + N /\ deposited' + k = deposited' + L + N
      BY <1>4, <1>5, SMTT(30)
    <2>3. x + u = receiver + protocol_fee_wallet + ncn_fee_wallet + a + b + c
      BY <1>3, <1>4, SMTT(30)
    <2>4. x1 + u1 = receiver' + protocol_fee_wallet' + ncn_fee_wallet' + a1 + b1 + c1
      BY <1>3, <1>4, SMTT(30)
    <2>5. deposited + k = x + u
      BY <1>6, <2>2, <2>3
    <2>6. u1 = u + gained /\ deposited' - x1 = deposited - x + gained
      BY <1>3
    <2>. HIDE DEF k, x, x1, u, u1
    <2>7. deposited' + k = x1 + u1
      <3>. DEFINE d == deposited
                  d1 == deposited'
      <3>1. d \in Int /\ d1 \in Int /\ d + k = x + u /\ d1 - x1 = d - x + gained
        BY <1>4, <2>5, <2>6
      <3>. HIDE DEF d, d1
      <3>2. d1 = d - x + gained + x1
        BY <2>1, <3>1, SMTT(30)
      <3>3. d = x + u - k
        BY <2>1, <3>1, SMTT(30)
      <3>4. d1 + k = u + gained + x1
        BY <2>1, <3>1, <3>2, <3>3, SMTT(30)
      <3>5. d1 + k = x1 + u1
        BY <2>1, <2>6, <3>4, SMTT(30)
      <3>. QED  BY <3>5 DEF d1
    <2>. QED  BY <2>2, <2>4, <2>7
  <1>8. router_live /\ op_live = Operators =>
            t1 = protocol_fee_wallet' + ncn_fee_wallet' + b1 + c1
    BY <1>3, <1>4, <1>6
  <1>9. AllLamportsConserved'
    BY <1>7
       DEF AllLamportsConserved, N, L, a1, b1, c1, AtReceivers, AtOperators, AtVaults
  <1>10. PaymentsTallied'
    BY <1>8 DEF PaymentsTallied, b1, c1, t1, AtOperators, AtVaults, Tally
  <1>. QED  BY <1>9, <1>10 DEF EveryLamportAccounted

\* A router is closed: its rent goes to the payer and the rest to the NCN.
LEMMA LamportsClosed ==
    ASSUME EveryLamportAccounted, RouterTypes, OpTypes, RouterTypes', OpTypes',
           ~router_live' \/ op_live' # Operators,
           deposited' = deposited, protocol_fee_wallet' = protocol_fee_wallet,
           AtOperators' = AtOperators, AtVaults' = AtVaults,
           ncn_fee_wallet' + receiver' + AtReceivers' + Rent
               = ncn_fee_wallet + receiver + AtReceivers,
           (IF router_live' THEN Rent ELSE 0) + Cardinality(op_live') * Rent + Rent
               = (IF router_live THEN Rent ELSE 0) + Cardinality(op_live) * Rent
    PROVE  EveryLamportAccounted'
  <1>. DEFINE N == Cardinality(op_live) * Rent
              L == IF router_live THEN Rent ELSE 0
              N1 == Cardinality(op_live') * Rent
              L1 == IF router_live' THEN Rent ELSE 0
              a == AtReceivers
              b == AtOperators
              c == AtVaults
              a1 == AtReceivers'
  <1>1. Amounts
    BY AmountsTyped
  <1>2. Amounts'
    BY AmountsTyped, PTL
  <1>3. Rent \in Int /\ Cardinality(op_live) \in Int /\ Cardinality(op_live') \in Int
    BY <1>1, <1>2, RouterAssumption, NatIsInt DEF Amounts
  <1>4. /\ N \in Int /\ L \in Int /\ N1 \in Int /\ L1 \in Int
    BY <1>3, SMTT(30)
  <1>5. /\ a \in Int /\ b \in Int /\ c \in Int /\ a1 \in Int
        /\ ncn_fee_wallet' + receiver' + a1 + Rent = ncn_fee_wallet + receiver + a
        /\ L1 + N1 + Rent = L + N
    BY <1>1, <1>2, NatIsInt DEF Amounts
  <1>6. /\ deposited \in Int /\ receiver \in Int /\ protocol_fee_wallet \in Int
        /\ ncn_fee_wallet \in Int /\ receiver' \in Int /\ ncn_fee_wallet' \in Int
    BY NatIsInt DEF RouterTypes
  <1>7. deposited + L + N = receiver + protocol_fee_wallet + ncn_fee_wallet + a + b + c
    BY DEF EveryLamportAccounted, AllLamportsConserved, AtReceivers, AtOperators, AtVaults
  <1>. HIDE DEF N, L, N1, L1, a, b, c, a1
  <1>8. deposited + L1 + N1 = receiver' + protocol_fee_wallet + ncn_fee_wallet' + a1 + b + c
    <2>. DEFINE k == L + N
                k1 == L1 + N1
                x == receiver + a + ncn_fee_wallet
                x1 == receiver' + a1 + ncn_fee_wallet'
                u == protocol_fee_wallet + b + c
    <2>1. k \in Int /\ k1 \in Int /\ x \in Int /\ x1 \in Int /\ u \in Int
      BY <1>4, <1>5, <1>6, IntPlus
    <2>2. deposited + k = deposited + L + N /\ deposited + k1 = deposited + L1 + N1
      BY <1>4, <1>6, SMTT(30)
    <2>3. x + u = receiver + protocol_fee_wallet + ncn_fee_wallet + a + b + c
      BY <1>5, <1>6, SMTT(30)
    <2>4. x1 + u = receiver' + protocol_fee_wallet + ncn_fee_wallet' + a1 + b + c
      BY <1>5, <1>6, SMTT(30)
    <2>5. deposited + k = x + u
      BY <1>7, <2>2, <2>3
    <2>6. k1 + Rent = k /\ x1 + Rent = x
      <3>1. k1 + Rent = k
        BY <1>5
      <3>2. x1 + Rent = ncn_fee_wallet' + receiver' + a1 + Rent
        BY <1>3, <1>5, <1>6, SMTT(30)
      <3>3. x = ncn_fee_wallet + receiver + a
        BY <1>5, <1>6, SMTT(30)
      <3>. QED  BY <1>5, <3>1, <3>2, <3>3
    <2>. HIDE DEF k, k1, x, x1, u
    <2>7. deposited + k1 = x1 + u
      BY <1>3, <1>6, <2>1, <2>5, <2>6, SMTT(30)
    <2>. QED  BY <2>2, <2>4, <2>7
  <1>9. AllLamportsConserved'
    <2>1. AtOperators' = b /\ AtVaults' = c
      BY DEF b, c
    <2>. QED  BY <1>8, <2>1 DEF AllLamportsConserved, N1, L1, a1, AtReceivers, AtOperators, AtVaults
  <1>10. PaymentsTallied'
    BY DEF PaymentsTallied
  <1>. QED  BY <1>9, <1>10 DEF EveryLamportAccounted

\* Steps that move no lamports.
LEMMA LamportsStill ==
    ASSUME EveryLamportAccounted, Tally' = Tally,
           UNCHANGED <<deposited, receiver, router_live, walletVars, op_live,
                       operator_account, vault_account>>
    PROVE  EveryLamportAccounted'
  BY DEF EveryLamportAccounted, AllLamportsConserved, PaymentsTallied, walletVars, Tally

\* The NCN's router pays a wallet.
LEMMA LamportsToWallet ==
    ASSUME EveryLamportAccounted, RouterTypes, OpTypes, RouterTypes', OpTypes',
           NEW n \in Nat, Tally' = Tally + n, receiver' = receiver - n,
           protocol_fee_wallet' + ncn_fee_wallet' = protocol_fee_wallet + ncn_fee_wallet + n,
           UNCHANGED <<deposited, router_live, operator_receiver, opVars>>
    PROVE  EveryLamportAccounted'
  <1>. DEFINE a == AtReceivers
              b == AtOperators
              c == AtVaults
  <1>1. a \in Int /\ b \in Int /\ c \in Int
    BY AmountsTyped, NatIsInt DEF Amounts
  <1>2. AtReceivers' = a /\ AtOperators' = b /\ AtVaults' = c
    BY DEF AtReceivers, AtOperators, AtVaults, opVars
  <1>3. /\ protocol_fee_wallet \in Int /\ ncn_fee_wallet \in Int /\ deposited \in Int
        /\ protocol_fee_wallet' \in Int /\ ncn_fee_wallet' \in Int
        /\ receiver \in Int /\ deposited' = deposited
    BY NatIsInt DEF RouterTypes
  <1>. HIDE DEF a, b, c
  <1>4. protocol_fee_wallet' + ncn_fee_wallet' + b + c
            = protocol_fee_wallet + ncn_fee_wallet + b + c + n
    <2>. DEFINE w == protocol_fee_wallet + ncn_fee_wallet
                w1 == protocol_fee_wallet' + ncn_fee_wallet'
    <2>1. w \in Int
      BY <1>3, IntPlus
    <2>2. w1 = w + n
      OBVIOUS
    <2>. HIDE DEF w, w1
    <2>3. w1 + b + c = w + b + c + n
      BY <1>1, <2>1, <2>2, SMTT(30)
    <2>. QED  BY <2>3 DEF w, w1
  <1>5. deposited' - (receiver' + a) = deposited - (receiver + a) + n
    <2>. DEFINE r == receiver
                r1 == receiver'
                d == deposited
    <2>1. r \in Int /\ d \in Int /\ r1 = r - n
      BY <1>3
    <2>. HIDE DEF r, r1, d
    <2>2. d - (r1 + a) = d - (r + a) + n
      BY <1>1, <2>1, SMTT(30)
    <2>. QED  BY <1>3, <2>2 DEF r, r1, d
  <1>. QED  BY <1>2, <1>4, <1>5, LamportsMove, NatIsInt DEF a, b, c, opVars

\* Somebody pays n lamports into an operator's receiver, or into the NCN's.
LEMMA LamportsToReceiver ==
    ASSUME EveryLamportAccounted, RouterTypes, OpTypes, RouterTypes', OpTypes',
           Tally' = Tally, deposited' - receiver' = deposited - receiver + (AtReceivers' - AtReceivers),
           UNCHANGED <<router_live, protocol_fee_wallet, ncn_fee_wallet, opVars>>
    PROVE  EveryLamportAccounted'
  <1>. DEFINE a == AtReceivers
              a1 == AtReceivers'
              b == AtOperators
              c == AtVaults
              t == Tally
  <1>1. a \in Int /\ b \in Int /\ c \in Int /\ t \in Int
    BY AmountsTyped, NatIsInt DEF Amounts
  <1>2. a1 \in Int
    <2>1. Amounts'
      BY AmountsTyped, PTL
    <2>. QED  BY <2>1, NatIsInt DEF Amounts
  <1>3. AtOperators' = b /\ AtVaults' = c
    BY DEF AtOperators, AtVaults, opVars
  <1>4. /\ protocol_fee_wallet \in Int /\ ncn_fee_wallet \in Int /\ deposited \in Int
        /\ protocol_fee_wallet' = protocol_fee_wallet /\ ncn_fee_wallet' = ncn_fee_wallet
        /\ deposited' \in Int /\ receiver \in Int /\ receiver' \in Int
    BY NatIsInt DEF RouterTypes
  <1>5. deposited' - receiver' = deposited - receiver + (a1 - a) /\ Tally' = t
    OBVIOUS
  <1>. HIDE DEF a, a1, b, c, t
  <1>6. protocol_fee_wallet' + ncn_fee_wallet' + b + c
            = protocol_fee_wallet + ncn_fee_wallet + b + c + 0
    BY <1>1, <1>4, SMTT(30)
  <1>7. deposited' - (receiver' + a1) = deposited - (receiver + a) + 0
    <2>. DEFINE r == receiver
                r1 == receiver'
                d == deposited
                d1 == deposited'
    <2>1. r \in Int /\ d \in Int /\ r1 \in Int /\ d1 \in Int /\ d1 - r1 = d - r + (a1 - a)
      BY <1>4, <1>5
    <2>. HIDE DEF r, r1, d, d1
    <2>2. d1 = r1 + (d - r + (a1 - a))
      BY <1>1, <1>2, <2>1, SMTT(30)
    <2>3. d1 - (r1 + a1) = d - (r + a) + 0
      BY <1>1, <1>2, <2>1, <2>2, SMTT(30)
    <2>. QED  BY <2>3 DEF r, r1, d, d1
  <1>8. Tally' = t + 0 /\ 0 \in Int
    BY <1>1, <1>5, SMTT(30)
  <1>. QED  BY <1>3, <1>6, <1>7, <1>8, LamportsMove DEF a, a1, b, c, t, opVars

\* An operator's router pays the operator or a vault.
LEMMA LamportsToRecipient ==
    ASSUME EveryLamportAccounted, RouterTypes, OpTypes, RouterTypes', OpTypes',
           NEW n \in Nat, Tally' = Tally + n, AtReceivers' = AtReceivers - n,
           AtOperators' + AtVaults' = AtOperators + AtVaults + n,
           UNCHANGED <<deposited, receiver, router_live, protocol_fee_wallet,
                       ncn_fee_wallet, op_live>>
    PROVE  EveryLamportAccounted'
  <1>. DEFINE a == AtReceivers
              b == AtOperators
              c == AtVaults
              b1 == AtOperators'
              c1 == AtVaults'
  <1>1. a \in Int /\ b \in Int /\ c \in Int
    BY AmountsTyped, NatIsInt DEF Amounts
  <1>2. b1 \in Int /\ c1 \in Int
    <2>1. Amounts'
      BY AmountsTyped, PTL
    <2>. QED  BY <2>1, NatIsInt DEF Amounts
  <1>3. /\ protocol_fee_wallet \in Int /\ ncn_fee_wallet \in Int /\ deposited \in Int
        /\ receiver \in Int
        /\ protocol_fee_wallet' = protocol_fee_wallet /\ ncn_fee_wallet' = ncn_fee_wallet
        /\ deposited' = deposited /\ receiver' = receiver
    BY NatIsInt DEF RouterTypes
  <1>4. b1 + c1 = b + c + n /\ AtReceivers' = a - n
    OBVIOUS
  <1>. HIDE DEF a, b, c, b1, c1
  <1>5. protocol_fee_wallet' + ncn_fee_wallet' + b1 + c1
            = protocol_fee_wallet + ncn_fee_wallet + b + c + n
    BY <1>1, <1>2, <1>3, <1>4, SMTT(30)
  <1>6. deposited' - (receiver' + AtReceivers') = deposited - (receiver + a) + n
    <2>. DEFINE r == receiver
                d == deposited
    <2>1. r \in Int /\ d \in Int
      BY <1>3
    <2>. HIDE DEF r, d
    <2>2. d - (r + (a - n)) = d - (r + a) + n
      BY <1>1, <2>1, SMTT(30)
    <2>. QED  BY <1>3, <1>4, <2>2 DEF r, d
  <1>. QED  BY <1>5, <1>6, LamportsMove, NatIsInt DEF a, b, c, b1, c1

----------------------------------------------------------------------------
(* The invariant is inductive.                                             *)

\* Initially nothing has arrived.
LEMMA RoutersInit == Init => RoutersInv
  <1>. SUFFICES ASSUME Init
                PROVE  RoutersInv
    OBVIOUS
  <1>1. RouterTypes
    <2>1. distribution \in [Progresses -> Progress]
      BY DEF Init, RouterInit, Progresses, Progress
    <2>. QED  BY <2>1, RouterAssumption DEF Init, RouterInit, RouterTypes, None
  <1>2. OpTypes
    BY DEF Init, OpTypes, None
  <1>3. IsFiniteSet(Operators) /\ IsFiniteSet(Vaults) /\ Rent \in Nat
    BY RouterAssumption, DelegationAssumption
  <1>4. ASSUME NEW S, IsFiniteSet(S)
        PROVE  SumFunctionOnSet([x \in S |-> 0], S) = 0
    <2>. DEFINE f == [x \in S |-> 0]
    <2>1. {} \subseteq S /\ (\A x \in S : f[x] \in Nat) /\ (\A x \in S \ {} : f[x] = 0)
      OBVIOUS
    <2>. HIDE DEF f
    <2>2. SumFunctionOnSet(f, S) = SumFunctionOnSet(f, {})
      BY <1>4, <2>1, SumSupport
    <2>. QED  BY <2>2, SumEmpty DEF f
  <1>5. ~StillRouting /\ RoutingState
    BY DEF Init, RouterInit, StillRouting, RoutingState
  <1>6. Solvent
    BY <1>3, SMTT(30) DEF Init, RouterInit, Solvent, TotalRewardsInTransit
  <1>7. ProcessedAddsUp
    <2>1. Routed = 0
      BY <1>3, <1>4 DEF Routed, Init, RouterInit
    <2>. QED  BY <2>1, SMTT(30) DEF ProcessedAddsUp, Init, RouterInit
  <1>8. ResumeIsExact
    BY <1>5 DEF ResumeIsExact
  <1>9. FairRounds
    <2>1. WeightsOk
      BY <1>1, WeightsTyped
    <2>2. \A o \in Operators : routes[o] = 0 /\ received[o] = 0
      BY DEF Init, RouterInit
    <2>3. ASSUME NEW o \in Operators
          PROVE  (routes[o] + received[o]) * WinningStakeWeight + Unserved(o)
                     <= total_rewards * WeightFrom(o, 0)
      <3>. DEFINE W == WinningStakeWeight
                  w == WeightFrom(o, 0)
                  u == Unserved(o)
      <3>1. W \in Nat /\ w \in Nat
        BY <2>1 DEF WeightsOk
      <3>2. u = 0 /\ total_rewards = 0 /\ routes[o] = 0 /\ received[o] = 0
        BY <1>5, <2>2 DEF Unserved, Init, RouterInit
      <3>. HIDE DEF W, w, u
      <3>3. (routes[o] + received[o]) * W + u <= total_rewards * w
        BY <3>1, <3>2, SMTT(30)
      <3>. QED  BY <3>3 DEF W, w, u
    <2>. QED  BY <1>5, <2>2, <2>3 DEF FairRounds, Init, RouterInit
  <1>10. ASSUME NEW o \in Operators
         PROVE  OpOk(o)
    <2>1. ~OpStillRouting(o) /\ OpRoutingState(o) /\ OpExact(o)
      BY DEF Init, OpStillRouting, OpRoutingState, OpExact
    <2>2. OpSolvent(o)
      BY <1>3, SMTT(30) DEF Init, RouterInit, OpSolvent, OpInTransit
    <2>3. OpBooks(o)
      <3>1. vault_routes[o] = [v \in Vaults |-> 0]
        BY DEF Init
      <3>2. SumFunctionOnSet(vault_routes[o], Vaults) = 0
        BY <1>3, <1>4, <3>1
      <3>. QED  BY <3>2, SMTT(30) DEF OpBooks, Init
    <2>. QED  BY <2>1, <2>2, <2>3 DEF OpOk
  <1>11. EveryLamportAccounted
    <2>1. AtOperators = 0 /\ AtVaults = 0
      BY <1>3, <1>4 DEF Init, AtOperators, AtVaults
    <2>2. AtReceivers = Cardinality(Operators) * Rent
      BY <1>3, SumConstant DEF Init, RouterInit, AtReceivers
    <2>3. Cardinality(Operators) \in Nat
      BY <1>3, FS_CardinalityType
    <2>4. Tally = 0
      BY DEF Init, RouterInit, Tally
    <2>. DEFINE N == Cardinality(Operators) * Rent
    <2>5. N \in Int
      <3>. DEFINE k == Cardinality(Operators)
      <3>1. k \in Nat
        BY <2>3
      <3>. HIDE DEF k
      <3>2. k * Rent \in Int
        BY <1>3, <3>1, SMTT(30)
      <3>. QED  BY <3>2 DEF k
    <2>6. Cardinality(op_live) * Rent = N /\ AtReceivers = N
      BY <2>2 DEF Init
    <2>. HIDE DEF N
    <2>7. 0 + Rent + N = Rent + 0 + 0 + N + 0 + 0
      BY <1>3, <2>5, SMTT(30)
    <2>. QED  BY <2>1, <2>4, <2>6, <2>7, SMTT(30)
              DEF EveryLamportAccounted, AllLamportsConserved, PaymentsTallied, AtReceivers,
                  AtOperators, AtVaults, Tally, Init, RouterInit
  <1>. QED  BY <1>1, <1>2, <1>5, <1>6, <1>7, <1>8, <1>9, <1>10, <1>11
            DEF RoutersInv, NcnInv, OpInv

\* The steps of the NCN's router.
LEMMA NcnStepKeeps ==
    ASSUME RoutersInv, NcnRouterStep
    PROVE  RoutersInv'
  <1>0. /\ NcnInv /\ OpInv /\ EveryLamportAccounted /\ RouterTypes /\ OpTypes
        /\ UNCHANGED opVars
    BY DEF RoutersInv, NcnInv, OpInv, NcnRouterStep
  <1>a. op_live' = op_live /\ operator_account' = operator_account /\ vault_account' = vault_account
    BY <1>0 DEF opVars
  <1>b. OpTypes'
    BY <1>0 DEF OpTypes, opVars, opPoolVars, opRoutingVars
  <1>c. ASSUME NcnInv', operator_receiver' = operator_receiver, EveryLamportAccounted'
        PROVE  RoutersInv'
    BY <1>0, <1>c, OpNotTouched DEF RoutersInv
  <1>1. ASSUME NEW n \in Deposits, Deposit(n)
        PROVE  RoutersInv'
    <2>1. NcnInv' /\ operator_receiver' = operator_receiver
      BY <1>0, <1>1, DepositKeeps DEF Deposit, walletVars
    <2>. DEFINE a == AtReceivers
    <2>2. a \in Int /\ AtReceivers' = a
      BY <1>0, <2>1, AmountsTyped, NatIsInt DEF Amounts, AtReceivers
    <2>3. /\ deposited' = deposited + n /\ receiver' = receiver + n /\ n \in Int
          /\ deposited \in Int /\ receiver \in Int
      BY <1>0, <1>1, RouterAssumption, NatIsInt DEF Deposit, RouterTypes
    <2>4. deposited' - receiver' = deposited - receiver + (AtReceivers' - AtReceivers)
      <3>. HIDE DEF a
      <3>1. a - a = 0
        BY <2>2, SMTT(30)
      <3>2. deposited' - receiver' = deposited - receiver + 0
        BY <2>3, SMTT(30)
      <3>. QED  BY <2>2, <3>1, <3>2 DEF a
    <2>5. EveryLamportAccounted'
      BY <1>0, <1>1, <1>b, <2>1, <2>4, LamportsToReceiver
         DEF Deposit, walletVars, NcnInv, Tally
    <2>. QED  BY <1>c, <2>1, <2>5
  <1>2. ASSUME NEW o \in Operators, NEW wins \in BOOLEAN, CastLateVote(o, wins)
        PROVE  RoutersInv'
    <2>1. NcnInv' /\ operator_receiver' = operator_receiver
      BY <1>0, <1>2, LateVoteKeeps DEF CastLateVote, walletVars
    <2>2. EveryLamportAccounted'
      BY <1>0, <1>2, <1>a, LamportsStill DEF CastLateVote, Tally
    <2>. QED  BY <1>c, <2>1, <2>2
  <1>3. ASSUME VotingEnds \/ AdminExtendsVoting
        PROVE  RoutersInv'
    <2>1. NcnInv' /\ operator_receiver' = operator_receiver
      BY <1>0, <1>3, WindowKeeps DEF VotingEnds, AdminExtendsVoting, walletVars
    <2>2. EveryLamportAccounted'
      BY <1>0, <1>3, <1>a, LamportsStill DEF VotingEnds, AdminExtendsVoting, Tally
    <2>. QED  BY <1>c, <2>1, <2>2
  <1>4. ASSUME NEW m \in 0..MaxIterations, RouteNcnRewards(m)
        PROVE  RoutersInv'
    <2>0. m \in Nat
      BY RouterAssumption, SMTT(30)
    <2>1. NcnInv' /\ operator_receiver' = operator_receiver
      BY <1>0, <1>4, <2>0, RouteKeeps DEF RouteNcnRewards, walletVars
    <2>2. Tally' = Tally
      BY <1>0, <1>4, <2>1, RouteDistribution
         DEF RouteNcnRewards, NcnInv, RouterTypes, Tally
    <2>3. EveryLamportAccounted'
      BY <1>0, <1>4, <1>a, <2>2, LamportsStill DEF RouteNcnRewards
    <2>. QED  BY <1>c, <2>1, <2>3
  <1>5. ASSUME DistributeNcnRewards
        PROVE  RoutersInv'
    <2>1. NcnInv' /\ Tally' = Tally + ncn_rewards /\ operator_receiver' = operator_receiver
      BY <1>0, <1>5, DistributeNcnKeeps DEF DistributeNcnRewards, Tally
    <2>2. /\ ncn_rewards \in Nat /\ ncn_fee_wallet \in Nat /\ protocol_fee_wallet \in Nat
          /\ ncn_fee_wallet' = ncn_fee_wallet + ncn_rewards
          /\ protocol_fee_wallet' = protocol_fee_wallet
          /\ receiver' = receiver - ncn_rewards
          /\ deposited' = deposited /\ router_live' = router_live
      BY <1>0, <1>5 DEF DistributeNcnRewards, Pay, RouterTypes
    <2>3. protocol_fee_wallet' + ncn_fee_wallet' = protocol_fee_wallet + ncn_fee_wallet + ncn_rewards
      BY <2>2, SMTT(30)
    <2>4. EveryLamportAccounted'
      BY <1>0, <1>b, <2>1, <2>2, <2>3, LamportsToWallet DEF NcnInv
    <2>. QED  BY <1>c, <2>1, <2>4
  <1>6. ASSUME DistributeProtocolRewards
        PROVE  RoutersInv'
    <2>1. NcnInv' /\ Tally' = Tally + protocol_rewards /\ operator_receiver' = operator_receiver
      BY <1>0, <1>6, DistributeProtocolKeeps DEF DistributeProtocolRewards, Tally
    <2>2. /\ protocol_rewards \in Nat /\ ncn_fee_wallet \in Nat /\ protocol_fee_wallet \in Nat
          /\ ncn_fee_wallet' = ncn_fee_wallet
          /\ protocol_fee_wallet' = protocol_fee_wallet + protocol_rewards
          /\ receiver' = receiver - protocol_rewards
          /\ deposited' = deposited /\ router_live' = router_live
      BY <1>0, <1>6 DEF DistributeProtocolRewards, Pay, RouterTypes
    <2>3. protocol_fee_wallet' + ncn_fee_wallet'
              = protocol_fee_wallet + ncn_fee_wallet + protocol_rewards
      BY <2>2, SMTT(30)
    <2>4. EveryLamportAccounted'
      BY <1>0, <1>b, <2>1, <2>2, <2>3, LamportsToWallet DEF NcnInv
    <2>. QED  BY <1>c, <2>1, <2>4
  <1>7. ASSUME NEW o \in op_live, DistributeOperatorVaultRewardRoute(o)
        PROVE  RoutersInv'
    <2>0. o \in Operators /\ routes[o] \in Nat
      BY <1>0 DEF OpTypes, RouterTypes
    <2>1. NcnInv' /\ Tally' = Tally
      BY <1>0, <1>7, <2>0, DistributeRouteKeeps DEF Tally
    <2>2. operator_receiver' = [operator_receiver EXCEPT ![o] = @ + routes[o]]
      BY <1>7 DEF DistributeOperatorVaultRewardRoute
    <2>3. OpInv' /\ operator_receiver' \in [Operators -> Nat]
      BY <1>0, <2>0, <2>2, ReceiverGrows
    <2>. DEFINE n == routes[o]
                a == AtReceivers
                a1 == AtReceivers'
    <2>4. a1 = a + (operator_receiver'[o] - operator_receiver[o])
      <3>1. operator_receiver \in [Operators -> Nat] /\ IsFiniteSet(Operators)
            /\ \A p \in Operators \ {o} : operator_receiver'[p] = operator_receiver[p]
        BY <1>0, <2>2, RouterAssumption DEF RouterTypes
      <3>. QED  BY <2>0, <2>3, <3>1, OneChanges DEF AtReceivers
    <2>5. /\ operator_receiver[o] \in Nat /\ operator_receiver'[o] = operator_receiver[o] + n
          /\ a \in Int /\ n \in Nat
      BY <1>0, <2>0, <2>2, AmountsTyped, NatIsInt DEF RouterTypes, Amounts
    <2>6. /\ receiver' = receiver - n /\ deposited' = deposited
          /\ router_live' = router_live /\ protocol_fee_wallet' = protocol_fee_wallet
          /\ ncn_fee_wallet' = ncn_fee_wallet /\ receiver \in Nat /\ deposited \in Nat
      BY <1>0, <1>7 DEF DistributeOperatorVaultRewardRoute, Pay, RouterTypes
    <2>7. deposited' - receiver' = deposited - receiver + (a1 - a)
      <3>. HIDE DEF n, a, a1
      <3>1. a1 - a = n
        BY <2>4, <2>5, SMTT(30)
      <3>2. deposited' - receiver' = deposited - receiver + n
        BY <2>5, <2>6, SMTT(30)
      <3>. QED  BY <3>1, <3>2
    <2>8. EveryLamportAccounted'
      BY <1>0, <1>b, <2>1, <2>6, <2>7, LamportsToReceiver DEF NcnInv
    <2>. QED  BY <2>1, <2>3, <2>8 DEF RoutersInv
  <1>8. ASSUME CloseRouter
        PROVE  RoutersInv'
    <2>1. NcnInv' /\ operator_receiver' = operator_receiver
      BY <1>0, <1>8, CloseRouterKeeps DEF CloseRouter
    <2>. DEFINE a == AtReceivers
                N == Cardinality(op_live) * Rent
    <2>2. /\ a \in Int /\ AtReceivers' = a /\ AtOperators' = AtOperators /\ AtVaults' = AtVaults
      BY <1>0, <1>a, <2>1, AmountsTyped, NatIsInt DEF Amounts, AtReceivers, AtOperators, AtVaults
    <2>3. /\ router_live /\ ~router_live' /\ receiver' = 0 /\ deposited' = deposited
          /\ ncn_fee_wallet' = ncn_fee_wallet + (receiver - Rent)
          /\ protocol_fee_wallet' = protocol_fee_wallet
          /\ receiver \in Nat /\ Rent \in Nat /\ ncn_fee_wallet \in Nat
      BY <1>0, <1>8, RouterAssumption DEF CloseRouter, RouterTypes
    <2>4. ncn_fee_wallet' + receiver' + AtReceivers' + Rent = ncn_fee_wallet + receiver + AtReceivers
      <3>. HIDE DEF a
      <3>1. ncn_fee_wallet' + receiver' + a + Rent = ncn_fee_wallet + receiver + a
        BY <2>2, <2>3, SMTT(30)
      <3>. QED  BY <2>2, <3>1 DEF a
    <2>5. (IF router_live' THEN Rent ELSE 0) + Cardinality(op_live') * Rent + Rent
              = (IF router_live THEN Rent ELSE 0) + Cardinality(op_live) * Rent
      <3>1. N \in Int
        <4>. DEFINE k == Cardinality(op_live)
        <4>1. k \in Nat
          BY <1>0, AmountsTyped DEF Amounts
        <4>. HIDE DEF k
        <4>2. k * Rent \in Int
          BY <2>3, <4>1, SMTT(30)
        <4>. QED  BY <4>2 DEF k
      <3>2. Cardinality(op_live') * Rent = N
        BY <1>a
      <3>. HIDE DEF N
      <3>3. 0 + N + Rent = Rent + N
        BY <2>3, <3>1, SMTT(30)
      <3>. QED  BY <2>3, <3>2, <3>3 DEF N
    <2>6. EveryLamportAccounted'
      BY <1>0, <1>b, <2>1, <2>2, <2>3, <2>4, <2>5, LamportsClosed DEF NcnInv
    <2>. QED  BY <1>c, <2>1, <2>6
  <1>9. ASSUME CloseInputs \/ \E o \in ClosedEarly : CloseOperatorSnapshot(o)
        PROVE  RoutersInv'
    <2>1. NcnInv' /\ operator_receiver' = operator_receiver
      BY <1>0, <1>9, InputsKeep DEF CloseInputs, CloseOperatorSnapshot, walletVars
    <2>2. EveryLamportAccounted'
      BY <1>0, <1>9, <1>a, LamportsStill DEF CloseInputs, CloseOperatorSnapshot, Tally
    <2>. QED  BY <1>c, <2>1, <2>2
  <1>. QED  BY <1>1, <1>2, <1>3, <1>4, <1>5, <1>6, <1>7, <1>8, <1>9 DEF NcnRouterStep

\* Somebody pays into an operator's receiver.
LEMMA DepositOperatorKeeps ==
    ASSUME RoutersInv, NEW o \in Operators, NEW n \in Deposits, DepositOperator(o, n)
    PROVE  RoutersInv'
  <1>0. /\ NcnInv /\ OpInv /\ EveryLamportAccounted /\ RouterTypes /\ OpTypes
        /\ n \in Nat
    BY RouterAssumption DEF RoutersInv, NcnInv, OpInv
  <1>1. /\ operator_receiver' = [operator_receiver EXCEPT ![o] = @ + n]
        /\ deposited' = deposited + n /\ deposited \in Nat
        /\ UNCHANGED <<ballotVars, receiver, router_live, poolVars, routingVars,
                       protocol_fee_wallet, ncn_fee_wallet, received, distribution, opVars>>
    BY <1>0 DEF DepositOperator, RouterTypes
  <1>2. OpInv' /\ operator_receiver' \in [Operators -> Nat]
    BY <1>0, <1>1, ReceiverGrows
  <1>3. RouterTypes'
    BY <1>0, <1>1, <1>2, NatPlus DEF RouterTypes, ballotVars, poolVars, routingVars
  <1>4. NcnInv'
    BY <1>0, <1>1, <1>3, NcnNotTouched
  <1>5. AtReceivers' = AtReceivers + (operator_receiver'[o] - operator_receiver[o])
    <2>1. /\ operator_receiver \in [Operators -> Nat] /\ IsFiniteSet(Operators)
          /\ \A p \in Operators \ {o} : operator_receiver'[p] = operator_receiver[p]
      BY <1>0, <1>1, RouterAssumption DEF RouterTypes
    <2>. QED  BY <1>2, <2>1, OneChanges DEF AtReceivers
  <1>6. deposited' - receiver' = deposited - receiver + (AtReceivers' - AtReceivers)
    <2>. DEFINE a == AtReceivers
                a1 == AtReceivers'
                p == operator_receiver[o]
                p1 == operator_receiver'[o]
    <2>1. /\ a \in Int /\ p \in Nat /\ p1 = p + n /\ a1 = a + (p1 - p)
          /\ deposited \in Int /\ receiver \in Int /\ receiver' = receiver
          /\ deposited' = deposited + n
      BY <1>0, <1>1, <1>5, AmountsTyped, NatIsInt DEF RouterTypes, Amounts
    <2>. HIDE DEF a, a1, p, p1
    <2>2. a1 - a = n
      BY <1>0, <2>1, SMTT(30)
    <2>3. deposited' - receiver' = deposited - receiver + n
      BY <1>0, <2>1, SMTT(30)
    <2>. QED  BY <2>2, <2>3 DEF a, a1
  <1>7. EveryLamportAccounted'
    BY <1>0, <1>1, <1>2, <1>3, <1>6, LamportsToReceiver DEF OpInv, Tally
  <1>. QED  BY <1>2, <1>4, <1>7 DEF RoutersInv

\* What the receivers hold after a payment out of one of them.
LEMMA ReceiverPays ==
    ASSUME RouterTypes, RouterTypes', OpTypes, NEW o \in Operators, NEW n \in Nat,
           operator_receiver'[o] = operator_receiver[o] - n,
           \A p \in Operators \ {o} : operator_receiver'[p] = operator_receiver[p]
    PROVE  AtReceivers' = AtReceivers - n
  <1>1. /\ operator_receiver \in [Operators -> Nat] /\ IsFiniteSet(Operators)
        /\ operator_receiver' \in [Operators -> Nat]
    BY RouterAssumption DEF RouterTypes
  <1>2. AtReceivers' = AtReceivers + (operator_receiver'[o] - operator_receiver[o])
    BY <1>1, OneChanges DEF AtReceivers
  <1>. DEFINE a == AtReceivers
              a1 == AtReceivers'
              p == operator_receiver[o]
              p1 == operator_receiver'[o]
  <1>3. a \in Int /\ p \in Nat /\ p1 = p - n /\ a1 = a + (p1 - p)
    BY <1>1, <1>2, AmountsTyped, NatIsInt DEF Amounts
  <1>. HIDE DEF a, a1, p, p1
  <1>4. a1 = a - n
    BY <1>3, SMTT(30)
  <1>. QED  BY <1>4 DEF a, a1

\* An operator is paid its fee and what the rounding left.
LEMMA DistributeOperatorKeeps ==
    ASSUME RoutersInv, NEW o \in Operators, DistributeOperatorRewards(o)
    PROVE  RoutersInv'
  <1>. DEFINE n == op_rewards[o]
  <1>0. /\ NcnInv /\ OpInv /\ EveryLamportAccounted /\ RouterTypes /\ OpTypes
        /\ OpBooks(o) /\ n \in Nat
    BY DEF RoutersInv, NcnInv, OpInv, OpOk, OpTypes
  <1>1. /\ OpPay(o, n) /\ op_processed[o] >= n
        /\ op_processed' = [op_processed EXCEPT ![o] = @ - n]
        /\ op_rewards' = [op_rewards EXCEPT ![o] = 0]
        /\ operator_account' = [operator_account EXCEPT ![o] = @ + n]
        /\ vault_routes' = vault_routes /\ vault_account' = vault_account
        /\ op_live' = op_live /\ op_total' = op_total /\ op_pool' = op_pool
        /\ op_last_index' = op_last_index /\ op_last_rewards' = op_last_rewards
        /\ UNCHANGED <<deposited, receiver, router_live, protocol_fee_wallet, ncn_fee_wallet>>
    BY DEF DistributeOperatorRewards, OpPay, OpCanPay, opRoutingVars
  <1>2. /\ op_processed[o] \in Nat /\ op_processed[o] - n \in Nat
        /\ operator_account[o] \in Nat /\ operator_account[o] + n \in Nat
    BY <1>0, <1>1, SMTT(30) DEF OpTypes
  <1>3. OpTypes'
    <2>1. /\ op_processed' \in [Operators -> Nat] /\ op_rewards' \in [Operators -> Nat]
          /\ operator_account' \in [Operators -> Nat]
      BY <1>0, <1>1, <1>2 DEF OpTypes
    <2>. HIDE DEF n
    <2>. QED  BY <1>0, <1>1, <2>1 DEF OpTypes
  <1>4. OpBooks(o)'
    <2>. DEFINE s == SumFunctionOnSet(vault_routes[o], Vaults)
                q == op_processed[o]
    <2>1. s \in Nat
      <3>1. IsFiniteSet(Vaults) /\ \A v \in Vaults : vault_routes[o][v] \in Nat
        BY <1>0, DelegationAssumption DEF OpTypes
      <3>. QED  BY <3>1, SumType
    <2>2. q = n + s /\ op_processed'[o] = q - n /\ op_rewards'[o] = 0
      BY <1>0, <1>1 DEF OpBooks, OpTypes
    <2>3. op_processed'[o] = 0 + s
      <3>. HIDE DEF s, q, n
      <3>. QED  BY <1>0, <2>1, <2>2, SMTT(30)
    <2>. QED  BY <1>1, <2>2, <2>3 DEF OpBooks
  <1>5. \A p \in Operators \ {o} :
            op_rewards'[p] = op_rewards[p] /\ vault_routes'[p] = vault_routes[p]
    BY <1>0, <1>1 DEF OpTypes
  <1>. HIDE DEF n
  <1>6. /\ NcnInv' /\ OpInv' /\ Tally' = Tally + n
        /\ operator_receiver'[o] = operator_receiver[o] - n
        /\ \A p \in Operators \ {o} : operator_receiver'[p] = operator_receiver[p]
    BY <1>0, <1>1, <1>3, <1>4, <1>5, OpPayKeeps DEF Tally
  <1>7. RouterTypes'
    BY <1>6 DEF NcnInv
  <1>8. AtReceivers' = AtReceivers - n
    BY <1>0, <1>6, <1>7, ReceiverPays
  <1>9. AtOperators' + AtVaults' = AtOperators + AtVaults + n
    <2>1. /\ operator_account \in [Operators -> Nat] /\ operator_account' \in [Operators -> Nat]
          /\ IsFiniteSet(Operators)
          /\ \A p \in Operators \ {o} : operator_account'[p] = operator_account[p]
      BY <1>0, <1>1, <1>3, RouterAssumption DEF OpTypes
    <2>2. AtOperators' = AtOperators + (operator_account'[o] - operator_account[o])
      BY <2>1, OneChanges DEF AtOperators
    <2>. DEFINE b == AtOperators
                b1 == AtOperators'
                c == AtVaults
                p == operator_account[o]
                p1 == operator_account'[o]
    <2>3. /\ b \in Int /\ c \in Int /\ p \in Nat /\ p1 = p + n /\ b1 = b + (p1 - p)
      BY <1>0, <1>1, <2>1, <2>2, AmountsTyped, NatIsInt DEF Amounts
    <2>4. AtVaults' = c
      BY <1>1 DEF AtVaults
    <2>. HIDE DEF b, b1, c, p, p1
    <2>5. b1 + c = b + c + n
      BY <1>0, <2>3, SMTT(30)
    <2>. QED  BY <2>4, <2>5 DEF b, b1, c
  <1>10. EveryLamportAccounted'
    BY <1>0, <1>1, <1>3, <1>6, <1>7, <1>8, <1>9, LamportsToRecipient
  <1>. QED  BY <1>6, <1>10 DEF RoutersInv

\* A vault is paid what an operator's router has for it.
LEMMA DistributeVaultKeeps ==
    ASSUME RoutersInv, NEW o \in Operators, NEW v \in Vaults, DistributeVaultRewards(o, v)
    PROVE  RoutersInv'
  <1>. DEFINE n == vault_routes[o][v]
  <1>0. /\ NcnInv /\ OpInv /\ EveryLamportAccounted /\ RouterTypes /\ OpTypes
        /\ OpBooks(o) /\ n \in Nat
    BY DEF RoutersInv, NcnInv, OpInv, OpOk, OpTypes
  <1>1. /\ OpPay(o, n) /\ op_processed[o] >= n
        /\ op_processed' = [op_processed EXCEPT ![o] = @ - n]
        /\ vault_routes' = [vault_routes EXCEPT ![o] = [@ EXCEPT ![v] = 0]]
        /\ vault_account' = [vault_account EXCEPT ![v] = @ + n]
        /\ op_rewards' = op_rewards /\ operator_account' = operator_account
        /\ op_live' = op_live /\ op_total' = op_total /\ op_pool' = op_pool
        /\ op_last_index' = op_last_index /\ op_last_rewards' = op_last_rewards
        /\ UNCHANGED <<deposited, receiver, router_live, protocol_fee_wallet, ncn_fee_wallet>>
    BY DEF DistributeVaultRewards, OpPay, OpCanPay, opRoutingVars
  <1>2. /\ op_processed[o] \in Nat /\ op_processed[o] - n \in Nat
        /\ vault_account[v] \in Nat /\ vault_account[v] + n \in Nat
    BY <1>0, <1>1, SMTT(30) DEF OpTypes
  <1>. DEFINE emptied == [vault_routes[o] EXCEPT ![v] = 0]
  <1>3. /\ vault_routes[o] \in [Vaults -> Nat] /\ emptied \in [Vaults -> Nat]
        /\ emptied[v] = 0 /\ \A u \in Vaults \ {v} : emptied[u] = vault_routes[o][u]
        /\ vault_routes' = [vault_routes EXCEPT ![o] = emptied]
        /\ vault_routes \in [Operators -> [Vaults -> Nat]]
    BY <1>0, <1>1 DEF OpTypes
  <1>. HIDE DEF emptied
  <1>4. /\ vault_routes'[o] = emptied
        /\ vault_routes' \in [Operators -> [Vaults -> Nat]]
        /\ \A p \in Operators \ {o} : vault_routes'[p] = vault_routes[p]
    BY <1>3
  <1>5. OpTypes'
    <2>1. op_processed' \in [Operators -> Nat] /\ vault_account' \in [Vaults -> Nat]
      BY <1>0, <1>1, <1>2 DEF OpTypes
    <2>. HIDE DEF n
    <2>. QED  BY <1>0, <1>1, <1>4, <2>1 DEF OpTypes
  <1>6. OpBooks(o)'
    <2>. DEFINE s == SumFunctionOnSet(vault_routes[o], Vaults)
                s1 == SumFunctionOnSet(emptied, Vaults)
                q == op_processed[o]
                r == op_rewards[o]
    <2>0. IsFiniteSet(Vaults)
      BY DelegationAssumption
    <2>1. s1 = s + (emptied[v] - n)
      BY <1>3, <2>0, OneChanges, SMTT(30)
    <2>2. s \in Nat
      <3>1. \A u \in Vaults : vault_routes[o][u] \in Nat
        BY <1>3
      <3>. QED  BY <2>0, <3>1, SumType
    <2>3. q = r + s /\ op_processed'[o] = q - n /\ r \in Nat /\ op_rewards'[o] = r
      BY <1>0, <1>1 DEF OpBooks, OpTypes
    <2>4. op_processed'[o] = r + s1
      <3>0. n \in Nat /\ emptied[v] = 0
        BY <1>0, <1>3
      <3>. HIDE DEF s, s1, q, r, n
      <3>1. s1 = s - n
        BY <3>0, <2>1, <2>2, SMTT(30)
      <3>. QED  BY <3>0, <2>2, <2>3, <3>1, SMTT(30)
    <2>. QED  BY <1>4, <2>3, <2>4 DEF OpBooks
  <1>7. \A p \in Operators \ {o} :
            op_rewards'[p] = op_rewards[p] /\ vault_routes'[p] = vault_routes[p]
    BY <1>1, <1>4
  <1>. HIDE DEF n
  <1>8. /\ NcnInv' /\ OpInv' /\ Tally' = Tally + n
        /\ operator_receiver'[o] = operator_receiver[o] - n
        /\ \A p \in Operators \ {o} : operator_receiver'[p] = operator_receiver[p]
    BY <1>0, <1>1, <1>5, <1>6, <1>7, OpPayKeeps DEF Tally
  <1>9. RouterTypes'
    BY <1>8 DEF NcnInv
  <1>10. AtReceivers' = AtReceivers - n
    BY <1>0, <1>8, <1>9, ReceiverPays
  <1>11. AtOperators' + AtVaults' = AtOperators + AtVaults + n
    <2>1. /\ vault_account \in [Vaults -> Nat] /\ vault_account' \in [Vaults -> Nat]
          /\ IsFiniteSet(Vaults)
          /\ \A u \in Vaults \ {v} : vault_account'[u] = vault_account[u]
      BY <1>0, <1>1, <1>5, DelegationAssumption DEF OpTypes
    <2>2. AtVaults' = AtVaults + (vault_account'[v] - vault_account[v])
      BY <2>1, OneChanges DEF AtVaults
    <2>. DEFINE b == AtOperators
                c == AtVaults
                c1 == AtVaults'
                p == vault_account[v]
                p1 == vault_account'[v]
    <2>3. /\ b \in Int /\ c \in Int /\ p \in Nat /\ p1 = p + n /\ c1 = c + (p1 - p)
      BY <1>0, <1>1, <2>1, <2>2, AmountsTyped, NatIsInt DEF Amounts
    <2>4. AtOperators' = b
      BY <1>1 DEF AtOperators
    <2>. HIDE DEF b, c, c1, p, p1
    <2>5. b + c1 = b + c + n
      BY <1>0, <2>3, SMTT(30)
    <2>. QED  BY <2>4, <2>5 DEF b, c, c1
  <1>12. EveryLamportAccounted'
    BY <1>0, <1>1, <1>5, <1>8, <1>9, <1>10, <1>11, LamportsToRecipient
  <1>. QED  BY <1>8, <1>12 DEF RoutersInv

\* An operator's router is closed: the receiver is emptied, and a router that
\* is not live owes nothing.
LEMMA CloseOperatorKeeps ==
    ASSUME RoutersInv, NEW o \in Operators, CloseOperatorRouter(o)
    PROVE  RoutersInv'
  <1>0. /\ NcnInv /\ OpInv /\ EveryLamportAccounted /\ RouterTypes /\ OpTypes
        /\ OpOk(o) /\ Rent \in Nat
    BY RouterAssumption DEF RoutersInv, NcnInv, OpInv
  <1>1. /\ o \in op_live /\ op_live' = op_live \ {o}
        /\ operator_receiver' = [operator_receiver EXCEPT ![o] = 0]
        /\ ncn_fee_wallet' = ncn_fee_wallet + (operator_receiver[o] - Rent)
        /\ UNCHANGED <<ballotVars, deposited, receiver, router_live, poolVars, routingVars,
                       protocol_fee_wallet, received, distribution>>
        /\ UNCHANGED <<op_total, op_pool, op_processed, op_rewards, vault_routes,
                       op_last_index, op_last_rewards, operator_account, vault_account>>
    BY DEF CloseOperatorRouter, opPoolVars, opRoutingVars
  <1>2. /\ operator_receiver[o] \in Nat /\ operator_receiver[o] >= Rent /\ ncn_fee_wallet \in Nat
    <2>. DEFINE a == operator_receiver[o]
                b == op_pool[o]
                c == op_processed[o]
    <2>1. a \in Nat /\ b \in Nat /\ c \in Nat /\ a >= Rent + (b + c)
      BY <1>0, <1>1 DEF RouterTypes, OpTypes, OpOk, OpSolvent, OpInTransit
    <2>. HIDE DEF a, b, c
    <2>2. a >= Rent
      BY <1>0, <2>1, SMTT(30)
    <2>. QED  BY <1>0, <2>1, <2>2 DEF a, RouterTypes
  <1>3. ncn_fee_wallet' \in Nat
    BY <1>0, <1>1, <1>2, SMTT(30)
  <1>4. /\ operator_receiver' \in [Operators -> Nat] /\ operator_receiver'[o] = 0
        /\ \A p \in Operators \ {o} : operator_receiver'[p] = operator_receiver[p]
    BY <1>0, <1>1 DEF RouterTypes
  <1>5. RouterTypes'
    BY <1>0, <1>1, <1>3, <1>4 DEF RouterTypes, ballotVars, poolVars, routingVars
  <1>6. NcnInv'
    BY <1>0, <1>1, <1>5, NcnNotTouched
  <1>7. OpTypes'
    BY <1>0, <1>1 DEF OpTypes
  <1>8. \A p \in Operators : OpOk(p)'
    <2>. SUFFICES ASSUME NEW p \in Operators
                  PROVE  OpOk(p)'
      OBVIOUS
    <2>0. OpOk(p)
      BY <1>0 DEF OpInv
    <2>1. OpRoutingState(p)' /\ OpBooks(p)' /\ OpExact(p)'
      BY <1>1, <2>0 DEF OpOk, OpRoutingState, OpBooks, OpExact, OpStillRouting
    <2>2. OpSolvent(p)'
      BY <1>1, <1>4, <2>0 DEF OpOk, OpSolvent, OpInTransit
    <2>. QED  BY <2>1, <2>2 DEF OpOk
  <1>9. OpInv'
    BY <1>7, <1>8 DEF OpInv
  <1>10. AtReceivers' = AtReceivers + (operator_receiver'[o] - operator_receiver[o])
    <2>1. operator_receiver \in [Operators -> Nat] /\ IsFiniteSet(Operators)
      BY <1>0, RouterAssumption DEF RouterTypes
    <2>. QED  BY <1>4, <2>1, OneChanges DEF AtReceivers
  <1>11. ncn_fee_wallet' + receiver' + AtReceivers' + Rent
             = ncn_fee_wallet + receiver + AtReceivers
    <2>. DEFINE a == AtReceivers
                a1 == AtReceivers'
                p == operator_receiver[o]
                w == ncn_fee_wallet
                w1 == ncn_fee_wallet'
                r == receiver
    <2>1. /\ a \in Int /\ p \in Nat /\ w \in Nat /\ r \in Nat /\ receiver' = r
          /\ w1 = w + (p - Rent)
      BY <1>0, <1>1, <1>2, AmountsTyped, NatIsInt DEF Amounts, RouterTypes
    <2>2. a1 = a + (0 - p)
      BY <1>4, <1>10
    <2>. HIDE DEF a, a1, p, w, w1, r
    <2>3. w1 + r + a1 + Rent = w + r + a
      BY <1>0, <2>1, <2>2, SMTT(30)
    <2>. QED  BY <2>1, <2>3 DEF a, a1, w, w1, r
  <1>12. (IF router_live' THEN Rent ELSE 0) + Cardinality(op_live') * Rent + Rent
             = (IF router_live THEN Rent ELSE 0) + Cardinality(op_live) * Rent
    <2>. DEFINE k == Cardinality(op_live)
                k1 == Cardinality(op_live')
                L == IF router_live THEN Rent ELSE 0
    <2>1. IsFiniteSet(op_live)
      BY <1>0, RouterAssumption, FS_Subset DEF OpTypes
    <2>2. k1 = k - 1 /\ k \in Nat
      BY <1>1, <2>1, FS_RemoveElement, FS_CardinalityType
    <2>3. L \in Nat /\ (IF router_live' THEN Rent ELSE 0) = L
      BY <1>0, <1>1
    <2>. HIDE DEF k, k1, L
    <2>4. k1 * Rent + Rent = k * Rent /\ k1 * Rent \in Int /\ k * Rent \in Int
      BY <1>0, <2>2, SMTT(30)
    <2>. DEFINE x == k1 * Rent
                y == k * Rent
    <2>5. x + Rent = y /\ x \in Int /\ y \in Int
      BY <2>4
    <2>. HIDE DEF x, y
    <2>6. L + x + Rent = L + y
      BY <1>0, <2>3, <2>5, SMTT(30)
    <2>. QED  BY <2>3, <2>6 DEF x, y, k, k1, L
  <1>13. op_live' # Operators /\ AtOperators' = AtOperators /\ AtVaults' = AtVaults
         /\ deposited' = deposited /\ protocol_fee_wallet' = protocol_fee_wallet
    BY <1>1 DEF AtOperators, AtVaults
  <1>14. EveryLamportAccounted'
    BY <1>0, <1>5, <1>7, <1>11, <1>12, <1>13, LamportsClosed
  <1>. QED  BY <1>6, <1>9, <1>14 DEF RoutersInv

\* The invariant is inductive.
LEMMA RoutersStep == RoutersInv /\ [Next]_vars => RoutersInv'
  <1>. SUFFICES ASSUME RoutersInv, [Next]_vars
                PROVE  RoutersInv'
    OBVIOUS
  <1>0. /\ NcnInv /\ OpInv /\ EveryLamportAccounted /\ RouterTypes
    BY DEF RoutersInv, NcnInv
  <1>1. CASE NcnRouterStep
    BY <1>1, NcnStepKeeps
  <1>2. ASSUME NEW o \in Operators, NEW n \in Deposits, DepositOperator(o, n)
        PROVE  RoutersInv'
    BY <1>2, DepositOperatorKeeps
  <1>3. ASSUME NEW o \in Operators, NEW m \in 0..MaxIterations, RouteOperatorRewards(o, m)
        PROVE  RoutersInv'
    <2>1. m \in Nat
      BY RouterAssumption, SMTT(30)
    <2>2. NcnInv' /\ OpInv'
      BY <1>0, <1>3, <2>1, OpRouteKeeps
    <2>3. EveryLamportAccounted'
      BY <1>0, <1>3, LamportsStill DEF RouteOperatorRewards, routerVars, Tally
    <2>. QED  BY <2>2, <2>3 DEF RoutersInv
  <1>4. ASSUME NEW o \in Operators, DistributeOperatorRewards(o)
        PROVE  RoutersInv'
    BY <1>4, DistributeOperatorKeeps
  <1>5. ASSUME NEW o \in Operators, NEW v \in Vaults, DistributeVaultRewards(o, v)
        PROVE  RoutersInv'
    BY <1>5, DistributeVaultKeeps
  <1>6. ASSUME NEW o \in Operators, CloseOperatorRouter(o)
        PROVE  RoutersInv'
    BY <1>6, CloseOperatorKeeps
  <1>7. CASE UNCHANGED vars
    <2>1. UNCHANGED routerVars /\ UNCHANGED opVars
      BY <1>7 DEF vars
    <2>2. RouterTypes'
      BY <1>0, <2>1
         DEF RouterTypes, routerVars, ballotVars, poolVars, routingVars, walletVars
    <2>3. NcnInv'
      BY <1>0, <2>1, <2>2, NcnNotTouched DEF routerVars, walletVars
    <2>4. OpInv'
      BY <1>0, <2>1, OpNotTouched DEF routerVars, walletVars
    <2>5. EveryLamportAccounted'
      BY <1>0, <2>1, LamportsStill DEF routerVars, opVars, Tally
    <2>. QED  BY <2>3, <2>4, <2>5 DEF RoutersInv
  <1>. QED  BY <1>1, <1>2, <1>3, <1>4, <1>5, <1>6, <1>7 DEF Next, OperatorRouterStep

\* The invariant holds in every reachable state.
THEOREM RoutersAlways == Spec => []RoutersInv
  BY RoutersInit, RoutersStep, PTL DEF Spec

\* Which accounts are left is told apart from everything above.
InputTypes == inputs_live \in BOOLEAN /\ snapshots_live \subseteq Operators

\* The accounts that are read are closed and never come back.
LEMMA InputsAlwaysTyped == Spec => []InputTypes
  <1>1. Init => InputTypes
    BY DEF Init, RouterInit, InputTypes
  <1>2. InputTypes /\ [Next]_vars => InputTypes'
    <2>. SUFFICES ASSUME InputTypes, [Next]_vars
                  PROVE  InputTypes'
      OBVIOUS
    <2>1. ASSUME UNCHANGED inputVars
          PROVE  InputTypes'
      BY <2>1 DEF InputTypes, inputVars
    <2>2. ASSUME UNCHANGED ballotVars
          PROVE  UNCHANGED inputVars
      BY <2>2 DEF ballotVars
    <2>3. CASE NcnRouterStep
      <3>1. CASE CloseInputs \/ \E o \in ClosedEarly : CloseOperatorSnapshot(o)
        BY <3>1 DEF CloseInputs, CloseOperatorSnapshot, InputTypes
      <3>2. CASE \/ \E n \in Deposits : Deposit(n)
                 \/ \E o \in Operators, wins \in BOOLEAN : CastLateVote(o, wins)
                 \/ VotingEnds
                 \/ AdminExtendsVoting
        BY <2>1, <2>2, <3>2 DEF Deposit, CastLateVote, VotingEnds, AdminExtendsVoting
      <3>3. CASE \/ \E m \in 0..MaxIterations : RouteNcnRewards(m)
                 \/ CloseRouter
        BY <2>1, <2>2, <3>3 DEF RouteNcnRewards, CloseRouter
      <3>4. CASE \/ DistributeNcnRewards
                 \/ DistributeProtocolRewards
                 \/ \E o \in op_live : DistributeOperatorVaultRewardRoute(o)
        BY <2>1, <2>2, <3>4
           DEF DistributeNcnRewards, DistributeProtocolRewards,
               DistributeOperatorVaultRewardRoute, Pay
      <3>. QED  BY <2>3, <3>1, <3>2, <3>3, <3>4 DEF NcnRouterStep
    <2>4. CASE OperatorRouterStep
      <3>1. UNCHANGED ballotVars
        BY <2>4
           DEF OperatorRouterStep, DepositOperator, RouteOperatorRewards, routerVars,
               DistributeOperatorRewards, DistributeVaultRewards, OpPay, CloseOperatorRouter
      <3>. QED  BY <2>1, <2>2, <3>1
    <2>5. CASE UNCHANGED vars
      BY <2>1, <2>2, <2>5 DEF vars, routerVars
    <2>. QED  BY <2>3, <2>4, <2>5 DEF Next
  <1>. QED  BY <1>1, <1>2, PTL DEF Spec

----------------------------------------------------------------------------
(* What the invariant says.                                                *)

\* Every variable of both stages keeps its type.
LEMMA TypeFromInv == RoutersInv /\ InputTypes => TypeOK
  <1>. SUFFICES ASSUME RouterTypes, OpTypes, InputTypes
                PROVE  TypeOK
    BY DEF RoutersInv, NcnInv, OpInv
  <1>1. RouterTypeOK
    BY DEF RouterTypes, InputTypes, RouterTypeOK
  <1>. QED  BY <1>1 DEF TypeOK, OpTypes

\* The routers cover what they owe, and their books balance.
LEMMA OperatorsFromInv ==
    RoutersInv => RoutersSolvent /\ BooksBalance /\ OperatorResumeIsExact
  <1>. SUFFICES ASSUME NcnInv, OpInv
                PROVE  RoutersSolvent /\ BooksBalance /\ OperatorResumeIsExact
    BY DEF RoutersInv
  <1>1. RoutersSolvent
    BY DEF NcnInv, OpInv, OpTypes, OpOk, OpSolvent, RoutersSolvent
  <1>2. BooksBalance
    BY DEF NcnInv, OpInv, OpOk, OpBooks, BooksBalance
  <1>3. OperatorResumeIsExact
    BY DEF OpInv, OpOk, OpExact, OperatorResumeIsExact
  <1>. QED  BY <1>1, <1>2, <1>3

\* Amounts and indices of both stages stay naturals, or None where nothing is
\* saved.  A subtraction that would underflow fails its transaction, and so
\* cannot be seen here: RoutersSolvent and BooksBalance are about those.
THEOREM RoutersTyped == Spec => []TypeOK
  BY RoutersAlways, InputsAlwaysTyped, TypeFromInv, PTL

\* No router owes more than its receiver holds above the rent, whatever is
\* paid in or voted while a routing is interrupted: route_incoming_rewards
\* does not underflow and payments leave the receiver rent-exempt.
THEOREM RoutersAlwaysSolvent == Spec => []RoutersSolvent
  BY RoutersAlways, OperatorsFromInv, PTL

\* rewards_processed of every router is the sum of what its recipients are
\* still to be paid.
THEOREM BooksAlwaysBalance == Spec => []BooksBalance
  BY RoutersAlways, OperatorsFromInv, PTL

\* An interrupted routing over the vaults has left in the pool exactly what
\* the vaults that were reached did not get.
THEOREM OperatorAlwaysResumesExactly == Spec => []OperatorResumeIsExact
  BY RoutersAlways, OperatorsFromInv, PTL

\* The same of the NCN's router and its operators, while the voting window
\* is not reopened.
THEOREM NcnAlwaysResumesExactly == Spec => []ResumeIsExact
  <1>1. RoutersInv => ResumeIsExact
    BY DEF RoutersInv, NcnInv
  <1>. QED  BY <1>1, RoutersAlways, PTL

\* Nobody gets more than its part by stake of all that was routed.
THEOREM NobodyEverOverpaid == Spec => []NobodyOverpaid
  <1>1. RoutersInv => NobodyOverpaid
    BY OverpaidFromInv DEF RoutersInv
  <1>. QED  BY <1>1, RoutersAlways, PTL

\* No lamport is lost or made between the receivers and the recipients, and
\* the epoch's tally is what the recipients got.
THEOREM EveryLamportAlwaysAccounted == Spec => []EveryLamportAccounted
  <1>1. RoutersInv => EveryLamportAccounted
    BY DEF RoutersInv
  <1>. QED  BY <1>1, RoutersAlways, PTL

============================================================================
