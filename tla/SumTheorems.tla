---------------------------- MODULE SumTheorems ----------------------------
(***************************************************************************)
(* Facts about SumFunctionOnSet(f, S), the sum of f[x] over the elements x *)
(* of a finite set S: the sums of stake, lamports and rewards that the     *)
(* program's counters are compared with.                                   *)
(*                                                                         *)
(* The sum is a fold that takes the elements in an order CHOOSE fixes.  It *)
(* is shown here to count a set (f[x] units for every x), so that sums     *)
(* inherit what FiniteSetTheorems says of cardinalities: no order, one     *)
(* element more or less, disjoint parts.  Induction over the finite        *)
(* subsets of a set goes by a minimal counterexample (WFMin), which needs  *)
(* no theorem with an operator as parameter.                               *)
(***************************************************************************)
EXTENDS Integers, Functions, FiniteSetTheorems, TLAPS

\* Zenon is tried first; a step that needs arithmetic asks for the SMT solver.
USE ZenonT(30), SMTT(30)

\* f[x] units for x, and the units of all elements of S.
Block(f, x) == {x} \X (1..f[x])
Units(f, S) == UNION {Block(f, x) : x \in S}

\* x contributes f[x] units.
LEMMA BlockCounts ==
    ASSUME NEW f, NEW x, f[x] \in Nat
    PROVE  IsFiniteSet(Block(f, x)) /\ Cardinality(Block(f, x)) = f[x]
  <1>1. IsFiniteSet(1..f[x]) /\ Cardinality(1..f[x]) = f[x]
    BY FS_Interval, SMTT(30)
  <1>3. IsFiniteSet({x}) /\ Cardinality({x}) = 1
    BY FS_Singleton
  <1>5. /\ IsFiniteSet({x} \X (1..f[x]))
        /\ Cardinality({x} \X (1..f[x])) = Cardinality({x}) * Cardinality(1..f[x])
    BY <1>1, <1>3, FS_Product
  <1>. QED  BY <1>1, <1>3, <1>5, SMTT(30) DEF Block

\* Finitely many elements have finitely many units.
LEMMA UnitsFinite ==
    ASSUME NEW f, NEW S, IsFiniteSet(S), \A x \in S : f[x] \in Nat
    PROVE  IsFiniteSet(Units(f, S)) /\ Cardinality(Units(f, S)) \in Nat
  <1>. DEFINE T == {Block(f, x) : x \in S}
              g == [x \in S |-> Block(f, x)]
  <1>1. g \in Surjection(S, T)
    BY DEF Surjection
  <1>2. IsFiniteSet(T)
    BY <1>1, FS_Surjection
  <1>3. \A B \in T : IsFiniteSet(B)
    BY BlockCounts
  <1>4. IsFiniteSet(UNION T)
    BY <1>2, <1>3, FS_UNION
  <1>. QED  BY <1>4, FS_CardinalityType DEF Units

\* One element more adds its units and no others.
LEMMA UnitsAdd ==
    ASSUME NEW f, NEW S, IsFiniteSet(S), \A x \in S : f[x] \in Nat,
           NEW x, x \notin S, f[x] \in Nat
    PROVE  Cardinality(Units(f, S \cup {x})) = Cardinality(Units(f, S)) + f[x]
  <1>1. Units(f, S \cup {x}) = Units(f, S) \cup Block(f, x)
    BY DEF Units
  <1>2. Units(f, S) \cap Block(f, x) = {}
    BY SMTT(30) DEF Units, Block
  <1>3. IsFiniteSet(Units(f, S)) /\ Cardinality(Units(f, S)) \in Nat
    BY UnitsFinite
  <1>4. IsFiniteSet(Block(f, x)) /\ Cardinality(Block(f, x)) = f[x]
    BY BlockCounts
  <1>5. Cardinality(Units(f, S) \cup Block(f, x)) =
            Cardinality(Units(f, S)) + Cardinality(Block(f, x))
              - Cardinality(Units(f, S) \cap Block(f, x))
    BY <1>3, <1>4, FS_Union
  <1>6. Cardinality(Units(f, S) \cap Block(f, x)) = 0
    BY <1>2, FS_EmptySet
  <1>. DEFINE a == Cardinality(Units(f, S))
              b == Cardinality(Block(f, x))
              c == Cardinality(Units(f, S) \cap Block(f, x))
              d == Cardinality(Units(f, S) \cup Block(f, x))
  <1>7. a \in Nat /\ b \in Nat /\ c = 0 /\ d = a + b - c
    BY <1>3, <1>4, <1>5, <1>6
  <1>8. d = a + b
    <2>. HIDE DEF a, b, c, d
    <2>. QED  BY <1>7, SMTT(30)
  <1>. QED  BY <1>1, <1>4, <1>8

\* g[s] is the sum over s, for every subset s of S: the function that the
\* fold of SumFunctionOnSet defines by recursion.
IsSum(f, S, g) ==
    g = [s \in SUBSET S |-> IF s = {} THEN 0
                            ELSE f[CHOOSE x \in s : TRUE] + g[s \ {CHOOSE x \in s : TRUE}]]

\* Such a function counts units: a smallest subset where it does not would
\* have a smaller one.
LEMMA SumUnique ==
    ASSUME NEW f, NEW S, IsFiniteSet(S), \A x \in S : f[x] \in Nat,
           NEW g, IsSum(f, S, g)
    PROVE  g[S] = Cardinality(Units(f, S))
  <1>. DEFINE bad == {s \in SUBSET S : g[s] # Cardinality(Units(f, s))}
  <1>1. SUFFICES ASSUME bad # {} PROVE FALSE
    BY DEF bad
  <1>2. IsWellFoundedOn(StrictSubsetOrdering(S), SUBSET S)
    BY FS_StrictSubsetOrderingWellFounded, FS_FiniteSubsetsOfFinite
  <1>3. PICK s \in bad : \A t \in bad : ~(<<t, s>> \in StrictSubsetOrdering(S))
    BY <1>1, <1>2, WFMin
  <1>4. CASE s = {}
    <2>1. g[s] = 0
      BY <1>4 DEF IsSum
    <2>2. Units(f, s) = {}
      BY <1>4 DEF Units
    <2>. QED  BY <2>1, <2>2, FS_EmptySet
  <1>5. CASE s # {}
    <2>. DEFINE x == CHOOSE x \in s : TRUE
                t == s \ {x}
    <2>1. x \in s
      BY <1>5
    <2>2. g[s] = f[x] + g[t]
      BY <1>5 DEF IsSum
    <2>. HIDE DEF x
    <2>3. <<t, s>> \in StrictSubsetOrdering(S)
      BY <2>1 DEF StrictSubsetOrdering
    <2>4. g[t] = Cardinality(Units(f, t))
      BY <2>3, <1>3
    <2>5. IsFiniteSet(t) /\ \A y \in t : f[y] \in Nat
      BY FS_Subset
    <2>6. Cardinality(Units(f, t \cup {x})) = Cardinality(Units(f, t)) + f[x]
      BY <2>1, <2>5, UnitsAdd
    <2>7. t \cup {x} = s
      BY <2>1
    <2>8. Cardinality(Units(f, t)) \in Nat /\ f[x] \in Nat
      BY <2>1, <2>5, UnitsFinite
    <2>9. g[s] = Cardinality(Units(f, s))
      <3>1. g[s] = f[x] + Cardinality(Units(f, t))
        BY <2>2, <2>4
      <3>2. Cardinality(Units(f, s)) = Cardinality(Units(f, t)) + f[x]
        BY <2>6, <2>7
      <3>. HIDE DEF t, bad
      <3>. QED  BY <3>1, <3>2, <2>8, SMTT(30)
    <2>. QED  BY <2>9
  <1>. QED  BY <1>4, <1>5

\* There is one, so the CHOOSE in the recursive definition finds it.
LEMMA SumExists ==
    ASSUME NEW f, NEW S, IsFiniteSet(S), \A x \in S : f[x] \in Nat
    PROVE  \E g : IsSum(f, S, g)
  <1>. DEFINE g == [s \in SUBSET S |-> Cardinality(Units(f, s))]
  <1>1. ASSUME NEW s \in SUBSET S
        PROVE  g[s] = IF s = {} THEN 0
                      ELSE f[CHOOSE x \in s : TRUE] + g[s \ {CHOOSE x \in s : TRUE}]
    <2>1. CASE s = {}
      BY <2>1, FS_EmptySet DEF Units
    <2>2. CASE s # {}
      <3>. DEFINE x == CHOOSE x \in s : TRUE
                  t == s \ {x}
      <3>1. x \in s
        BY <2>2
      <3>. HIDE DEF x
      <3>2. IsFiniteSet(t) /\ \A y \in t : f[y] \in Nat
        BY FS_Subset
      <3>3. Cardinality(Units(f, t \cup {x})) = Cardinality(Units(f, t)) + f[x]
        BY <3>1, <3>2, UnitsAdd
      <3>4. t \cup {x} = s
        BY <3>1
      <3>5. Cardinality(Units(f, t)) \in Nat /\ f[x] \in Nat
        BY <3>1, <3>2, UnitsFinite
      <3>6. g[s] = f[x] + g[t]
        <4>1. g[s] = Cardinality(Units(f, s)) /\ g[t] = Cardinality(Units(f, t))
          OBVIOUS
        <4>2. Cardinality(Units(f, s)) = Cardinality(Units(f, t)) + f[x]
          BY <3>3, <3>4
        <4>. HIDE DEF g, t
        <4>. QED  BY <4>1, <4>2, <3>5, SMTT(30)
      <3>. HIDE DEF g
      <3>. QED  BY <2>2, <3>6 DEF x
    <2>. QED  BY <2>1, <2>2
  <1>2. IsSum(f, S, g)
    BY <1>1 DEF IsSum
  <1>. QED  BY <1>2

-----------------------------------------------------------------------------
\* The sum of f over S is the number of units.
THEOREM SumIsUnits ==
    ASSUME NEW f, NEW S, IsFiniteSet(S), \A x \in S : f[x] \in Nat
    PROVE  SumFunctionOnSet(f, S) = Cardinality(Units(f, S))
  <1>. DEFINE g == CHOOSE g : IsSum(f, S, g)
  <1>1. IsSum(f, S, g)
    BY SumExists
  <1>2. SumFunctionOnSet(f, S) = g[S]
    BY DEF SumFunctionOnSet, FoldFunctionOnSet, MapThenFoldSet, IsSum
  <1>. HIDE DEF g
  <1>. QED  BY <1>1, <1>2, SumUnique

\* Induction over the subsets of a finite set: what holds of {} (is a member
\* of G) and survives one element more holds of the set itself.
LEMMA SubsetInduction ==
    ASSUME NEW S, IsFiniteSet(S), NEW G, {} \in G,
           \A T \in SUBSET S : \A x \in S \ T : T \in G => T \cup {x} \in G
    PROVE  S \in G
  <1>. DEFINE bad == {T \in SUBSET S : T \notin G}
  <1>1. SUFFICES ASSUME bad # {} PROVE FALSE
    BY DEF bad
  <1>2. IsWellFoundedOn(StrictSubsetOrdering(S), SUBSET S)
    BY FS_StrictSubsetOrderingWellFounded, FS_FiniteSubsetsOfFinite
  <1>3. PICK T \in bad : \A U \in bad : ~(<<U, T>> \in StrictSubsetOrdering(S))
    BY <1>1, <1>2, WFMin
  <1>4. T # {}
    OBVIOUS
  <1>5. PICK x \in T : TRUE
    BY <1>4
  <1>6. <<T \ {x}, T>> \in StrictSubsetOrdering(S)
    BY DEF StrictSubsetOrdering
  <1>7. T \ {x} \in G
    BY <1>3, <1>6
  <1>8. (T \ {x}) \cup {x} \in G
    BY <1>7
  <1>9. (T \ {x}) \cup {x} = T
    OBVIOUS
  <1>. QED  BY <1>8, <1>9

\* The empty sum.
LEMMA SumEmpty ==
    ASSUME NEW f
    PROVE  SumFunctionOnSet(f, {}) = 0
  <1>1. Units(f, {}) = {}
    BY DEF Units
  <1>. QED  BY <1>1, SumIsUnits, FS_EmptySet

\* Sums of naturals are naturals.
LEMMA SumType ==
    ASSUME NEW f, NEW S, IsFiniteSet(S), \A x \in S : f[x] \in Nat
    PROVE  SumFunctionOnSet(f, S) \in Nat
  BY SumIsUnits, UnitsFinite

\* One element more: an operator votes, a vault is snapshotted.
LEMMA SumAdd ==
    ASSUME NEW f, NEW S, IsFiniteSet(S), \A y \in S : f[y] \in Nat,
           NEW x, x \notin S, f[x] \in Nat
    PROVE  SumFunctionOnSet(f, S \cup {x}) = SumFunctionOnSet(f, S) + f[x]
  <1>1. IsFiniteSet(S \cup {x})
    BY FS_AddElement
  <1>2. SumFunctionOnSet(f, S \cup {x}) = Cardinality(Units(f, S \cup {x}))
    BY <1>1, SumIsUnits
  <1>3. SumFunctionOnSet(f, S) = Cardinality(Units(f, S))
    BY SumIsUnits
  <1>. QED  BY <1>2, <1>3, UnitsAdd, SMTT(30)

\* One element less.
LEMMA SumRemove ==
    ASSUME NEW f, NEW S, IsFiniteSet(S), \A y \in S : f[y] \in Nat,
           NEW x \in S
    PROVE  SumFunctionOnSet(f, S) = SumFunctionOnSet(f, S \ {x}) + f[x]
  <1>1. IsFiniteSet(S \ {x}) /\ x \notin S \ {x} /\ \A y \in S \ {x} : f[y] \in Nat
    BY FS_Subset
  <1>2. SumFunctionOnSet(f, (S \ {x}) \cup {x}) = SumFunctionOnSet(f, S \ {x}) + f[x]
    BY <1>1, SumAdd
  <1>3. (S \ {x}) \cup {x} = S
    OBVIOUS
  <1>. QED  BY <1>2, <1>3

\* Only the values on S matter.
LEMMA SumSame ==
    ASSUME NEW f, NEW g, NEW S, IsFiniteSet(S),
           \A x \in S : f[x] \in Nat /\ g[x] = f[x]
    PROVE  SumFunctionOnSet(g, S) = SumFunctionOnSet(f, S)
  <1>1. Units(g, S) = Units(f, S)
    BY DEF Units, Block
  <1>. QED  BY <1>1, SumIsUnits

\* One value changes: an account receives or pays.
LEMMA SumUpdate ==
    ASSUME NEW f, NEW g, NEW S, IsFiniteSet(S), \A y \in S : f[y] \in Nat,
           NEW x \in S, g[x] \in Nat, \A y \in S \ {x} : g[y] = f[y]
    PROVE  SumFunctionOnSet(g, S) + f[x] = SumFunctionOnSet(f, S) + g[x]
  <1>1. IsFiniteSet(S \ {x})
    BY FS_Subset
  <1>2. SumFunctionOnSet(f, S) = SumFunctionOnSet(f, S \ {x}) + f[x]
    BY SumRemove
  <1>3. SumFunctionOnSet(g, S) = SumFunctionOnSet(g, S \ {x}) + g[x]
    <2>1. \A y \in S : g[y] \in Nat
      OBVIOUS
    <2>. QED  BY <2>1, SumRemove
  <1>4. SumFunctionOnSet(g, S \ {x}) = SumFunctionOnSet(f, S \ {x})
    BY <1>1, SumSame
  <1>5. SumFunctionOnSet(f, S \ {x}) \in Nat
    BY <1>1, SumType
  <1>. DEFINE a == SumFunctionOnSet(f, S \ {x})
              b == SumFunctionOnSet(f, S)
              c == SumFunctionOnSet(g, S)
  <1>6. a \in Nat /\ b = a + f[x] /\ c = a + g[x] /\ f[x] \in Nat /\ g[x] \in Nat
    BY <1>2, <1>3, <1>4, <1>5
  <1>7. c + f[x] = b + g[x]
    <2>. HIDE DEF a, b, c
    <2>. QED  BY <1>6, SMTT(30)
  <1>. QED  BY <1>7

\* The difference that one member's change makes.
LEMMA OneChanges ==
    ASSUME NEW f, NEW g, NEW S, IsFiniteSet(S), f \in [S -> Nat], g \in [S -> Nat],
           NEW x \in S, \A y \in S \ {x} : g[y] = f[y]
    PROVE  SumFunctionOnSet(g, S) = SumFunctionOnSet(f, S) + (g[x] - f[x])
  <1>. DEFINE a == SumFunctionOnSet(f, S)
              b == SumFunctionOnSet(g, S)
  <1>1. (\A y \in S : f[y] \in Nat) /\ (\A y \in S : g[y] \in Nat)
    OBVIOUS
  <1>2. b + f[x] = a + g[x]
    <2>1. g[x] \in Nat
      OBVIOUS
    <2>. QED  BY <1>1, <2>1, SumUpdate, SMTT(30)
  <1>3. a \in Nat /\ b \in Nat /\ f[x] \in Nat /\ g[x] \in Nat
    BY <1>1, SumType
  <1>. HIDE DEF a, b
  <1>4. b = a + (g[x] - f[x])
    BY <1>2, <1>3, SMTT(30)
  <1>. QED  BY <1>4 DEF a, b

\* No element exceeds the sum.
LEMMA SumMember ==
    ASSUME NEW f, NEW S, IsFiniteSet(S), \A y \in S : f[y] \in Nat,
           NEW x \in S
    PROVE  f[x] <= SumFunctionOnSet(f, S)
  <1>1. SumFunctionOnSet(f, S) = SumFunctionOnSet(f, S \ {x}) + f[x]
    BY SumRemove
  <1>2. SumFunctionOnSet(f, S \ {x}) \in Nat
    BY FS_Subset, SumType
  <1>. DEFINE a == SumFunctionOnSet(f, S \ {x})
  <1>3. a \in Nat /\ SumFunctionOnSet(f, S) = a + f[x]
    BY <1>1, <1>2
  <1>. HIDE DEF a
  <1>. QED  BY <1>3, SMTT(30)

\* Smaller values over fewer elements make a smaller sum.
LEMMA SumMonotone ==
    ASSUME NEW f, NEW g, NEW S, NEW T, IsFiniteSet(S), T \subseteq S,
           \A x \in S : f[x] \in Nat,
           \A x \in T : g[x] \in Nat /\ g[x] <= f[x]
    PROVE  SumFunctionOnSet(g, T) <= SumFunctionOnSet(f, S)
  <1>1. IsFiniteSet(T)
    BY FS_Subset
  <1>2. \A x \in T : 1..g[x] \subseteq 1..f[x]
    BY SMTT(30)
  <1>3. Units(g, T) \subseteq Units(f, S)
    BY <1>2, SMTT(30) DEF Units, Block
  <1>4. Cardinality(Units(g, T)) <= Cardinality(Units(f, S))
    BY <1>3, UnitsFinite, FS_Subset
  <1>. QED  BY <1>1, <1>4, SumIsUnits

\* The sum over two disjoint sets.
LEMMA SumUnion ==
    ASSUME NEW f, NEW S, NEW T, IsFiniteSet(S), IsFiniteSet(T), S \cap T = {},
           \A x \in S \cup T : f[x] \in Nat
    PROVE  SumFunctionOnSet(f, S \cup T) = SumFunctionOnSet(f, S) + SumFunctionOnSet(f, T)
  <1>1. IsFiniteSet(S \cup T)
    BY FS_Union
  <1>2. Units(f, S \cup T) = Units(f, S) \cup Units(f, T)
    BY DEF Units
  <1>3. Units(f, S) \cap Units(f, T) = {}
    BY SMTT(30) DEF Units, Block
  <1>4. /\ IsFiniteSet(Units(f, S)) /\ IsFiniteSet(Units(f, T))
        /\ Cardinality(Units(f, S)) \in Nat /\ Cardinality(Units(f, T)) \in Nat
    BY UnitsFinite
  <1>. DEFINE a == Cardinality(Units(f, S))
              b == Cardinality(Units(f, T))
              c == Cardinality(Units(f, S) \cap Units(f, T))
              d == Cardinality(Units(f, S) \cup Units(f, T))
  <1>5. d = a + b - c
    BY <1>4, FS_Union
  <1>6. c = 0
    BY <1>3, FS_EmptySet
  <1>7. d = a + b
    <2>1. a \in Nat /\ b \in Nat
      BY <1>4
    <2>. HIDE DEF a, b, c, d
    <2>. QED  BY <1>5, <1>6, <2>1, SMTT(30)
  <1>8. /\ SumFunctionOnSet(f, S \cup T) = Cardinality(Units(f, S \cup T))
        /\ SumFunctionOnSet(f, S) = a /\ SumFunctionOnSet(f, T) = b
    BY <1>1, SumIsUnits
  <1>. QED  BY <1>2, <1>7, <1>8

\* Elements of value 0 do not matter.
LEMMA SumSupport ==
    ASSUME NEW f, NEW S, NEW T, IsFiniteSet(S), T \subseteq S,
           \A x \in S : f[x] \in Nat, \A x \in S \ T : f[x] = 0
    PROVE  SumFunctionOnSet(f, S) = SumFunctionOnSet(f, T)
  <1>1. \A x \in S \ T : 1..f[x] = {}
    BY SMTT(30)
  <1>2. Units(f, S) = Units(f, T)
    BY <1>1 DEF Units, Block
  <1>3. IsFiniteSet(T)
    BY FS_Subset
  <1>. QED  BY <1>2, <1>3, SumIsUnits

\* A sum of sums.
LEMMA SumPlus ==
    ASSUME NEW f, NEW g, NEW h, NEW S, IsFiniteSet(S),
           \A x \in S : f[x] \in Nat /\ g[x] \in Nat /\ h[x] = f[x] + g[x]
    PROVE  SumFunctionOnSet(h, S) = SumFunctionOnSet(f, S) + SumFunctionOnSet(g, S)
  <1>. DEFINE G == {T \in SUBSET S : SumFunctionOnSet(h, T)
                        = SumFunctionOnSet(f, T) + SumFunctionOnSet(g, T)}
  <1>1. {} \in G
    BY SumEmpty, SMTT(30)
  <1>2. ASSUME NEW T \in SUBSET S, NEW x \in S \ T, T \in G
        PROVE  T \cup {x} \in G
    <2>1. /\ IsFiniteSet(T)
          /\ \A y \in T : f[y] \in Nat /\ g[y] \in Nat /\ h[y] \in Nat
      BY FS_Subset, SMTT(30)
    <2>2. /\ SumFunctionOnSet(f, T \cup {x}) = SumFunctionOnSet(f, T) + f[x]
          /\ SumFunctionOnSet(g, T \cup {x}) = SumFunctionOnSet(g, T) + g[x]
          /\ SumFunctionOnSet(h, T \cup {x}) = SumFunctionOnSet(h, T) + h[x]
      BY <2>1, SumAdd, SMTT(30)
    <2>. DEFINE a == SumFunctionOnSet(f, T)
                b == SumFunctionOnSet(g, T)
                c == SumFunctionOnSet(h, T)
    <2>3. a \in Nat /\ b \in Nat /\ c = a + b
      BY <1>2, <2>1, SumType
    <2>4. f[x] \in Nat /\ g[x] \in Nat /\ h[x] = f[x] + g[x]
      OBVIOUS
    <2>5. c + h[x] = (a + f[x]) + (b + g[x])
      <3>. HIDE DEF a, b, c
      <3>. QED  BY <2>3, <2>4, SMTT(30)
    <2>. QED  BY <2>2, <2>5
  <1>. HIDE DEF G
  <1>3. S \in G
    BY <1>1, <1>2, SubsetInduction
  <1>. QED  BY <1>3 DEF G

\* The same value for every element.
LEMMA SumConstant ==
    ASSUME NEW S, IsFiniteSet(S), NEW c \in Nat
    PROVE  SumFunctionOnSet([x \in S |-> c], S) = Cardinality(S) * c
  <1>. DEFINE f == [x \in S |-> c]
              G == {T \in SUBSET S : SumFunctionOnSet(f, T) = Cardinality(T) * c}
  <1>0. \A x \in S : f[x] = c
    OBVIOUS
  <1>. HIDE DEF f
  <1>1. {} \in G
    <2>1. SumFunctionOnSet(f, {}) = 0 /\ Cardinality({}) = 0
      BY SumEmpty, FS_EmptySet
    <2>. QED  BY <2>1, SMTT(30)
  <1>2. ASSUME NEW T \in SUBSET S, NEW x \in S \ T, T \in G
        PROVE  T \cup {x} \in G
    <2>1. IsFiniteSet(T) /\ \A y \in T : f[y] \in Nat
      BY <1>0, FS_Subset
    <2>2. SumFunctionOnSet(f, T \cup {x}) = SumFunctionOnSet(f, T) + c
      BY <1>0, <2>1, SumAdd
    <2>3. Cardinality(T \cup {x}) = Cardinality(T) + 1 /\ Cardinality(T) \in Nat
      BY <2>1, FS_AddElement, FS_CardinalityType
    <2>. DEFINE a == SumFunctionOnSet(f, T)
                b == SumFunctionOnSet(f, T \cup {x})
                n == Cardinality(T)
                m == Cardinality(T \cup {x})
    <2>4. n \in Nat /\ m = n + 1 /\ a = n * c /\ b = a + c
      BY <1>2, <2>2, <2>3
    <2>. HIDE DEF a, b, n, m
    <2>5. b = m * c
      BY <2>4, SMTT(30)
    <2>. QED  BY <2>5 DEF b, m
  <1>. HIDE DEF G
  <1>3. S \in G
    BY <1>1, <1>2, SubsetInduction
  <1>. QED  BY <1>3 DEF f, G

\* Shares that are rounded down (f[x] <= P * w[x] / W) never exceed the whole.
LEMMA SumScaled ==
    ASSUME NEW f, NEW w, NEW S, IsFiniteSet(S), NEW W \in Nat, NEW P \in Nat,
           \A x \in S : f[x] \in Nat /\ w[x] \in Nat /\ f[x] * W <= P * w[x]
    PROVE  SumFunctionOnSet(f, S) * W <= P * SumFunctionOnSet(w, S)
  <1>. DEFINE G == {T \in SUBSET S : SumFunctionOnSet(f, T) * W <= P * SumFunctionOnSet(w, T)}
  <1>1. {} \in G
    BY SumEmpty, SMTT(30)
  <1>2. ASSUME NEW T \in SUBSET S, NEW x \in S \ T, T \in G
        PROVE  T \cup {x} \in G
    <2>1. IsFiniteSet(T) /\ (\A y \in T : f[y] \in Nat /\ w[y] \in Nat)
      BY FS_Subset
    <2>2. /\ SumFunctionOnSet(f, T \cup {x}) = SumFunctionOnSet(f, T) + f[x]
          /\ SumFunctionOnSet(w, T \cup {x}) = SumFunctionOnSet(w, T) + w[x]
      BY <2>1, SumAdd
    <2>3. SumFunctionOnSet(f, T) \in Nat /\ SumFunctionOnSet(w, T) \in Nat
      BY <2>1, SumType
    <2>4. SumFunctionOnSet(f, T) * W <= P * SumFunctionOnSet(w, T)
      BY <1>2
    <2>5. f[x] \in Nat /\ w[x] \in Nat /\ f[x] * W <= P * w[x]
      OBVIOUS
    <2>. DEFINE a == SumFunctionOnSet(f, T)
                b == SumFunctionOnSet(w, T)
                c == f[x]
                d == w[x]
    <2>6. (a + c) * W <= P * (b + d)
      <3>1. a \in Nat /\ b \in Nat /\ c \in Nat /\ d \in Nat
        BY <2>3, <2>5
      <3>2. a * W <= P * b /\ c * W <= P * d
        BY <2>4, <2>5
      <3>. HIDE DEF a, b, c, d
      <3>3. (a + c) * W = a * W + c * W /\ P * (b + d) = P * b + P * d
        BY <3>1, SMTT(30)
      <3>4. a * W \in Int /\ c * W \in Int /\ P * b \in Int /\ P * d \in Int
        BY <3>1, SMTT(30)
      <3>. QED  BY <3>2, <3>3, <3>4, SMTT(30)
    <2>. QED  BY <2>2, <2>6
  <1>. HIDE DEF G
  <1>3. S \in G
    BY <1>1, <1>2, SubsetInduction
  <1>. QED  BY <1>3 DEF G

\* Summing group by group is summing everything: rewards of vaults per
\* operator, votes per ballot.
LEMMA SumByParts ==
    ASSUME NEW f, NEW h, NEW part, NEW S, NEW K, IsFiniteSet(S), IsFiniteSet(K),
           \A x \in S : f[x] \in Nat /\ \E k \in K : x \in part[k],
           \A k \in K : part[k] \subseteq S /\ h[k] = SumFunctionOnSet(f, part[k]),
           \A k, l \in K : k # l => part[k] \cap part[l] = {}
    PROVE  SumFunctionOnSet(h, K) = SumFunctionOnSet(f, S)
  <1>. DEFINE Part(L) == {x \in S : \E l \in L : x \in part[l]}
              G == {L \in SUBSET K : SumFunctionOnSet(h, L) = SumFunctionOnSet(f, Part(L))}
  <1>0. \A k \in K : h[k] \in Nat
    <2>. TAKE k \in K
    <2>1. IsFiniteSet(part[k])
      BY FS_Subset
    <2>. QED  BY <2>1, SumType, SMTT(30)
  <1>1. {} \in G
    <2>1. Part({}) = {}
      OBVIOUS
    <2>. QED  BY <2>1, SumEmpty
  <1>2. ASSUME NEW L \in SUBSET K, NEW k \in K \ L, L \in G
        PROVE  L \cup {k} \in G
    <2>. DEFINE Of == part[k]
    <2>1. IsFiniteSet(L) /\ IsFiniteSet(Of) /\ IsFiniteSet(Part(L))
      BY FS_Subset
    <2>2. SumFunctionOnSet(h, L \cup {k}) = SumFunctionOnSet(h, L) + h[k]
      BY <1>0, <2>1, SumAdd
    <2>3. Part(L \cup {k}) = Part(L) \cup Of /\ Part(L) \cap Of = {}
      BY SMTT(30)
    <2>4. \A x \in Part(L) \cup Of : f[x] \in Nat
      OBVIOUS
    <2>5. SumFunctionOnSet(f, Part(L) \cup Of) = SumFunctionOnSet(f, Part(L)) + SumFunctionOnSet(f, Of)
      <3>. HIDE DEF Part, Of
      <3>. QED  BY <2>1, <2>3, <2>4, SumUnion, SMTT(30)
    <2>6. h[k] = SumFunctionOnSet(f, Of) /\ SumFunctionOnSet(h, L) = SumFunctionOnSet(f, Part(L))
      BY <1>2
    <2>7. SumFunctionOnSet(h, L \cup {k}) = SumFunctionOnSet(f, Part(L \cup {k}))
      <3>. HIDE DEF Part, Of
      <3>. QED  BY <2>2, <2>3, <2>5, <2>6
    <2>. QED  BY <2>7
  <1>3. K \in G
    <2>. HIDE DEF G
    <2>. QED  BY <1>1, <1>2, SubsetInduction
  <1>4. Part(K) = S
    OBVIOUS
  <1>. QED  BY <1>3, <1>4

----------------------------------------------------------------------------
(* Arithmetic of shares, and the smallest of finitely many indices.        *)

\* Division of naturals rounds down: what checked_div relies on.
LEMMA DivBounds ==
    ASSUME NEW a \in Nat, NEW b \in Nat \ {0}
    PROVE  /\ a \div b \in Nat
           /\ b * (a \div b) <= a
           /\ a < b * (a \div b) + b
  BY SMTT(30)

\* Division of naturals is monotonic.
LEMMA DivMonotonic ==
    ASSUME NEW a \in Nat, NEW c \in Nat, NEW b \in Nat \ {0}, a <= c
    PROVE  a \div b <= c \div b
  BY SMTT(30)

\* Finitely many numbers have a smallest one: the index routing stops at.
LEMMA FiniteHasMin ==
    ASSUME NEW S \in SUBSET Nat, IsFiniteSet(S), S # {}
    PROVE  \E m \in S : \A y \in S : m <= y
  <1>. DEFINE G == {T \in SUBSET S : T = {} \/ \E m \in T : \A y \in T : m <= y}
  <1>1. {} \in G
    OBVIOUS
  <1>2. ASSUME NEW T \in SUBSET S, NEW x \in S \ T, T \in G
        PROVE  T \cup {x} \in G
    <2>1. CASE T = {}
      BY <2>1, SMTT(30)
    <2>2. CASE T # {}
      <3>1. PICK m \in T : \A y \in T : m <= y
        BY <1>2, <2>2
      <3>2. CASE m <= x
        BY <3>1, <3>2
      <3>3. CASE ~(m <= x)
        <4>1. \A y \in T \cup {x} : x <= y
          BY <3>1, <3>3, SMTT(30)
        <4>. QED  BY <4>1
      <3>. QED  BY <3>2, <3>3
    <2>. QED  BY <2>1, <2>2
  <1>. HIDE DEF G
  <1>3. S \in G
    BY <1>1, <1>2, SubsetInduction
  <1>. QED  BY <1>3 DEF G

----------------------------------------------------------------------------
(* Closure of the numbers, for steps that need no other arithmetic.         *)

\* Naturals are integers.
LEMMA NatIsInt == \A n \in Nat : n \in Int
  BY SMTT(30)

\* Sums of naturals are naturals.
LEMMA NatPlus == \A m, n \in Nat : m + n \in Nat
  BY SMTT(30)

\* Sums and differences of integers are integers.
LEMMA IntPlus == \A m, n \in Int : m + n \in Int /\ m - n \in Int
  BY SMTT(30)

============================================================================
