------------------------------ MODULE SumProofs ------------------------------
(***************************************************************************)
(* What a step that changes one value does to a sum.  The provers have no  *)
(* induction; in its place stands the smallest set for which a claim fails *)
(* (SmallestSet), and the claim holds of it because of the one before.     *)
(***************************************************************************)
EXTENDS Sums, FiniteSets, FiniteSetTheorems, WellFoundedInduction, TLAPS

LEMMA SmallestSet ==
  ASSUME NEW D, IsFiniteSet(D), NEW B \in SUBSET SUBSET D, B # {}
  PROVE  \E s \in B : \A x \in s : s \ {x} \notin B
<1> DEFINE R == StrictSubsetOrdering(D)
<1>1. IsWellFoundedOn(R, SUBSET D)
  BY FS_StrictSubsetOrderingWellFounded, FS_FiniteSubsetsOfFinite
<1> HIDE DEF R
<1>2. PICK s \in B : \A t \in B : <<t, s>> \notin R
  BY <1>1, WFMin
<1>3. ASSUME NEW x \in s, s \ {x} \in B PROVE FALSE
  BY <1>2, <1>3 DEF R, StrictSubsetOrdering
<1> QED BY <1>2, <1>3

\* FoldFunction takes the members of a set one after the other: the sums of f
\* over the sets in U, each from the sum over a smaller one.
Taken(s) == CHOOSE x \in s : TRUE
SumsOver(U, f, sum) ==
  sum = [s \in U |-> IF s = {} THEN 0 ELSE f[Taken(s)] + sum[s \ {Taken(s)}]]
SubsetSums(f) == CHOOSE sum : SumsOver(SUBSET DOMAIN f, f, sum)

LEMMA TotalIsSubsetSum == ASSUME NEW f PROVE Total(f) = SubsetSums(f)[DOMAIN f]
BY DEF Total, FoldFunction, FoldFunctionOnSet, MapThenFoldSet, SubsetSums, SumsOver, Taken

LEMMA LeastNatural ==
  ASSUME NEW S \in SUBSET Nat, S # {}
  PROVE  \E n \in S : \A k \in S : n <= k
<1> DEFINE R == {pair \in Nat \X Nat : pair[1] < pair[2]}
<1>1. IsWellFoundedOn(R, Nat)
  BY NatLessThanWellFounded DEF OpToRel
<1>2. \A k, n \in Nat : k < n => <<k, n>> \in R
  OBVIOUS
<1> HIDE DEF R
<1>3. PICK n \in S : \A k \in S : <<k, n>> \notin R
  BY <1>1, WFMin
<1>4. ASSUME NEW k \in S PROVE n <= k
  <2>1. k \in Nat /\ n \in Nat /\ ~(k < n)
    BY <1>2, <1>3
  <2> QED BY <2>1
<1> QED BY <1>4

LEMMA TakenOf == ASSUME NEW s, s # {} PROVE Taken(s) \in s
BY DEF Taken

LEMMA Smaller ==
  ASSUME NEW D, IsFiniteSet(D), NEW s \in SUBSET D, NEW x \in s
  PROVE  /\ IsFiniteSet(s) /\ Cardinality(s) \in Nat
         /\ s \ {x} \in SUBSET D
         /\ Cardinality(s \ {x}) = Cardinality(s) - 1
BY FS_Subset, FS_CardinalityType, FS_RemoveElement

\* What the equation says of one set.
LEMMA SumsOverSet ==
  ASSUME NEW U, NEW f, NEW sum, SumsOver(U, f, sum), NEW s \in U
  PROVE  /\ s = {} => sum[s] = 0
         /\ s # {} => sum[s] = f[Taken(s)] + sum[s \ {Taken(s)}]
BY DEF SumsOver

\* The sums over sets of at most n members give those over sets of n + 1.
LEMMA SumsExist ==
  ASSUME NEW f, NEW D, IsFiniteSet(D)
  PROVE  \E sum : SumsOver(SUBSET D, f, sum)
<1> DEFINE Level(n) == {s \in SUBSET D : Cardinality(s) <= n}
           Bad == {n \in Nat : ~ \E sum : SumsOver(Level(n), f, sum)}
<1>1. \A s \in SUBSET D : IsFiniteSet(s) /\ Cardinality(s) \in Nat
  BY FS_Subset, FS_CardinalityType
<1>2. Bad = {}
  <2> SUFFICES ASSUME Bad # {} PROVE FALSE
    OBVIOUS
  <2>1. PICK n \in Bad : \A k \in Bad : n <= k
    BY LeastNatural
  <2>2. CASE n = 0
    <3> DEFINE sum == [s \in Level(0) |-> 0]
    <3>1. \A s \in Level(0) : s = {}
      BY <1>1, FS_EmptySet
    <3>2. sum = [s \in Level(0) |-> IF s = {} THEN 0 ELSE f[Taken(s)] + sum[s \ {Taken(s)}]]
      BY <3>1
    <3> HIDE DEF sum, Level
    <3>3. SumsOver(Level(0), f, sum)
      BY <3>2 DEF SumsOver
    <3> QED BY <2>2, <3>3
  <2>3. CASE n # 0
    <3>1. n \in Nat /\ n - 1 \in Nat /\ ~(n <= n - 1)
      BY <2>1, <2>3
    <3>2. n - 1 \notin Bad
      BY <2>1, <3>1
    <3>3. PICK sum : SumsOver(Level(n - 1), f, sum)
      BY <3>1, <3>2
    <3> DEFINE next == [s \in Level(n) |-> IF s = {} THEN 0 ELSE f[Taken(s)] + sum[s \ {Taken(s)}]]
    <3>4. ASSUME NEW s \in Level(n), s # {}
          PROVE  next[s \ {Taken(s)}] = sum[s \ {Taken(s)}]
      <4> DEFINE t == s \ {Taken(s)}
      <4>1. t \in Level(n - 1) /\ t \in Level(n)
        BY <3>1, <3>4, <1>1, TakenOf, Smaller
      <4> HIDE DEF t
      <4>2. /\ t = {} => sum[t] = 0
            /\ t # {} => sum[t] = f[Taken(t)] + sum[t \ {Taken(t)}]
        <5> HIDE DEF Level
        <5> QED BY <3>3, <4>1, SumsOverSet
      <4>3. next[t] = IF t = {} THEN 0 ELSE f[Taken(t)] + sum[t \ {Taken(t)}]
        BY <4>1
      <4>4. next[t] = sum[t]
        BY <4>2, <4>3
      <4> QED BY <4>4 DEF t
    <3>5. next = [s \in Level(n) |-> IF s = {} THEN 0 ELSE f[Taken(s)] + next[s \ {Taken(s)}]]
      BY <3>4
    <3> HIDE DEF next, Level
    <3>6. SumsOver(Level(n), f, next)
      BY <3>5 DEF SumsOver
    <3> QED BY <2>1, <3>6
  <2> QED BY <2>2, <2>3
<1>3. Cardinality(D) \in Nat /\ Level(Cardinality(D)) = SUBSET D
  BY <1>1, FS_Subset
<1> QED BY <1>2, <1>3

\* The sums that SubsetSums takes, one element at a time.
LEMMA SubsetSumsOf ==
  ASSUME NEW f, IsFiniteSet(DOMAIN f), NEW s \in SUBSET DOMAIN f
  PROVE  /\ s = {} => SubsetSums(f)[s] = 0
         /\ s # {} => SubsetSums(f)[s] = f[Taken(s)] + SubsetSums(f)[s \ {Taken(s)}]
<1>1. SumsOver(SUBSET DOMAIN f, f, SubsetSums(f))
  BY SumsExist DEF SubsetSums
<1>2. ASSUME NEW sum, SumsOver(SUBSET DOMAIN f, f, sum)
      PROVE  /\ s = {} => sum[s] = 0
             /\ s # {} => sum[s] = f[Taken(s)] + sum[s \ {Taken(s)}]
  BY <1>2, SumsOverSet
<1> QED BY <1>1, <1>2

-----------------------------------------------------------------------------
LEMMA SubsetSumsType ==
  ASSUME NEW D, IsFiniteSet(D), NEW f \in [D -> Int]
  PROVE  \A s \in SUBSET D : SubsetSums(f)[s] \in Int
<1> DEFINE Bad == {s \in SUBSET D : SubsetSums(f)[s] \notin Int}
<1> SUFFICES ASSUME Bad # {} PROVE FALSE
  OBVIOUS
<1>1. PICK s \in Bad : \A x \in s : s \ {x} \notin Bad
  BY SmallestSet
<1>2. DOMAIN f = D
  OBVIOUS
<1>3. s # {} /\ SubsetSums(f)[s] = f[Taken(s)] + SubsetSums(f)[s \ {Taken(s)}]
  BY <1>1, <1>2, SubsetSumsOf
<1>4. SubsetSums(f)[s \ {Taken(s)}] \in Int /\ f[Taken(s)] \in Int
  BY <1>1, <1>3, TakenOf
<1> QED BY <1>1, <1>3, <1>4

\* The sum of integers is an integer.
LEMMA TotalType ==
  ASSUME NEW D, IsFiniteSet(D), NEW f \in [D -> Int]
  PROVE  Total(f) \in Int
BY SubsetSumsType, TotalIsSubsetSum

\* The sum of zeroes.
LEMMA TotalZero ==
  ASSUME NEW D, IsFiniteSet(D), NEW f \in [D -> Int], \A x \in D : f[x] = 0
  PROVE  Total(f) = 0
<1> DEFINE Bad == {s \in SUBSET D : SubsetSums(f)[s] # 0}
<1>1. DOMAIN f = D
  OBVIOUS
<1>2. Bad = {}
  <2> SUFFICES ASSUME Bad # {} PROVE FALSE
    OBVIOUS
  <2>1. PICK s \in Bad : \A x \in s : s \ {x} \notin Bad
    BY SmallestSet
  <2>2. s # {} /\ SubsetSums(f)[s] = f[Taken(s)] + SubsetSums(f)[s \ {Taken(s)}]
    BY <1>1, <2>1, SubsetSumsOf
  <2>3. SubsetSums(f)[s \ {Taken(s)}] = 0 /\ f[Taken(s)] = 0
    BY <2>1, <2>2, TakenOf
  <2> QED BY <2>1, <2>2, <2>3
<1> QED BY <1>1, <1>2, TotalIsSubsetSum

\* A step that changes one value changes the sum by as much.
LEMMA TotalChange ==
  ASSUME NEW D, IsFiniteSet(D), NEW f \in [D -> Int], NEW g \in [D -> Int],
         NEW x \in D, \A y \in D \ {x} : g[y] = f[y]
  PROVE  Total(g) = Total(f) + g[x] - f[x]
<1> DEFINE change(s) == IF x \in s THEN g[x] - f[x] ELSE 0
           Bad == {s \in SUBSET D : SubsetSums(g)[s] # SubsetSums(f)[s] + change(s)}
<1>1. DOMAIN f = D /\ DOMAIN g = D
  OBVIOUS
<1>2. Bad = {}
  <2> SUFFICES ASSUME Bad # {} PROVE FALSE
    OBVIOUS
  <2>1. PICK s \in Bad : \A y \in s : s \ {y} \notin Bad
    BY SmallestSet
  <2>2. s # {} /\ Taken(s) \in s
    <3>1. SubsetSums(f)[{}] = 0 /\ SubsetSums(g)[{}] = 0 /\ change({}) = 0
      BY <1>1, SubsetSumsOf
    <3>2. s = {} => SubsetSums(g)[s] = SubsetSums(f)[s] + change(s)
      BY ONLY <3>1
    <3> QED BY <2>1, <3>2, TakenOf
  <2> DEFINE t == s \ {Taken(s)}
  <2>3. /\ SubsetSums(f)[s] = f[Taken(s)] + SubsetSums(f)[t]
        /\ SubsetSums(g)[s] = g[Taken(s)] + SubsetSums(g)[t]
    BY <1>1, <2>2, SubsetSumsOf
  <2>4. SubsetSums(g)[t] = SubsetSums(f)[t] + change(t)
    BY <2>1, <2>2
  <2>5. SubsetSums(f)[t] \in Int /\ f[Taken(s)] \in Int /\ g[Taken(s)] \in Int
        /\ f[x] \in Int /\ g[x] \in Int
    BY <2>2, SubsetSumsType
  <2>6. CASE Taken(s) = x
    <3>1. change(t) = 0 /\ change(s) = g[x] - f[x]
      BY <2>2, <2>6
    <3>2. SubsetSums(g)[s] = SubsetSums(f)[s] + change(s)
      BY <2>3, <2>4, <2>5, <2>6, <3>1
    <3> QED BY <2>1, <3>2
  <2>7. CASE Taken(s) # x
    <3>1. change(t) = change(s) /\ g[Taken(s)] = f[Taken(s)]
      BY <2>2, <2>7
    <3>2. change(s) \in Int
      BY <2>5
    <3>3. SubsetSums(g)[s] = SubsetSums(f)[s] + change(s)
      BY ONLY <2>3, <2>4, <2>5, <3>1, <3>2
    <3> QED BY <2>1, <3>3
  <2> QED BY <2>6, <2>7
<1>3. SubsetSums(g)[D] = SubsetSums(f)[D] + change(D)
  BY <1>2
<1>4. SubsetSums(f)[D] \in Int
  BY SubsetSumsType
<1> QED BY <1>1, <1>3, <1>4, TotalIsSubsetSum
=============================================================================
