----------------------------- MODULE MapLemmas -----------------------------
(***************************************************************************)
(* What the proofs about the pallet and the gateway need to know of storage*)
(* maps and of the sums taken over them.  A sum is a fold over a finite    *)
(* set in an order that is not specified.  The lemmas about it rest on one *)
(* fact: a sum of natural numbers counts units, f[k] of them for every key *)
(* k, in whatever order the keys are taken.                                *)
(***************************************************************************)
EXTENDS Frame, Integers, FiniteSetTheorems, TLAPS

\* Inserting a well-typed value under a well-typed key keeps a storage map.
LEMMA PutMap ==
    ASSUME NEW K, NEW V, NEW f, IsMap(f, K, V), NEW k \in K, NEW v \in V
    PROVE  /\ IsMap(Put(f, k, v), K, V)
           /\ DOMAIN Put(f, k, v) = DOMAIN f \cup {k}
           /\ Put(f, k, v)[k] = v
           /\ \A x \in DOMAIN f : x # k => Put(f, k, v)[x] = f[x]
BY DEF IsMap, Put

\* Changing the value under a key that is there keeps a storage map.
LEMMA MutateMap ==
    ASSUME NEW K, NEW V, NEW f, IsMap(f, K, V), NEW k \in DOMAIN f, NEW v \in V
    PROVE  IsMap([f EXCEPT ![k] = v], K, V)
BY DEF IsMap

\* A value that is in a storage map is of the map's type.
LEMMA MapValue ==
    ASSUME NEW K, NEW V, NEW f, IsMap(f, K, V), NEW k \in DOMAIN f
    PROVE  k \in K /\ f[k] \in V
BY DEF IsMap

\* The storage of a new chain is well-typed.
LEMMA EmptyMapType == ASSUME NEW K, NEW V PROVE IsMap(EmptyMap, K, V)
BY DEF EmptyMap, IsMap

---------------------------------------------------------------------------
\* Induction over a finite set: a family of sets that has the empty set, and
\* with a set all its extensions by one element of S, has S.
LEMMA FiniteSetInduction ==
    ASSUME NEW S, IsFiniteSet(S), NEW T, {} \in T,
           \A s \in T, x \in S : s \subseteq S /\ x \notin s => s \cup {x} \in T
    PROVE  S \in T
<1> SUFFICES ASSUME S \notin T PROVE FALSE
  OBVIOUS
<1> DEFINE Bad == {s \in SUBSET S : s \notin T}
<1>1. Bad \subseteq FiniteSubsetsOf(S) /\ Bad # {}
  BY FS_FiniteSubsetsOfFinite
<1>2. PICK s \in Bad : \A t \in Bad : <<t, s>> \notin StrictSubsetOrdering(S)
  <2> HIDE DEF Bad
  <2> QED
      BY <1>1, FS_StrictSubsetOrderingWellFounded, WFMin
<1>3. PICK x \in s : TRUE
  BY <1>2
<1>4. <<s \ {x}, s>> \in StrictSubsetOrdering(S)
  BY <1>2, <1>3 DEF StrictSubsetOrdering
<1>5. s \ {x} \in T
  BY <1>2, <1>4
<1>6. (s \ {x}) \cup {x} \in T
  BY <1>2, <1>3, <1>5
<1>7. (s \ {x}) \cup {x} = s
  BY <1>3
<1> QED
  BY <1>2, <1>6, <1>7

\* The units that f[k] counts, for every key k in S.
Units(f, S) == {u \in S \X Nat : u[2] < f[u[1]]}

\* One key more brings its own units.
LEMMA UnitsOfOneMore ==
    ASSUME NEW D, NEW f \in [D -> Nat], NEW s \in SUBSET D, NEW x \in D, x \notin s,
           IsFiniteSet(Units(f, s))
    PROVE  /\ IsFiniteSet(Units(f, s \cup {x}))
           /\ Cardinality(Units(f, s \cup {x})) = Cardinality(Units(f, s)) + f[x]
<1> DEFINE new == {x} \X (0 .. f[x] - 1)
<1>1. f[x] \in Nat
  OBVIOUS
<1>2. Units(f, s \cup {x}) = Units(f, s) \cup new
  BY <1>1 DEF Units
<1>3. Units(f, s) \cap new = {}
  BY DEF Units
<1>4. IsFiniteSet(new) /\ Cardinality(new) = f[x]
  <2>1. IsFiniteSet(0 .. f[x] - 1) /\ Cardinality(0 .. f[x] - 1) = f[x]
    BY <1>1, FS_Interval
  <2>2. IsFiniteSet({x}) /\ Cardinality({x}) = 1
    BY FS_Singleton
  <2> QED
      BY <2>1, <2>2, FS_Product, <1>1
<1> HIDE DEF new
<1>5. IsFiniteSet(Units(f, s) \cup new)
      /\ Cardinality(Units(f, s) \cup new)
           = Cardinality(Units(f, s)) + Cardinality(new) - Cardinality(Units(f, s) \cap new)
  BY <1>4, FS_Union
<1>6. Cardinality(Units(f, s)) \in Nat
  BY FS_CardinalityType
<1>7. Cardinality(Units(f, s) \cap new) = 0
  BY <1>3, FS_EmptySet
<1>8. Cardinality(Units(f, s) \cup new) = Cardinality(Units(f, s)) + f[x]
  BY <1>1, <1>4, <1>5, <1>6, <1>7
<1> QED
  BY <1>2, <1>5, <1>8

\* Finitely many keys have finitely many units.
LEMMA UnitsFinite ==
    ASSUME NEW D, NEW f \in [D -> Nat], NEW S \in SUBSET D, IsFiniteSet(S)
    PROVE  IsFiniteSet(Units(f, S)) /\ Cardinality(Units(f, S)) \in Nat
<1> DEFINE T == {s \in SUBSET S : IsFiniteSet(Units(f, s))}
<1>1. {} \in T
  <2>1. Units(f, {}) = {}
    BY DEF Units
  <2> QED
      BY <2>1, FS_EmptySet
<1>2. \A s \in T, x \in S : s \subseteq S /\ x \notin s => s \cup {x} \in T
  BY UnitsOfOneMore
<1>3. S \in T
  <2> HIDE DEF T
  <2> QED
      BY <1>1, <1>2, FiniteSetInduction
<1> QED
  BY <1>3, FS_CardinalityType

\* The recursion a fold of + unfolds to.
Unfolds(g, f, S) ==
    g = [s \in SUBSET S |->
            IF s = {} THEN 0
            ELSE f[CHOOSE x \in s : TRUE] + g[s \ {CHOOSE x \in s : TRUE}]]

\* Counting units is a solution of the recursion.
LEMMA UnitsUnfold ==
    ASSUME NEW D, NEW f \in [D -> Nat], NEW S \in SUBSET D, IsFiniteSet(S)
    PROVE  Unfolds([s \in SUBSET S |-> Cardinality(Units(f, s))], f, S)
<1> DEFINE g == [s \in SUBSET S |-> Cardinality(Units(f, s))]
<1>1. ASSUME NEW s \in SUBSET S
      PROVE  g[s] = IF s = {} THEN 0
                    ELSE f[CHOOSE x \in s : TRUE] + g[s \ {CHOOSE x \in s : TRUE}]
  <2>1. CASE s = {}
    <3>1. Units(f, {}) = {}
      BY DEF Units
    <3> QED
      BY <2>1, <3>1, FS_EmptySet
  <2>2. CASE s # {}
    <3> DEFINE x == CHOOSE x \in s : TRUE
               r == s \ {x}
    <3>1. x \in s
      BY <2>2
    <3> HIDE DEF x
    <3>2. r \in SUBSET S /\ r \in SUBSET D /\ x \in D /\ x \notin r /\ s = r \cup {x}
      BY <3>1
    <3>3. IsFiniteSet(r)
      BY <3>2, FS_Subset
    <3>4. IsFiniteSet(Units(f, r)) /\ Cardinality(Units(f, r)) \in Nat
      BY <3>2, <3>3, UnitsFinite
    <3> HIDE DEF r
    <3>5. Cardinality(Units(f, s)) = Cardinality(Units(f, r)) + f[x]
      BY <3>2, <3>4, UnitsOfOneMore
    <3>6. f[x] \in Nat
      BY <3>2
    <3>7. g[s] = f[x] + g[r]
      BY <3>2, <3>4, <3>5, <3>6
    <3> QED
      BY <2>2, <3>7 DEF x, r
  <2> QED
      BY <2>1, <2>2
<1> QED
  BY <1>1, Zenon DEF Unfolds

\* Two solutions of the recursion agree.
LEMMA UnfoldsOnce ==
    ASSUME NEW f, NEW S, IsFiniteSet(S), NEW g, NEW h,
           Unfolds(g, f, S), Unfolds(h, f, S)
    PROVE  g[S] = h[S]
<1> DEFINE Bad == {s \in SUBSET S : g[s] # h[s]}
<1> SUFFICES ASSUME S \in Bad PROVE FALSE
  OBVIOUS
<1>2. Bad \subseteq FiniteSubsetsOf(S) /\ Bad # {}
  BY FS_FiniteSubsetsOfFinite
<1>3. PICK s \in Bad : \A t \in Bad : <<t, s>> \notin StrictSubsetOrdering(S)
  <2> HIDE DEF Bad
  <2> QED
      BY <1>2, FS_StrictSubsetOrderingWellFounded, WFMin
<1> DEFINE x == CHOOSE x \in s : TRUE
<1>4. s # {} 
  BY <1>3 DEF Unfolds
<1>5. x \in s
  BY <1>4
<1>6. g[s] = f[x] + g[s \ {x}] /\ h[s] = f[x] + h[s \ {x}]
  BY <1>3, <1>4 DEF Unfolds
<1> HIDE DEF x
<1>7. <<s \ {x}, s>> \in StrictSubsetOrdering(S)
  BY <1>3, <1>5 DEF StrictSubsetOrdering
<1>8. g[s \ {x}] = h[s \ {x}]
  BY <1>3, <1>7
<1> QED
  BY <1>3, <1>6, <1>8

\* The sum over a finite set is its number of units.
LEMMA SumIsUnits ==
    ASSUME NEW D, NEW f \in [D -> Nat], NEW S \in SUBSET D, IsFiniteSet(S)
    PROVE  SumFunctionOnSet(f, S) = Cardinality(Units(f, S))
<1> DEFINE it == CHOOSE g : Unfolds(g, f, S)
<1>1. SumFunctionOnSet(f, S) = it[S]
  BY DEF SumFunctionOnSet, FoldFunctionOnSet, MapThenFoldSet, Unfolds
<1>2. Unfolds([s \in SUBSET S |-> Cardinality(Units(f, s))], f, S)
  BY UnitsUnfold
<1>3. Unfolds(it, f, S)
  BY <1>2
<1>4. it[S] = [s \in SUBSET S |-> Cardinality(Units(f, s))][S]
  <2> HIDE DEF it
  <2> QED
      BY <1>2, <1>3, UnfoldsOnce
<1> QED
  BY <1>1, <1>4

\* The sum of no numbers.
LEMMA SumOfNone == ASSUME NEW f \in [{} -> Nat] PROVE SumFunction(f) = 0
<1>1. PICK S : S = {}
  OBVIOUS
<1>2. Units(f, S) = {} /\ DOMAIN f = S /\ IsFiniteSet(S) /\ f \in [S -> Nat]
  BY <1>1, FS_EmptySet DEF Units
<1>3. SumFunctionOnSet(f, S) = Cardinality(Units(f, S))
  BY <1>2, SumIsUnits
<1>4. Cardinality(Units(f, S)) = 0
  BY <1>2, FS_EmptySet
<1> QED
  BY <1>2, <1>3, <1>4 DEF SumFunction

\* The sum over a finite set is the number of units, and a natural number.
LEMMA SumUnits ==
    ASSUME NEW S, IsFiniteSet(S), NEW f \in [S -> Nat]
    PROVE  /\ SumFunction(f) = Cardinality(Units(f, S)) /\ SumFunction(f) \in Nat
           /\ IsFiniteSet(Units(f, S))
<1>1. DOMAIN f = S /\ S \in SUBSET S
  OBVIOUS
<1> QED
  BY <1>1, SumIsUnits, UnitsFinite DEF SumFunction

\* A number more adds to the sum.
LEMMA SumOfOneMore ==
    ASSUME NEW S, IsFiniteSet(S), NEW f \in [S -> Nat], NEW x, x \notin S,
           NEW g \in [S \cup {x} -> Nat], \A k \in S : g[k] = f[k]
    PROVE  SumFunction(g) = SumFunction(f) + g[x]
<1>1. Units(g, S) = Units(f, S)
  BY DEF Units
<1>2. IsFiniteSet(S \cup {x})
  BY FS_AddElement
<1>3. IsFiniteSet(Units(g, S))
  BY <1>1, SumUnits
<1>4. Cardinality(Units(g, S \cup {x})) = Cardinality(Units(g, S)) + g[x]
  BY <1>3, UnitsOfOneMore
<1> QED
  BY <1>1, <1>2, <1>4, SumUnits

LEMMA SumOfAdded ==
    ASSUME NEW S, IsFiniteSet(S), NEW f \in [S -> Nat], NEW x, x \notin S,
           NEW T, T = S \cup {x}, NEW g \in [T -> Nat], \A k \in S : g[k] = f[k],
           NEW n, n = g[x]
    PROVE  SumFunction(g) = SumFunction(f) + n
BY SumOfOneMore

\* Fewer and smaller numbers have a smaller sum.
LEMMA SumOfLess ==
    ASSUME NEW S, IsFiniteSet(S), NEW f \in [S -> Nat], NEW T \in SUBSET S,
           NEW g \in [T -> Nat], \A k \in T : g[k] <= f[k]
    PROVE  SumFunction(g) <= SumFunction(f)
<1>1. Units(g, T) \subseteq Units(f, S)
  <2>1. ASSUME NEW u \in Units(g, T) PROVE u \in Units(f, S)
    <3>1. u \in S \X Nat /\ u[2] \in Nat /\ u[1] \in T /\ u[2] < g[u[1]]
      BY DEF Units
    <3>2. g[u[1]] \in Nat /\ f[u[1]] \in Nat /\ g[u[1]] <= f[u[1]]
      BY <3>1
    <3> QED
      BY <3>1, <3>2 DEF Units
  <2> QED
    BY <2>1
<1>2. IsFiniteSet(T)
  BY FS_Subset
<1>3. IsFiniteSet(Units(f, S)) /\ SumFunction(f) = Cardinality(Units(f, S))
  BY SumUnits
<1>4. SumFunction(g) = Cardinality(Units(g, T))
  BY <1>2, SumUnits
<1> QED
  BY <1>1, <1>3, <1>4, FS_Subset

\* The sum after one of its numbers is replaced.
LEMMA SumOfReplaced ==
    ASSUME NEW S, IsFiniteSet(S), NEW f \in [S -> Nat], NEW x \in S,
           NEW g \in [S -> Nat], \A k \in S : k # x => g[k] = f[k]
    PROVE  SumFunction(g) + f[x] = SumFunction(f) + g[x]
<1> DEFINE r == [k \in S \ {x} |-> f[k]]
           R == S \ {x}
<1>1. IsFiniteSet(R) /\ x \notin R /\ S = R \cup {x}
  BY FS_Subset
<1>2. r \in [R -> Nat] /\ \A k \in R : r[k] = f[k] /\ r[k] = g[k]
  OBVIOUS
<1>3. SumFunction(r) \in Nat /\ f[x] \in Nat /\ g[x] \in Nat
  BY <1>1, <1>2, SumUnits
<1> HIDE DEF r, R
<1>4. SumFunction(f) = SumFunction(r) + f[x]
  BY <1>1, <1>2, SumOfOneMore
<1>5. SumFunction(g) = SumFunction(r) + g[x]
  BY <1>1, <1>2, SumOfOneMore
<1> QED
  BY <1>3, <1>4, <1>5

\* A sum does not depend on how its keys are named.
LEMMA SumRenamed ==
    ASSUME NEW S, IsFiniteSet(S), NEW f \in [S -> Nat], NEW T, NEW g \in [T -> Nat],
           NEW k \in Bijection(S, T), \A s \in S : g[k[s]] = f[s]
    PROVE  IsFiniteSet(T) /\ SumFunction(g) = SumFunction(f)
<1> DEFINE b == [u \in Units(f, S) |-> <<k[u[1]], u[2]>>]
<1>1. /\ k \in [S -> T] /\ \A s, r \in S : k[s] = k[r] => s = r
      /\ \A t \in T : \E s \in S : k[s] = t
  BY DEF Bijection, Injection, Surjection, IsInjective
<1>2. IsFiniteSet(T)
  <2>1. ExistsBijection(S, T)
    BY DEF ExistsBijection
  <2> QED
    BY <2>1, FS_Bijection
<1>3. b \in Injection(Units(f, S), Units(g, T))
  <2>1. ASSUME NEW u \in Units(f, S)
        PROVE  u[1] \in S /\ u[2] \in Nat /\ u = <<u[1], u[2]>> /\ b[u] = <<k[u[1]], u[2]>>
               /\ b[u] \in Units(g, T)
    <3>1. u[1] \in S /\ u[2] \in Nat /\ u = <<u[1], u[2]>> /\ u[2] < f[u[1]]
      BY DEF Units
    <3>2. k[u[1]] \in T /\ g[k[u[1]]] = f[u[1]]
      BY <1>1, <3>1
    <3> QED
      BY <3>1, <3>2 DEF Units
  <2>2. ASSUME NEW u \in Units(f, S), NEW w \in Units(f, S), b[u] = b[w] PROVE u = w
    BY <1>1, <2>1, <2>2
  <2> QED
    BY <2>1, <2>2 DEF Injection, IsInjective
<1>4. b \in Surjection(Units(f, S), Units(g, T))
  <2>1. ASSUME NEW w \in Units(g, T) PROVE \E u \in Units(f, S) : b[u] = w
    <3>1. w[1] \in T /\ w[2] \in Nat /\ w = <<w[1], w[2]>> /\ w[2] < g[w[1]]
      BY DEF Units
    <3>2. PICK s \in S : k[s] = w[1]
      BY <1>1, <3>1
    <3>3. <<s, w[2]>> \in Units(f, S)
      BY <3>1, <3>2 DEF Units
    <3> QED
      BY <3>1, <3>2, <3>3
  <2> QED
    BY <1>3, <2>1 DEF Injection, Surjection
<1>5. ExistsBijection(Units(f, S), Units(g, T))
  <2> HIDE DEF b
  <2> QED
    BY <1>3, <1>4 DEF ExistsBijection, Bijection
<1> QED
  BY <1>2, <1>5, SumUnits, FS_Bijection

\* Zeros add up to nothing.
LEMMA SumOfZeros ==
    ASSUME NEW S, IsFiniteSet(S), NEW f \in [S -> Nat], \A x \in S : f[x] = 0
    PROVE  SumFunction(f) = 0
<1>1. Units(f, S) = {}
  BY DEF Units
<1> QED
  BY <1>1, SumUnits, FS_EmptySet

\* The numbers in s whose key is x, and the sums of the groups for the keys in K.
Group(f, k, s, x) == [i \in {i \in s : k[i] = x} |-> f[i]]
GroupSums(f, k, s, K) == [x \in K |-> SumFunction(Group(f, k, s, x))]

LEMMA GroupSumsType ==
    ASSUME NEW S, IsFiniteSet(S), NEW f \in [S -> Nat], NEW K, NEW k \in [S -> K],
           NEW s \in SUBSET S
    PROVE  GroupSums(f, k, s, K) \in [K -> Nat]
<1> SUFFICES ASSUME NEW x \in K PROVE SumFunction(Group(f, k, s, x)) \in Nat
  BY DEF GroupSums
<1>1. Group(f, k, s, x) \in [{i \in s : k[i] = x} -> Nat]
  BY DEF Group
<1>2. IsFiniteSet({i \in s : k[i] = x})
  BY FS_Subset
<1> QED
  BY <1>1, <1>2, SumUnits

\* One number more is in the group of its key.
OnlyItsGroupGrows(f, k, s, e, x) ==
    LET grown  == SumFunction(Group(f, k, s \cup {e}, x))
        before == SumFunction(Group(f, k, s, x)) IN
    /\ x = k[e] => grown = before + f[e]
    /\ x # k[e] => grown = before

LEMMA GroupOfOneMore ==
    ASSUME NEW S, IsFiniteSet(S), NEW f \in [S -> Nat], NEW K, NEW k \in [S -> K],
           NEW s \in SUBSET S, NEW e \in S, e \notin s, NEW x
    PROVE  OnlyItsGroupGrows(f, k, s, e, x)
<1>0. PICK t : t = s \cup {e}
  OBVIOUS
<1>n. PICK n \in Nat : n = f[e]
  OBVIOUS
<1>1. CASE x # k[e]
  <2>1. Group(f, k, t, x) = Group(f, k, s, x)
    BY <1>0, <1>1 DEF Group
  <2> QED
    BY <1>0, <1>1, <2>1 DEF OnlyItsGroupGrows
<1>2. CASE x = k[e]
  <2>1. PICK A : A = {i \in s : k[i] = x}
    OBVIOUS
  <2>2. PICK B : B = A \cup {e}
    OBVIOUS
  <2>3. {i \in t : k[i] = x} = B /\ e \notin A /\ IsFiniteSet(A)
    BY <1>0, <1>2, <2>1, <2>2, FS_Subset
  <2>4. Group(f, k, s, x) = [i \in A |-> f[i]] /\ Group(f, k, t, x) = [i \in B |-> f[i]]
    BY <2>1, <2>3 DEF Group
  <2>5. A \subseteq S /\ B \subseteq S
    BY <2>1, <2>2
  <2>6. PICK old \in [A -> Nat] : old = [i \in A |-> f[i]]
    BY <2>5
  <2>7. PICK new \in [B -> Nat] : new = [i \in B |-> f[i]]
    BY <2>5
  <2>8. /\ \A i \in A : new[i] = old[i]
        /\ n = new[e]
    BY <1>n, <2>2, <2>6, <2>7
  <2>9. SumFunction(new) = SumFunction(old) + n
    <3>1. e \notin A /\ IsFiniteSet(A)
      BY <2>3
    <3> QED
      BY <2>2, <2>8, <3>1, SumOfAdded
  <2> QED
    BY <1>0, <1>n, <1>2, <2>4, <2>6, <2>7, <2>9 DEF OnlyItsGroupGrows
<1> QED
  BY <1>1, <1>2

\* The groups of a finite set add up to the whole.
LEMMA SumOfGroups ==
    ASSUME NEW S, IsFiniteSet(S), NEW f \in [S -> Nat], NEW K, IsFiniteSet(K),
           NEW k \in [S -> K]
    PROVE  SumFunction(GroupSums(f, k, S, K)) = SumFunction(f)
<1> DEFINE sub(s) == [i \in s |-> f[i]]
           T == {s \in SUBSET S : SumFunction(GroupSums(f, k, s, K)) = SumFunction(sub(s))}
<1>1. {} \in T
  <2>1. PICK none \in [K -> Nat] : none = GroupSums(f, k, {}, K)
    BY GroupSumsType
  <2>2. \A x \in K : none[x] = 0
    <3>1. \A x \in K : Group(f, k, {}, x) \in [{} -> Nat]
      BY DEF Group
    <3> QED
      BY <2>1, <3>1, SumOfNone DEF GroupSums
  <2>3. sub({}) \in [{} -> Nat]
    OBVIOUS
  <2> HIDE DEF sub
  <2>4. SumFunction(none) = 0 /\ SumFunction(sub({})) = 0
    BY <2>2, <2>3, SumOfZeros, SumOfNone
  <2> QED
    BY <2>1, <2>4
<1>2. ASSUME NEW s \in T, NEW e \in S, e \notin s PROVE s \cup {e} \in T
  <2>1. s \in SUBSET S /\ s \cup {e} \in SUBSET S
        /\ SumFunction(GroupSums(f, k, s, K)) = SumFunction(sub(s))
    OBVIOUS
  <2>2. PICK x \in K : x = k[e]
    OBVIOUS
  <2>3. PICK old \in [K -> Nat] : old = GroupSums(f, k, s, K)
    BY <2>1, GroupSumsType
  <2>4. PICK new \in [K -> Nat] : new = GroupSums(f, k, s \cup {e}, K)
    BY <2>1, GroupSumsType
  <2>5. PICK n \in Nat : n = f[e]
    OBVIOUS
  <2>6. ASSUME NEW y \in K
        PROVE  new[y] = IF y = x THEN old[y] + n ELSE old[y]
    <3>1. /\ new[y] = SumFunction(Group(f, k, s \cup {e}, y))
          /\ old[y] = SumFunction(Group(f, k, s, y))
      BY <2>3, <2>4 DEF GroupSums
    <3>2. s \in SUBSET S /\ e \notin s
      BY <1>2, <2>1
    <3> HIDE DEF T
    <3>3. OnlyItsGroupGrows(f, k, s, e, y)
      BY <3>2, GroupOfOneMore
    <3> QED
      BY <2>2, <2>5, <3>1, <3>3 DEF OnlyItsGroupGrows
  <2>7. SumFunction(new) + old[x] = SumFunction(old) + new[x]
    BY <2>6, SumOfReplaced
  <2>8. SumFunction(new) = SumFunction(old) + n
    <3>1. SumFunction(new) \in Nat /\ SumFunction(old) \in Nat /\ old[x] \in Nat
      BY SumUnits
    <3> QED
      BY <2>6, <2>7, <3>1
  <2>9. SumFunction(sub(s \cup {e})) = SumFunction(sub(s)) + n
    <3>1. IsFiniteSet(s)
      BY <2>1, FS_Subset
    <3>2. PICK B : B = s \cup {e}
      OBVIOUS
    <3>3. PICK a \in [s -> Nat] : a = sub(s)
      BY <2>1
    <3>4. PICK b \in [B -> Nat] : b = sub(B)
      BY <2>1, <3>2
    <3>5. (\A i \in s : b[i] = a[i]) /\ n = b[e]
      BY <2>5, <3>2, <3>3, <3>4
    <3> HIDE DEF sub
    <3>6. SumFunction(b) = SumFunction(a) + n
      BY <1>2, <3>1, <3>2, <3>5, SumOfAdded
    <3> QED
      BY <3>2, <3>3, <3>4, <3>6
  <2> HIDE DEF sub
  <2>10. SumFunction(GroupSums(f, k, s \cup {e}, K)) = SumFunction(sub(s \cup {e}))
    BY <2>1, <2>3, <2>4, <2>8, <2>9
  <2> QED
    BY <2>1, <2>10
<1>3. S \in T
  <2> HIDE DEF T
  <2> QED
    BY <1>1, <1>2, FiniteSetInduction
<1>4. sub(S) = f
  OBVIOUS
<1> QED
  BY <1>3, <1>4

-----------------------------------------------------------------------------
\* The books are totals of the amounts of some of a map's records.
TotalOf(f, S) == SumFunction([k \in S |-> f[k].amount])

AmountOf(f, k) == f[k].amount

\* Finitely many records of a map, each with an amount.
Amounting(f, S) == IsFiniteSet(S) /\ \A k \in S : AmountOf(f, k) \in Nat
SameAmounts(f, g, S) == \A k \in S : g[k].amount = f[k].amount

LEMMA TotalNumber == ASSUME NEW f, NEW S, Amounting(f, S) PROVE TotalOf(f, S) \in Nat
BY SumUnits DEF Amounting, AmountOf, TotalOf

LEMMA TotalOfNone == ASSUME NEW f PROVE TotalOf(f, {}) = 0
BY SumOfNone DEF TotalOf

LEMMA TotalSame ==
    ASSUME NEW f, NEW g, NEW S, SameAmounts(f, g, S)
    PROVE  TotalOf(g, S) = TotalOf(f, S)
<1>1. [k \in S |-> g[k].amount] = [k \in S |-> f[k].amount]
  BY DEF SameAmounts
<1> QED
  BY <1>1 DEF TotalOf

LEMMA TotalOneMore ==
    ASSUME NEW f, NEW g, NEW S, NEW x, NEW T, x \notin S, T = S \cup {x},
           Amounting(f, S), SameAmounts(f, g, S), Amounting(g, T)
    PROVE  TotalOf(g, T) = TotalOf(f, S) + AmountOf(g, x)
<1>1. PICK ff \in [S -> Nat] : ff = [k \in S |-> f[k].amount]
  BY DEF Amounting, AmountOf
<1>2. PICK gg \in [S \cup {x} -> Nat] : gg = [k \in T |-> g[k].amount]
  BY DEF Amounting, AmountOf
<1>3. IsFiniteSet(S)
  BY DEF Amounting
<1>4. (\A k \in S : gg[k] = ff[k]) /\ gg[x] = g[x].amount
  BY <1>1, <1>2 DEF SameAmounts
<1>5. SumFunction(gg) = SumFunction(ff) + gg[x]
  BY <1>3, <1>4, SumOfOneMore
<1> QED
  BY <1>1, <1>2, <1>4, <1>5 DEF TotalOf, AmountOf

\* A record inserted under a new key adds its amount.
LEMMA TotalOfPut ==
    ASSUME NEW f, NEW S, S \subseteq DOMAIN f, Amounting(f, S),
           NEW k, k \notin DOMAIN f, NEW r, NEW n \in Nat, n = r.amount,
           NEW T, T = S \cup {k}
    PROVE  TotalOf(Put(f, k, r), T) = TotalOf(f, S) + n
<1>1. PICK g : g = Put(f, k, r)
  OBVIOUS
<1>2. g[k] = r /\ \A j \in S : g[j] = f[j]
  BY <1>1 DEF Put
<1>3. SameAmounts(f, g, S) /\ k \notin S
  BY <1>2 DEF SameAmounts
<1>4. Amounting(g, T)
  <2>1. IsFiniteSet(T)
    BY FS_AddElement DEF Amounting
  <2> QED
    BY <1>2, <2>1 DEF Amounting, AmountOf
<1>5. TotalOf(g, T) = TotalOf(f, S) + AmountOf(g, k)
  BY <1>3, <1>4, TotalOneMore
<1> QED
  BY <1>1, <1>2, <1>5 DEF AmountOf

\* Rows with keys and amounts add up to what the records under the keys do.
LEMMA RowsAddUp ==
    ASSUME NEW f, NEW S, Amounting(f, S), NEW rows, NEW row \in Surjection(S, rows),
           \A k \in S : row[k].key = k /\ row[k].amount = f[k].amount
    PROVE  SumFunction([r \in rows |-> r.amount]) = TotalOf(f, S)
<1>1. PICK ff \in [S -> Nat] : ff = [k \in S |-> f[k].amount]
  BY DEF Amounting, AmountOf
<1>2. PICK gg \in [rows -> Nat] : gg = [r \in rows |-> r.amount]
  <2>1. ASSUME NEW r \in rows PROVE r.amount \in Nat
    BY DEF Surjection, Amounting, AmountOf
  <2> QED
    BY <2>1
<1>3. row \in Bijection(S, rows)
  BY DEF Bijection, Injection, IsInjective, Surjection
<1>4. \A k \in S : gg[row[k]] = ff[k]
  BY <1>1, <1>2 DEF Surjection
<1>5. SumFunction(gg) = SumFunction(ff)
  BY <1>3, <1>4, SumRenamed DEF Amounting
<1> QED
  BY <1>1, <1>2, <1>5 DEF TotalOf

\* Two sets of numbers add up to what both do.
AgreesOn(h, f, S) == \A k \in S : h[k] = f[k]

LEMMA SumOfParts ==
    ASSUME NEW S, IsFiniteSet(S), NEW T, IsFiniteSet(T), S \cap T = {},
           NEW f \in [S -> Nat], NEW g \in [T -> Nat], NEW U, U = S \cup T, NEW h \in [U -> Nat],
           AgreesOn(h, f, S), AgreesOn(h, g, T)
    PROVE  SumFunction(h) = SumFunction(f) + SumFunction(g)
<1>1. /\ IsFiniteSet(Units(f, S)) /\ SumFunction(f) = Cardinality(Units(f, S))
      /\ IsFiniteSet(Units(g, T)) /\ SumFunction(g) = Cardinality(Units(g, T))
  BY SumUnits
<1>2. IsFiniteSet(U)
  BY FS_Union
<1>3. SumFunction(h) = Cardinality(Units(h, U))
  BY <1>2, SumUnits
<1>4. Units(h, U) = Units(f, S) \cup Units(g, T) /\ Units(f, S) \cap Units(g, T) = {}
  BY DEF Units, AgreesOn
<1>5. Cardinality(Units(f, S) \cup Units(g, T))
        = Cardinality(Units(f, S)) + Cardinality(Units(g, T)) - Cardinality(Units(f, S) \cap Units(g, T))
  BY <1>1, FS_Union
<1>6. Cardinality(Units(f, S) \cap Units(g, T)) = 0
  BY <1>4, FS_EmptySet
<1>7. Cardinality(Units(f, S)) \in Nat /\ Cardinality(Units(g, T)) \in Nat
  BY <1>1, FS_CardinalityType
<1>8. Cardinality(Units(f, S) \cup Units(g, T))
        = Cardinality(Units(f, S)) + Cardinality(Units(g, T))
  BY <1>5, <1>6, <1>7
<1> QED
  BY <1>1, <1>3, <1>4, <1>8

\* The totals of records, grouped by any key, and their sum.
GroupTotals(f, k, S, K) == [x \in K |-> TotalOf(f, {i \in S : k[i] = x})]

LEMMA GroupTotalsAddUp ==
    ASSUME NEW f, NEW S, Amounting(f, S), NEW K, NEW k \in [S -> K], K = {k[i] : i \in S}
    PROVE  SumFunction(GroupTotals(f, k, S, K)) = TotalOf(f, S)
<1>1. PICK ff \in [S -> Nat] : ff = [i \in S |-> f[i].amount]
  BY DEF Amounting, AmountOf
<1>2. GroupSums(ff, k, S, K) = GroupTotals(f, k, S, K)
  <2>1. ASSUME NEW x \in K
        PROVE  Group(ff, k, S, x) = [i \in {i \in S : k[i] = x} |-> f[i].amount]
    BY <1>1 DEF Group
  <2> QED
    BY <2>1 DEF GroupSums, GroupTotals, TotalOf
<1>3. IsFiniteSet(S) /\ IsFiniteSet(K)
  <2>1. k \in Surjection(S, K)
    BY DEF Surjection
  <2> QED
    BY <2>1, FS_Surjection DEF Amounting
<1>4. SumFunction(GroupSums(ff, k, S, K)) = SumFunction(ff)
  BY <1>3, SumOfGroups
<1> QED
  BY <1>1, <1>2, <1>4 DEF TotalOf
=============================================================================
