------------------------------- MODULE SumProofs -------------------------------
(* Lemmas the other proofs need and the library does not state: sets of        *)
(* numbers and of finite sets have least members, so that what a recursive     *)
(* function computes can be proved by its least counterexample; sums over      *)
(* finite sets.                                                                *)
EXTENDS Integers, FiniteSets, Functions, FiniteSetTheorems, WellFoundedInduction, TLAPS

--------------------------------------------------------------------------------
(* A set of numbers that is not empty has a least element.                     *)
LEMMA Least ==
  ASSUME NEW T \in SUBSET Nat, T # {}
  PROVE  \E x \in T : \A y \in T : x <= y
<1> DEFINE R == {ss \in Nat \X Nat : ss[1] < ss[2]}
<1>1. IsWellFoundedOn(R, Nat)
  BY NatLessThanWellFounded DEF OpToRel
<1>2. \A x, y \in Nat : x < y => <<x, y>> \in R
  OBVIOUS
<1> HIDE DEF R
<1>3. \E x \in T : \A y \in T : <<y, x>> \notin R
  BY <1>1, WFMin
<1>4. ASSUME NEW x \in T, NEW y \in T, <<y, x>> \notin R PROVE x <= y
  <2>1. x \in Nat /\ y \in Nat
    OBVIOUS
  <2> QED BY <1>2, <1>4, <2>1
<1> QED BY <1>3, <1>4

--------------------------------------------------------------------------------
(* The element CHOOSE takes first.                                             *)
Pick(s) == CHOOSE x \in s : TRUE

(* h[s] is the sum of f over s, taken in the order in which elements are       *)
(* picked, for the subsets of S with at most n elements.                       *)
Small(S, n) == {s \in SUBSET S : Cardinality(s) <= n}

IsSum(h, f, D) == h = [s \in D |-> IF s = {} THEN 0 ELSE f[Pick(s)] + h[s \ {Pick(s)}]]

(* A subset without the element picked is smaller.                             *)
LEMMA PickShrinks ==
  ASSUME NEW S, IsFiniteSet(S), NEW s \in SUBSET S, NEW x \in s
  PROVE  /\ s \ {x} \in SUBSET S /\ Pick(s) \in s
         /\ Cardinality(s) \in Nat /\ Cardinality(s \ {x}) \in Nat
         /\ Cardinality(s \ {x}) < Cardinality(s)
<1>1. IsFiniteSet(s)
  BY FS_Subset
<1>2. IsFiniteSet(s \ {x}) /\ Cardinality(s \ {x}) = Cardinality(s) - 1
  BY <1>1, FS_RemoveElement
<1>3. Cardinality(s) \in Nat /\ Cardinality(s \ {x}) \in Nat
  BY <1>1, <1>2, FS_CardinalityType
<1> QED BY <1>2, <1>3 DEF Pick

(* Among the subsets that have a property there is one with the fewest         *)
(* elements.                                                                   *)
LEMMA Fewest ==
  ASSUME NEW S, IsFiniteSet(S), NEW T \in SUBSET SUBSET S, T # {}
  PROVE  \E t \in T : \A s \in SUBSET S : Cardinality(s) < Cardinality(t) => s \notin T
<1> DEFINE C == {Cardinality(t) : t \in T}
<1>1. \A t \in SUBSET S : Cardinality(t) \in Nat
  BY FS_Subset, FS_CardinalityType
<1>2. C \in SUBSET Nat /\ C # {}
  BY <1>1
<1> HIDE DEF C
<1>3. PICK n \in C : \A m \in C : n <= m
  BY <1>2, Least
<1>4. PICK t \in T : Cardinality(t) = n
  BY DEF C
<1>5. ASSUME NEW s \in SUBSET S, Cardinality(s) < Cardinality(t), s \in T PROVE FALSE
  <2>1. Cardinality(s) \in C
    BY <1>5 DEF C
  <2>2. n <= Cardinality(s) /\ n \in Nat /\ Cardinality(s) \in Nat
    BY <1>1, <1>2, <1>3, <2>1
  <2> QED BY <1>4, <1>5, <2>2
<1> QED BY <1>5

(* There are sums: of the sizes for which there were none, the least is not 0, *)
(* and one element more can always be added.                                   *)
LEMMA SumExists ==
  ASSUME NEW S, IsFiniteSet(S), NEW f PROVE \E h : IsSum(h, f, SUBSET S)
<1>0. \A s \in SUBSET S : Cardinality(s) \in Nat /\ Cardinality(s) <= Cardinality(S)
  BY FS_Subset, FS_CardinalityType
<1> DEFINE T == {n \in Nat : ~\E h : IsSum(h, f, Small(S, n))}
<1>1. Small(S, Cardinality(S)) = SUBSET S /\ Cardinality(S) \in Nat
  BY <1>0 DEF Small
<1>2. SUFFICES ASSUME T # {} PROVE FALSE
  <2>1. Cardinality(S) \notin T => \E h : IsSum(h, f, Small(S, Cardinality(S)))
    BY <1>1
  <2> HIDE DEF T
  <2> QED BY <1>1, <2>1
<1>3. PICK n \in T : \A m \in T : n <= m
  <2>1. T \in SUBSET Nat
    OBVIOUS
  <2> HIDE DEF T
  <2> QED BY <1>2, <2>1, Least
<1>4. \A s \in SUBSET S : s # {} => /\ Pick(s) \in s /\ s \ {Pick(s)} \in SUBSET S
                                    /\ Cardinality(s \ {Pick(s)}) < Cardinality(s)
                                    /\ Cardinality(s \ {Pick(s)}) \in Nat
  <2>1. \A s : s # {} => Pick(s) \in s
    BY DEF Pick
  <2> QED BY <2>1, PickShrinks
<1>5. CASE n = 0
  <2> DEFINE h == [s \in Small(S, 0) |-> 0]
  <2>1. \A s \in Small(S, 0) : s = {}
    <3>1. ASSUME NEW s \in SUBSET S, Cardinality(s) <= 0, s # {} PROVE FALSE
      <4>1. Cardinality(s \ {Pick(s)}) < Cardinality(s) /\ Cardinality(s \ {Pick(s)}) \in Nat
        BY <1>4, <3>1
      <4>2. Cardinality(s) \in Nat
        BY <1>0
      <4> QED BY <3>1, <4>1, <4>2
    <3> QED BY <3>1 DEF Small
  <2>2. IsSum(h, f, Small(S, 0))
    BY <2>1 DEF IsSum
  <2> QED BY <1>3, <1>5, <2>2
<1>6. CASE n # 0
  <2>1. n - 1 \in Nat /\ n - 1 \notin T
    BY <1>3, <1>6
  <2>2. PICK h : IsSum(h, f, Small(S, n - 1))
    BY <2>1
  <2> DEFINE D == Small(S, n - 1)
             E == Small(S, n)
             g == [s \in E |-> IF s \in D THEN h[s] ELSE f[Pick(s)] + h[s \ {Pick(s)}]]
  <2>3. \A s \in D : h[s] = IF s = {} THEN 0 ELSE f[Pick(s)] + h[s \ {Pick(s)}]
    BY <2>2 DEF IsSum
  <2>4. \A s \in E : s # {} => s \ {Pick(s)} \in D
    BY <1>0, <1>4, <2>1 DEF Small
  <2>5. D \subseteq E /\ (\A s \in E : s = {} => s \in D)
    <3>1. \A s \in SUBSET S : Cardinality(s) <= n - 1 => Cardinality(s) <= n
      BY <1>0, <1>3
    <3>2. {} \in D
      BY <2>1, FS_EmptySet DEF Small
    <3> QED BY <3>1, <3>2 DEF Small
  <2> HIDE DEF D, E
  <2>6. \A s \in E : g[s] = IF s = {} THEN 0 ELSE f[Pick(s)] + g[s \ {Pick(s)}]
    BY <2>3, <2>4, <2>5
  <2>7. IsSum(g, f, E)
    BY <2>6 DEF IsSum
  <2> QED BY <1>3, <2>7 DEF E
<1> QED BY <1>5, <1>6

(* Sums of natural numbers are natural numbers.                                *)
LEMMA SumType ==
  ASSUME NEW S, IsFiniteSet(S), NEW f, \A y \in S : f[y] \in Nat, NEW h, IsSum(h, f, SUBSET S)
  PROVE  h \in [SUBSET S -> Nat]
<1> DEFINE T == {t \in SUBSET S : h[t] \notin Nat}
<1>1. \A s \in SUBSET S : h[s] = IF s = {} THEN 0 ELSE f[Pick(s)] + h[s \ {Pick(s)}]
  BY DEF IsSum
<1>2. SUFFICES ASSUME T # {} PROVE FALSE
  BY DEF IsSum
<1>3. PICK t \in T : \A s \in SUBSET S : Cardinality(s) < Cardinality(t) => s \notin T
  <2>1. T \in SUBSET SUBSET S
    OBVIOUS
  <2> HIDE DEF T
  <2> QED BY <1>2, <2>1, Fewest
<1>4. t # {}
  BY <1>1, <1>3
<1>5. Pick(t) \in t
  BY <1>4 DEF Pick
<1>6. t \ {Pick(t)} \in SUBSET S /\ Cardinality(t \ {Pick(t)}) < Cardinality(t)
  BY <1>3, <1>5, PickShrinks
<1>7. h[t \ {Pick(t)}] \in Nat /\ f[Pick(t)] \in Nat
  BY <1>3, <1>5, <1>6
<1>8. h[t] = f[Pick(t)] + h[t \ {Pick(t)}]
  BY <1>1, <1>3, <1>4
<1> QED BY <1>3, <1>7, <1>8

(* Any element may be taken out of a sum, not only the one picked.             *)
LEMMA SumTakesOut ==
  ASSUME NEW S, IsFiniteSet(S), NEW f, \A y \in S : f[y] \in Nat, NEW h, IsSum(h, f, SUBSET S),
         NEW s \in SUBSET S, NEW x \in s
  PROVE  h[s] = f[x] + h[s \ {x}]
<1> DEFINE T == {t \in SUBSET S : \E z \in t : h[t] # f[z] + h[t \ {z}]}
<1>1. \A t \in SUBSET S : t # {} => h[t] = f[Pick(t)] + h[t \ {Pick(t)}]
  BY DEF IsSum
<1>2. SUFFICES ASSUME T # {} PROVE FALSE
  OBVIOUS
<1>3. PICK t \in T : \A u \in SUBSET S : Cardinality(u) < Cardinality(t) => u \notin T
  <2>1. T \in SUBSET SUBSET S
    OBVIOUS
  <2> HIDE DEF T
  <2> QED BY <1>2, <2>1, Fewest
<1>4. PICK z \in t : h[t] # f[z] + h[t \ {z}]
  BY <1>3
<1> DEFINE y == Pick(t)
<1>5. y \in t
  BY <1>4 DEF Pick
<1> HIDE DEF y
<1>6. h[t] = f[y] + h[t \ {y}] /\ y # z
  BY <1>1, <1>3, <1>4 DEF y
<1>7. h[t \ {y}] = f[z] + h[(t \ {y}) \ {z}]
  <2>1. t \ {y} \in SUBSET S /\ Cardinality(t \ {y}) < Cardinality(t) /\ z \in t \ {y}
    BY <1>3, <1>4, <1>5, <1>6, PickShrinks
  <2> QED BY <1>3, <2>1
<1>8. h[t \ {z}] = f[y] + h[(t \ {z}) \ {y}]
  <2>1. t \ {z} \in SUBSET S /\ Cardinality(t \ {z}) < Cardinality(t) /\ y \in t \ {z}
    BY <1>3, <1>4, <1>5, <1>6, PickShrinks
  <2> QED BY <1>3, <2>1
<1>9. (t \ {y}) \ {z} = (t \ {z}) \ {y} /\ (t \ {y}) \ {z} \in SUBSET S
  OBVIOUS
<1>10. f[y] \in Nat /\ f[z] \in Nat /\ h[(t \ {y}) \ {z}] \in Nat
  <2>1. h \in [SUBSET S -> Nat]
    BY SumType
  <2> QED BY <1>4, <1>5, <1>9, <2>1
<1>11. h[t] = f[y] + (f[z] + h[(t \ {y}) \ {z}])
  BY <1>6, <1>7
<1>12. h[t \ {z}] = f[y] + h[(t \ {y}) \ {z}]
  BY <1>8, <1>9
<1>13. h[t] = f[z] + h[t \ {z}]
  BY <1>10, <1>11, <1>12
<1> QED BY <1>4, <1>13

(* Functions that agree on a set have the same sum over it.                    *)
LEMMA SumAgrees ==
  ASSUME NEW S, IsFiniteSet(S), NEW U, NEW f, NEW g, NEW h, NEW k,
         IsSum(h, f, SUBSET S), IsSum(k, g, SUBSET U),
         NEW s \in SUBSET S, s \in SUBSET U, \A x \in s : f[x] = g[x]
  PROVE  h[s] = k[s]
<1> DEFINE T == {t \in SUBSET s : h[t] # k[t]}
<1>1. \A t \in SUBSET s : /\ h[t] = IF t = {} THEN 0 ELSE f[Pick(t)] + h[t \ {Pick(t)}]
                          /\ k[t] = IF t = {} THEN 0 ELSE g[Pick(t)] + k[t \ {Pick(t)}]
  BY DEF IsSum
<1>2. SUFFICES ASSUME T # {} PROVE FALSE
  OBVIOUS
<1>3. PICK t \in T : \A u \in SUBSET S : Cardinality(u) < Cardinality(t) => u \notin T
  <2>1. T \in SUBSET SUBSET S
    OBVIOUS
  <2> HIDE DEF T
  <2> QED BY <1>2, <2>1, Fewest
<1>4. t # {} /\ t \in SUBSET S
  BY <1>1, <1>3
<1>5. Pick(t) \in t
  BY <1>4 DEF Pick
<1>6. t \ {Pick(t)} \in SUBSET S /\ Cardinality(t \ {Pick(t)}) < Cardinality(t)
  BY <1>4, <1>5, PickShrinks
<1>7. h[t \ {Pick(t)}] = k[t \ {Pick(t)}] /\ f[Pick(t)] = g[Pick(t)]
  BY <1>3, <1>5, <1>6
<1> QED BY <1>1, <1>3, <1>4, <1>7

(* What SumFunctionOnSet of the community modules computes.                    *)
LEMMA SumIs ==
  ASSUME NEW S, IsFiniteSet(S), NEW f
  PROVE  \E h : IsSum(h, f, SUBSET S) /\ SumFunctionOnSet(f, S) = h[S]
<1> DEFINE h == CHOOSE g : IsSum(g, f, SUBSET S)
<1>1. SumFunctionOnSet(f, S) = h[S]
  BY DEF SumFunctionOnSet, FoldFunctionOnSet, MapThenFoldSet, IsSum, Pick
<1>2. IsSum(h, f, SUBSET S)
  <2>1. \E g : IsSum(g, f, SUBSET S)
    BY SumExists
  <2> HIDE DEF IsSum
  <2> QED BY <2>1
<1> QED BY <1>1, <1>2

(* A sum of natural numbers is one, and the sum of none is zero.               *)
LEMMA SumOnSetType ==
  ASSUME NEW S, IsFiniteSet(S), NEW f, \A y \in S : f[y] \in Nat
  PROVE  SumFunctionOnSet(f, S) \in Nat /\ SumFunctionOnSet(f, {}) = 0
<1>1. PICK h : IsSum(h, f, SUBSET S) /\ SumFunctionOnSet(f, S) = h[S]
  BY SumIs
<1>2. h \in [SUBSET S -> Nat]
  BY <1>1, SumType
<1>3. S \in SUBSET S /\ {} \in SUBSET {}
  OBVIOUS
<1>4. PICK k : IsSum(k, f, SUBSET {}) /\ SumFunctionOnSet(f, {}) = k[{}]
  BY SumIs, FS_EmptySet
<1>5. k[{}] = 0
  BY <1>3, <1>4 DEF IsSum
<1> QED BY <1>1, <1>2, <1>3, <1>4, <1>5

(* One more summand.                                                           *)
LEMMA SumAdds ==
  ASSUME NEW S, IsFiniteSet(S), NEW f, NEW x, x \notin S, \A y \in S \cup {x} : f[y] \in Nat
  PROVE  SumFunctionOnSet(f, S \cup {x}) = SumFunctionOnSet(f, S) + f[x]
<1> DEFINE U == S \cup {x}
<1>1. IsFiniteSet(U) /\ x \in U /\ U \ {x} = S /\ \A y \in U : f[y] \in Nat
  BY FS_AddElement
<1> HIDE DEF U
<1>2. PICK h : IsSum(h, f, SUBSET U) /\ SumFunctionOnSet(f, U) = h[U]
  BY <1>1, SumIs
<1>3. PICK k : IsSum(k, f, SUBSET S) /\ SumFunctionOnSet(f, S) = k[S]
  BY SumIs
<1>4. h[U] = f[x] + h[S]
  <2>1. ASSUME NEW s \in SUBSET U, NEW z \in s PROVE h[s] = f[z] + h[s \ {z}]
    BY <1>1, <1>2, SumTakesOut
  <2> QED BY <1>1, <2>1
<1>5. h[S] = k[S]
  <2>1. S \in SUBSET U /\ S \in SUBSET S /\ \A y \in S : f[y] = f[y]
    BY <1>1
  <2> QED BY <1>1, <1>2, <1>3, <2>1, SumAgrees
<1>6. h[S] \in Nat /\ f[x] \in Nat
  BY <1>1, <1>3, <1>5, SumOnSetType
<1> QED BY <1>2, <1>3, <1>4, <1>5, <1>6 DEF U

(* The sum grows with each of its summands.                                    *)
LEMMA SumGrows ==
  ASSUME NEW S, IsFiniteSet(S), NEW f \in [S -> Nat], NEW x \in S
  PROVE  SumFunction([f EXCEPT ![x] = @ + 1]) = SumFunction(f) + 1
<1> DEFINE g == [f EXCEPT ![x] = @ + 1]
<1>1. g \in [S -> Nat] /\ g[x] = f[x] + 1 /\ \A y \in S \ {x} : g[y] = f[y]
  OBVIOUS
<1> HIDE DEF g
<1>2. PICK h : IsSum(h, f, SUBSET S) /\ SumFunction(f) = h[S]
  BY SumIs DEF SumFunction
<1>3. PICK k : IsSum(k, g, SUBSET S) /\ SumFunction(g) = k[S]
  BY <1>1, SumIs DEF SumFunction
<1>4. S \in SUBSET S /\ S \ {x} \in SUBSET S
  OBVIOUS
<1>5. h[S] = f[x] + h[S \ {x}]
  <2>1. ASSUME NEW s \in SUBSET S, NEW z \in s PROVE h[s] = f[z] + h[s \ {z}]
    BY <1>2, SumTakesOut
  <2> QED BY <1>4, <2>1
<1>6. k[S] = g[x] + k[S \ {x}]
  <2>1. ASSUME NEW s \in SUBSET S, NEW z \in s PROVE k[s] = g[z] + k[s \ {z}]
    BY <1>1, <1>3, SumTakesOut
  <2> QED BY <1>4, <2>1
<1>7. h[S \ {x}] = k[S \ {x}]
  BY <1>1, <1>2, <1>3, <1>4, SumAgrees
<1>8. f[x] \in Nat /\ h[S] \in Nat /\ h[S \ {x}] \in Nat
  <2>1. h \in [SUBSET S -> Nat]
    BY <1>2, SumType
  <2> QED BY <1>4, <2>1
<1> QED BY <1>1, <1>2, <1>3, <1>5, <1>6, <1>7, <1>8 DEF g

================================================================================
