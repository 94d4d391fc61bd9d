---------------------------- MODULE SumTheorems ----------------------------
(***************************************************************************)
(* Facts about SumFunctionOnSet, the sum of a function over a finite set.  *)
(* Induction is by a least counterexample, which needs no operator as a    *)
(* parameter.                                                              *)
(***************************************************************************)
EXTENDS Functions, FiniteSetTheorems, WellFoundedInduction, TLAPS

Pick(s) == CHOOSE x \in s : TRUE

(* The recursion behind the sum of f over the subsets of S in D.           *)
IsSumOn(g, f, D) ==
    g = [s \in D |-> IF s = {} THEN 0 ELSE f[Pick(s)] + g[s \ {Pick(s)}]]

LEMMA SumIsIter ==
    ASSUME NEW f, NEW S
    PROVE  SumFunctionOnSet(f, S) = (CHOOSE g : IsSumOn(g, f, SUBSET S))[S]
BY DEF SumFunctionOnSet, FoldFunctionOnSet, MapThenFoldSet, IsSumOn, Pick

LEMMA LeastNatural ==
    ASSUME NEW T \in SUBSET Nat, T # {}
    PROVE  \E n \in T : \A m \in T : n <= m
<1> DEFINE R == {p \in Nat \X Nat : p[1] < p[2]}
<1>1. IsWellFoundedOn(R, Nat)
  BY NatLessThanWellFounded DEF OpToRel
<1>2. PICK n \in T : \A m \in T : ~(<<m, n>> \in R)
  BY <1>1, WFMin
<1>3. ASSUME NEW m \in T PROVE n <= m
  <2>1. <<m, n>> \in Nat \X Nat /\ ~(<<m, n>> \in R)
    BY <1>2
  <2>2. ~(m < n)
    BY <2>1
  <2> QED BY <2>2
<1> QED BY <1>3

(* Among finite sets there is one that stops belonging when it loses any   *)
(* of its elements.                                                        *)
LEMMA SmallestSet ==
    ASSUME NEW B, B # {}, \A U \in B : IsFiniteSet(U)
    PROVE  \E U \in B : \A x \in U : U \ {x} \notin B
<1> DEFINE T == {Cardinality(U) : U \in B}
<1>1. T \in SUBSET Nat /\ T # {}
  BY FS_CardinalityType
<1>2. PICK n \in T : \A m \in T : n <= m
  BY <1>1, LeastNatural
<1>3. PICK U \in B : Cardinality(U) = n
  BY <1>2
<1>4. ASSUME NEW x \in U, U \ {x} \in B PROVE FALSE
  <2>1. /\ Cardinality(U) \in Nat
        /\ Cardinality(U \ {x}) = Cardinality(U) - 1
    BY FS_CardinalityType, FS_RemoveElement
  <2>2. Cardinality(U) <= Cardinality(U \ {x})
    BY <1>2, <1>3, <1>4
  <2> QED BY <2>1, <2>2
<1> QED BY <1>4

(* Sums of functions that agree are the same, over whatever set the        *)
(* recursion was set up.                                                   *)
LEMMA IterUnique ==
    ASSUME NEW S, NEW T, NEW f, NEW e, NEW g, NEW h, NEW U, IsFiniteSet(U),
           IsSumOn(g, f, SUBSET S), IsSumOn(h, e, SUBSET T),
           U \subseteq S, U \subseteq T, \A x \in U : f[x] = e[x]
    PROVE  g[U] = h[U]
<1> DEFINE B == {V \in SUBSET U : g[V] # h[V]}
<1>1. SUFFICES ASSUME B # {} PROVE FALSE
  OBVIOUS
<1>2. \A V \in B : IsFiniteSet(V)
  BY FS_Subset
<1>3. PICK V \in B : \A x \in V : V \ {x} \notin B
  BY <1>1, <1>2, SmallestSet
<1>4. /\ g[V] = IF V = {} THEN 0 ELSE f[Pick(V)] + g[V \ {Pick(V)}]
      /\ h[V] = IF V = {} THEN 0 ELSE e[Pick(V)] + h[V \ {Pick(V)}]
  <2>1. V \in SUBSET S /\ V \in SUBSET T
    OBVIOUS
  <2> QED BY <2>1 DEF IsSumOn
<1>5. V # {}
  BY <1>4
<1>6. Pick(V) \in V
  BY <1>5 DEF Pick
<1>7. g[V \ {Pick(V)}] = h[V \ {Pick(V)}] /\ f[Pick(V)] = e[Pick(V)]
  BY <1>3, <1>6
<1> QED BY <1>4, <1>5, <1>7

LEMMA IterExists ==
    ASSUME NEW S, IsFiniteSet(S), NEW f
    PROVE  \E g : IsSumOn(g, f, SUBSET S)
<1> DEFINE D(n) == {s \in SUBSET S : Cardinality(s) <= n}
           Bad == {n \in Nat : ~\E g : IsSumOn(g, f, D(n))}
<1>1. \A s \in SUBSET S : IsFiniteSet(s) /\ Cardinality(s) \in Nat /\ Cardinality(s) <= Cardinality(S)
  BY FS_Subset, FS_CardinalityType
<1>2. Bad = {}
  <2>1. SUFFICES ASSUME Bad # {} PROVE FALSE
    OBVIOUS
  <2>2. PICK n \in Bad : \A m \in Bad : n <= m
    BY <2>1, LeastNatural
  <2>3. n # 0
    <3>1. D(0) = {{}}
      BY <1>1, FS_EmptySet
    <3>2. IsSumOn([s \in D(0) |-> 0], f, D(0))
      BY <3>1 DEF IsSumOn
    <3> QED BY <3>2
  <2>4. n \in Nat /\ n - 1 \in Nat /\ n - 1 \notin Bad
    <3>1. n \in Nat /\ n - 1 \in Nat
      BY <2>3
    <3>2. ~(n <= n - 1)
      BY <3>1
    <3> HIDE DEF Bad
    <3> QED BY <2>2, <3>1, <3>2
  <2>5. PICK g : IsSumOn(g, f, D(n - 1))
    BY <2>4
  <2> DEFINE h == [s \in D(n) |-> IF s = {} THEN 0 ELSE f[Pick(s)] + g[s \ {Pick(s)}]]
  <2>6. ASSUME NEW s \in D(n - 1) PROVE h[s] = g[s]
    <3>1. s \in D(n)
      BY <1>1, <2>4
    <3>2. g[s] = IF s = {} THEN 0 ELSE f[Pick(s)] + g[s \ {Pick(s)}]
      BY <2>5 DEF IsSumOn
    <3> QED BY <3>1, <3>2
  <2>7. ASSUME NEW s \in D(n), s # {}
        PROVE  h[s \ {Pick(s)}] = g[s \ {Pick(s)}]
    <3>1. Pick(s) \in s
      BY <2>7 DEF Pick
    <3>2. Cardinality(s \ {Pick(s)}) = Cardinality(s) - 1
      BY <1>1, <3>1, FS_RemoveElement
    <3>3. s \ {Pick(s)} \in D(n - 1)
      BY <1>1, <2>4, <3>2
    <3> QED BY <2>6, <3>3
  <2>8. IsSumOn(h, f, D(n))
    BY <2>7 DEF IsSumOn
  <2> QED BY <2>8, <2>4
<1>3. Cardinality(S) \in Nat /\ D(Cardinality(S)) = SUBSET S
  BY <1>1, FS_CardinalityType
<1>4. Cardinality(S) \notin Bad
  BY <1>2
<1>5. \E g : IsSumOn(g, f, D(Cardinality(S)))
  BY <1>3, <1>4
<1> QED BY <1>3, <1>5

LEMMA SumOfIter ==
    ASSUME NEW S, IsFiniteSet(S), NEW f
    PROVE  \E g : IsSumOn(g, f, SUBSET S) /\ SumFunctionOnSet(f, S) = g[S]
<1>1. IsSumOn(CHOOSE g : IsSumOn(g, f, SUBSET S), f, SUBSET S)
  BY IterExists
<1> QED BY <1>1, SumIsIter

(***************************************************************************)
(* The sum, one element at a time.                                         *)
(***************************************************************************)
LEMMA SumEmpty == ASSUME NEW f PROVE SumFunctionOnSet(f, {}) = 0
<1>1. PICK g : IsSumOn(g, f, SUBSET {}) /\ SumFunctionOnSet(f, {}) = g[{}]
  BY SumOfIter, FS_EmptySet
<1> QED BY <1>1 DEF IsSumOn

LEMMA SumEqual ==
    ASSUME NEW S, IsFiniteSet(S), NEW f, NEW e, \A x \in S : f[x] = e[x]
    PROVE  SumFunctionOnSet(f, S) = SumFunctionOnSet(e, S)
<1>1. PICK g : IsSumOn(g, f, SUBSET S) /\ SumFunctionOnSet(f, S) = g[S]
  BY SumOfIter
<1>2. PICK h : IsSumOn(h, e, SUBSET S) /\ SumFunctionOnSet(e, S) = h[S]
  BY SumOfIter
<1> QED BY <1>1, <1>2, IterUnique

LEMMA SumPicks ==
    ASSUME NEW S, IsFiniteSet(S), S # {}, NEW f
    PROVE  SumFunctionOnSet(f, S) = f[Pick(S)] + SumFunctionOnSet(f, S \ {Pick(S)})
<1> DEFINE R == S \ {Pick(S)}
<1>0. IsFiniteSet(R) /\ R \subseteq S
  BY FS_RemoveElement
<1> HIDE DEF R
<1>1. PICK g : IsSumOn(g, f, SUBSET S) /\ SumFunctionOnSet(f, S) = g[S]
  BY SumOfIter
<1>2. PICK h : IsSumOn(h, f, SUBSET R) /\ SumFunctionOnSet(f, R) = h[R]
  BY <1>0, SumOfIter
<1>3. g[R] = h[R]
  BY <1>0, <1>1, <1>2, IterUnique
<1>4. g[S] = f[Pick(S)] + g[R]
  BY <1>1 DEF IsSumOn, R
<1> QED BY <1>1, <1>2, <1>3, <1>4 DEF R

LEMMA SumInt ==
    ASSUME NEW S, IsFiniteSet(S), NEW f, \A x \in S : f[x] \in Int
    PROVE  SumFunctionOnSet(f, S) \in Int
<1> DEFINE B == {V \in SUBSET S : SumFunctionOnSet(f, V) \notin Int}
<1>1. SUFFICES ASSUME B # {} PROVE FALSE
  OBVIOUS
<1>2. \A V \in B : IsFiniteSet(V)
  BY FS_Subset
<1>3. PICK V \in B : \A x \in V : V \ {x} \notin B
  BY <1>1, <1>2, SmallestSet
<1>4. V # {}
  BY SumEmpty
<1>5. Pick(V) \in V
  BY <1>4 DEF Pick
<1>6. SumFunctionOnSet(f, V) = f[Pick(V)] + SumFunctionOnSet(f, V \ {Pick(V)})
  BY <1>2, <1>4, SumPicks
<1> QED BY <1>3, <1>5, <1>6

LEMMA SumNat ==
    ASSUME NEW S, IsFiniteSet(S), NEW f, \A x \in S : f[x] \in Nat
    PROVE  SumFunctionOnSet(f, S) \in Nat
<1> DEFINE B == {V \in SUBSET S : SumFunctionOnSet(f, V) \notin Nat}
<1>1. SUFFICES ASSUME B # {} PROVE FALSE
  OBVIOUS
<1>2. \A V \in B : IsFiniteSet(V)
  BY FS_Subset
<1>3. PICK V \in B : \A x \in V : V \ {x} \notin B
  BY <1>1, <1>2, SmallestSet
<1>4. V # {}
  BY SumEmpty
<1>5. Pick(V) \in V
  BY <1>4 DEF Pick
<1>6. SumFunctionOnSet(f, V) = f[Pick(V)] + SumFunctionOnSet(f, V \ {Pick(V)})
  BY <1>2, <1>4, SumPicks
<1> QED BY <1>3, <1>5, <1>6

(* The order in which the elements are taken does not matter.              *)
LEMMA SumRemove ==
    ASSUME NEW S, IsFiniteSet(S), NEW f, \A x \in S : f[x] \in Int, NEW y \in S
    PROVE  SumFunctionOnSet(f, S) = f[y] + SumFunctionOnSet(f, S \ {y})
<1> DEFINE B == {V \in SUBSET S : \E x \in V :
                   SumFunctionOnSet(f, V) # f[x] + SumFunctionOnSet(f, V \ {x})}
<1>1. SUFFICES ASSUME B # {} PROVE FALSE
  OBVIOUS
<1>2. \A V \in B : IsFiniteSet(V)
  BY FS_Subset
<1>3. PICK V \in B : \A x \in V : V \ {x} \notin B
  BY <1>1, <1>2, SmallestSet
<1>4. PICK x \in V : SumFunctionOnSet(f, V) # f[x] + SumFunctionOnSet(f, V \ {x})
  OBVIOUS
<1> DEFINE p == Pick(V)
<1>5. p \in V
  BY <1>4 DEF Pick
<1>6. SumFunctionOnSet(f, V) = f[p] + SumFunctionOnSet(f, V \ {p})
  BY <1>2, <1>4, SumPicks
<1> HIDE DEF p
<1>7. p # x
  BY <1>4, <1>6
<1>8. SumFunctionOnSet(f, V \ {p}) = f[x] + SumFunctionOnSet(f, (V \ {p}) \ {x})
  BY <1>3, <1>5, <1>7
<1>9. /\ IsFiniteSet((V \ {p}) \ {x}) /\ IsFiniteSet(V \ {x})
      /\ (V \ {x}) \ {p} = (V \ {p}) \ {x}
  BY <1>2, FS_RemoveElement
<1>10. SumFunctionOnSet(f, V \ {x}) = f[p] + SumFunctionOnSet(f, (V \ {x}) \ {p})
  BY <1>3, <1>5, <1>7
<1>11. SumFunctionOnSet(f, (V \ {p}) \ {x}) \in Int /\ f[x] \in Int /\ f[p] \in Int
  BY <1>5, <1>9, SumInt
<1>12. SumFunctionOnSet(f, (V \ {x}) \ {p}) = SumFunctionOnSet(f, (V \ {p}) \ {x})
  BY <1>9
<1>13. SumFunctionOnSet(f, V) # f[x] + SumFunctionOnSet(f, V \ {x})
  BY <1>4
<1> HIDE DEF B
<1> QED BY <1>6, <1>8, <1>10, <1>11, <1>12, <1>13

LEMMA SumAdd ==
    ASSUME NEW S, IsFiniteSet(S), NEW f, NEW y, y \notin S,
           \A x \in S \cup {y} : f[x] \in Int
    PROVE  SumFunctionOnSet(f, S \cup {y}) = f[y] + SumFunctionOnSet(f, S)
<1>1. IsFiniteSet(S \cup {y}) /\ (S \cup {y}) \ {y} = S
  BY FS_AddElement
<1> QED BY <1>1, SumRemove

(* What changing one term changes.                                         *)
LEMMA SumChange ==
    ASSUME NEW S, IsFiniteSet(S), NEW f, NEW e, NEW y \in S,
           \A x \in S : f[x] \in Int /\ e[x] \in Int,
           \A x \in S \ {y} : e[x] = f[x]
    PROVE  SumFunctionOnSet(e, S) = SumFunctionOnSet(f, S) + e[y] - f[y]
<1>1. IsFiniteSet(S \ {y})
  BY FS_RemoveElement
<1>2. SumFunctionOnSet(e, S \ {y}) = SumFunctionOnSet(f, S \ {y})
  BY <1>1, SumEqual
<1>3. /\ SumFunctionOnSet(f, S) = f[y] + SumFunctionOnSet(f, S \ {y})
      /\ SumFunctionOnSet(e, S) = e[y] + SumFunctionOnSet(e, S \ {y})
  BY SumRemove
<1>4. SumFunctionOnSet(f, S \ {y}) \in Int /\ f[y] \in Int /\ e[y] \in Int
  BY <1>1, SumInt
<1> QED BY <1>2, <1>3, <1>4

(* A sum of nothings is nothing.                                           *)
LEMMA SumZero ==
    ASSUME NEW S, IsFiniteSet(S), NEW f, \A x \in S : f[x] = 0
    PROVE  SumFunctionOnSet(f, S) = 0
<1> DEFINE B == {V \in SUBSET S : SumFunctionOnSet(f, V) # 0}
<1>1. SUFFICES ASSUME B # {} PROVE FALSE
  OBVIOUS
<1>2. \A V \in B : IsFiniteSet(V)
  BY FS_Subset
<1>3. PICK V \in B : \A x \in V : V \ {x} \notin B
  BY <1>1, <1>2, SmallestSet
<1>4. PICK y : y \in V
  BY SumEmpty
<1>5. SumFunctionOnSet(f, V) = f[y] + SumFunctionOnSet(f, V \ {y})
  BY <1>2, <1>4, SumRemove
<1> QED BY <1>3, <1>4, <1>5

(* The sum of two functions, term by term.                                 *)
LEMMA SumPlus ==
    ASSUME NEW S, IsFiniteSet(S), NEW f, NEW e, NEW h,
           \A x \in S : f[x] \in Int /\ e[x] \in Int,
           \A x \in S : h[x] = f[x] + e[x]
    PROVE  SumFunctionOnSet(h, S) = SumFunctionOnSet(f, S) + SumFunctionOnSet(e, S)
<1> DEFINE B == {V \in SUBSET S : SumFunctionOnSet(h, V)
                    # SumFunctionOnSet(f, V) + SumFunctionOnSet(e, V)}
<1>1. SUFFICES ASSUME B # {} PROVE FALSE
  OBVIOUS
<1>2. \A V \in B : IsFiniteSet(V)
  BY FS_Subset
<1>3. PICK V \in B : \A x \in V : V \ {x} \notin B
  BY <1>1, <1>2, SmallestSet
<1>4. PICK y : y \in V
  <2>1. SUFFICES ASSUME V = {} PROVE FALSE
    OBVIOUS
  <2> QED BY <2>1, SumEmpty
<1>5. V \in SUBSET S /\ \A x \in V : h[x] \in Int /\ f[x] \in Int /\ e[x] \in Int
  OBVIOUS
<1>6. /\ SumFunctionOnSet(h, V) = h[y] + SumFunctionOnSet(h, V \ {y})
      /\ SumFunctionOnSet(f, V) = f[y] + SumFunctionOnSet(f, V \ {y})
      /\ SumFunctionOnSet(e, V) = e[y] + SumFunctionOnSet(e, V \ {y})
  BY <1>2, <1>4, <1>5, SumRemove
<1>7. IsFiniteSet(V \ {y})
  BY <1>2, FS_RemoveElement
<1>8. /\ SumFunctionOnSet(f, V \ {y}) \in Int /\ SumFunctionOnSet(e, V \ {y}) \in Int
      /\ f[y] \in Int /\ e[y] \in Int /\ h[y] = f[y] + e[y]
  BY <1>4, <1>5, <1>7, SumInt
<1>9. SumFunctionOnSet(h, V \ {y})
        = SumFunctionOnSet(f, V \ {y}) + SumFunctionOnSet(e, V \ {y})
  BY <1>3, <1>4, <1>5
<1>10. SumFunctionOnSet(h, V) # SumFunctionOnSet(f, V) + SumFunctionOnSet(e, V)
  BY <1>3
<1> HIDE DEF B
<1> QED BY <1>6, <1>8, <1>9, <1>10
(* Terms that are nothing may be left out.                                 *)
LEMMA SumRestrict ==
    ASSUME NEW S, IsFiniteSet(S), NEW T, T \subseteq S, NEW f,
           \A x \in S : f[x] \in Int, \A x \in S \ T : f[x] = 0
    PROVE  SumFunctionOnSet(f, S) = SumFunctionOnSet(f, T)
<1> DEFINE B == {V \in SUBSET S : SumFunctionOnSet(f, V) # SumFunctionOnSet(f, V \cap T)}
<1>1. SUFFICES ASSUME B # {} PROVE FALSE
  <2>1. S \cap T = T
    OBVIOUS
  <2> QED BY <1>1, <2>1
<1>2. \A V \in B : IsFiniteSet(V)
  BY FS_Subset
<1>3. PICK V \in B : \A x \in V : V \ {x} \notin B
  BY <1>1, <1>2, SmallestSet
<1>4. V \in SUBSET S /\ IsFiniteSet(V) /\ \A x \in V : f[x] \in Int
  BY <1>2
<1>5. SumFunctionOnSet(f, V) # SumFunctionOnSet(f, V \cap T)
  BY <1>3
<1>6. PICK y \in V : y \notin T
  <2>1. SUFFICES ASSUME \A y \in V : y \in T PROVE FALSE
    OBVIOUS
  <2>2. V \cap T = V
    BY <2>1
  <2> QED BY <1>5, <2>2
<1>7. SumFunctionOnSet(f, V) = f[y] + SumFunctionOnSet(f, V \ {y})
  BY <1>4, <1>6, SumRemove
<1>8. SumFunctionOnSet(f, V \ {y}) = SumFunctionOnSet(f, V \cap T)
  <2>1. (V \ {y}) \cap T = V \cap T
    BY <1>6
  <2>2. SumFunctionOnSet(f, V \ {y}) = SumFunctionOnSet(f, (V \ {y}) \cap T)
    BY <1>3, <1>4, <1>6
  <2> QED BY <2>1, <2>2
<1>9. f[y] = 0 /\ SumFunctionOnSet(f, V \ {y}) \in Int
  <2>1. IsFiniteSet(V \ {y}) /\ \A x \in V \ {y} : f[x] \in Int
    BY <1>4, FS_RemoveElement
  <2> QED BY <1>4, <1>6, <2>1, SumInt
<1> HIDE DEF B
<1> QED BY <1>5, <1>7, <1>8, <1>9

(* A bound on each term is one on the sum.                                 *)
LEMMA SumScaled ==
    ASSUME NEW S, IsFiniteSet(S), NEW f, NEW e, NEW b \in Int, NEW c \in Int,
           \A x \in S : f[x] \in Int /\ e[x] \in Int,
           \A x \in S : f[x] * b <= e[x] * c
    PROVE  SumFunctionOnSet(f, S) * b <= SumFunctionOnSet(e, S) * c
<1> DEFINE Over(V) == ~(SumFunctionOnSet(f, V) * b <= SumFunctionOnSet(e, V) * c)
           B == {V \in SUBSET S : Over(V)}
<1>1. SUFFICES ASSUME B # {} PROVE FALSE
  OBVIOUS
<1>2. \A V \in B : IsFiniteSet(V)
  BY FS_Subset
<1>3. PICK V \in B : \A x \in V : V \ {x} \notin B
  BY <1>1, <1>2, SmallestSet
<1>4. V \in SUBSET S /\ IsFiniteSet(V) /\ Over(V)
  BY <1>2
<1>5. PICK y : y \in V
  <2>1. SUFFICES ASSUME V = {} PROVE FALSE
    OBVIOUS
  <2>2. 0 * b = 0 /\ 0 * c = 0
    BY SMT
  <2> QED BY <1>4, <2>1, <2>2, SumEmpty
<1>6. /\ SumFunctionOnSet(f, V) = f[y] + SumFunctionOnSet(f, V \ {y})
      /\ SumFunctionOnSet(e, V) = e[y] + SumFunctionOnSet(e, V \ {y})
  <2>1. \A x \in V : f[x] \in Int /\ e[x] \in Int
    BY <1>4
  <2> QED BY <1>4, <1>5, <2>1, SumRemove
<1>7. SumFunctionOnSet(f, V \ {y}) * b <= SumFunctionOnSet(e, V \ {y}) * c
  BY <1>3, <1>4, <1>5
<1>8. f[y] * b <= e[y] * c
  BY <1>4, <1>5
<1>9. PICK F \in Int, E \in Int, p \in Int, q \in Int :
         /\ F = SumFunctionOnSet(f, V \ {y}) /\ E = SumFunctionOnSet(e, V \ {y})
         /\ p = f[y] /\ q = e[y]
  <2>1. IsFiniteSet(V \ {y}) /\ \A x \in V \ {y} : f[x] \in Int /\ e[x] \in Int
    BY <1>4, FS_RemoveElement
  <2> QED BY <1>4, <1>5, <2>1, SumInt
<1>10. (p + F) * b = p * b + F * b /\ (q + E) * c = q * c + E * c
  BY <1>9, SMT
<1>11. p * b \in Int /\ F * b \in Int /\ q * c \in Int /\ E * c \in Int
  BY <1>9, SMT
<1> HIDE DEF B
<1> QED BY <1>4, <1>6, <1>7, <1>8, <1>9, <1>10, <1>11

(* A sum may be taken over the names of its terms instead: k names each    *)
(* term, and what g has beside them is nothing.                            *)
Reindexes(k, f, S, g, T) ==
    /\ \A x \in S : k[x] \in T /\ f[x] \in Int /\ g[k[x]] = f[x]
    /\ \A x, y \in S : k[x] = k[y] => x = y
    /\ \A y \in T : (\A x \in S : k[x] # y) => g[y] = 0

LEMMA SumReindex ==
    ASSUME NEW S, IsFiniteSet(S), NEW T, IsFiniteSet(T), NEW k, NEW f, NEW g,
           Reindexes(k, f, S, g, T)
    PROVE  SumFunctionOnSet(g, T) = SumFunctionOnSet(f, S)
<1> USE DEF Reindexes
<1> DEFINE Names(V) == {k[x] : x \in V}
           Bad(V) == SumFunctionOnSet(g, Names(V)) # SumFunctionOnSet(f, V)
           B == {V \in SUBSET S : Bad(V)}
<1>1. \A y \in T : g[y] \in Int
  OBVIOUS
<1>2. SumFunctionOnSet(g, T) = SumFunctionOnSet(g, Names(S))
  <2>1. Names(S) \subseteq T /\ \A y \in T \ Names(S) : g[y] = 0
    OBVIOUS
  <2> HIDE DEF Names
  <2> QED BY <1>1, <2>1, SumRestrict
<1>3. SUFFICES ASSUME B # {} PROVE FALSE
  <2>1. ~Bad(S)
    BY <1>3
  <2> QED BY <1>2, <2>1
<1>4. \A V \in B : IsFiniteSet(V)
  BY FS_Subset
<1>5. PICK V \in B : \A x \in V : V \ {x} \notin B
  BY <1>3, <1>4, SmallestSet
<1>6. V \in SUBSET S /\ IsFiniteSet(V) /\ Bad(V)
  BY <1>4
<1>7. PICK y : y \in V
  <2>1. SUFFICES ASSUME V = {} PROVE FALSE
    OBVIOUS
  <2>2. Names(V) = {}
    BY <2>1
  <2> QED BY <1>6, <2>1, <2>2, SumEmpty
<1> DEFINE R == V \ {y}
<1>8. R \in SUBSET S /\ IsFiniteSet(R) /\ ~Bad(R)
  <2>1. R \in SUBSET S /\ R \notin B
    BY <1>5, <1>6, <1>7
  <2> QED BY <1>6, <2>1, FS_RemoveElement
<1>9. SumFunctionOnSet(f, V) = f[y] + SumFunctionOnSet(f, R)
  <2>1. \A x \in V : f[x] \in Int
    BY <1>6
  <2> QED BY <1>6, <1>7, <2>1, SumRemove
<1>10. SumFunctionOnSet(g, Names(V)) = g[k[y]] + SumFunctionOnSet(g, Names(R))
  <2>1. Names(V) = Names(R) \cup {k[y]}
    BY <1>7
  <2>2. k[y] \notin Names(R)
    BY <1>6, <1>7
  <2>3. \A x \in Names(R) \cup {k[y]} : g[x] \in Int
    BY <1>6, <1>7
  <2>4. IsFiniteSet(Names(R))
    <3>1. Names(R) \subseteq T
      BY <1>8
    <3> HIDE DEF Names, R
    <3> QED BY <3>1, FS_Subset
  <2> HIDE DEF Names, R
  <2> QED BY <2>1, <2>2, <2>3, <2>4, SumAdd
<1>11. g[k[y]] = f[y]
  BY <1>6, <1>7
<1> HIDE DEF R, Names
<1> QED BY <1>6, <1>8, <1>9, <1>10, <1>11
=============================================================================
