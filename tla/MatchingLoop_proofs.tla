-------------------------- MODULE MatchingLoop_proofs --------------------------
(***************************************************************************)
(* Theorems about MatchingLoop, for every book and every taker: the loops  *)
(* of the book and of the engine compute what OrderBook defines in a line. *)
(* The first part is about sorted sequences, the second about the queues   *)
(* and levels of a built book, the third and the fourth follow the two     *)
(* loops.                                                                  *)
(***************************************************************************)
EXTENDS MatchingLoop, SumTheorems

(***************************************************************************)
(* Sorting by rank.  R is a strict total order on S, as a set of pairs.    *)
(***************************************************************************)
Orders(R, S) ==
    /\ \A x \in S : <<x, x>> \notin R
    /\ \A x, y, z \in S : <<x, y>> \in R /\ <<y, z>> \in R => <<x, z>> \in R
    /\ \A x, y \in S : x = y \/ <<x, y>> \in R \/ <<y, x>> \in R

Below(R, S, x) == {y \in S : <<y, x>> \in R}

Rank(R, S, x) == Cardinality(Below(R, S, x))

(* s has each element of S, in the order R.                                *)
Sorts(s, R, S) ==
    /\ s \in Seq(S)
    /\ \A x \in S : \E i \in 1..Len(s) : s[i] = x
    /\ \A i, j \in 1..Len(s) : i < j => <<s[i], s[j]>> \in R

LEMMA OneTo ==
    ASSUME NEW n \in Nat PROVE IsFiniteSet(1..n) /\ Cardinality(1..n) = n
<1>1. 1 \in Int /\ n \in Int
  OBVIOUS
<1>2. IsFiniteSet(1..n) /\ Cardinality(1..n) = IF 1 > n THEN 0 ELSE n - 1 + 1
  BY <1>1, FS_Interval
<1> QED BY <1>2

LEMMA RankIsPlace ==
    ASSUME NEW S, IsFiniteSet(S), NEW R, Orders(R, S), NEW x \in S
    PROVE  Rank(R, S, x) \in 0..(Cardinality(S) - 1) /\ IsFiniteSet(Below(R, S, x))
<1>1. Below(R, S, x) \in SUBSET S /\ Below(R, S, x) # S
  BY DEF Below, Orders
<1>2. /\ IsFiniteSet(Below(R, S, x))
      /\ Cardinality(Below(R, S, x)) <= Cardinality(S)
      /\ Cardinality(Below(R, S, x)) # Cardinality(S)
  BY <1>1, FS_Subset
<1>3. Cardinality(Below(R, S, x)) \in Nat /\ Cardinality(S) \in Nat
  BY <1>2, FS_CardinalityType
<1> QED BY <1>2, <1>3 DEF Rank

LEMMA RankGrows ==
    ASSUME NEW S, IsFiniteSet(S), NEW R, Orders(R, S), NEW x \in S, NEW y \in S,
           <<x, y>> \in R
    PROVE  Rank(R, S, x) < Rank(R, S, y)
<1>1. Below(R, S, x) \in SUBSET Below(R, S, y) /\ Below(R, S, x) # Below(R, S, y)
  BY DEF Below, Orders
<1>2. /\ Rank(R, S, x) <= Rank(R, S, y) /\ Rank(R, S, x) # Rank(R, S, y)
  BY <1>1, RankIsPlace, FS_Subset DEF Rank
<1>3. Rank(R, S, x) \in Int /\ Rank(R, S, y) \in Int
  BY RankIsPlace, FS_CardinalityType
<1> QED BY <1>2, <1>3

LEMMA RankTells ==
    ASSUME NEW S, IsFiniteSet(S), NEW R, Orders(R, S), NEW x \in S, NEW y \in S
    PROVE  /\ Rank(R, S, x) = Rank(R, S, y) => x = y
           /\ Rank(R, S, x) < Rank(R, S, y) => <<x, y>> \in R
<1>1. Cardinality(S) \in Nat
  BY FS_CardinalityType
<1>2. Rank(R, S, x) \in Int /\ Rank(R, S, y) \in Int
  BY <1>1, RankIsPlace
<1>3. x = y \/ <<x, y>> \in R \/ <<y, x>> \in R
  BY DEF Orders
<1>4. /\ <<x, y>> \in R => Rank(R, S, x) < Rank(R, S, y)
      /\ <<y, x>> \in R => Rank(R, S, y) < Rank(R, S, x)
  BY RankGrows
<1> QED BY <1>2, <1>3, <1>4

(* Each place below the size of the set is taken.                          *)
LEMMA RankTaken ==
    ASSUME NEW S, IsFiniteSet(S), NEW R, Orders(R, S), NEW k \in 0..(Cardinality(S) - 1)
    PROVE  \E x \in S : Rank(R, S, x) = k
<1> DEFINE T == 0..(Cardinality(S) - 1)
           f == [x \in S |-> Rank(R, S, x)]
<1>1. Cardinality(S) \in Nat
  BY FS_CardinalityType
<1>2. IsFiniteSet(T) /\ Cardinality(T) = Cardinality(S)
  <2>1. 0 \in Int /\ Cardinality(S) - 1 \in Int
    BY <1>1
  <2>2. /\ IsFiniteSet(T)
        /\ Cardinality(T) = IF 0 > Cardinality(S) - 1 THEN 0 ELSE (Cardinality(S) - 1) - 0 + 1
    BY <2>1, FS_Interval
  <2> QED BY <1>1, <2>2
<1>3. f \in [S -> T]
  BY RankIsPlace
<1>4. \A x, y \in S : f[x] = f[y] => x = y
  BY RankTells
<1> HIDE DEF T
<1>5. f \in Injection(S, T)
  BY <1>3, <1>4 DEF Injection, IsInjective
<1> HIDE DEF f
<1>6. f \in Surjection(S, T)
  BY <1>2, <1>5, FS_Injection
<1>7. \E x \in S : f[x] = k
  BY <1>6 DEF Surjection, T
<1> QED BY <1>7 DEF f

(* A sequence that has the element of rank i - 1 at place i is sorted.     *)
LEMMA RankedIsSorted ==
    ASSUME NEW S, IsFiniteSet(S), NEW R, Orders(R, S), NEW s \in [1..Cardinality(S) -> S],
           \A i \in 1..Cardinality(S) : Rank(R, S, s[i]) = i - 1
    PROVE  Sorts(s, R, S)
<1>1. Cardinality(S) \in Nat
  BY FS_CardinalityType
<1>2. s \in Seq(S) /\ Len(s) = Cardinality(S)
  BY <1>1
<1>3. ASSUME NEW x \in S PROVE \E i \in 1..Len(s) : s[i] = x
  <2>1. PICK k \in 0..(Cardinality(S) - 1) : k = Rank(R, S, x)
    BY RankIsPlace
  <2>2. k + 1 \in 1..Cardinality(S) /\ (k + 1) - 1 = k
    BY <1>1
  <2>3. s[k + 1] \in S /\ Rank(R, S, s[k + 1]) = k
    BY <2>2
  <2> QED BY <1>2, <2>1, <2>2, <2>3, RankTells
<1>4. ASSUME NEW i \in 1..Len(s), NEW j \in 1..Len(s), i < j PROVE <<s[i], s[j]>> \in R
  <2>1. s[i] \in S /\ s[j] \in S /\ Rank(R, S, s[i]) = i - 1 /\ Rank(R, S, s[j]) = j - 1
    BY <1>2
  <2>2. i - 1 < j - 1
    BY <1>4
  <2> QED BY <2>1, <2>2, RankTells
<1> QED BY <1>2, <1>3, <1>4 DEF Sorts

(* And there is no other sorted sequence of the set.                       *)
LEMMA SortedIsRanked ==
    ASSUME NEW S, IsFiniteSet(S), NEW R, Orders(R, S), NEW s, Sorts(s, R, S)
    PROVE  /\ s \in [1..Cardinality(S) -> S]
           /\ \A i \in 1..Cardinality(S) : Rank(R, S, s[i]) = i - 1
<1> DEFINE n == Len(s)
<1>1. s \in [1..n -> S] /\ n \in Nat
  BY DEF Sorts
<1>2. \A i, j \in 1..n : s[i] = s[j] => i = j
  <2> SUFFICES ASSUME NEW i \in 1..n, NEW j \in 1..n, s[i] = s[j], i < j PROVE FALSE
    BY <1>1
  <2>1. <<s[i], s[j]>> \in R /\ s[j] \in S
    BY <1>1 DEF Sorts
  <2> QED BY <2>1 DEF Orders
<1>3. Cardinality(S) = n
  <2>1. s \in Injection(1..n, S) /\ s \in Surjection(1..n, S)
    BY <1>1, <1>2 DEF Injection, IsInjective, Surjection, Sorts
  <2>2. IsFiniteSet(1..n) /\ Cardinality(1..n) = n
    BY <1>1, OneTo
  <2> QED BY <2>1, <2>2, FS_Surjection
<1>4. ASSUME NEW i \in 1..n PROVE Rank(R, S, s[i]) = i - 1
  <2> DEFINE B == Below(R, S, s[i])
             f == [j \in 1..(i - 1) |-> s[j]]
  <2>1. \A j \in 1..(i - 1) : j \in 1..n /\ j < i
    BY <1>1
  <2>2. \A j \in 1..(i - 1) : f[j] \in B
    BY <1>1, <2>1 DEF Below, Sorts
  <2>3. \A y \in B : \E j \in 1..(i - 1) : f[j] = y
    <3> SUFFICES ASSUME NEW y \in S, <<y, s[i]>> \in R PROVE \E j \in 1..(i - 1) : f[j] = y
      BY DEF Below
    <3>1. PICK j \in 1..n : s[j] = y
      BY DEF Sorts
    <3>2. j < i
      <4>1. CASE j = i
        BY <1>1, <3>1, <4>1 DEF Orders
      <4>2. CASE i < j
        <5>1. <<s[i], s[j]>> \in R /\ s[i] \in S
          BY <1>1, <4>2 DEF Sorts
        <5> QED BY <3>1, <5>1 DEF Orders
      <4> QED BY <1>1, <4>1, <4>2
    <3>3. j \in 1..(i - 1)
      BY <1>1, <3>2
    <3> QED BY <3>1, <3>3
  <2>4. \A j, k \in 1..(i - 1) : f[j] = f[k] => j = k
    BY <1>2, <2>1
  <2> HIDE DEF B
  <2>5. f \in [1..(i - 1) -> B]
    BY <2>2
  <2>6. f \in Injection(1..(i - 1), B) /\ f \in Surjection(1..(i - 1), B)
    BY <2>3, <2>4, <2>5 DEF Injection, IsInjective, Surjection
  <2> HIDE DEF f
  <2>7. IsFiniteSet(1..(i - 1)) /\ Cardinality(1..(i - 1)) = i - 1
    <3>1. i - 1 \in Nat
      BY <1>1
    <3> QED BY <3>1, OneTo
  <2>8. Cardinality(B) = i - 1
    BY <2>6, <2>7, FS_Surjection
  <2> QED BY <2>8 DEF B, Rank
<1> QED BY <1>1, <1>3, <1>4

LEMMA SortedOnce ==
    ASSUME NEW S, IsFiniteSet(S), NEW R, Orders(R, S),
           NEW s, NEW t, Sorts(s, R, S), Sorts(t, R, S)
    PROVE  s = t
<1> DEFINE D == 1..Cardinality(S)
<1>1. /\ s \in [D -> S] /\ t \in [D -> S]
      /\ \A i \in D : Rank(R, S, s[i]) = i - 1 /\ Rank(R, S, t[i]) = i - 1
  BY SortedIsRanked
<1> HIDE DEF D
<1>2. \A i \in D : s[i] = t[i]
  BY <1>1, RankTells
<1>3. s = [i \in D |-> s[i]] /\ t = [i \in D |-> t[i]]
  BY <1>1
<1> QED BY <1>2, <1>3

(***************************************************************************)
(* The book.  Its rows are finitely many, by their ids, and each of its    *)
(* orders sorts them.                                                      *)
(***************************************************************************)
QueueOrder(S) == {p \in S \X S : QueueBefore(p[1], p[2])}

(* The levels of a side, from the one that order t reaches first.          *)
Nearer(t, p, q) == IF t.side = "sell" THEN p > q ELSE p < q

LevelOrder(S, t) == {p \in S \X S : Nearer(t, p[1], p[2])}

SettleOrder(S, side) == {p \in S \X S : SettledBefore(p[1], p[2], side)}

LEMMA RowFacts ==
    ASSUME NEW b \in Books
    PROVE  /\ b \in Seq(Row) /\ ToSet(b) \subseteq Row /\ IsFiniteSet(ToSet(b))
           /\ \A r, q \in ToSet(b) : r.id = q.id => r = q
<1>1. b \in Seq(Row) /\ Len(b) \in Nat /\ DOMAIN b = 1..Len(b)
  BY LoopAssumption
<1>2. ToSet(b) = {b[i] : i \in 1..Len(b)}
  BY <1>1 DEF ToSet
<1>3. ToSet(b) \subseteq Row
  BY <1>1, <1>2
<1>4. b \in Surjection(1..Len(b), ToSet(b))
  BY <1>1, <1>2 DEF Surjection
<1>5. IsFiniteSet(ToSet(b))
  BY <1>1, <1>4, OneTo, FS_Surjection
<1>6. ASSUME NEW i \in 1..Len(b), NEW j \in 1..Len(b), b[i].id = b[j].id
      PROVE  b[i] = b[j]
  <2>1. ~(i < j) /\ ~(j < i)
    BY <1>1, <1>6, LoopAssumption
  <2> QED BY <1>1, <2>1
<1> QED BY <1>1, <1>2, <1>3, <1>5, <1>6

LEMMA TsIsInt == ASSUME NEW r \in Row PROVE Ts(r) \in Int
<1>1. r.created \in Nat /\ Millisecond \in Nat \ {0}
  BY LoopAssumption DEF Row
<1> QED BY <1>1, SMT DEF Ts

LEMMA QueueSorted ==
    ASSUME NEW b \in Books, NEW S \in SUBSET ToSet(b)
    PROVE  /\ IsFiniteSet(S)
           /\ Orders(QueueOrder(S), S)
           /\ Sorts(Arranged(S, QueueBefore), QueueOrder(S), S)
<1> DEFINE R == QueueOrder(S)
           s == Arranged(S, QueueBefore)
<1>1. IsFiniteSet(S) /\ S \subseteq Row /\ \A x, y \in S : x.id = y.id => x = y
  BY RowFacts, FS_Subset
<1>2. \A x \in S : x.id \in Nat /\ Ts(x) \in Int
  BY <1>1, TsIsInt DEF Row
<1>3. \A x, y \in S : <<x, y>> \in R <=> QueueBefore(x, y)
  BY DEF QueueOrder
<1> HIDE DEF R
<1>4. Orders(R, S)
  BY <1>1, <1>2, <1>3 DEF Orders, QueueBefore
<1>5. \A x \in S : {y \in S : QueueBefore(y, x)} = Below(R, S, x)
  BY <1>3 DEF Below
<1>6. ASSUME NEW i \in 1..Cardinality(S) PROVE s[i] \in S /\ Rank(R, S, s[i]) = i - 1
  <2>1. i - 1 \in 0..(Cardinality(S) - 1)
    BY <1>1, FS_CardinalityType
  <2>2. PICK x \in S : Rank(R, S, x) = i - 1
    BY <1>1, <1>4, <2>1, RankTaken
  <2>3. Cardinality({y \in S : QueueBefore(y, x)}) = i - 1
    BY <1>5, <2>2 DEF Rank
  <2>4. s[i] = CHOOSE z \in S : Cardinality({y \in S : QueueBefore(y, z)}) = i - 1
    BY DEF Arranged
  <2>5. s[i] \in S /\ Cardinality({y \in S : QueueBefore(y, s[i])}) = i - 1
    BY <2>3, <2>4
  <2> QED BY <1>5, <2>5 DEF Rank
<1>7. s \in [1..Cardinality(S) -> S]
  BY <1>6 DEF Arranged
<1> HIDE DEF s
<1>8. Sorts(s, R, S)
  BY <1>1, <1>4, <1>6, <1>7, RankedIsSorted
<1> QED BY <1>1, <1>4, <1>8 DEF R, s

Numbers(S) == IsFiniteSet(S) /\ S \subseteq Nat

LEMMA LevelsSorted ==
    ASSUME NEW S, Numbers(S), NEW t
    PROVE  LET s == Arranged(S, LAMBDA p, q : Nearer(t, p, q))
           IN  Sorts(s, LevelOrder(S, t), S)
<1> DEFINE R == LevelOrder(S, t)
           s == Arranged(S, LAMBDA p, q : Nearer(t, p, q))
<1>1. IsFiniteSet(S)
  BY DEF Numbers
<1>3. \A x, y \in S : <<x, y>> \in R <=> Nearer(t, x, y)
  BY DEF LevelOrder
<1> HIDE DEF R
<1>4. Orders(R, S)
  BY <1>3 DEF Orders, Nearer, Numbers
<1>5. \A x \in S : {y \in S : Nearer(t, y, x)} = Below(R, S, x)
  BY <1>3 DEF Below
<1>6. ASSUME NEW i \in 1..Cardinality(S) PROVE s[i] \in S /\ Rank(R, S, s[i]) = i - 1
  <2>1. PICK k \in 0..(Cardinality(S) - 1) : k = i - 1
    BY <1>1, FS_CardinalityType
  <2>2. PICK x \in S : Rank(R, S, x) = k
    BY <1>1, <1>4, RankTaken
  <2>3. Cardinality({y \in S : Nearer(t, y, x)}) = i - 1
    BY <1>5, <2>1, <2>2 DEF Rank
  <2>4. s[i] = CHOOSE z \in S : Cardinality({y \in S : Nearer(t, y, z)}) = i - 1
    BY DEF Arranged
  <2>5. s[i] \in S /\ Cardinality({y \in S : Nearer(t, y, s[i])}) = i - 1
    BY <2>3, <2>4
  <2> QED BY <1>5, <2>5 DEF Rank
<1>7. s \in [1..Cardinality(S) -> S]
  BY <1>6 DEF Arranged
<1> HIDE DEF s
<1>8. Sorts(s, R, S)
  BY <1>1, <1>4, <1>6, <1>7, RankedIsSorted
<1> QED BY <1>8 DEF R, s

(* Fills that name a maker once are ordered by price and maker.            *)
Fillable(F) ==
    /\ IsFiniteSet(F)
    /\ \A f \in F : f.maker \in Nat /\ f.price \in Nat
    /\ \A f, g \in F : f.maker = g.maker => f = g

LEMMA FillsSorted ==
    ASSUME NEW S, Fillable(S), NEW side
    PROVE  /\ Orders(SettleOrder(S, side), S)
           /\ Sorts(InPriority(S, side), SettleOrder(S, side), S)
<1> DEFINE R == SettleOrder(S, side)
           s == InPriority(S, side)
<1>1. IsFiniteSet(S)
  BY DEF Fillable
<1>2. \A x, y \in S : SettledBefore(x, y, side) <=>
          \/ IF side = "sell" THEN x.price < y.price ELSE x.price > y.price
          \/ x.price = y.price /\ x.maker < y.maker
  BY DEF SettledBefore, Before, BetterPrice
<1>3. \A x, y \in S : <<x, y>> \in R <=> SettledBefore(x, y, side)
  BY DEF SettleOrder
<1> HIDE DEF R
<1>4. Orders(R, S)
  BY <1>2, <1>3 DEF Orders, Fillable
<1>5. \A x \in S : {y \in S : SettledBefore(y, x, side)} = Below(R, S, x)
  BY <1>3 DEF Below
<1>6. ASSUME NEW i \in 1..Cardinality(S) PROVE s[i] \in S /\ Rank(R, S, s[i]) = i - 1
  <2>1. PICK k \in 0..(Cardinality(S) - 1) : k = i - 1
    BY <1>1, FS_CardinalityType
  <2>2. PICK x \in S : Rank(R, S, x) = k
    BY <1>1, <1>4, RankTaken
  <2>3. Cardinality({y \in S : SettledBefore(y, x, side)}) = i - 1
    BY <1>5, <2>1, <2>2 DEF Rank
  <2>4. s[i] = CHOOSE z \in S : Cardinality({y \in S : SettledBefore(y, z, side)}) = i - 1
    BY DEF InPriority, Arranged
  <2>5. s[i] \in S /\ Cardinality({y \in S : SettledBefore(y, s[i], side)}) = i - 1
    BY <2>3, <2>4
  <2> QED BY <1>5, <2>5 DEF Rank
<1>7. s \in [1..Cardinality(S) -> S]
  BY <1>6 DEF InPriority, Arranged
<1> HIDE DEF s
<1>8. Sorts(s, R, S)
  BY <1>1, <1>4, <1>6, <1>7, RankedIsSorted
<1> QED BY <1>4, <1>8 DEF R, s

(***************************************************************************)
(* What a set of entries has.                                              *)
(***************************************************************************)
Countable(S) == IsFiniteSet(S) /\ \A e \in S : e.remaining \in Nat

LEMMA QuantityIsNat == ASSUME NEW S, Countable(S) PROVE Quantity(S) \in Nat
<1>1. \A e \in S : [x \in S |-> x.remaining][e] \in Nat
  BY DEF Countable
<1> QED BY <1>1, SumNat DEF Quantity, Countable

LEMMA QuantityOfNone == Quantity({}) = 0
BY SumEmpty DEF Quantity

LEMMA QuantityAdds ==
    ASSUME NEW S, Countable(S), NEW e, e \notin S, e.remaining \in Nat
    PROVE  Quantity(S \cup {e}) = Quantity(S) + e.remaining /\ Countable(S \cup {e})
<1> DEFINE f == [x \in S \cup {e} |-> x.remaining]
           h == [x \in S |-> x.remaining]
<1>1. IsFiniteSet(S) /\ \A x \in S \cup {e} : f[x] \in Int
  BY DEF Countable
<1>2. f[e] = e.remaining /\ \A x \in S : f[x] = h[x]
  OBVIOUS
<1> HIDE DEF f, h
<1>3. SumFunctionOnSet(f, S \cup {e}) = f[e] + SumFunctionOnSet(f, S)
  BY <1>1, SumAdd
<1>4. SumFunctionOnSet(f, S) = SumFunctionOnSet(h, S)
  BY <1>1, <1>2, SumEqual
<1>5. Quantity(S) \in Nat
  BY QuantityIsNat
<1>6. Quantity(S \cup {e}) = Quantity(S) + e.remaining
  BY <1>2, <1>3, <1>4, <1>5 DEF Quantity, f, h
<1>7. Countable(S \cup {e})
  BY FS_AddElement DEF Countable
<1> QED BY <1>6, <1>7

LEMMA QuantityOfBoth ==
    ASSUME NEW S, NEW T, Countable(S \cup T), S \cap T = {}
    PROVE  /\ Quantity(S \cup T) = Quantity(S) + Quantity(T)
           /\ Countable(S) /\ Countable(T)
<1> DEFINE U == S \cup T
           f == [x \in U |-> x.remaining]
           fs == [x \in U |-> IF x \in S THEN x.remaining ELSE 0]
           ft == [x \in U |-> IF x \in T THEN x.remaining ELSE 0]
           hs == [x \in S |-> x.remaining]
           ht == [x \in T |-> x.remaining]
<1>1. IsFiniteSet(U) /\ S \subseteq U /\ T \subseteq U
  BY DEF Countable
<1>2. Countable(S) /\ Countable(T)
  BY <1>1, FS_Subset DEF Countable
<1>3. /\ \A x \in U : fs[x] \in Int /\ ft[x] \in Int
      /\ \A x \in U : f[x] = fs[x] + ft[x]
  BY DEF Countable
<1>4. /\ \A x \in U \ S : fs[x] = 0
      /\ \A x \in U \ T : ft[x] = 0
      /\ \A x \in S : fs[x] = hs[x]
      /\ \A x \in T : ft[x] = ht[x]
  OBVIOUS
<1> HIDE DEF U, f, fs, ft, hs, ht
<1>5. SumFunctionOnSet(f, U) = SumFunctionOnSet(fs, U) + SumFunctionOnSet(ft, U)
  BY <1>1, <1>3, SumPlus
<1>6. SumFunctionOnSet(fs, U) = SumFunctionOnSet(fs, S)
  BY <1>1, <1>3, <1>4, SumRestrict
<1>7. SumFunctionOnSet(ft, U) = SumFunctionOnSet(ft, T)
  BY <1>1, <1>3, <1>4, SumRestrict
<1>8. SumFunctionOnSet(fs, S) = SumFunctionOnSet(hs, S)
  BY <1>2, <1>4, SumEqual DEF Countable
<1>9. SumFunctionOnSet(ft, T) = SumFunctionOnSet(ht, T)
  BY <1>2, <1>4, SumEqual DEF Countable
<1>10. Quantity(S \cup T) = Quantity(S) + Quantity(T)
  BY <1>5, <1>6, <1>7, <1>8, <1>9 DEF Quantity, U, f, hs, ht
<1> QED BY <1>2, <1>10

LEMMA QuantityGrows ==
    ASSUME NEW S, Countable(S), NEW T \in SUBSET S
    PROVE  Quantity(T) <= Quantity(S) /\ Countable(T)
<1>1. S = T \cup (S \ T) /\ T \cap (S \ T) = {}
  OBVIOUS
<1>2. /\ Quantity(S) = Quantity(T) + Quantity(S \ T)
      /\ Countable(T) /\ Countable(S \ T)
  BY <1>1, QuantityOfBoth
<1> QED BY <1>2, QuantityIsNat

(***************************************************************************)
(* The side of a book that an order t walks: the rows that stand there,    *)
(* their prices from the nearest one, and the queue at each.               *)
(***************************************************************************)
Standing(b, t) == {r \in ToSet(b) : r.side = Opposite(t.side)}

Prices(b, t) == {r.price : r \in Standing(b, t)}

At(b, t, p) == {r \in Standing(b, t) : r.price = p}

LevelsIn(b, t) == Arranged(Prices(b, t), LAMBDA p, q : Nearer(t, p, q))

QueueIn(b, t, p) == Arranged(At(b, t, p), QueueBefore)

LEMMA StandingFacts ==
    ASSUME NEW b \in Books, NEW t \in Takers
    PROVE  /\ IsFiniteSet(Standing(b, t)) /\ Countable(Standing(b, t))
           /\ Standing(b, t) \subseteq ToSet(b) /\ Standing(b, t) \subseteq Row
           /\ \A r, q \in Standing(b, t) : r.id = q.id => r = q
           /\ Numbers(Prices(b, t))
<1> DEFINE S == Standing(b, t)
           P == Prices(b, t)
           f == [r \in S |-> r.price]
<1>1. S \subseteq ToSet(b) /\ S \subseteq Row /\ \A r, q \in S : r.id = q.id => r = q
  BY RowFacts DEF Standing
<1>2. IsFiniteSet(S)
  BY <1>1, RowFacts, FS_Subset
<1>3. \A r \in S : r.remaining \in Nat /\ r.price \in Nat
  BY <1>1 DEF Row
<1>4. P = {r.price : r \in S}
  BY DEF Prices
<1>5. P \subseteq Nat
  BY <1>3, <1>4
<1>6. f \in Surjection(S, P)
  BY <1>4 DEF Surjection
<1> HIDE DEF S, P, f
<1>7. IsFiniteSet(P)
  BY <1>2, <1>6, FS_Surjection
<1>8. Countable(S) /\ Numbers(P)
  BY <1>2, <1>3, <1>5, <1>7 DEF Countable, Numbers
<1> QED BY <1>1, <1>2, <1>8 DEF S, P

LEMMA LevelFacts ==
    ASSUME NEW b \in Books, NEW t \in Takers
    PROVE  LET L == LevelsIn(b, t)
           IN  /\ Len(L) \in Nat
               /\ \A i \in 1..Len(L) : L[i] \in Prices(b, t) /\ L[i] \in Nat
               /\ \A r \in Standing(b, t) : \E i \in 1..Len(L) : L[i] = r.price
               /\ \A i, j \in 1..Len(L) : i < j => Nearer(t, L[i], L[j])
<1> DEFINE L == LevelsIn(b, t)
           P == Prices(b, t)
<1>1. Numbers(P)
  BY StandingFacts
<1>2. Sorts(L, LevelOrder(P, t), P)
  BY <1>1, LevelsSorted DEF LevelsIn
<1>3. \A r \in Standing(b, t) : r.price \in P
  BY DEF Prices
<1> HIDE DEF L, P
<1>4. L \in Seq(P) /\ Len(L) \in Nat /\ \A i \in 1..Len(L) : L[i] \in P
  BY <1>2 DEF Sorts
<1>5. \A i \in 1..Len(L) : L[i] \in Nat
  BY <1>1, <1>4 DEF Numbers
<1>6. \A r \in Standing(b, t) : \E i \in 1..Len(L) : L[i] = r.price
  BY <1>2, <1>3 DEF Sorts
<1>7. \A i, j \in 1..Len(L) : i < j => Nearer(t, L[i], L[j])
  BY <1>2 DEF Sorts, LevelOrder
<1> QED BY <1>4, <1>5, <1>6, <1>7 DEF L, P

LEMMA QueueFacts ==
    ASSUME NEW b \in Books, NEW t \in Takers, NEW p
    PROVE  LET q == QueueIn(b, t, p)
           IN  /\ Len(q) \in Nat /\ DOMAIN q = 1..Len(q)
               /\ ToSet(q) = At(b, t, p)
               /\ \A i \in 1..Len(q) : q[i] \in At(b, t, p)
               /\ \A r \in At(b, t, p) : \E i \in 1..Len(q) : q[i] = r
               /\ \A i, j \in 1..Len(q) : i < j => QueueBefore(q[i], q[j]) /\ q[i] # q[j]
<1> DEFINE q == QueueIn(b, t, p)
           A == At(b, t, p)
<1>1. A \in SUBSET ToSet(b)
  BY DEF At, Standing
<1>2. Sorts(q, QueueOrder(A), A) /\ Orders(QueueOrder(A), A)
  BY <1>1, QueueSorted DEF QueueIn
<1> HIDE DEF q, A
<1>3. /\ q \in Seq(A) /\ Len(q) \in Nat /\ DOMAIN q = 1..Len(q)
      /\ \A i \in 1..Len(q) : q[i] \in A
      /\ \A r \in A : \E i \in 1..Len(q) : q[i] = r
  BY <1>2 DEF Sorts
<1>4. ToSet(q) = A
  BY <1>3 DEF ToSet
<1>5. ASSUME NEW i \in 1..Len(q), NEW j \in 1..Len(q), i < j
      PROVE  QueueBefore(q[i], q[j]) /\ q[i] # q[j]
  <2>1. <<q[i], q[j]>> \in QueueOrder(A) /\ q[j] \in A
    BY <1>2, <1>3, <1>5 DEF Sorts
  <2>2. q[i] # q[j]
    BY <1>2, <2>1 DEF Orders
  <2> QED BY <2>1, <2>2 DEF QueueOrder
<1> QED BY <1>3, <1>4, <1>5 DEF q, A

(* What stands at the levels before level l.                               *)
Walked(b, t, l) ==
    {r \in Standing(b, t) : \E j \in 1..(l - 1) : LevelsIn(b, t)[j] = r.price}

(* A level that t crosses has only such levels before it.                  *)
LEMMA CrossingKept ==
    ASSUME NEW t \in Takers, NEW p \in Nat, NEW q \in Nat, Nearer(t, p, q), Crosses(t, q)
    PROVE  Crosses(t, p)
<1>1. t.side \in {"buy", "sell"} /\ t.price \in Nat
  BY LoopAssumption DEF Taker
<1> QED BY <1>1 DEF Nearer, Crosses

LEMMA WalkedGrows ==
    ASSUME NEW b \in Books, NEW t \in Takers, NEW l \in 1..Len(LevelsIn(b, t))
    PROVE  LET A == At(b, t, LevelsIn(b, t)[l])
           IN  /\ Walked(b, t, l + 1) = Walked(b, t, l) \cup A
               /\ Walked(b, t, l) \cap A = {}
               /\ Countable(Walked(b, t, l) \cup A)
<1> DEFINE L == LevelsIn(b, t)
           A == At(b, t, L[l])
           S == Standing(b, t)
<1>1. /\ Len(L) \in Nat
      /\ \A i \in 1..Len(L) : L[i] \in Nat
      /\ \A i, j \in 1..Len(L) : i < j => Nearer(t, L[i], L[j])
  BY LevelFacts
<1>2. /\ Walked(b, t, l) = {r \in S : \E j \in 1..(l - 1) : L[j] = r.price}
      /\ Walked(b, t, l + 1) = {r \in S : \E j \in 1..((l + 1) - 1) : L[j] = r.price}
      /\ A = {r \in S : r.price = L[l]}
  BY DEF Walked, At
<1>0. l \in 1..Len(L)
  OBVIOUS
<1> HIDE DEF L, A, S
<1>3. l \in Nat /\ 1..((l + 1) - 1) = 1..(l - 1) \cup {l}
  BY <1>0, <1>1
<1>4. Walked(b, t, l + 1) = Walked(b, t, l) \cup A
  BY <1>2, <1>3
<1>5. ASSUME NEW r \in Walked(b, t, l) \cap A PROVE FALSE
  <2>1. PICK j \in 1..(l - 1) : L[j] = r.price
    BY <1>2
  <2>2. L[j] = L[l] /\ j \in 1..Len(L) /\ j < l
    BY <1>0, <1>1, <1>2, <2>1
  <2>3. L[j] \in Nat /\ Nearer(t, L[j], L[l])
    BY <1>0, <1>1, <2>2
  <2> QED BY <2>2, <2>3 DEF Nearer
<1>6. Walked(b, t, l) \cup A \in SUBSET S
  BY <1>2
<1>7. Countable(Walked(b, t, l) \cup A)
  BY <1>6, StandingFacts, QuantityGrows DEF S
<1> QED BY <1>4, <1>5, <1>7 DEF L, A

(* Where the walk ends, all that crosses has been walked.                  *)
LEMMA CrossingWalked ==
    ASSUME NEW b \in Books, NEW t \in Takers, NEW l \in 1..(Len(LevelsIn(b, t)) + 1),
           \A j \in 1..(l - 1) : Crosses(t, LevelsIn(b, t)[j]),
           ~(l <= Len(LevelsIn(b, t)) /\ Crosses(t, LevelsIn(b, t)[l]))
    PROVE  Crossing(ToSet(b), t) = Walked(b, t, l)
<1> DEFINE L == LevelsIn(b, t)
<1>1. /\ Len(L) \in Nat
      /\ \A i \in 1..Len(L) : L[i] \in Nat
      /\ \A r \in Standing(b, t) : \E i \in 1..Len(L) : L[i] = r.price
      /\ \A i, j \in 1..Len(L) : i < j => Nearer(t, L[i], L[j])
  BY LevelFacts
<1>2. /\ Walked(b, t, l) = {r \in Standing(b, t) : \E j \in 1..(l - 1) : L[j] = r.price}
      /\ Crossing(ToSet(b), t) = {r \in Standing(b, t) : Crosses(t, r.price)}
  BY DEF Walked, Crossing, Standing
<1>3. /\ l \in 1..(Len(L) + 1)
      /\ \A j \in 1..(l - 1) : Crosses(t, L[j])
      /\ ~(l <= Len(L) /\ Crosses(t, L[l]))
  OBVIOUS
<1> HIDE DEF L
<1>4. \A r \in Walked(b, t, l) : r \in Crossing(ToSet(b), t)
  BY <1>2, <1>3
<1>5. ASSUME NEW r \in Standing(b, t), Crosses(t, r.price)
      PROVE  \E j \in 1..(l - 1) : L[j] = r.price
  <2>1. PICK j \in 1..Len(L) : L[j] = r.price
    BY <1>1
  <2>2. SUFFICES ASSUME ~(j < l) PROVE FALSE
    BY <1>1, <1>3, <2>1
  <2>3. l \in 1..Len(L) /\ L[l] \in Nat /\ L[j] \in Nat /\ ~Crosses(t, L[l])
    BY <1>1, <1>3, <2>2
  <2>4. Crosses(t, L[j])
    BY <1>5, <2>1
  <2>5. j = l \/ l < j
    BY <1>1, <2>2, <2>3
  <2>6. CASE l < j
    BY <1>1, <2>3, <2>4, <2>6, CrossingKept
  <2> QED BY <2>3, <2>4, <2>5, <2>6
<1> QED BY <1>2, <1>4, <1>5

(***************************************************************************)
(* The book while it is built: each queue sorts the rows that have been    *)
(* inserted in it.                                                         *)
(***************************************************************************)
AtKey(S, k) == {r \in S : r.side = k[1] /\ r.price = k[2]}

QueuesOf(b, S) ==
    [k \in {"buy", "sell"} \X {r.price : r \in ToSet(b)} |->
        Arranged(AtKey(S, k), QueueBefore)]

Phases == {"build", "volume", "fills", "done", "thrown"}

Reading ==
    /\ rows \in Books /\ taker \in Takers /\ phase \in Phases
    /\ unread \in Seq(Row)
    /\ phase # "build" => unread = << >>
    /\ \E S \in SUBSET ToSet(rows) :
          S \cup ToSet(unread) = ToSet(rows) /\ queues = QueuesOf(rows, S)

LEMMA QueueOfNone == Arranged({}, QueueBefore) = << >>
<1>1. Cardinality({}) = 0 /\ 1..0 = {}
  BY FS_EmptySet
<1> DEFINE q == [i \in 1..Cardinality({}) |->
                   CHOOSE x \in {} : Cardinality({y \in {} : QueueBefore(y, x)}) = i - 1]
<1>2. q = << >>
  BY <1>1
<1> QED BY <1>2 DEF Arranged

LEMMA QueueHolds ==
    ASSUME NEW b \in Books, NEW S \in SUBSET ToSet(b)
    PROVE  ToSet(Arranged(S, QueueBefore)) = S
<1> DEFINE q == Arranged(S, QueueBefore)
<1>1. Sorts(q, QueueOrder(S), S)
  BY QueueSorted
<1> HIDE DEF q
<1>2. /\ q \in Seq(S) /\ DOMAIN q = 1..Len(q)
      /\ \A i \in 1..Len(q) : q[i] \in S
      /\ \A r \in S : \E i \in 1..Len(q) : q[i] = r
  BY <1>1 DEF Sorts
<1>3. ToSet(q) = S
  BY <1>2 DEF ToSet
<1> QED BY <1>3 DEF q

LEMMA ReadingStarts == Init => Reading
<1> SUFFICES ASSUME Init PROVE Reading
  OBVIOUS
<1>1. rows \in Books /\ taker \in Takers /\ phase \in Phases /\ unread = rows
  BY DEF Init, Phases
<1>2. unread \in Seq(Row)
  BY <1>1, RowFacts
<1>3. \A k : AtKey({}, k) = {}
  BY DEF AtKey
<1>4. queues = QueuesOf(rows, {})
  BY <1>3, QueueOfNone DEF Init, QueuesOf
<1>5. {} \cup ToSet(unread) = ToSet(rows)
  BY <1>1
<1>6. phase = "build"
  BY DEF Init
<1> QED BY <1>1, <1>2, <1>4, <1>5, <1>6 DEF Reading

LEMMA ReadingKept == Reading /\ [Next]_vars => Reading'
<1> SUFFICES ASSUME Reading, [Next]_vars PROVE Reading'
  OBVIOUS
<1>1. ASSUME Insert PROVE Reading'
  <2>1. PICK S \in SUBSET ToSet(rows) :
           S \cup ToSet(unread) = ToSet(rows) /\ queues = QueuesOf(rows, S)
    BY DEF Reading
  <2>2. PICK row : row = Head(unread)
    OBVIOUS
  <2>3. unread \in Seq(Row) /\ unread # << >> /\ rows \in Books
    BY <1>1 DEF Insert, Reading
  <2>4. /\ Tail(unread) \in Seq(Row)
        /\ ToSet(unread) = ToSet(Tail(unread)) \cup {row}
    <3>1. /\ Len(unread) \in Nat /\ Len(unread) >= 1 /\ DOMAIN unread = 1..Len(unread)
          /\ Tail(unread) \in Seq(Row) /\ Len(Tail(unread)) = Len(unread) - 1
          /\ DOMAIN Tail(unread) = 1..(Len(unread) - 1)
          /\ \A i \in 1..(Len(unread) - 1) : Tail(unread)[i] = unread[i + 1]
          /\ row = unread[1]
      BY <2>2, <2>3
    <3>2. \A i \in 1..Len(unread) : i = 1 \/ (i - 1 \in 1..(Len(unread) - 1) /\ (i - 1) + 1 = i)
      BY <3>1
    <3>3. \A i \in 1..(Len(unread) - 1) : i + 1 \in 1..Len(unread)
      BY <3>1
    <3>4. 1 \in 1..Len(unread)
      BY <3>1
    <3>5. ToSet(unread) \subseteq ToSet(Tail(unread)) \cup {row}
      <4> SUFFICES ASSUME NEW i \in 1..Len(unread)
                   PROVE  unread[i] \in ToSet(Tail(unread)) \cup {row}
        BY <3>1 DEF ToSet
      <4>1. CASE i # 1
        <5>1. Tail(unread)[i - 1] = unread[i] /\ i - 1 \in DOMAIN Tail(unread)
          BY <3>1, <3>2, <4>1
        <5> QED BY <5>1 DEF ToSet
      <4> QED BY <3>1, <4>1
    <3>6. \A i \in 1..(Len(unread) - 1) : Tail(unread)[i] \in ToSet(unread)
      BY <3>1, <3>3 DEF ToSet
    <3>7. ToSet(Tail(unread)) \subseteq ToSet(unread)
      BY <3>1, <3>6 DEF ToSet
    <3>8. row \in ToSet(unread)
      BY <3>1, <3>4 DEF ToSet
    <3> QED BY <3>1, <3>5, <3>7, <3>8
  <2> DEFINE T == S \cup {row}
             k0 == <<row.side, row.price>>
             K == {"buy", "sell"} \X {r.price : r \in ToSet(rows)}
  <2>5. T \in SUBSET ToSet(rows) /\ T \cup ToSet(Tail(unread)) = ToSet(rows)
    BY <2>1, <2>4
  <2>6. k0 \in K
    <3>1. row \in ToSet(rows) /\ row \in Row
      BY <2>3, <2>5, RowFacts
    <3> QED BY <3>1 DEF Row
  <2>7. queues[k0] = Arranged(AtKey(S, k0), QueueBefore)
    BY <2>1, <2>6 DEF QueuesOf
  <2>8. AtKey(S, k0) \in SUBSET ToSet(rows)
    BY DEF AtKey
  <2>9. ToSet(queues[k0]) = AtKey(S, k0)
    BY <2>3, <2>7, <2>8, QueueHolds
  <2>10. AtKey(T, k0) = AtKey(S, k0) \cup {row}
    BY DEF AtKey
  <2>11. ASSUME NEW k \in K, k # k0 PROVE AtKey(T, k) = AtKey(S, k)
    BY <2>11 DEF AtKey
  <2>12. queues' = [queues EXCEPT ![k0] = Arranged(ToSet(queues[k0]) \cup {row}, QueueBefore)]
    BY <1>1, <2>2 DEF Insert
  <2>13. queues' = [queues EXCEPT ![k0] = Arranged(AtKey(T, k0), QueueBefore)]
    BY <2>9, <2>10, <2>12
  <2> HIDE DEF T, k0
  <2>14. queues' = QueuesOf(rows, T)
    <3>1. queues = [k \in K |-> Arranged(AtKey(S, k), QueueBefore)]
      BY <2>1 DEF QueuesOf
    <3>2. queues' = [k \in K |-> IF k = k0 THEN Arranged(AtKey(T, k0), QueueBefore)
                                           ELSE queues[k]]
      BY <2>13, <3>1
    <3>3. \A k \in K : queues'[k] = Arranged(AtKey(T, k), QueueBefore)
      BY <2>11, <3>1, <3>2
    <3>4. queues' = [k \in K |-> queues'[k]]
      BY <3>2
    <3> HIDE DEF K
    <3>5. queues' = [k \in K |-> Arranged(AtKey(T, k), QueueBefore)]
      BY <3>3, <3>4
    <3> QED BY <3>5 DEF K, QueuesOf
  <2>15. /\ rows' = rows /\ taker' = taker /\ phase' = phase /\ phase = "build"
         /\ unread' = Tail(unread)
    BY <1>1 DEF Insert
  <2>16. \E V \in SUBSET ToSet(rows) :
           V \cup ToSet(Tail(unread)) = ToSet(rows) /\ queues' = QueuesOf(rows, V)
    BY <2>5, <2>14
  <2>17. rows \in Books /\ taker \in Takers /\ phase \in Phases
    BY DEF Reading
  <2> QED BY <2>4, <2>15, <2>16, <2>17 DEF Reading
<1>2. CASE UNCHANGED <<rows, taker, unread, queues>> /\ phase' \in Phases
           /\ (phase' = "build" \/ unread = << >>)
  BY <1>2 DEF Reading
<1>3. \/ Insert
      \/ /\ UNCHANGED <<rows, taker, unread, queues>> /\ phase' \in Phases
         /\ (phase' = "build" \/ unread = << >>)
  BY DEF Next, vars, Built, CountLevel, Counted, NextLevel, PassMaker, Fill, Stop,
         Walking, Reading, Phases
<1> QED BY <1>1, <1>2, <1>3

LEMMA BuiltBook ==
    ASSUME Reading, phase # "build"
    PROVE  /\ Levels = LevelsIn(rows, taker)
           /\ \A p \in Prices(rows, taker) :
                 queues[<<Opposite(taker.side), p>>] = QueueIn(rows, taker, p)
<1> DEFINE o == Opposite(taker.side)
           B == ToSet(rows)
           K == {"buy", "sell"} \X {r.price : r \in B}
<1>1. rows \in Books /\ taker \in Takers /\ queues = QueuesOf(rows, B)
  <2>1. PICK S \in SUBSET B : S \cup ToSet(unread) = B /\ queues = QueuesOf(rows, S)
    BY DEF Reading
  <2>2. ToSet(unread) = {}
    BY DEF Reading, ToSet
  <2>3. S = B
    BY <2>1, <2>2
  <2> QED BY <2>1, <2>3 DEF Reading
<1>2. o \in {"buy", "sell"}
  BY <1>1, LoopAssumption DEF Taker, Opposite
<1>3. DOMAIN queues = K /\ \A k \in K : queues[k] = Arranged(AtKey(B, k), QueueBefore)
  BY <1>1 DEF QueuesOf
<1>4. \A p : AtKey(B, <<o, p>>) = At(rows, taker, p)
  BY DEF AtKey, At, Standing
<1>5. \A p \in {r.price : r \in B} : <<o, p>> \in K
  BY <1>2
<1>6. \A p \in {r.price : r \in B} : queues[<<o, p>>] = QueueIn(rows, taker, p)
  BY <1>3, <1>4, <1>5 DEF QueueIn
<1>7. Prices(rows, taker) \subseteq {r.price : r \in B}
  BY DEF Prices, Standing
<1>8. \A p \in {r.price : r \in B} : QueueIn(rows, taker, p) # << >> <=> p \in Prices(rows, taker)
  <2> TAKE p \in {r.price : r \in B}
  <2> DEFINE q == QueueIn(rows, taker, p)
             A == At(rows, taker, p)
  <2>1. ToSet(q) = A
    BY <1>1, QueueFacts
  <2>2. Len(q) \in Nat /\ DOMAIN q = 1..Len(q) /\ \A i \in 1..Len(q) : q[i] \in A
    BY <1>1, QueueFacts
  <2>3. q = << >> => A = {}
    BY <2>1 DEF ToSet
  <2>4. A = {} => q = << >>
    BY QueueOfNone DEF QueueIn
  <2>5. A # {} <=> p \in Prices(rows, taker)
    BY DEF At, Prices
  <2> QED BY <2>3, <2>4, <2>5
<1>9. MakerPrices = Prices(rows, taker)
  <2>1. MakerPrices = {k[2] : k \in {m \in K : m[1] = o /\ queues[m] # << >>}}
    BY <1>3 DEF MakerPrices
  <2>2. \A m \in K : m[1] = o => m = <<o, m[2]>> /\ m[2] \in {r.price : r \in B}
    OBVIOUS
  <2>3. \A m \in {m \in K : m[1] = o /\ queues[m] # << >>} : m[2] \in Prices(rows, taker)
    BY <1>6, <1>8, <2>2
  <2>4. \A p \in Prices(rows, taker) :
           <<o, p>> \in {m \in K : m[1] = o /\ queues[m] # << >>} /\ <<o, p>>[2] = p
    BY <1>5, <1>6, <1>7, <1>8
  <2> HIDE DEF K, o
  <2>5. MakerPrices \subseteq Prices(rows, taker)
    BY <2>1, <2>3
  <2>6. Prices(rows, taker) \subseteq MakerPrices
    BY <2>1, <2>4
  <2> QED BY <2>5, <2>6
<1>10. Levels = LevelsIn(rows, taker)
  BY <1>9 DEF Levels, LevelsIn, Arranged, PriceBefore, Nearer
<1> QED BY <1>6, <1>7, <1>10

(***************************************************************************)
(* The volume.                                                             *)
(***************************************************************************)
CountedTo(b, t, l, v) ==
    /\ l \in 1..(Len(LevelsIn(b, t)) + 1)
    /\ \A j \in 1..(l - 1) : Crosses(t, LevelsIn(b, t)[j])
    /\ v = Quantity(Walked(b, t, l))

Counting ==
    /\ phase = "build" => level = 1 /\ volume = 0
    /\ phase = "volume" => CountedTo(rows, taker, level, volume)
    /\ LoopCountsVolume

(* The loop counts a whole level that crosses.                             *)
LEMMA LevelCounted ==
    ASSUME NEW b \in Books, NEW t \in Takers, NEW l, NEW v, CountedTo(b, t, l, v),
           l <= Len(LevelsIn(b, t)), Crosses(t, LevelsIn(b, t)[l]),
           NEW w, w = v + Quantity(ToSet(QueueIn(b, t, LevelsIn(b, t)[l])))
    PROVE  CountedTo(b, t, l + 1, w)
<1> DEFINE L == LevelsIn(b, t)
           A == At(b, t, L[l])
<1>1. Len(L) \in Nat
  BY LevelFacts
<1>2. /\ l \in 1..(Len(L) + 1) /\ l <= Len(L) /\ Crosses(t, L[l])
      /\ \A j \in 1..(l - 1) : Crosses(t, L[j])
      /\ v = Quantity(Walked(b, t, l))
  BY DEF CountedTo
<1>3. w = v + Quantity(A)
  BY QueueFacts
<1> HIDE DEF L
<1>4. l \in 1..Len(L) /\ l + 1 \in 1..(Len(L) + 1)
  BY <1>1, <1>2
<1>5. /\ Walked(b, t, l + 1) = Walked(b, t, l) \cup A
      /\ Walked(b, t, l) \cap A = {}
      /\ Countable(Walked(b, t, l) \cup A)
  BY <1>4, WalkedGrows DEF L
<1>6. Quantity(Walked(b, t, l + 1)) = v + Quantity(A)
  <2> HIDE DEF A
  <2> QED BY <1>2, <1>5, QuantityOfBoth
<1>7. \A j \in 1..((l + 1) - 1) : j = l \/ j \in 1..(l - 1)
  BY <1>1, <1>4
<1>8. \A j \in 1..((l + 1) - 1) : Crosses(t, L[j])
  BY <1>2, <1>7
<1> QED BY <1>3, <1>4, <1>6, <1>8 DEF CountedTo, L

LEMMA CountingStarts == Init => Counting
BY DEF Init, Counting, LoopCountsVolume

LEMMA CountingKept == Reading /\ Reading' /\ Counting /\ [Next]_vars => Counting'
<1> SUFFICES ASSUME Reading, Reading', Counting, [Next]_vars PROVE Counting'
  OBVIOUS
<1>0. rows \in Books /\ taker \in Takers
  BY DEF Reading
<1>1. ASSUME Insert PROVE Counting'
  BY <1>1 DEF Insert, Counting, LoopCountsVolume
<1>2. ASSUME Built PROVE Counting'
  <2>1. /\ rows' = rows /\ taker' = taker /\ level' = 1 /\ volume' = 0 /\ phase' = "volume"
    BY <1>2 DEF Built, Counting
  <2>2. Len(LevelsIn(rows, taker)) \in Nat
    BY <1>0, LevelFacts
  <2>3. Walked(rows, taker, 1) = {}
    BY DEF Walked
  <2>4. CountedTo(rows, taker, 1, 0)
    BY <2>2, <2>3, QuantityOfNone DEF CountedTo
  <2> QED BY <2>1, <2>4 DEF Counting, LoopCountsVolume
<1>3. ASSUME CountLevel PROVE Counting'
  <2>1. /\ phase = "volume" /\ AtLevel
        /\ rows' = rows /\ taker' = taker /\ level' = level + 1 /\ phase' = "volume"
        /\ volume' = volume + Quantity(ToSet(Queue))
    BY <1>3 DEF CountLevel
  <2>2. /\ Levels = LevelsIn(rows, taker)
        /\ \A p \in Prices(rows, taker) :
              queues[<<Opposite(taker.side), p>>] = QueueIn(rows, taker, p)
    BY <2>1, BuiltBook
  <2>3. CountedTo(rows, taker, level, volume)
    BY <2>1 DEF Counting
  <2>4. level <= Len(LevelsIn(rows, taker)) /\ Crosses(taker, LevelsIn(rows, taker)[level])
    BY <2>1, <2>2 DEF AtLevel
  <2>5. LevelsIn(rows, taker)[level] \in Prices(rows, taker)
    <3>1. level \in 1..(Len(LevelsIn(rows, taker)) + 1)
      BY <2>3 DEF CountedTo
    <3>2. Len(LevelsIn(rows, taker)) \in Nat
      BY <1>0, LevelFacts
    <3>3. level \in 1..Len(LevelsIn(rows, taker))
      BY <3>1, <3>2, <2>4
    <3> QED BY <1>0, <3>3, LevelFacts
  <2>6. Queue = QueueIn(rows, taker, LevelsIn(rows, taker)[level])
    BY <2>2, <2>5 DEF Queue
  <2>7. CountedTo(rows, taker, level + 1, volume')
    BY <1>0, <2>1, <2>3, <2>4, <2>6, LevelCounted
  <2> QED BY <2>1, <2>7 DEF Counting, LoopCountsVolume
<1>4. ASSUME Counted PROVE Counting'
  <2>1. /\ phase = "volume" /\ ~AtLevel /\ rows' = rows /\ taker' = taker
        /\ phase' = "fills" /\ volume' = volume
    BY <1>4 DEF Counted
  <2>2. CountedTo(rows, taker, level, volume)
    BY <2>1 DEF Counting
  <2>3. ~(level <= Len(LevelsIn(rows, taker)) /\ Crosses(taker, LevelsIn(rows, taker)[level]))
    BY <2>1, BuiltBook DEF AtLevel
  <2>4. Crossing(ToSet(rows), taker) = Walked(rows, taker, level)
    BY <1>0, <2>2, <2>3, CrossingWalked DEF CountedTo
  <2>5. volume = FOKVolume(Book, taker)
    BY <2>2, <2>4 DEF CountedTo, FOKVolume, Book
  <2>6. (FOKVolume(Book, taker))' = FOKVolume(Book, taker)
    BY <2>1 DEF Book
  <2> QED BY <2>1, <2>5, <2>6 DEF Counting, LoopCountsVolume
<1>5. CASE /\ UNCHANGED <<rows, taker, volume, phase, level>>
  <2>1. (FOKVolume(Book, taker))' = FOKVolume(Book, taker)
    BY <1>5 DEF Book
  <2> QED BY <1>5, <2>1 DEF Counting, LoopCountsVolume
<1>6. CASE /\ phase \in {"fills", "done", "thrown"} /\ phase' \in {"fills", "done", "thrown"}
           /\ UNCHANGED <<rows, taker, volume>>
  <2>1. (FOKVolume(Book, taker))' = FOKVolume(Book, taker)
    BY <1>6 DEF Book
  <2> QED BY <1>6, <2>1 DEF Counting, LoopCountsVolume
<1>7. NextLevel \/ PassMaker \/ Fill \/ Stop =>
        /\ phase \in {"fills", "done", "thrown"} /\ phase' \in {"fills", "done", "thrown"}
        /\ UNCHANGED <<rows, taker, volume>>
  BY DEF NextLevel, PassMaker, Fill, Stop, Walking
<1> QED BY <1>1, <1>2, <1>3, <1>4, <1>5, <1>6, <1>7 DEF Next, vars

(* The early break of getFOKVolume loses no volume that crosses, whatever  *)
(* the book and the order.                                                 *)
THEOREM VolumeIsWhole == Spec => []LoopCountsVolume
<1>1. Reading /\ Counting /\ [Next]_vars => Reading' /\ Counting'
  BY ReadingKept, CountingKept
<1>2. Counting => LoopCountsVolume
  BY DEF Counting
<1> QED BY <1>1, <1>2, ReadingStarts, CountingStarts, PTL DEF Spec

(***************************************************************************)
(* The fills.  OrderBook lets an id stand for the place of its order in    *)
(* the queues, so what follows is about books whose ids do.  It is a way   *)
(* to name orders: QueueBefore is a strict order of the rows, and numbers  *)
(* handed out along it in the place of the ids leave it as it is.          *)
(***************************************************************************)
IdsArePriority ==
    \A b \in Books : \A r, q \in ToSet(b) : QueueBefore(r, q) => r.id < q.id

LEMMA TsGrows ==
    ASSUME NEW r \in Row, NEW q \in Row, r.created <= q.created PROVE Ts(r) <= Ts(q)
<1>1. PICK m \in Nat \ {0}, x \in Nat, y \in Nat :
         m = Millisecond /\ x = r.created /\ y = q.created
  BY LoopAssumption DEF Row
<1>2. PICK a \in Int, c \in Int : a = x \div m /\ c = y \div m
  BY <1>1, SMT
<1>3. m * a <= x /\ x < m * a + m /\ m * c <= y /\ y < m * c + m
  BY <1>1, <1>2, SMT
<1>4. a <= c
  <2>1. SUFFICES ASSUME c + 1 <= a PROVE FALSE
    BY <1>2
  <2>2. m * (c + 1) <= m * a
    BY <1>1, <1>2, <2>1, SMT
  <2>3. m * (c + 1) = m * c + m
    BY <1>1, <1>2, SMT
  <2>4. PICK u \in Int, v \in Int : u = m * a /\ v = m * c
    BY <1>1, <1>2, SMT
  <2> QED BY <1>1, <1>3, <2>2, <2>3, <2>4
<1> QED BY <1>1, <1>2, <1>4 DEF Ts

(* Ids handed out in the order of admission are such names.                *)
LEMMA AdmissionOrder ==
    ASSUME \A b \in Books : \A i, j \in DOMAIN b : i < j => b[i].id < b[j].id
    PROVE  IdsArePriority
<1> SUFFICES ASSUME NEW b \in Books, NEW r \in ToSet(b), NEW q \in ToSet(b),
                    QueueBefore(r, q)
             PROVE  r.id < q.id
  BY DEF IdsArePriority
<1>1. PICK i \in DOMAIN b, j \in DOMAIN b : r = b[i] /\ q = b[j]
  BY DEF ToSet
<1>2. b \in Seq(Row) /\ r \in Row /\ q \in Row
  BY RowFacts
<1>3. i \in Int /\ j \in Int
  BY <1>1, <1>2
<1>4. Ts(r) \in Int /\ Ts(q) \in Int /\ r.id \in Nat /\ q.id \in Nat
      /\ r.created \in Nat /\ q.created \in Nat
  BY <1>2, TsIsInt DEF Row
<1>5. CASE i < j
  BY <1>1, <1>5
<1>6. CASE j < i
  <2>1. q.id < r.id
    BY <1>1, <1>6
  <2>2. q.created <= r.created
    <3>1. b[j].created < b[i].created \/ b[j].created = b[i].created
      BY <1>6, LoopAssumption
    <3> QED BY <1>1, <1>4, <3>1
  <2>3. Ts(q) <= Ts(r)
    BY <1>2, <2>2, TsGrows
  <2> QED BY <1>4, <2>1, <2>3 DEF QueueBefore
<1>7. CASE i = j
  BY <1>1, <1>4, <1>7 DEF QueueBefore
<1> QED BY <1>3, <1>5, <1>6, <1>7

(* What the walk has passed when it is at place n of level l.              *)
Reached(b, t, l, n) ==
    Walked(b, t, l) \cup
        {r \in Standing(b, t) :
            /\ l <= Len(LevelsIn(b, t))
            /\ \E i \in 1..(n - 1) : QueueIn(b, t, LevelsIn(b, t)[l])[i] = r}

(* A place of the walk.                                                    *)
PlaceIn(b, t, l, n) ==
    /\ l \in 1..(Len(LevelsIn(b, t)) + 1)
    /\ n \in Nat \ {0}
    /\ n > 1 => /\ l <= Len(LevelsIn(b, t))
                /\ n <= Len(QueueIn(b, t, LevelsIn(b, t)[l])) + 1

(* A maker stands there.                                                   *)
MakerAt(b, t, l, n, c) ==
    /\ PlaceIn(b, t, l, n)
    /\ l <= Len(LevelsIn(b, t))
    /\ n <= Len(QueueIn(b, t, LevelsIn(b, t)[l]))
    /\ c = QueueIn(b, t, LevelsIn(b, t)[l])[n]

LEMMA ReachedNext ==
    ASSUME NEW b \in Books, NEW t \in Takers, NEW l, NEW n, NEW c, MakerAt(b, t, l, n, c)
    PROVE  /\ PlaceIn(b, t, l, n + 1)
           /\ c \in Standing(b, t) /\ c.price = LevelsIn(b, t)[l]
           /\ c \notin Reached(b, t, l, n)
           /\ Reached(b, t, l, n + 1) = Reached(b, t, l, n) \cup {c}
<1> DEFINE L == LevelsIn(b, t)
           A == At(b, t, L[l])
           Q == QueueIn(b, t, L[l])
           S == Standing(b, t)
<1>1. Len(L) \in Nat
  BY LevelFacts
<1>2. /\ Len(Q) \in Nat
      /\ \A i \in 1..Len(Q) : Q[i] \in A
      /\ \A i, j \in 1..Len(Q) : i < j => Q[i] # Q[j]
  BY QueueFacts
<1>3. /\ l \in 1..(Len(L) + 1) /\ l <= Len(L) /\ n \in Nat \ {0} /\ n <= Len(Q) /\ c = Q[n]
  BY DEF MakerAt, PlaceIn
<1>4. Walked(b, t, l) \cap A = {}
  <2>1. l \in 1..Len(LevelsIn(b, t))
    BY <1>1, <1>3
  <2> QED BY <2>1, WalkedGrows
<1>5. A = {r \in S : r.price = L[l]}
  BY DEF At
<1>6. \A m : Reached(b, t, l, m) =
                Walked(b, t, l) \cup {r \in S : \E i \in 1..(m - 1) : Q[i] = r}
  BY <1>3 DEF Reached
<1> HIDE DEF L, A, Q, S
<1>7. c \in A /\ c \in S /\ c.price = L[l]
  BY <1>2, <1>3, <1>5
<1>8. c \notin Reached(b, t, l, n)
  <2>1. SUFFICES ASSUME NEW i \in 1..(n - 1), Q[i] = c PROVE FALSE
    BY <1>4, <1>6, <1>7
  <2>2. i \in 1..Len(Q) /\ n \in 1..Len(Q) /\ i < n
    BY <1>2, <1>3
  <2> QED BY <1>2, <1>3, <2>1, <2>2
<1>9. 1..((n + 1) - 1) = 1..(n - 1) \cup {n}
  BY <1>3
<1>10. Reached(b, t, l, n + 1) = Reached(b, t, l, n) \cup {c}
  BY <1>3, <1>6, <1>7, <1>9
<1>11. n + 1 \in Nat \ {0} /\ n + 1 <= Len(Q) + 1
  BY <1>2, <1>3
<1>12. PlaceIn(b, t, l, n + 1)
  BY <1>3, <1>11 DEF PlaceIn, L, Q
<1> QED BY <1>7, <1>8, <1>10, <1>12 DEF L, S

LEMMA ReachedFirst ==
    ASSUME NEW b \in Books, NEW t \in Takers, NEW l
    PROVE  Reached(b, t, l, 1) = Walked(b, t, l)
BY DEF Reached

(* At the end of a queue the walk is where the next level starts.          *)
LEMMA ReachedLevel ==
    ASSUME NEW b \in Books, NEW t \in Takers, NEW l, NEW n, PlaceIn(b, t, l, n),
           l <= Len(LevelsIn(b, t)), n > Len(QueueIn(b, t, LevelsIn(b, t)[l]))
    PROVE  /\ PlaceIn(b, t, l + 1, 1)
           /\ Reached(b, t, l + 1, 1) = Reached(b, t, l, n)
<1> DEFINE L == LevelsIn(b, t)
           A == At(b, t, L[l])
           Q == QueueIn(b, t, L[l])
           S == Standing(b, t)
<1>1. Len(L) \in Nat
  BY LevelFacts
<1>2. /\ Len(Q) \in Nat
      /\ \A i \in 1..Len(Q) : Q[i] \in A
      /\ \A r \in A : \E i \in 1..Len(Q) : Q[i] = r
  BY QueueFacts
<1>3. /\ l \in 1..(Len(L) + 1) /\ l <= Len(L) /\ n \in Nat \ {0} /\ n > Len(Q)
      /\ n > 1 => n <= Len(Q) + 1
  BY DEF PlaceIn
<1>4. Walked(b, t, l + 1) = Walked(b, t, l) \cup A
  <2>1. l \in 1..Len(LevelsIn(b, t))
    BY <1>1, <1>3
  <2> QED BY <2>1, WalkedGrows
<1>5. A \subseteq S
  BY DEF At
<1>6. Reached(b, t, l, n) = Walked(b, t, l) \cup {r \in S : \E i \in 1..(n - 1) : Q[i] = r}
  BY <1>3 DEF Reached
<1>7. PlaceIn(b, t, l + 1, 1)
  <2>1. l + 1 \in 1..(Len(L) + 1) /\ ~(1 > 1) /\ 1 \in Nat \ {0}
    BY <1>1, <1>3
  <2> HIDE DEF L
  <2> QED BY <2>1 DEF PlaceIn, L
<1> HIDE DEF L, A, Q, S
<1>8. 1..(n - 1) = 1..Len(Q)
  <2>1. n = Len(Q) + 1
    BY <1>2, <1>3
  <2> QED BY <1>2, <2>1
<1>9. {r \in S : \E i \in 1..(n - 1) : Q[i] = r} = A
  BY <1>2, <1>5, <1>8
<1> QED BY <1>4, <1>6, <1>7, <1>9, ReachedFirst

(* What the walk has passed comes before all that it has not.              *)
LEMMA ReachedOrder ==
    ASSUME IdsArePriority, NEW b \in Books, NEW t \in Takers, NEW l, NEW n,
           PlaceIn(b, t, l, n),
           NEW x \in Reached(b, t, l, n), NEW y \in Standing(b, t),
           y \notin Reached(b, t, l, n)
    PROVE  Before(x, y)
<1> DEFINE L == LevelsIn(b, t)
           S == Standing(b, t)
<1>1. /\ Len(L) \in Nat
      /\ \A i \in 1..Len(L) : L[i] \in Nat
      /\ \A r \in S : \E i \in 1..Len(L) : L[i] = r.price
      /\ \A i, j \in 1..Len(L) : i < j => Nearer(t, L[i], L[j])
  BY LevelFacts
<1>2. l \in 1..(Len(L) + 1) /\ n \in Nat \ {0}
  BY DEF PlaceIn
<1>3. S \subseteq Row /\ S \subseteq ToSet(b)
  BY StandingFacts
<1>4. \A r \in S : r.side = Opposite(t.side)
  BY DEF Standing
<1>5. t.side \in {"buy", "sell"}
  BY LoopAssumption DEF Taker
<1>6. Walked(b, t, l) = {r \in S : \E j \in 1..(l - 1) : L[j] = r.price}
  BY DEF Walked
<1>7. x \in S
  BY <1>6 DEF Reached
<1>8. ASSUME Nearer(t, x.price, y.price) PROVE Before(x, y)
  BY <1>4, <1>5, <1>7, <1>8 DEF Before, BetterPrice, Nearer, Opposite
<1>9. PICK k \in 1..Len(L) : L[k] = y.price
  BY <1>1
<1>10. l <= k
  <2>1. y \notin Walked(b, t, l)
    BY DEF Reached
  <2> QED BY <1>1, <1>2, <1>6, <1>9, <2>1
<1>11. CASE x \in Walked(b, t, l)
  <2>1. PICK j \in 1..(l - 1) : L[j] = x.price
    BY <1>6, <1>11
  <2>2. j \in 1..Len(L) /\ j < k
    BY <1>1, <1>2, <1>9, <1>10, <2>1
  <2> QED BY <1>1, <1>8, <1>9, <2>1, <2>2
<1>12. CASE x \notin Walked(b, t, l)
  <2> DEFINE Q == QueueIn(b, t, L[l])
             A == At(b, t, L[l])
  <2>1. /\ l <= Len(L)
        /\ \E i \in 1..(n - 1) : Q[i] = x
    BY <1>12 DEF Reached
  <2>2. PICK i \in 1..(n - 1) : Q[i] = x
    BY <2>1
  <2>3. /\ Len(Q) \in Nat
        /\ \A r \in A : \E m \in 1..Len(Q) : Q[m] = r
        /\ \A m \in 1..Len(Q) : Q[m] \in A
        /\ \A j, m \in 1..Len(Q) : j < m => QueueBefore(Q[j], Q[m])
    BY QueueFacts
  <2>4. n <= Len(Q) + 1
    BY <1>2, <2>2 DEF PlaceIn
  <2>5. A = {r \in S : r.price = L[l]}
    BY DEF At
  <2>6. \A m \in 1..(n - 1) : Q[m] # y
    BY <2>1 DEF Reached
  <2> HIDE DEF Q, A, L, S
  <2>7. i \in 1..Len(Q) /\ x.price = L[l]
    BY <1>2, <2>2, <2>3, <2>4, <2>5
  <2>8. l \in 1..Len(L)
    BY <1>1, <1>2, <2>1
  <2>9. CASE l < k
    BY <1>1, <1>8, <1>9, <2>7, <2>8, <2>9
  <2>10. CASE l = k
    <3>1. y \in A
      BY <1>9, <2>5, <2>10 DEF S
    <3>2. PICK m \in 1..Len(Q) : Q[m] = y
      BY <2>3, <3>1
    <3>3. i < m
      BY <1>2, <2>2, <2>3, <2>6, <3>2
    <3>4. QueueBefore(x, y)
      BY <2>2, <2>3, <2>7, <3>2, <3>3
    <3>5. x.id < y.id
      BY <1>3, <1>7, <3>4 DEF S, IdsArePriority
    <3> QED BY <1>9, <2>7, <2>10, <3>5 DEF Before
  <2> QED BY <1>2, <1>9, <1>10, <2>8, <2>9, <2>10
<1> QED BY <1>11, <1>12

LEMMA BeforeIsStrict ==
    ASSUME NEW b \in Books, NEW t \in Takers,
           NEW x \in Standing(b, t), NEW y \in Standing(b, t), Before(x, y)
    PROVE  ~Before(y, x) /\ x # y
<1>1. Standing(b, t) \subseteq Row
  BY StandingFacts
<1>2. x.price \in Nat /\ y.price \in Nat /\ x.id \in Nat /\ y.id \in Nat
  BY <1>1 DEF Row
<1>3. x.side = y.side
  BY DEF Standing
<1> QED BY <1>2, <1>3 DEF Before, BetterPrice

(* At a maker the walk has passed just those that come before it.          *)
LEMMA ReachedIsAhead ==
    ASSUME IdsArePriority, NEW b \in Books, NEW t \in Takers, NEW l, NEW n,
           NEW c, MakerAt(b, t, l, n, c), NEW e \in Standing(b, t)
    PROVE  e \in Reached(b, t, l, n) <=> Before(e, c)
<1>1. /\ PlaceIn(b, t, l, n + 1)
      /\ c \in Standing(b, t)
      /\ c \notin Reached(b, t, l, n)
      /\ Reached(b, t, l, n + 1) = Reached(b, t, l, n) \cup {c}
  BY ReachedNext
<1>0. PlaceIn(b, t, l, n)
  BY DEF MakerAt
<1>2. ASSUME e \in Reached(b, t, l, n) PROVE Before(e, c)
  BY <1>0, <1>1, <1>2, ReachedOrder
<1>3. ASSUME Before(e, c), e \notin Reached(b, t, l, n) PROVE FALSE
  <2>1. e # c /\ ~Before(c, e)
    BY <1>1, <1>3, BeforeIsStrict
  <2>2. e \notin Reached(b, t, l, n + 1) /\ c \in Reached(b, t, l, n + 1)
    BY <1>1, <1>3, <2>1
  <2> QED BY <1>1, <2>1, <2>2, ReachedOrder
<1> QED BY <1>2, <1>3

(***************************************************************************)
(* The plan, maker by maker.                                               *)
(***************************************************************************)
Makers(b, t) == Candidates(ToSet(b), t.id, t)

Share(b, t, e) == Least(e.remaining, t.qty - Ahead(Makers(b, t), e))

FillFor(b, t, e) ==
    [maker |-> e.id, remaining |-> e.remaining, price |-> e.price,
     qty |-> Share(b, t, e)]

(* The fills of those among S that get any.                                *)
Served(b, t, S) == {FillFor(b, t, e) : e \in {c \in S \cap Makers(b, t) : Share(b, t, c) > 0}}

PlanOf(b, t) == ComputeFills(ToSet(b), t.id, t, t.qty)

LEMMA MakersFacts ==
    ASSUME NEW b \in Books, NEW t \in Takers
    PROVE  /\ Makers(b, t) = {e \in Standing(b, t) :
                Crosses(t, e.price) /\ e.id # t.id /\ e.user # t.user}
           /\ Makers(b, t) \subseteq Standing(b, t) /\ Countable(Makers(b, t))
           /\ t.qty \in Nat
<1>1. Makers(b, t) = {e \in Standing(b, t) :
                        Crosses(t, e.price) /\ e.id # t.id /\ e.user # t.user}
  BY DEF Makers, Candidates, Crossing, Standing
<1>2. Makers(b, t) \in SUBSET Standing(b, t)
  BY <1>1
<1>3. t.qty \in Nat
  BY LoopAssumption DEF Taker
<1> QED BY <1>1, <1>2, <1>3, StandingFacts, QuantityGrows

LEMMA ShareFacts ==
    ASSUME NEW b \in Books, NEW t \in Takers, NEW e \in Standing(b, t)
    PROVE  /\ Ahead(Makers(b, t), e) \in Nat /\ e.remaining \in Nat \ {0}
           /\ e.id \in Nat /\ e.price \in Nat
           /\ Share(b, t, e) \in Int /\ Share(b, t, e) <= e.remaining
<1>1. e \in Row
  BY StandingFacts
<1>2. e.remaining \in Nat \ {0} /\ e.id \in Nat /\ e.price \in Nat
  BY <1>1 DEF Row
<1>3. {f \in Makers(b, t) : Before(f, e)} \in SUBSET Makers(b, t)
  OBVIOUS
<1>4. Countable({f \in Makers(b, t) : Before(f, e)})
  BY <1>3, MakersFacts, QuantityGrows
<1>5. Ahead(Makers(b, t), e) \in Nat
  BY <1>4, QuantityIsNat DEF Ahead
<1>6. t.qty \in Nat
  BY MakersFacts
<1> QED BY <1>2, <1>5, <1>6 DEF Share, Least

LEMMA PlanIsServed ==
    ASSUME NEW b \in Books, NEW t \in Takers
    PROVE  PlanOf(b, t) = Served(b, t, Standing(b, t))
<1> DEFINE M == Makers(b, t)
           Taken(e) == {Share(b, t, e)} \cap 1..e.remaining
           Fills(e) == {[maker |-> e.id, remaining |-> e.remaining,
                         price |-> e.price, qty |-> q] : q \in Taken(e)}
<1>1. PlanOf(b, t) = UNION {Fills(e) : e \in M}
  BY DEF PlanOf, ComputeFills, Makers, Share
<1>2. M \subseteq Standing(b, t)
  BY MakersFacts
<1>3. ASSUME NEW e \in M
      PROVE  Taken(e) = IF Share(b, t, e) > 0 THEN {Share(b, t, e)} ELSE {}
  <2>1. Share(b, t, e) \in Int /\ Share(b, t, e) <= e.remaining /\ e.remaining \in Nat
    BY <1>2, ShareFacts
  <2> QED BY <2>1
<1>4. \A e \in M : Fills(e) = IF Share(b, t, e) > 0 THEN {FillFor(b, t, e)} ELSE {}
  BY <1>3 DEF FillFor
<1>5. Served(b, t, Standing(b, t)) = {FillFor(b, t, e) : e \in {c \in M : Share(b, t, c) > 0}}
  BY <1>2 DEF Served
<1> HIDE DEF Fills, M
<1> QED BY <1>1, <1>4, <1>5

LEMMA ServedFacts ==
    ASSUME NEW b \in Books, NEW t \in Takers, NEW S \in SUBSET Standing(b, t)
    PROVE  /\ Fillable(Served(b, t, S))
           /\ Served(b, t, S) \subseteq PlanOf(b, t)
           /\ \A f \in Served(b, t, S) : f.qty \in Nat
<1> DEFINE G == {c \in S \cap Makers(b, t) : Share(b, t, c) > 0}
           F == Served(b, t, S)
           h == [e \in G |-> FillFor(b, t, e)]
<1>1. G \in SUBSET Standing(b, t) /\ F = {FillFor(b, t, e) : e \in G}
  BY DEF Served
<1>2. IsFiniteSet(G)
  BY <1>1, StandingFacts, FS_Subset
<1>3. h \in Surjection(G, F)
  BY <1>1 DEF Surjection
<1>4. IsFiniteSet(F)
  <2> HIDE DEF G, F, h
  <2> QED BY <1>2, <1>3, FS_Surjection
<1>5. \A e \in G : /\ FillFor(b, t, e).maker = e.id /\ e.id \in Nat
                   /\ FillFor(b, t, e).price \in Nat /\ FillFor(b, t, e).qty \in Nat
  <2> TAKE e \in G
  <2>1. e.id \in Nat /\ e.price \in Nat /\ Share(b, t, e) \in Int /\ Share(b, t, e) > 0
    BY <1>1, ShareFacts
  <2> QED BY <2>1 DEF FillFor
<1>6. \A d, e \in G : d.id = e.id => d = e
  BY <1>1, StandingFacts
<1>7. F \subseteq PlanOf(b, t)
  BY PlanIsServed DEF Served
<1> HIDE DEF G, F
<1>8. \A f \in F : f.maker \in Nat /\ f.price \in Nat /\ f.qty \in Nat
  BY <1>1, <1>5
<1>9. \A f, g \in F : f.maker = g.maker => f = g
  BY <1>1, <1>5, <1>6
<1>10. Fillable(F)
  BY <1>4, <1>8, <1>9 DEF Fillable
<1> QED BY <1>7, <1>8, <1>10 DEF F

(***************************************************************************)
(* The walk.  At each place the records are the fills of the makers passed,*)
(* and what remains is what their quantities have left.                    *)
(***************************************************************************)
PassedQuantity(b, t, l, n) == Quantity(Reached(b, t, l, n) \cap Makers(b, t))

Left(want, q) == IF q >= want THEN 0 ELSE want - q

FillsAt(b, t, l, n, rem, rec) ==
    /\ PlaceIn(b, t, l, n)
    /\ \A j \in 1..(l - 1) : Crosses(t, LevelsIn(b, t)[j])
    /\ n > 1 => Crosses(t, LevelsIn(b, t)[l])
    /\ rem = Left(t.qty, PassedQuantity(b, t, l, n))
    /\ rec \in Seq(PlanOf(b, t))
    /\ ToSet(rec) = Served(b, t, Reached(b, t, l, n))
    /\ \A i, j \in 1..Len(rec) :
          i < j => SettledBefore(rec[i], rec[j], Opposite(t.side))
    /\ \A f \in ToSet(rec) : QuoteGross(f.qty, f.price) > 0
    /\ TotalFilled(ToSet(rec)) + rem = t.qty

LEMMA ReachedStands ==
    ASSUME NEW b, NEW t, NEW l, NEW n
    PROVE  Reached(b, t, l, n) \in SUBSET Standing(b, t)
BY DEF Reached, Walked

LEMMA PassedIsNat ==
    ASSUME NEW b \in Books, NEW t \in Takers, NEW l, NEW n
    PROVE  PassedQuantity(b, t, l, n) \in Nat /\ Countable(Reached(b, t, l, n) \cap Makers(b, t))
<1>1. Reached(b, t, l, n) \cap Makers(b, t) \in SUBSET Makers(b, t)
  OBVIOUS
<1>2. Countable(Reached(b, t, l, n) \cap Makers(b, t))
  BY <1>1, MakersFacts, QuantityGrows
<1> QED BY <1>2, QuantityIsNat DEF PassedQuantity

LEMMA FillsStart ==
    ASSUME NEW b \in Books, NEW t \in Takers
    PROVE  FillsAt(b, t, 1, 1, t.qty, << >>)
<1> DEFINE e == << >>
<1>1. Reached(b, t, 1, 1) = {}
  BY ReachedFirst DEF Walked
<1>2. PlaceIn(b, t, 1, 1)
  BY LevelFacts DEF PlaceIn
<1>3. t.qty \in Nat
  BY MakersFacts
<1>4. PassedQuantity(b, t, 1, 1) = 0
  <2>1. {} \cap Makers(b, t) = {}
    OBVIOUS
  <2> QED BY <1>1, <2>1, QuantityOfNone DEF PassedQuantity
<1>5. t.qty = Left(t.qty, 0)
  BY <1>3 DEF Left
<1>6. Served(b, t, {}) = {}
  BY DEF Served
<1>7. e \in Seq(PlanOf(b, t)) /\ Len(e) = 0 /\ ToSet(e) = {}
  BY DEF ToSet
<1>8. TotalFilled({}) = 0
  BY SumEmpty DEF TotalFilled
<1> HIDE DEF e
<1>9. FillsAt(b, t, 1, 1, t.qty, e)
  BY <1>1, <1>2, <1>3, <1>4, <1>5, <1>6, <1>7, <1>8 DEF FillsAt
<1> QED BY <1>9 DEF e

LEMMA LevelPassed ==
    ASSUME NEW b \in Books, NEW t \in Takers, NEW l, NEW n, NEW rem, NEW rec,
           FillsAt(b, t, l, n, rem, rec),
           l <= Len(LevelsIn(b, t)), Crosses(t, LevelsIn(b, t)[l]),
           n > Len(QueueIn(b, t, LevelsIn(b, t)[l]))
    PROVE  FillsAt(b, t, l + 1, 1, rem, rec)
<1>1. PlaceIn(b, t, l, n)
  BY DEF FillsAt
<1>2. PlaceIn(b, t, l + 1, 1) /\ Reached(b, t, l + 1, 1) = Reached(b, t, l, n)
  BY <1>1, ReachedLevel
<1>3. Len(LevelsIn(b, t)) \in Nat
  BY LevelFacts
<1>4. l \in Nat
  BY <1>1, <1>3 DEF PlaceIn
<1>5. \A j \in 1..((l + 1) - 1) : j = l \/ j \in 1..(l - 1)
  BY <1>4
<1>6. \A j \in 1..((l + 1) - 1) : Crosses(t, LevelsIn(b, t)[j])
  BY <1>5 DEF FillsAt
<1>7. PassedQuantity(b, t, l + 1, 1) = PassedQuantity(b, t, l, n)
  BY <1>2 DEF PassedQuantity
<1> QED BY <1>2, <1>6, <1>7 DEF FillsAt

(* A row that is no candidate is passed and changes nothing.               *)
LEMMA MakerSkipped ==
    ASSUME NEW b \in Books, NEW t \in Takers, NEW l, NEW n, NEW c, NEW rem, NEW rec,
           FillsAt(b, t, l, n, rem, rec), MakerAt(b, t, l, n, c),
           Crosses(t, LevelsIn(b, t)[l]), c \notin Makers(b, t)
    PROVE  FillsAt(b, t, l, n + 1, rem, rec)
<1>1. /\ PlaceIn(b, t, l, n + 1)
      /\ Reached(b, t, l, n + 1) = Reached(b, t, l, n) \cup {c}
  BY ReachedNext
<1>2. Reached(b, t, l, n + 1) \cap Makers(b, t) = Reached(b, t, l, n) \cap Makers(b, t)
  BY <1>1
<1>3. PassedQuantity(b, t, l, n + 1) = PassedQuantity(b, t, l, n)
  BY <1>2 DEF PassedQuantity
<1>4. Served(b, t, Reached(b, t, l, n + 1)) = Served(b, t, Reached(b, t, l, n))
  BY <1>2 DEF Served
<1> QED BY <1>1, <1>3, <1>4 DEF FillsAt

(* What a maker that is reached gives is its share of the plan.            *)
LEMMA MakerShare ==
    ASSUME IdsArePriority, NEW b \in Books, NEW t \in Takers, NEW l, NEW n, NEW c,
           NEW rem, NEW rec,
           FillsAt(b, t, l, n, rem, rec), MakerAt(b, t, l, n, c),
           c \in Makers(b, t), rem > 0
    PROVE  /\ rem \in Nat
           /\ rem = t.qty - PassedQuantity(b, t, l, n)
           /\ Share(b, t, c) = Least(rem, c.remaining)
           /\ Share(b, t, c) > 0
           /\ FillFor(b, t, c) \in PlanOf(b, t)
<1>1. c \in Standing(b, t)
  BY MakersFacts
<1>2. \A e \in Makers(b, t) : e \in Reached(b, t, l, n) <=> Before(e, c)
  BY MakersFacts, ReachedIsAhead
<1>3. {e \in Makers(b, t) : Before(e, c)} = Reached(b, t, l, n) \cap Makers(b, t)
  BY <1>2
<1>4. Ahead(Makers(b, t), c) = PassedQuantity(b, t, l, n)
  BY <1>3 DEF Ahead, PassedQuantity
<1>5. PassedQuantity(b, t, l, n) \in Nat /\ t.qty \in Nat
  BY PassedIsNat, MakersFacts
<1>6. rem = Left(t.qty, PassedQuantity(b, t, l, n))
  BY DEF FillsAt
<1>7. rem \in Nat /\ rem = t.qty - PassedQuantity(b, t, l, n)
  BY <1>5, <1>6 DEF Left
<1>8. c.remaining \in Nat \ {0}
  BY <1>1, ShareFacts
<1>9. Share(b, t, c) = Least(c.remaining, rem)
  BY <1>4, <1>7 DEF Share
<1>10. Share(b, t, c) = Least(rem, c.remaining) /\ Share(b, t, c) > 0
  BY <1>7, <1>8, <1>9 DEF Least
<1>11. FillFor(b, t, c) \in Served(b, t, Standing(b, t))
  BY <1>1, <1>10 DEF Served
<1> QED BY <1>7, <1>10, <1>11, PlanIsServed

LEMMA MakerFilled ==
    ASSUME IdsArePriority, NEW b \in Books, NEW t \in Takers, NEW l, NEW n, NEW c,
           NEW rem, NEW rec,
           FillsAt(b, t, l, n, rem, rec), MakerAt(b, t, l, n, c),
           c \in Makers(b, t), rem > 0,
           NEW q, q = Least(rem, c.remaining), QuoteGross(q, c.price) > 0,
           NEW f, f = [maker |-> c.id, remaining |-> c.remaining,
                       price |-> c.price, qty |-> q]
    PROVE  FillsAt(b, t, l, n + 1, rem - q, Append(rec, f))
<1>1. /\ PlaceIn(b, t, l, n + 1)
      /\ c \in Standing(b, t) /\ c.price = LevelsIn(b, t)[l]
      /\ c \notin Reached(b, t, l, n)
      /\ Reached(b, t, l, n + 1) = Reached(b, t, l, n) \cup {c}
  BY ReachedNext
<1>2. /\ rem \in Nat /\ rem = t.qty - PassedQuantity(b, t, l, n)
      /\ q = Share(b, t, c) /\ q > 0
      /\ f = FillFor(b, t, c) /\ f \in PlanOf(b, t)
  BY MakerShare DEF FillFor
<1>3. c.remaining \in Nat \ {0} /\ t.qty \in Nat /\ PassedQuantity(b, t, l, n) \in Nat
  BY <1>1, ShareFacts, MakersFacts, PassedIsNat
<1>4. q \in Nat
  BY <1>2, <1>3 DEF Least
<1>5. PassedQuantity(b, t, l, n + 1) = PassedQuantity(b, t, l, n) + c.remaining
  <2> DEFINE R == Reached(b, t, l, n) \cap Makers(b, t)
  <2>1. Reached(b, t, l, n + 1) \cap Makers(b, t) = R \cup {c}
    BY <1>1
  <2>2. Countable(R) /\ c \notin R
    BY <1>1, PassedIsNat
  <2>3. PassedQuantity(b, t, l, n) = Quantity(R)
    BY DEF PassedQuantity
  <2> HIDE DEF R
  <2>4. Quantity(R \cup {c}) = Quantity(R) + c.remaining
    BY <1>3, <2>2, QuantityAdds
  <2> QED BY <2>1, <2>3, <2>4 DEF PassedQuantity
<1>6. rem - q = Left(t.qty, PassedQuantity(b, t, l, n + 1))
  BY <1>2, <1>3, <1>5 DEF Left, Least
<1>7. Served(b, t, Reached(b, t, l, n + 1)) = Served(b, t, Reached(b, t, l, n)) \cup {f}
  BY <1>1, <1>2 DEF Served
<1>8. /\ rec \in Seq(PlanOf(b, t))
      /\ ToSet(rec) = Served(b, t, Reached(b, t, l, n))
      /\ \A i, j \in 1..Len(rec) :
            i < j => SettledBefore(rec[i], rec[j], Opposite(t.side))
      /\ \A g \in ToSet(rec) : QuoteGross(g.qty, g.price) > 0
      /\ TotalFilled(ToSet(rec)) + rem = t.qty
      /\ \A j \in 1..(l - 1) : Crosses(t, LevelsIn(b, t)[j])
  BY DEF FillsAt
<1> DEFINE w == Append(rec, f)
<1>9. /\ w \in Seq(PlanOf(b, t)) /\ Len(rec) \in Nat /\ Len(w) = Len(rec) + 1
      /\ \A i \in 1..Len(rec) : w[i] = rec[i]
      /\ w[Len(rec) + 1] = f
      /\ DOMAIN rec = 1..Len(rec) /\ DOMAIN w = 1..(Len(rec) + 1)
  BY <1>2, <1>8
<1> HIDE DEF w
<1>10. \A i \in 1..(Len(rec) + 1) : i \in 1..Len(rec) \/ i = Len(rec) + 1
  BY <1>9
<1>11. ToSet(w) = ToSet(rec) \cup {f}
  <2>1. \A i \in 1..(Len(rec) + 1) : w[i] \in ToSet(rec) \cup {f}
    BY <1>9, <1>10 DEF ToSet
  <2>2. \A i \in 1..Len(rec) : i \in 1..(Len(rec) + 1)
    BY <1>9
  <2>3. Len(rec) + 1 \in 1..(Len(rec) + 1)
    BY <1>9
  <2>4. ToSet(w) \subseteq ToSet(rec) \cup {f}
    BY <1>9, <2>1 DEF ToSet
  <2>5. \A i \in 1..Len(rec) : rec[i] \in ToSet(w)
    BY <1>9, <2>2 DEF ToSet
  <2>6. f \in ToSet(w)
    BY <1>9, <2>3 DEF ToSet
  <2>7. ToSet(rec) \subseteq ToSet(w)
    BY <1>9, <2>5 DEF ToSet
  <2> QED BY <2>4, <2>6, <2>7
<1>12. \A g \in ToSet(rec) : SettledBefore(g, f, Opposite(t.side))
  <2> SUFFICES ASSUME NEW e \in Reached(b, t, l, n) \cap Makers(b, t)
               PROVE  SettledBefore(FillFor(b, t, e), f, Opposite(t.side))
    BY <1>8 DEF Served
  <2>1. e \in Standing(b, t)
    BY MakersFacts
  <2>2. Before(e, c)
    BY <2>1, ReachedIsAhead
  <2>3. e.side = Opposite(t.side)
    BY <2>1 DEF Standing
  <2>4. /\ FillFor(b, t, e).maker = e.id /\ FillFor(b, t, e).price = e.price
        /\ f.maker = c.id /\ f.price = c.price
    BY DEF FillFor
  <2> QED BY <2>2, <2>3, <2>4 DEF SettledBefore, Before, BetterPrice
<1>13. ASSUME NEW i \in 1..Len(w), NEW j \in 1..Len(w), i < j
       PROVE  SettledBefore(w[i], w[j], Opposite(t.side))
  <2>1. i \in 1..Len(rec)
    BY <1>9, <1>13
  <2>2. CASE j \in 1..Len(rec)
    BY <1>8, <1>9, <1>13, <2>1, <2>2
  <2>3. CASE j = Len(rec) + 1
    <3>1. w[i] \in ToSet(rec) /\ w[j] = f
      BY <1>9, <2>1, <2>3 DEF ToSet
    <3> QED BY <1>12, <3>1
  <2> QED BY <1>9, <1>10, <2>2, <2>3
<1>14. \A g \in ToSet(w) : QuoteGross(g.qty, g.price) > 0
  <2>1. f.qty = q /\ f.price = c.price
    OBVIOUS
  <2> QED BY <1>8, <1>11, <2>1
<1>15. TotalFilled(ToSet(w)) = TotalFilled(ToSet(rec)) + q /\ TotalFilled(ToSet(rec)) \in Int
  <2> DEFINE F == ToSet(rec)
             h == [g \in F \cup {f} |-> g.qty]
             k == [g \in F |-> g.qty]
  <2>1. Reached(b, t, l, n) \in SUBSET Standing(b, t)
    BY ReachedStands
  <2>2. IsFiniteSet(F) /\ \A g \in F : g.qty \in Int
    BY <1>8, <2>1, ServedFacts DEF Fillable
  <2>3. f \notin F
    <3>1. ASSUME NEW e \in Reached(b, t, l, n), FillFor(b, t, e) = f PROVE FALSE
      <4>1. e.id = c.id
        BY <3>1 DEF FillFor
      <4>2. e = c
        BY <1>1, <2>1, <4>1, StandingFacts
      <4> QED BY <1>1, <4>2
    <3> QED BY <1>8, <3>1 DEF Served
  <2>4. f.qty = q
    OBVIOUS
  <2>5. /\ \A g \in F \cup {f} : h[g] \in Int
        /\ \A g \in F : h[g] = k[g] /\ k[g] \in Int
        /\ h[f] = q
        /\ h = [g \in F \cup {f} |-> g.qty] /\ k = [g \in F |-> g.qty]
    BY <1>4, <2>2, <2>4
  <2> HIDE DEF F, h, k
  <2>6. SumFunctionOnSet(h, F \cup {f}) = h[f] + SumFunctionOnSet(h, F)
    BY <2>2, <2>3, <2>5, SumAdd
  <2>7. SumFunctionOnSet(h, F) = SumFunctionOnSet(k, F)
    BY <2>2, <2>5, SumEqual
  <2>8. SumFunctionOnSet(k, F) \in Int
    BY <2>2, <2>5, SumInt
  <2>9. TotalFilled(F \cup {f}) = q + TotalFilled(F) /\ TotalFilled(F) \in Int
    BY <2>5, <2>6, <2>7, <2>8 DEF TotalFilled
  <2> QED BY <1>4, <1>11, <2>9 DEF F
<1>16. TotalFilled(ToSet(w)) + (rem - q) = t.qty
  BY <1>2, <1>3, <1>4, <1>8, <1>15
<1>17. Crosses(t, LevelsIn(b, t)[l])
  BY <1>1, MakersFacts
<1>18. ToSet(w) = Served(b, t, Reached(b, t, l, n + 1))
  BY <1>7, <1>8, <1>11
<1>19. FillsAt(b, t, l, n + 1, rem - q, w)
  BY <1>1, <1>6, <1>8, <1>9, <1>13, <1>14, <1>16, <1>17, <1>18 DEF FillsAt
<1> QED BY <1>19 DEF w

(* Where the walk stops, nobody it has not passed would get a fill.        *)
LEMMA FillsEnd ==
    ASSUME IdsArePriority, NEW b \in Books, NEW t \in Takers, NEW l, NEW n,
           NEW rem, NEW rec, FillsAt(b, t, l, n, rem, rec),
           \/ ~(rem > 0)
           \/ ~(l <= Len(LevelsIn(b, t)) /\ Crosses(t, LevelsIn(b, t)[l]))
    PROVE  /\ rec = InPriority(PlanOf(b, t), Opposite(t.side))
           /\ rem = t.qty - TotalFilled(PlanOf(b, t))
           /\ \A f \in PlanOf(b, t) : QuoteGross(f.qty, f.price) > 0
<1> DEFINE R == Reached(b, t, l, n)
           P == PlanOf(b, t)
           o == Opposite(t.side)
<1>1. /\ PlaceIn(b, t, l, n)
      /\ \A j \in 1..(l - 1) : Crosses(t, LevelsIn(b, t)[j])
      /\ n > 1 => Crosses(t, LevelsIn(b, t)[l])
      /\ rem = Left(t.qty, PassedQuantity(b, t, l, n))
      /\ rec \in Seq(P)
      /\ ToSet(rec) = Served(b, t, R)
      /\ \A i, j \in 1..Len(rec) : i < j => SettledBefore(rec[i], rec[j], o)
      /\ \A f \in ToSet(rec) : QuoteGross(f.qty, f.price) > 0
      /\ TotalFilled(ToSet(rec)) + rem = t.qty
  BY DEF FillsAt
<1>2. R \in SUBSET Standing(b, t)
  BY ReachedStands
<1>3. ASSUME NEW e \in Makers(b, t), Share(b, t, e) > 0 PROVE e \in R
  <2>1. e \in Standing(b, t)
    BY MakersFacts
  <2>2. CASE ~(l <= Len(LevelsIn(b, t)) /\ Crosses(t, LevelsIn(b, t)[l]))
    <3>1. l \in 1..(Len(LevelsIn(b, t)) + 1) /\ n = 1
      BY <1>1, <2>2 DEF PlaceIn
    <3>2. Crossing(ToSet(b), t) = Walked(b, t, l)
      BY <1>1, <2>2, <3>1, CrossingWalked
    <3>3. e \in Crossing(ToSet(b), t)
      BY DEF Makers, Candidates
    <3> QED BY <3>1, <3>2, <3>3, ReachedFirst
  <2>3. CASE ~(rem > 0)
    <3>1. SUFFICES ASSUME e \notin R PROVE FALSE
      OBVIOUS
    <3>2. \A x \in R : Before(x, e)
      BY <1>1, <2>1, <3>1, ReachedOrder
    <3>3. R \cap Makers(b, t) \in SUBSET {x \in Makers(b, t) : Before(x, e)}
      BY <3>2
    <3>4. Countable({x \in Makers(b, t) : Before(x, e)})
      <4>1. {x \in Makers(b, t) : Before(x, e)} \in SUBSET Makers(b, t)
        OBVIOUS
      <4> QED BY <4>1, MakersFacts, QuantityGrows
    <3>5. PassedQuantity(b, t, l, n) <= Ahead(Makers(b, t), e)
      <4> HIDE DEF R
      <4>1. Quantity(R \cap Makers(b, t)) <= Quantity({x \in Makers(b, t) : Before(x, e)})
        BY <3>3, <3>4, QuantityGrows
      <4> QED BY <4>1 DEF PassedQuantity, Ahead, R
    <3>6. /\ PassedQuantity(b, t, l, n) \in Nat /\ t.qty \in Nat
          /\ Ahead(Makers(b, t), e) \in Nat /\ e.remaining \in Nat
      BY <2>1, PassedIsNat, MakersFacts, ShareFacts
    <3>7. PassedQuantity(b, t, l, n) >= t.qty
      BY <1>1, <2>3, <3>6 DEF Left
    <3>8. Share(b, t, e) <= 0
      BY <3>5, <3>6, <3>7 DEF Share, Least
    <3>9. Share(b, t, e) \in Int
      BY <2>1, ShareFacts
    <3> QED BY <1>3, <3>8, <3>9
  <2> QED BY <2>2, <2>3
<1>4. Served(b, t, R) = Served(b, t, Standing(b, t))
  BY <1>2, <1>3 DEF Served
<1>5. ToSet(rec) = P
  BY <1>1, <1>4, PlanIsServed
<1>6. Fillable(P) /\ \A f \in P : f.qty \in Nat
  BY <1>2, <1>4, ServedFacts, PlanIsServed
<1>7. Orders(SettleOrder(P, o), P) /\ Sorts(InPriority(P, o), SettleOrder(P, o), P)
  BY <1>6, FillsSorted
<1> HIDE DEF P, o
<1>8. Sorts(rec, SettleOrder(P, o), P)
  <2>1. DOMAIN rec = 1..Len(rec) /\ \A i \in 1..Len(rec) : rec[i] \in P
    BY <1>1
  <2>2. \A f \in P : \E i \in 1..Len(rec) : rec[i] = f
    BY <1>5, <2>1 DEF ToSet
  <2>3. \A i, j \in 1..Len(rec) : i < j => <<rec[i], rec[j]>> \in SettleOrder(P, o)
    BY <1>1, <2>1 DEF SettleOrder
  <2> QED BY <1>1, <2>2, <2>3 DEF Sorts
<1>9. rec = InPriority(P, o)
  BY <1>6, <1>7, <1>8, SortedOnce DEF Fillable
<1>10. TotalFilled(P) \in Int
  <2>1. IsFiniteSet(P) /\ \A f \in P : f.qty \in Int
    BY <1>6 DEF Fillable
  <2>2. \A f \in P : [g \in P |-> g.qty][f] \in Int
    BY <2>1
  <2> QED BY <2>1, <2>2, SumInt DEF TotalFilled
<1>11. rem \in Int /\ t.qty \in Int
  <2>1. PassedQuantity(b, t, l, n) \in Nat /\ t.qty \in Nat
    BY PassedIsNat, MakersFacts
  <2> QED BY <1>1, <2>1 DEF Left
<1>12. rem = t.qty - TotalFilled(P)
  BY <1>1, <1>5, <1>10, <1>11
<1> QED BY <1>1, <1>5, <1>9, <1>12 DEF P, o

(* A maker that no record names has all it stands with.                    *)
LEMMA NothingAllocated ==
    ASSUME NEW c, c.remaining \in Nat, NEW F, records \in Seq(F),
           \A f \in ToSet(records) : f.maker # c.id
    PROVE  EffectiveRemaining(c) = c.remaining
<1> DEFINE D == DOMAIN records
           h == [i \in D |-> IF records[i].maker = c.id THEN records[i].qty ELSE 0]
<1>1. D = 1..Len(records)
  OBVIOUS
<1>2. IsFiniteSet(D)
  BY <1>1, OneTo
<1>3. \A i \in D : h[i] = 0
  BY DEF ToSet
<1> HIDE DEF D, h
<1>4. SumFunctionOnSet(h, D) = 0
  BY <1>2, <1>3, SumZero
<1>5. EffectiveRemaining(c) = c.remaining - SumFunctionOnSet(h, D)
  BY DEF EffectiveRemaining, D, h
<1> QED BY <1>4, <1>5

Filling ==
    /\ phase \in {"build", "volume"} =>
          /\ place = 1 /\ remaining = taker.qty /\ records = << >>
    /\ phase = "fills" => FillsAt(rows, taker, level, place, remaining, records)
    /\ LoopComputesFills
    /\ WorthlessFillThrows

LEMMA WorthIsNat ==
    ASSUME NEW q \in Nat, NEW p \in Nat PROVE QuoteGross(q, p) \in Nat
<1>1. PICK m \in Nat \ {0}, x \in Nat : m = PriceScale /\ x = q * p
  BY FinancialsAssumption, SMT
<1>2. x \div m \in Nat
  BY <1>1, SMT
<1> QED BY <1>1, <1>2 DEF QuoteGross, Floor

LEMMA FillingStarts == Init => Filling
BY DEF Init, Filling, LoopComputesFills, WorthlessFillThrows

(* What the loop looks at is what the walk is at.                          *)
LEMMA WalkIsLoop ==
    ASSUME Reading, phase = "fills", FillsAt(rows, taker, level, place, remaining, records)
    PROVE  /\ AtLevel <=> /\ level <= Len(LevelsIn(rows, taker))
                          /\ Crosses(taker, LevelsIn(rows, taker)[level])
           /\ AtLevel => Queue = QueueIn(rows, taker, LevelsIn(rows, taker)[level])
<1>1. rows \in Books /\ taker \in Takers
  BY DEF Reading
<1>2. /\ Levels = LevelsIn(rows, taker)
      /\ \A p \in Prices(rows, taker) :
            queues[<<Opposite(taker.side), p>>] = QueueIn(rows, taker, p)
  BY BuiltBook
<1>3. AtLevel <=> /\ level <= Len(LevelsIn(rows, taker))
                  /\ Crosses(taker, LevelsIn(rows, taker)[level])
  BY <1>2 DEF AtLevel
<1>4. ASSUME AtLevel PROVE Queue = QueueIn(rows, taker, LevelsIn(rows, taker)[level])
  <2>1. level \in 1..(Len(LevelsIn(rows, taker)) + 1)
    BY DEF FillsAt, PlaceIn
  <2>2. Len(LevelsIn(rows, taker)) \in Nat
    BY <1>1, LevelFacts
  <2>3. level \in 1..Len(LevelsIn(rows, taker))
    BY <1>3, <1>4, <2>1, <2>2
  <2>4. LevelsIn(rows, taker)[level] \in Prices(rows, taker)
    BY <1>1, <2>3, LevelFacts
  <2> QED BY <1>2, <2>4 DEF Queue
<1> QED BY <1>3, <1>4

(* A maker is passed exactly when it is no candidate: nothing has been     *)
(* allocated to one that the walk is at.                                   *)
LEMMA PassedIsNoCandidate ==
    ASSUME Reading, phase = "fills", FillsAt(rows, taker, level, place, remaining, records),
           AtLevel, place <= Len(Queue)
    PROVE  /\ MakerAt(rows, taker, level, place, Queue[place])
           /\ Passed(Queue[place]) <=> Queue[place] \notin Makers(rows, taker)
           /\ EffectiveRemaining(Queue[place]) = Queue[place].remaining
<1> DEFINE c == Queue[place]
           R == Reached(rows, taker, level, place)
<1>1. rows \in Books /\ taker \in Takers
  BY DEF Reading
<1>2. MakerAt(rows, taker, level, place, c)
  BY WalkIsLoop DEF MakerAt, FillsAt
<1> HIDE DEF c
<1>3. /\ c \in Standing(rows, taker) /\ c.price = LevelsIn(rows, taker)[level]
      /\ c \notin R
  BY <1>1, <1>2, ReachedNext
<1>4. c.remaining \in Nat \ {0}
  BY <1>1, <1>3, ShareFacts
<1>5. R \in SUBSET Standing(rows, taker)
  BY ReachedStands
<1>6. \A f \in ToSet(records) : f.maker # c.id
  <2>1. ToSet(records) = Served(rows, taker, R)
    BY DEF FillsAt
  <2>2. ASSUME NEW e \in R PROVE FillFor(rows, taker, e).maker # c.id
    <3>1. e.id # c.id
      BY <1>1, <1>3, <1>5, StandingFacts
    <3> QED BY <3>1 DEF FillFor
  <2> QED BY <2>1, <2>2 DEF Served
<1>7. records \in Seq(PlanOf(rows, taker))
  BY DEF FillsAt
<1>8. EffectiveRemaining(c) = c.remaining
  BY <1>4, <1>6, <1>7, NothingAllocated
<1>9. Crosses(taker, c.price)
  BY <1>3, WalkIsLoop
<1>10. c \in Makers(rows, taker) <=> c.id # taker.id /\ c.user # taker.user
  BY <1>1, <1>3, <1>9, MakersFacts
<1>11. Passed(c) <=> c \notin Makers(rows, taker)
  BY <1>4, <1>8, <1>10 DEF Passed
<1> QED BY <1>2, <1>8, <1>11 DEF c

LEMMA FillingKept ==
    IdsArePriority /\ Reading /\ Filling /\ Counting /\ [Next]_vars => Filling'
<1> SUFFICES ASSUME IdsArePriority, Reading, Filling, Counting, [Next]_vars PROVE Filling'
  OBVIOUS
<1>0. rows \in Books /\ taker \in Takers
  BY DEF Reading
<1>1. CASE Insert \/ Built \/ CountLevel
  BY <1>1 DEF Insert, Built, CountLevel, Filling, LoopComputesFills, WorthlessFillThrows
<1>2. ASSUME Counted PROVE Filling'
  <2>1. /\ phase = "volume" /\ phase' = "fills" /\ level' = 1 /\ place' = 1
        /\ remaining' = taker.qty /\ records' = << >> /\ rows' = rows /\ taker' = taker
    BY <1>2 DEF Counted, Filling
  <2>2. FillsAt(rows, taker, 1, 1, taker.qty, << >>)
    BY <1>0, FillsStart
  <2> QED BY <2>1, <2>2 DEF Filling, LoopComputesFills, WorthlessFillThrows
<1>3. ASSUME phase = "fills", rows' = rows, taker' = taker, phase' = "fills",
             FillsAt(rows, taker, level', place', remaining', records')
      PROVE  Filling'
  BY <1>3 DEF Filling, LoopComputesFills, WorthlessFillThrows
<1>4. ASSUME phase = "fills" PROVE FillsAt(rows, taker, level, place, remaining, records)
  BY <1>4 DEF Filling
<1>5. ASSUME NextLevel PROVE Filling'
  <2>1. /\ phase = "fills" /\ phase' = "fills" /\ AtLevel /\ place > Len(Queue)
        /\ level' = level + 1 /\ place' = 1
        /\ rows' = rows /\ taker' = taker /\ remaining' = remaining /\ records' = records
    BY <1>5 DEF NextLevel, Walking
  <2>2. /\ level <= Len(LevelsIn(rows, taker))
        /\ Crosses(taker, LevelsIn(rows, taker)[level])
        /\ place > Len(QueueIn(rows, taker, LevelsIn(rows, taker)[level]))
    BY <1>4, <2>1, WalkIsLoop
  <2>3. FillsAt(rows, taker, level + 1, 1, remaining, records)
    BY <1>0, <1>4, <2>1, <2>2, LevelPassed
  <2> QED BY <1>3, <2>1, <2>3
<1>6. ASSUME PassMaker PROVE Filling'
  <2>1. /\ phase = "fills" /\ phase' = "fills" /\ AtLevel /\ place <= Len(Queue)
        /\ Passed(Queue[place]) /\ level' = level /\ place' = place + 1
        /\ rows' = rows /\ taker' = taker /\ remaining' = remaining /\ records' = records
    BY <1>6 DEF PassMaker, Walking
  <2>2. PICK c : c = Queue[place]
    OBVIOUS
  <2>3. MakerAt(rows, taker, level, place, c) /\ c \notin Makers(rows, taker)
    BY <1>4, <2>1, <2>2, PassedIsNoCandidate
  <2>4. Crosses(taker, LevelsIn(rows, taker)[level])
    BY <1>4, <2>1, WalkIsLoop
  <2>5. FillsAt(rows, taker, level, place + 1, remaining, records)
    BY <1>0, <1>4, <2>1, <2>3, <2>4, MakerSkipped
  <2> QED BY <1>3, <2>1, <2>5
<1>7. ASSUME Fill PROVE Filling'
  <2>1. PICK c : c = Queue[place]
    OBVIOUS
  <2>2. PICK q : q = Least(remaining, EffectiveRemaining(c))
    OBVIOUS
  <2>3. PICK f : f = [maker |-> c.id, remaining |-> c.remaining, price |-> c.price,
                      qty |-> q]
    OBVIOUS
  <2>4. /\ phase = "fills" /\ AtLevel /\ remaining > 0 /\ place <= Len(Queue)
        /\ ~Passed(c)
        /\ rows' = rows /\ taker' = taker /\ level' = level
        /\ \/ /\ Settleable(q, c.price)
              /\ records' = Append(records, f) /\ remaining' = remaining - q
              /\ place' = place + 1 /\ phase' = "fills"
           \/ /\ ~Settleable(q, c.price) /\ phase' = "thrown"
    BY <1>7, <2>1, <2>2, <2>3 DEF Fill, Walking
  <2>5. /\ MakerAt(rows, taker, level, place, c) /\ c \in Makers(rows, taker)
        /\ q = Least(remaining, c.remaining)
    BY <1>4, <2>1, <2>2, <2>4, PassedIsNoCandidate
  <2>6. CASE Settleable(q, c.price)
    <3>1. QuoteGross(q, c.price) > 0
      BY <2>6 DEF Settleable
    <3>2. FillsAt(rows, taker, level, place + 1, remaining - q, Append(records, f))
      BY <1>0, <1>4, <2>3, <2>4, <2>5, <3>1, MakerFilled
    <3> QED BY <1>3, <2>4, <2>6, <3>2
  <2>7. CASE ~Settleable(q, c.price)
    <3>1. /\ Share(rows, taker, c) = q /\ FillFor(rows, taker, c) \in PlanOf(rows, taker)
          /\ Share(rows, taker, c) > 0
      BY <1>0, <1>4, <2>4, <2>5, MakerShare
    <3>2. FillFor(rows, taker, c).qty = q /\ FillFor(rows, taker, c).price = c.price
      BY <3>1 DEF FillFor
    <3>3. c.price \in Nat /\ q \in Nat
      <4>1. c \in Standing(rows, taker)
        BY <1>0, <2>5, MakersFacts
      <4>2. c.price \in Nat /\ q \in Int
        BY <1>0, <3>1, <4>1, ShareFacts
      <4> QED BY <3>1, <4>2
    <3>4. QuoteGross(q, c.price) = 0
      <4>1. PICK g \in Nat : g = QuoteGross(q, c.price)
        BY <3>3, WorthIsNat
      <4> QED BY <2>7, <4>1 DEF Settleable
    <3>5. Plan = PlanOf(rows, taker)
      BY DEF Plan, Book, PlanOf
    <3>6. Plan' = Plan
      BY <2>4 DEF Plan, Book
    <3>7. \E g \in Plan : QuoteGross(g.qty, g.price) = 0
      BY <3>1, <3>2, <3>4, <3>5
    <3>8. phase' = "thrown"
      BY <2>4, <2>7
    <3> QED BY <3>6, <3>7, <3>8 DEF Filling, LoopComputesFills, WorthlessFillThrows
  <2> QED BY <2>6, <2>7
<1>8. ASSUME Stop PROVE Filling'
  <2>1. /\ phase = "fills" /\ phase' = "done" /\ ~(remaining > 0 /\ AtLevel)
        /\ rows' = rows /\ taker' = taker /\ remaining' = remaining /\ records' = records
    BY <1>8 DEF Stop, Walking
  <2>2. \/ ~(remaining > 0)
        \/ ~(/\ level <= Len(LevelsIn(rows, taker))
             /\ Crosses(taker, LevelsIn(rows, taker)[level]))
    BY <1>4, <2>1, WalkIsLoop
  <2>3. /\ records = InPriority(PlanOf(rows, taker), Opposite(taker.side))
        /\ remaining = taker.qty - TotalFilled(PlanOf(rows, taker))
        /\ \A f \in PlanOf(rows, taker) : QuoteGross(f.qty, f.price) > 0
    BY <1>0, <1>4, <2>1, <2>2, FillsEnd
  <2>4. Plan = PlanOf(rows, taker)
    BY DEF Plan, Book, PlanOf
  <2>5. Plan' = Plan
    BY <2>1 DEF Plan, Book
  <2> QED BY <2>1, <2>3, <2>4, <2>5 DEF Filling, LoopComputesFills, WorthlessFillThrows
<1>9. CASE UNCHANGED vars
  <2>1. Plan' = Plan
    BY <1>9 DEF vars, Plan, Book
  <2> QED BY <1>9, <2>1 DEF vars, Filling, LoopComputesFills, WorthlessFillThrows
<1> QED BY <1>1, <1>2, <1>5, <1>6, <1>7, <1>8, <1>9 DEF Next

(* The makers the loop of computeFills fills are those of the definition   *)
(* of ComputeFills, in their priority and with its quantities, whatever    *)
(* the book and the order.                                                 *)
THEOREM LoopIsItsDefinition ==
    ASSUME IdsArePriority PROVE Spec => []LoopComputesFills
<1>1. Reading /\ Counting /\ Filling /\ [Next]_vars
        => Reading' /\ Counting' /\ Filling'
  BY ReadingKept, CountingKept, FillingKept
<1>2. Filling => LoopComputesFills
  BY DEF Filling
<1>3. Init => Reading /\ Counting /\ Filling
  BY ReadingStarts, CountingStarts, FillingStarts
<1> QED BY <1>1, <1>2, <1>3, PTL DEF Spec

(* A match that gets through has no fill that is worth nothing, and one    *)
(* that throws had one in its plan.                                        *)
THEOREM WorthlessFillsThrow ==
    ASSUME IdsArePriority PROVE Spec => []WorthlessFillThrows
<1>1. Reading /\ Counting /\ Filling /\ [Next]_vars
        => Reading' /\ Counting' /\ Filling'
  BY ReadingKept, CountingKept, FillingKept
<1>2. Filling => WorthlessFillThrows
  BY DEF Filling
<1>3. Init => Reading /\ Counting /\ Filling
  BY ReadingStarts, CountingStarts, FillingStarts
<1> QED BY <1>1, <1>2, <1>3, PTL DEF Spec
================================================================================
