----------------------------- MODULE BookLemmas -----------------------------
(***************************************************************************)
(* What the proofs have in common: least and greatest numbers, the price   *)
(* grid, sums over finite sets, and what the operators on sequences return,*)
(* position by position.                                                   *)
(***************************************************************************)
EXTENDS PriceGrid, SequencesExt, SequenceTheorems, FiniteSetTheorems, WellFoundedInduction,
        TLAPS

(* Least and greatest elements.                                            *)
LEMMA SmallestExists ==
  ASSUME NEW T \in SUBSET Nat, T # {}
  PROVE  \E m \in T : \A n \in T : m <= n
<1> DEFINE R == OpToRel(<, Nat)
<1>1. IsWellFoundedOn(R, Nat)
  BY NatLessThanWellFounded
<1>2. \A m, n \in Nat : n < m => <<n, m>> \in R
  BY DEF OpToRel
<1> HIDE DEF R
<1>3. PICK m \in T : \A n \in T : ~ (<<n, m>> \in R)
  BY <1>1, WFMin, Zenon
<1>4. ASSUME NEW n \in T PROVE m <= n
  <2>1. m \in Nat /\ n \in Nat
    OBVIOUS
  <2>2. ~ (n < m)
    BY <1>2, <1>3, <2>1
  <2> QED BY <2>1, <2>2
<1> QED BY <1>4

LEMMA LargestExists ==
  ASSUME NEW b \in Nat, NEW T \in SUBSET (0 .. b), T # {}
  PROVE  \E m \in T : \A n \in T : n <= m
<1> DEFINE U == {b - n : n \in T}
<1>1. U \in SUBSET Nat /\ U # {}
  <2>1. PICK t \in T : TRUE
    OBVIOUS
  <2>2. b - t \in U
    OBVIOUS
  <2>3. ASSUME NEW u \in U PROVE u \in Nat
    OBVIOUS
  <2> QED BY <2>2, <2>3
<1>2. PICK u \in U : \A v \in U : u <= v
  <2> HIDE DEF U
  <2> QED BY <1>1, SmallestExists
<1>3. PICK m \in T : u = b - m
  BY <1>2
<1>4. ASSUME NEW n \in T PROVE n <= m
  <2>1. b - n \in U
    OBVIOUS
  <2>2. b - m <= b - n
    BY <1>2, <1>3, <2>1
  <2>3. n \in Int /\ m \in Int
    OBVIOUS
  <2> QED BY <2>2, <2>3
<1> QED BY <1>4

-----------------------------------------------------------------------------
(* i64 division and remainder on what price_to_idx divides.                *)
LEMMA TickTimes ==
  ASSUME NEW t \in Nat \ {0}, NEW i \in Nat
  PROVE  (i * t) % t = 0 /\ (i * t) \div t = i
OBVIOUS

LEMMA TickDivides ==
  ASSUME NEW t \in Nat \ {0}, NEW n \in Nat, n % t = 0
  PROVE  (n \div t) * t = n /\ n \div t \in Nat
OBVIOUS

(* A price that price_to_idx accepts has a level of the book, idx_to_price *)
(* gives the price back and its product does not overflow: a resting order *)
(* may be stored by its level.                                             *)
THEOREM LevelsArePrices ==
  \A p \in I64 : OnGrid(p) => /\ PriceToIdx(p) \in LevelIdxs
                              /\ PriceToIdx(p) * TickSize \in I64
                              /\ IdxToPrice(PriceToIdx(p)) = p
<1> SUFFICES ASSUME NEW p \in I64, OnGrid(p)
             PROVE  /\ PriceToIdx(p) \in LevelIdxs
                    /\ PriceToIdx(p) * TickSize \in I64
                    /\ IdxToPrice(PriceToIdx(p)) = p
  OBVIOUS
<1> DEFINE off == p - MinPrice
           idx == off \div TickSize
<1>1. PriceToIdx(p) = idx /\ off \in I64 /\ ~ (off < 0) /\ off % TickSize = 0 /\ ~ (idx >= NumLevels)
  BY DEF OnGrid, PriceToIdx
<1>2. TickSize \in Nat \ {0} /\ NumLevels \in Nat /\ p \in Int /\ MinPrice \in Int
  BY GridAssumption DEF I64
<1>3. off \in Nat
  BY <1>1, <1>2
<1> HIDE DEF off
<1>4. idx * TickSize = off /\ idx \in Nat
  BY <1>1, <1>2, <1>3, TickDivides
<1> HIDE DEF idx
<1>5. idx \in LevelIdxs
  BY <1>1, <1>2, <1>4 DEF LevelIdxs
<1>6. IdxToPrice(idx) = p
  BY <1>2, <1>4 DEF IdxToPrice, off
<1> QED BY <1>1, <1>4, <1>5, <1>6

(* Every level has a price that price_to_idx accepts, as long as the       *)
(* price's distance from min_price is an i64: beyond, checked_sub turns    *)
(* away prices that would be on the grid.                                  *)
THEOREM PricesHaveLevels ==
  \A i \in LevelIdxs :
    IdxToPrice(i) - MinPrice \in I64 => PriceToIdx(IdxToPrice(i)) = i
<1> SUFFICES ASSUME NEW i \in LevelIdxs, IdxToPrice(i) - MinPrice \in I64
             PROVE  PriceToIdx(IdxToPrice(i)) = i
  OBVIOUS
<1> DEFINE off == i * TickSize
<1>1. TickSize \in Nat \ {0} /\ i \in Nat /\ i < NumLevels /\ MinPrice \in Int /\ NumLevels \in Int
  BY GridAssumption DEF LevelIdxs, I64
<1>2. off % TickSize = 0 /\ off \div TickSize = i /\ off \in Nat
  BY <1>1, TickTimes
<1> HIDE DEF off
<1>3. IdxToPrice(i) - MinPrice = off
  BY <1>1, <1>2 DEF IdxToPrice, off
<1> QED BY <1>1, <1>2, <1>3 DEF PriceToIdx

-----------------------------------------------------------------------------
(* Sums over finite sets.  SumFunctionOnSet is defined by a recursion that *)
(* takes out one element after the other, those that CHOOSE picks.         *)

Some(s) == CHOOSE x \in s : TRUE

SumEq(f, g, D) == g = [s \in D |-> IF s = {} THEN 0 ELSE f[Some(s)] + g[s \ {Some(s)}]]

UpTo(S, n) == {s \in SUBSET S : Cardinality(s) <= n}

SumFn(f, S) == CHOOSE g : SumEq(f, g, SUBSET S)

LEMMA SumUnfolds == ASSUME NEW f, NEW S PROVE SumFunctionOnSet(f, S) = SumFn(f, S)[S]
BY DEF SumFunctionOnSet, FoldFunctionOnSet, MapThenFoldSet, SumFn, SumEq, Some

LEMMA SomeIn == ASSUME NEW s, s # {} PROVE Some(s) \in s
BY DEF Some

(* Among finite sets there is one of the fewest elements.                  *)
LEMMA FewestExists ==
  ASSUME NEW F, F # {}, \A T \in F : IsFiniteSet(T)
  PROVE  \E T \in F : \A U \in F : Cardinality(T) <= Cardinality(U)
<1> DEFINE C == {Cardinality(T) : T \in F}
<1>1. C \in SUBSET Nat /\ C # {}
  BY FS_CardinalityType
<1> HIDE DEF C
<1>2. PICK m \in C : \A n \in C : m <= n
  BY <1>1, SmallestExists
<1> QED BY <1>2 DEF C

(* The recursion has a solution on the subsets of up to n elements.        *)
LEMMA SumFnUpTo ==
  ASSUME NEW f, NEW S, IsFiniteSet(S), NEW n \in Nat
  PROVE  \E g : SumEq(f, g, UpTo(S, n))
<1> DEFINE K == {k \in Nat : ~ \E g : SumEq(f, g, UpTo(S, k))}
<1>1. \A s \in SUBSET S : IsFiniteSet(s) /\ Cardinality(s) \in Nat
  BY FS_Subset, FS_CardinalityType
<1>2. \A s \in SUBSET S : s # {} => /\ Some(s) \in s
                                    /\ s \ {Some(s)} \in SUBSET S
                                    /\ Cardinality(s \ {Some(s)}) = Cardinality(s) - 1
  BY <1>1, SomeIn, FS_RemoveElement
<1>3. SUFFICES ASSUME K # {} PROVE FALSE
  OBVIOUS
<1>4. PICK m \in K : \A k \in K : m <= k
  <2>1. K \in SUBSET Nat
    OBVIOUS
  <2> HIDE DEF K
  <2> QED BY <1>3, <2>1, SmallestExists
<1>5. CASE m = 0
  <2> DEFINE g == [s \in UpTo(S, 0) |-> 0]
  <2>1. \A s \in UpTo(S, 0) : s = {}
    BY <1>1, FS_EmptySet DEF UpTo
  <2>2. SumEq(f, g, UpTo(S, 0))
    BY <2>1 DEF SumEq
  <2> QED BY <1>4, <1>5, <2>2
<1>6. CASE m # 0
  <2>1. m - 1 \in Nat /\ m - 1 \notin K /\ m \in Nat
    <3>1. m \in Nat /\ m - 1 \in Nat /\ ~ (m <= m - 1)
      BY <1>4, <1>6
    <3> HIDE DEF K
    <3> QED BY <1>4, <3>1
  <2>2. PICK g : SumEq(f, g, UpTo(S, m - 1))
    BY <2>1
  <2> DEFINE h == [s \in UpTo(S, m) |-> IF s = {} THEN 0 ELSE f[Some(s)] + g[s \ {Some(s)}]]
  <2>3. ASSUME NEW s \in UpTo(S, m - 1) PROVE s \in UpTo(S, m) /\ h[s] = g[s]
    <3>1. s \in UpTo(S, m)
      BY <1>1, <2>1 DEF UpTo
    <3>2. g[s] = IF s = {} THEN 0 ELSE f[Some(s)] + g[s \ {Some(s)}]
      BY <2>2 DEF SumEq
    <3> QED BY <3>1, <3>2
  <2>4. ASSUME NEW s \in UpTo(S, m), s # {} PROVE s \ {Some(s)} \in UpTo(S, m - 1)
    BY <1>1, <1>2, <2>1, <2>4 DEF UpTo
  <2>5. h = [s \in UpTo(S, m) |-> IF s = {} THEN 0 ELSE f[Some(s)] + h[s \ {Some(s)}]]
    <3>1. \A s \in UpTo(S, m) : s # {} => h[s \ {Some(s)}] = g[s \ {Some(s)}]
      BY <2>3, <2>4
    <3> QED BY <3>1
  <2>6. SumEq(f, h, UpTo(S, m))
    <3> HIDE DEF h
    <3> QED BY <2>5 DEF SumEq
  <2> QED BY <1>4, <2>6
<1> QED BY <1>5, <1>6

LEMMA SumFnEq == ASSUME NEW f, NEW S, IsFiniteSet(S) PROVE SumEq(f, SumFn(f, S), SUBSET S)
<1>1. PICK n \in Nat : n = Cardinality(S)
  BY FS_CardinalityType
<1>2. UpTo(S, n) = SUBSET S
  BY <1>1, FS_Subset DEF UpTo
<1>3. \E g : SumEq(f, g, UpTo(S, n))
  BY SumFnUpTo
<1>4. \E g : SumEq(f, g, SUBSET S)
  BY <1>2, <1>3
<1> QED BY <1>4 DEF SumFn

(* What a sum over a subset is does not depend on the set it is taken of.  *)
LEMMA SumFnAgree ==
  ASSUME NEW f, NEW S, IsFiniteSet(S), NEW R \in SUBSET S, NEW T \in SUBSET R
  PROVE  SumFn(f, R)[T] = SumFn(f, S)[T]
<1> DEFINE g == SumFn(f, R)
           h == SumFn(f, S)
           F == {U \in SUBSET R : g[U] # h[U]}
<1>1. IsFiniteSet(R) /\ \A U \in SUBSET R : IsFiniteSet(U) /\ Cardinality(U) \in Nat
  BY FS_Subset, FS_CardinalityType
<1>2. SumEq(f, g, SUBSET R) /\ SumEq(f, h, SUBSET S)
  BY <1>1, SumFnEq
<1> HIDE DEF g, h
<1>3. SUFFICES ASSUME F # {} PROVE FALSE
  BY DEF g, h
<1>4. PICK U \in F : \A V \in F : Cardinality(U) <= Cardinality(V)
  <2>1. \A V \in F : IsFiniteSet(V)
    BY <1>1
  <2> HIDE DEF F
  <2> QED BY <1>3, <2>1, FewestExists
<1>5. U \in SUBSET R /\ U \in SUBSET S /\ g[U] # h[U]
  BY <1>4
<1>6. /\ g[U] = IF U = {} THEN 0 ELSE f[Some(U)] + g[U \ {Some(U)}]
      /\ h[U] = IF U = {} THEN 0 ELSE f[Some(U)] + h[U \ {Some(U)}]
  BY <1>2, <1>5 DEF SumEq
<1>7. U # {}
  BY <1>5, <1>6
<1>8. Cardinality(U \ {Some(U)}) = Cardinality(U) - 1 /\ Cardinality(U) \in Nat
  BY <1>1, <1>5, <1>7, SomeIn, FS_RemoveElement
<1>9. U \ {Some(U)} \notin F
  BY <1>1, <1>4, <1>5, <1>8
<1>10. g[U \ {Some(U)}] = h[U \ {Some(U)}]
  BY <1>5, <1>9
<1> QED BY <1>5, <1>6, <1>7, <1>10

LEMMA SumEmpty == ASSUME NEW f PROVE SumFunctionOnSet(f, {}) = 0
<1>1. SumEq(f, SumFn(f, {}), SUBSET {})
  BY SumFnEq, FS_EmptySet
<1>2. {} \in SUBSET {}
  OBVIOUS
<1> QED BY <1>1, <1>2, SumUnfolds DEF SumEq

LEMMA SumSome ==
  ASSUME NEW f, NEW S, IsFiniteSet(S), S # {}
  PROVE  SumFunctionOnSet(f, S) = f[Some(S)] + SumFunctionOnSet(f, S \ {Some(S)})
<1> DEFINE R == S \ {Some(S)}
<1>1. SumEq(f, SumFn(f, S), SUBSET S)
  BY SumFnEq
<1>2. S \in SUBSET S /\ R \in SUBSET S /\ R \in SUBSET R
  OBVIOUS
<1>3. SumFn(f, S)[S] = f[Some(S)] + SumFn(f, S)[R]
  BY <1>1, <1>2 DEF SumEq
<1>4. SumFn(f, R)[R] = SumFn(f, S)[R]
  <2> HIDE DEF R
  <2> QED BY <1>2, SumFnAgree
<1> QED BY <1>3, <1>4, SumUnfolds

(* A sum of integers is what one of them adds to the sum of the others.    *)
LEMMA SumStep ==
  ASSUME NEW f, NEW S, IsFiniteSet(S), \A y \in S : f[y] \in Int
  PROVE  /\ SumFunctionOnSet(f, S) \in Int
         /\ \A x \in S : SumFunctionOnSet(f, S) = f[x] + SumFunctionOnSet(f, S \ {x})
<1> DEFINE sum(T) == SumFunctionOnSet(f, T)
           Good(T) == sum(T) \in Int /\ \A x \in T : sum(T) = f[x] + sum(T \ {x})
           F == {T \in SUBSET S : ~ Good(T)}
<1>1. \A T \in SUBSET S : IsFiniteSet(T) /\ Cardinality(T) \in Nat
  BY FS_Subset, FS_CardinalityType
<1>2. SUFFICES ASSUME F # {} PROVE FALSE
  <2>1. S \in SUBSET S /\ S \notin F
    BY <1>2
  <2> QED BY <2>1
<1>3. PICK T \in F : \A U \in F : Cardinality(T) <= Cardinality(U)
  <2>1. \A V \in F : IsFiniteSet(V)
    BY <1>1
  <2> HIDE DEF F
  <2> QED BY <1>2, <2>1, FewestExists
<1>4. T \in SUBSET S /\ ~ Good(T) /\ IsFiniteSet(T) /\ Cardinality(T) \in Nat
  BY <1>1, <1>3
<1>5. T # {}
  <2>1. ASSUME T = {} PROVE Good(T)
    BY <2>1, SumEmpty
  <2> QED BY <1>4, <2>1
<1> DEFINE c == Some(T)
<1>6. c \in T /\ c \in S /\ f[c] \in Int
  BY <1>4, <1>5, SomeIn
<1>7. sum(T) = f[c] + sum(T \ {c})
  BY <1>4, <1>5, SumSome
<1>8. ASSUME NEW x \in T PROVE Good(T \ {x})
  <2>1. Cardinality(T \ {x}) = Cardinality(T) - 1 /\ T \ {x} \in SUBSET S
    BY <1>4, FS_RemoveElement
  <2>2. T \ {x} \notin F
    <3>1. ~ (Cardinality(T) <= Cardinality(T \ {x}))
      BY <1>4, <2>1
    <3> HIDE DEF F
    <3> QED BY <1>3, <3>1
  <2> QED BY <2>1, <2>2
<1>9. sum(T) \in Int
  BY <1>6, <1>7, <1>8
<1>10. ASSUME NEW x \in T PROVE sum(T) = f[x] + sum(T \ {x})
  <2>1. CASE x = c
    BY <1>7, <2>1
  <2>2. CASE x # c
    <3>1. c \in T \ {x} /\ x \in T \ {c} /\ (T \ {c}) \ {x} = (T \ {x}) \ {c}
      BY <1>6, <2>2
    <3> DEFINE r == sum((T \ {x}) \ {c})
    <3>2. sum(T \ {c}) = f[x] + r /\ sum(T \ {x}) = f[c] + r
      BY <1>6, <1>8, <3>1
    <3>3. f[x] \in Int /\ sum(T \ {x}) \in Int /\ r \in Int
      <4>1. r \in Int
        <5>1. Cardinality((T \ {x}) \ {c}) < Cardinality(T) /\ (T \ {x}) \ {c} \in SUBSET S
          <6>1. /\ IsFiniteSet(T \ {x}) /\ Cardinality(T \ {x}) = Cardinality(T) - 1
                /\ (T \ {x}) \ {c} \in SUBSET S
            BY <1>4, FS_RemoveElement
          <6>2. Cardinality((T \ {x}) \ {c}) = Cardinality(T \ {x}) - 1
            BY <3>1, <6>1, FS_RemoveElement
          <6> QED BY <1>4, <6>1, <6>2
        <5>2. (T \ {x}) \ {c} \notin F
          <6>1. Cardinality((T \ {x}) \ {c}) \in Nat
            BY <1>1, <5>1
          <6>2. ~ (Cardinality(T) <= Cardinality((T \ {x}) \ {c}))
            BY <1>4, <5>1, <6>1
          <6> HIDE DEF F
          <6> QED BY <1>3, <6>2
        <5> QED BY <5>1, <5>2
      <4> QED BY <1>4, <1>8, <4>1
    <3> HIDE DEF r, sum, c
    <3> QED BY <1>6, <1>7, <3>2, <3>3
  <2> QED BY <2>1, <2>2
<1> QED BY <1>4, <1>9, <1>10

(* Equal summands, equal sums.                                             *)
LEMMA SumSame ==
  ASSUME NEW f, NEW g, NEW S, IsFiniteSet(S), \A y \in S : f[y] = g[y]
  PROVE  SumFunctionOnSet(f, S) = SumFunctionOnSet(g, S)
<1> DEFINE F == {T \in SUBSET S : SumFunctionOnSet(f, T) # SumFunctionOnSet(g, T)}
<1>1. \A T \in SUBSET S : IsFiniteSet(T) /\ Cardinality(T) \in Nat
  BY FS_Subset, FS_CardinalityType
<1>2. SUFFICES ASSUME F # {} PROVE FALSE
  OBVIOUS
<1>3. PICK T \in F : \A U \in F : Cardinality(T) <= Cardinality(U)
  <2>1. \A V \in F : IsFiniteSet(V)
    BY <1>1
  <2> HIDE DEF F
  <2> QED BY <1>2, <2>1, FewestExists
<1>4. /\ T \in SUBSET S /\ IsFiniteSet(T) /\ Cardinality(T) \in Nat
      /\ SumFunctionOnSet(f, T) # SumFunctionOnSet(g, T)
  BY <1>1, <1>3
<1>5. T # {}
  BY <1>4, SumEmpty
<1>6. Some(T) \in T /\ f[Some(T)] = g[Some(T)]
  BY <1>4, <1>5, SomeIn
<1>7. Cardinality(T \ {Some(T)}) = Cardinality(T) - 1
  BY <1>4, <1>6, FS_RemoveElement
<1>8. T \ {Some(T)} \notin F
  <2>1. ~ (Cardinality(T) <= Cardinality(T \ {Some(T)}))
    BY <1>4, <1>7
  <2> HIDE DEF F
  <2> QED BY <1>3, <2>1
<1>9. SumFunctionOnSet(f, T \ {Some(T)}) = SumFunctionOnSet(g, T \ {Some(T)})
  BY <1>4, <1>8
<1> QED BY <1>4, <1>5, <1>6, <1>9, SumSome

(* A one-to-one renaming of the summands keeps the sum.                    *)
LEMMA SumRenamed ==
  ASSUME NEW S, IsFiniteSet(S), NEW f, \A y \in S : f[y] \in Int,
         NEW R, IsFiniteSet(R), NEW g, NEW h \in [S -> R],
         \A y \in S : g[h[y]] = f[y],
         \A x, y \in S : h[x] = h[y] => x = y,
         \A z \in R : \E y \in S : h[y] = z
  PROVE  SumFunctionOnSet(f, S) = SumFunctionOnSet(g, R)
<1> DEFINE Img(T) == {h[y] : y \in T}
           F == {T \in SUBSET S : SumFunctionOnSet(f, T) # SumFunctionOnSet(g, Img(T))}
<1>1. \A T \in SUBSET S : IsFiniteSet(T) /\ Cardinality(T) \in Nat
  BY FS_Subset, FS_CardinalityType
<1>2. \A T \in SUBSET S : Img(T) \in SUBSET R
  OBVIOUS
<1>3. Img(S) = R
  OBVIOUS
<1>4. SUFFICES ASSUME F # {} PROVE FALSE
  <2>1. S \in SUBSET S
    OBVIOUS
  <2>2. SumFunctionOnSet(f, S) = SumFunctionOnSet(g, Img(S))
    BY <1>4, <2>1
  <2> QED BY <1>3, <2>2
<1>5. PICK T \in F : \A U \in F : Cardinality(T) <= Cardinality(U)
  <2>1. \A V \in F : IsFiniteSet(V)
    BY <1>1
  <2> HIDE DEF F
  <2> QED BY <1>4, <2>1, FewestExists
<1>6. /\ T \in SUBSET S /\ IsFiniteSet(T) /\ Cardinality(T) \in Nat
      /\ SumFunctionOnSet(f, T) # SumFunctionOnSet(g, Img(T))
  BY <1>1, <1>5
<1>7. T # {}
  <2>1. ASSUME T = {} PROVE Img(T) = {}
    BY <2>1
  <2> HIDE DEF Img
  <2> QED BY <1>6, <2>1, SumEmpty
<1> DEFINE c == Some(T)
<1>8. c \in T /\ c \in S /\ h[c] \in Img(T)
  BY <1>6, <1>7, SomeIn
<1>9. Cardinality(T \ {c}) = Cardinality(T) - 1 /\ T \ {c} \in SUBSET S
  BY <1>6, <1>8, FS_RemoveElement
<1>10. T \ {c} \notin F
  <2>1. ~ (Cardinality(T) <= Cardinality(T \ {c}))
    BY <1>6, <1>9
  <2> HIDE DEF F
  <2> QED BY <1>5, <2>1
<1>11. SumFunctionOnSet(f, T \ {c}) = SumFunctionOnSet(g, Img(T \ {c}))
  BY <1>9, <1>10
<1>12. Img(T \ {c}) = Img(T) \ {h[c]}
  BY <1>6, <1>8
<1>13. SumFunctionOnSet(f, T) = f[c] + SumFunctionOnSet(f, T \ {c})
  BY <1>6, <1>7, SumSome
<1>14. SumFunctionOnSet(g, Img(T)) = g[h[c]] + SumFunctionOnSet(g, Img(T) \ {h[c]})
  <2>1. IsFiniteSet(Img(T))
    BY <1>2, <1>6, FS_Subset
  <2>2. \A z \in Img(T) : g[z] \in Int
    BY <1>6
  <2> HIDE DEF Img
  <2> QED BY <1>8, <2>1, <2>2, SumStep
<1> HIDE DEF Img, c
<1> QED BY <1>6, <1>8, <1>11, <1>12, <1>13, <1>14

(* A sum over two disjoint sets.                                           *)
LEMMA SumUnion ==
  ASSUME NEW f, NEW S, IsFiniteSet(S), NEW R, IsFiniteSet(R), S \cap R = {},
         \A y \in S \cup R : f[y] \in Int
  PROVE  SumFunctionOnSet(f, S \cup R) = SumFunctionOnSet(f, S) + SumFunctionOnSet(f, R)
<1> DEFINE sum(T) == SumFunctionOnSet(f, T)
           F == {T \in SUBSET S : sum(T \cup R) # sum(T) + sum(R)}
<1>1. \A T \in SUBSET S : /\ IsFiniteSet(T) /\ Cardinality(T) \in Nat /\ IsFiniteSet(T \cup R)
                          /\ \A y \in T \cup R : f[y] \in Int
  BY FS_Subset, FS_CardinalityType, FS_Union
<1>2. sum(R) \in Int
  BY SumStep
<1>3. SUFFICES ASSUME F # {} PROVE FALSE
  <2>1. S \in SUBSET S /\ S \notin F
    BY <1>3
  <2> QED BY <2>1
<1>4. PICK T \in F : \A U \in F : Cardinality(T) <= Cardinality(U)
  <2>1. \A V \in F : IsFiniteSet(V)
    BY <1>1
  <2> HIDE DEF F
  <2> QED BY <1>3, <2>1, FewestExists
<1>5. /\ T \in SUBSET S /\ IsFiniteSet(T) /\ Cardinality(T) \in Nat
      /\ sum(T \cup R) # sum(T) + sum(R)
  BY <1>1, <1>4
<1>6. T # {}
  <2>1. ASSUME T = {} PROVE sum(T \cup R) = sum(R) /\ sum(T) = 0
    <3>1. T \cup R = R
      BY <2>1
    <3> QED BY <2>1, <3>1, SumEmpty
  <2> HIDE DEF sum
  <2>2. 0 + sum(R) = sum(R)
    BY <1>2
  <2> QED BY <1>5, <2>1, <2>2
<1> DEFINE c == Some(T)
<1>7. c \in T /\ c \in S /\ c \notin R /\ f[c] \in Int
  BY <1>5, <1>6, SomeIn
<1>8. Cardinality(T \ {c}) = Cardinality(T) - 1 /\ T \ {c} \in SUBSET S
  BY <1>5, <1>7, FS_RemoveElement
<1>9. T \ {c} \notin F
  <2>1. ~ (Cardinality(T) <= Cardinality(T \ {c}))
    BY <1>5, <1>8
  <2> HIDE DEF F
  <2> QED BY <1>4, <2>1
<1>10. sum((T \ {c}) \cup R) = sum(T \ {c}) + sum(R)
  BY <1>8, <1>9
<1>11. sum(T) = f[c] + sum(T \ {c}) /\ sum(T \ {c}) \in Int
  <2>1. \A y \in T : f[y] \in Int
    BY <1>5
  <2>2. IsFiniteSet(T \ {c}) /\ \A y \in T \ {c} : f[y] \in Int
    BY <1>1, <1>8
  <2>3. sum(T) = f[c] + sum(T \ {c})
    BY <1>5, <1>7, <2>1, SumStep
  <2>4. sum(T \ {c}) \in Int
    BY <2>2, SumStep
  <2> QED BY <2>3, <2>4
<1>12. sum(T \cup R) = f[c] + sum((T \ {c}) \cup R)
  <2>1. (T \cup R) \ {c} = (T \ {c}) \cup R /\ c \in T \cup R
    BY <1>7
  <2>2. IsFiniteSet(T \cup R) /\ \A y \in T \cup R : f[y] \in Int
    BY <1>1, <1>5
  <2>3. sum(T \cup R) = f[c] + sum((T \cup R) \ {c})
    BY <2>1, <2>2, SumStep
  <2> QED BY <2>1, <2>3
<1> HIDE DEF sum, c
<1> QED BY <1>2, <1>5, <1>7, <1>10, <1>11, <1>12

(* A sum of natural numbers is one, and no smaller than the sum of part.   *)
LEMMA SumNat ==
  ASSUME NEW f, NEW S, IsFiniteSet(S), \A y \in S : f[y] \in Nat, NEW R \in SUBSET S
  PROVE  /\ SumFunctionOnSet(f, S) \in Nat
         /\ SumFunctionOnSet(f, R) \in Nat
         /\ SumFunctionOnSet(f, R) <= SumFunctionOnSet(f, S)
<1> DEFINE F == {T \in SUBSET S : SumFunctionOnSet(f, T) \notin Nat}
<1>1. \A T \in SUBSET S : IsFiniteSet(T) /\ Cardinality(T) \in Nat
  BY FS_Subset, FS_CardinalityType
<1>2. ASSUME F # {} PROVE FALSE
  <2>1. PICK T \in F : \A U \in F : Cardinality(T) <= Cardinality(U)
    <3>1. \A V \in F : IsFiniteSet(V)
      BY <1>1
    <3> HIDE DEF F
    <3> QED BY <1>2, <3>1, FewestExists
  <2>2. /\ T \in SUBSET S /\ IsFiniteSet(T) /\ Cardinality(T) \in Nat
        /\ SumFunctionOnSet(f, T) \notin Nat
    BY <1>1, <2>1
  <2>3. T # {}
    BY <2>2, SumEmpty
  <2>4. Some(T) \in T /\ f[Some(T)] \in Nat
    BY <2>2, <2>3, SomeIn
  <2>5. Cardinality(T \ {Some(T)}) = Cardinality(T) - 1 /\ T \ {Some(T)} \in SUBSET S
    BY <2>2, <2>4, FS_RemoveElement
  <2>6. T \ {Some(T)} \notin F
    <3>1. ~ (Cardinality(T) <= Cardinality(T \ {Some(T)}))
      BY <2>2, <2>5
    <3> HIDE DEF F
    <3> QED BY <2>1, <3>1
  <2>7. SumFunctionOnSet(f, T \ {Some(T)}) \in Nat
    BY <2>5, <2>6
  <2> QED BY <2>2, <2>3, <2>4, <2>7, SumSome
<1>3. \A T \in SUBSET S : SumFunctionOnSet(f, T) \in Nat
  BY <1>2
<1>4. SumFunctionOnSet(f, S) = SumFunctionOnSet(f, R) + SumFunctionOnSet(f, S \ R)
  <2>1. IsFiniteSet(R) /\ IsFiniteSet(S \ R) /\ R \cap (S \ R) = {} /\ R \cup (S \ R) = S
    BY <1>1, FS_Difference
  <2>2. \A y \in R \cup (S \ R) : f[y] \in Int
    BY <2>1
  <2>3. SumFunctionOnSet(f, R \cup (S \ R)) = SumFunctionOnSet(f, R) + SumFunctionOnSet(f, S \ R)
    BY <2>1, <2>2, SumUnion
  <2> QED BY <2>1, <2>3
<1>5. S \in SUBSET S /\ S \ R \in SUBSET S
  OBVIOUS
<1>6. PICK a \in Nat, b \in Nat, c \in Nat :
        /\ a = SumFunctionOnSet(f, S)
        /\ b = SumFunctionOnSet(f, R)
        /\ c = SumFunctionOnSet(f, S \ R)
  BY <1>3, <1>5
<1>7. a = b + c
  BY <1>4, <1>6
<1>8. b <= a
  BY <1>7
<1> QED BY <1>6, <1>8

(* Zeros do not count.                                                     *)
LEMMA SumZeros ==
  ASSUME NEW f, NEW S, IsFiniteSet(S), \A y \in S : f[y] = 0
  PROVE  SumFunctionOnSet(f, S) = 0
<1> DEFINE F == {T \in SUBSET S : SumFunctionOnSet(f, T) # 0}
<1>1. \A T \in SUBSET S : IsFiniteSet(T) /\ Cardinality(T) \in Nat
  BY FS_Subset, FS_CardinalityType
<1>2. SUFFICES ASSUME F # {} PROVE FALSE
  OBVIOUS
<1>3. PICK T \in F : \A U \in F : Cardinality(T) <= Cardinality(U)
  <2>1. \A V \in F : IsFiniteSet(V)
    BY <1>1
  <2> HIDE DEF F
  <2> QED BY <1>2, <2>1, FewestExists
<1>4. T \in SUBSET S /\ IsFiniteSet(T) /\ Cardinality(T) \in Nat /\ SumFunctionOnSet(f, T) # 0
  BY <1>1, <1>3
<1>5. T # {}
  BY <1>4, SumEmpty
<1>6. Some(T) \in T /\ f[Some(T)] = 0
  BY <1>4, <1>5, SomeIn
<1>7. Cardinality(T \ {Some(T)}) = Cardinality(T) - 1
  BY <1>4, <1>6, FS_RemoveElement
<1>8. T \ {Some(T)} \notin F
  <2>1. ~ (Cardinality(T) <= Cardinality(T \ {Some(T)}))
    BY <1>4, <1>7
  <2> HIDE DEF F
  <2> QED BY <1>3, <2>1
<1>9. SumFunctionOnSet(f, T \ {Some(T)}) = 0
  BY <1>4, <1>8
<1>10. SumFunctionOnSet(f, T) = 0 + 0
  BY <1>4, <1>5, <1>6, <1>9, SumSome
<1> QED BY <1>4, <1>10

LEMMA IntervalsFinite == \A a, b \in Int : IsFiniteSet(a .. b)
BY FS_Interval

(* Sums over positions: one is taken out, one is put in, one is changed.   *)
LEMMA SumRemoved ==
  ASSUME NEW n \in Nat, NEW i \in 1 .. n, NEW f, \A j \in 1 .. n : f[j] \in Int,
         NEW g, \A j \in 1 .. n - 1 : g[j] = IF j < i THEN f[j] ELSE f[j + 1]
  PROVE  SumFunctionOnSet(g, 1 .. n - 1) = SumFunctionOnSet(f, 1 .. n) - f[i]
<1> DEFINE S == (1 .. n) \ {i}
           R == 1 .. n - 1
           h == [j \in S |-> IF j < i THEN j ELSE j - 1]
<1>1. IsFiniteSet(1 .. n) /\ IsFiniteSet(R) /\ IsFiniteSet(S)
  <2>1. IsFiniteSet(1 .. n) /\ IsFiniteSet(1 .. n - 1)
    BY IntervalsFinite
  <2> QED BY <2>1, FS_RemoveElement
<1>2. h \in [S -> R]
  OBVIOUS
<1>3. \A j \in S : f[j] \in Int /\ g[h[j]] = f[j]
  OBVIOUS
<1>4. \A j, k \in S : h[j] = h[k] => j = k
  OBVIOUS
<1>5. ASSUME NEW z \in R PROVE \E j \in S : h[j] = z
  <2>1. CASE z < i
    BY <2>1
  <2>2. CASE ~ (z < i)
    <3>1. z + 1 \in S /\ h[z + 1] = z
      BY <2>2
    <3> QED BY <3>1
  <2> QED BY <2>1, <2>2
<1>6. SumFunctionOnSet(f, S) = SumFunctionOnSet(g, R)
  <2>1. IsFiniteSet(S) /\ IsFiniteSet(R)
    BY <1>1
  <2> HIDE DEF S, R, h
  <2> QED BY <1>2, <1>3, <1>4, <1>5, <2>1, SumRenamed
<1>7. SumFunctionOnSet(f, 1 .. n) = f[i] + SumFunctionOnSet(f, S)
  <2>1. PICK T : T = 1 .. n
    OBVIOUS
  <2>2. IsFiniteSet(T) /\ i \in T /\ \A j \in T : f[j] \in Int
    BY <1>1, <2>1
  <2>3. SumFunctionOnSet(f, T) = f[i] + SumFunctionOnSet(f, T \ {i})
    BY <2>2, SumStep, ZenonT(60)
  <2> QED BY <2>1, <2>3
<1>8. SumFunctionOnSet(f, S) \in Int /\ f[i] \in Int
  <2> HIDE DEF S
  <2> QED BY <1>1, <1>3, SumStep
<1> QED BY <1>6, <1>7, <1>8

LEMMA SumInserted ==
  ASSUME NEW n \in Nat, NEW m \in 1 .. n + 1, NEW f, \A j \in 1 .. n : f[j] \in Int,
         NEW g, g[m] \in Int,
         \A j \in 1 .. n + 1 : j # m => g[j] = IF j < m THEN f[j] ELSE f[j - 1]
  PROVE  SumFunctionOnSet(g, 1 .. n + 1) = SumFunctionOnSet(f, 1 .. n) + g[m]
<1>1. n + 1 \in Nat /\ (n + 1) - 1 = n
  OBVIOUS
<1>2. ASSUME NEW j \in 1 .. n + 1 PROVE g[j] \in Int
  OBVIOUS
<1>3. ASSUME NEW j \in 1 .. n PROVE f[j] = IF j < m THEN g[j] ELSE g[j + 1]
  OBVIOUS
<1>4. SumFunctionOnSet(f, 1 .. (n + 1) - 1) = SumFunctionOnSet(g, 1 .. n + 1) - g[m]
  <2>1. PICK k \in Nat : k = n + 1
    BY <1>1
  <2>2. /\ m \in 1 .. k /\ \A j \in 1 .. k : g[j] \in Int
        /\ \A j \in 1 .. k - 1 : f[j] = IF j < m THEN g[j] ELSE g[j + 1]
    BY <1>2, <1>3, <2>1
  <2>3. SumFunctionOnSet(f, 1 .. k - 1) = SumFunctionOnSet(g, 1 .. k) - g[m]
    BY <2>2, SumRemoved
  <2> QED BY <2>1, <2>3
<1>5. SumFunctionOnSet(g, 1 .. n + 1) \in Int
  <2>1. IsFiniteSet(1 .. n + 1)
    BY IntervalsFinite
  <2> QED BY <1>2, <2>1, SumStep
<1> QED BY <1>1, <1>4, <1>5

LEMMA SumChanged ==
  ASSUME NEW S, IsFiniteSet(S), NEW i \in S, NEW f, NEW g,
         \A y \in S : f[y] \in Int /\ g[y] \in Int,
         \A y \in S \ {i} : g[y] = f[y]
  PROVE  SumFunctionOnSet(g, S) = SumFunctionOnSet(f, S) - f[i] + g[i]
<1>1. IsFiniteSet(S \ {i})
  BY FS_RemoveElement
<1>2. SumFunctionOnSet(g, S \ {i}) = SumFunctionOnSet(f, S \ {i})
  BY <1>1, SumSame
<1>3. SumFunctionOnSet(f, S) = f[i] + SumFunctionOnSet(f, S \ {i})
  BY SumStep
<1>4. SumFunctionOnSet(g, S) = g[i] + SumFunctionOnSet(g, S \ {i})
  BY SumStep
<1>5. SumFunctionOnSet(f, S \ {i}) \in Int
  BY <1>1, SumStep
<1> QED BY <1>2, <1>3, <1>4, <1>5

-----------------------------------------------------------------------------
(* Sequences.                                                              *)

(* Short ones.                                                             *)
LEMMA Singleton == ASSUME NEW S, NEW e \in S PROVE <<e>> \in Seq(S)
OBVIOUS

LEMMA Pair == ASSUME NEW S, NEW e \in S, NEW f \in S PROVE <<e, f>> \in Seq(S)
OBVIOUS

(* A slice with both ends in range.                                        *)
LEMMA SubSeqFacts ==
  ASSUME NEW S, NEW s \in Seq(S), NEW m \in 1 .. Len(s) + 1, NEW n \in m - 1 .. Len(s)
  PROVE  /\ SubSeq(s, m, n) \in Seq(S)
         /\ Len(SubSeq(s, m, n)) = n - m + 1
         /\ \A j \in 1 .. n - m + 1 : SubSeq(s, m, n)[j] = s[m + j - 1]
<1>1. Len(s) \in Nat /\ \A j \in 1 .. Len(s) : s[j] \in S
  BY LenProperties, ElementOfSeq
<1>2. m \in Int /\ n \in Int
  BY <1>1
<1>3. \A j \in m .. n : s[j] \in S
  BY <1>1, <1>2
<1>4. /\ SubSeq(s, m, n) \in Seq(S)
      /\ Len(SubSeq(s, m, n)) = IF m <= n THEN n - m + 1 ELSE 0
      /\ \A j \in 1 .. n - m + 1 : SubSeq(s, m, n)[j] = s[m + j - 1]
  BY <1>2, <1>3, SubSeqProperties
<1>5. Len(SubSeq(s, m, n)) = n - m + 1
  <2>1. CASE m <= n
    BY <2>1, <1>4, Zenon
  <2>2. CASE ~ (m <= n)
    <3>1. n - m + 1 = 0
      BY <1>1, <1>2, <2>2
    <3> QED BY <2>2, <3>1, <1>4, Zenon
  <2> QED BY <2>1, <2>2
<1> QED BY <1>4, <1>5, Zenon

(* The two slices around a gap: s without positions i + 1 .. m - 1.        *)
LEMMA AroundFacts ==
  ASSUME NEW S, NEW s \in Seq(S), NEW i \in 0 .. Len(s), NEW m \in i + 1 .. Len(s) + 1
  PROVE  /\ SubSeq(s, 1, i) \in Seq(S)
         /\ Len(SubSeq(s, 1, i)) = i
         /\ \A j \in 1 .. i : SubSeq(s, 1, i)[j] = s[j]
         /\ SubSeq(s, m, Len(s)) \in Seq(S)
         /\ Len(SubSeq(s, m, Len(s))) = Len(s) - m + 1
         /\ \A j \in 1 .. Len(s) - m + 1 : SubSeq(s, m, Len(s))[j] = s[m + j - 1]
<1>1. Len(s) \in Nat /\ i \in Int /\ m \in Int
  BY LenProperties
<1>2. 1 \in 1 .. Len(s) + 1 /\ i \in 1 - 1 .. Len(s)
  BY <1>1
<1>3. m \in 1 .. Len(s) + 1 /\ Len(s) \in m - 1 .. Len(s)
  BY <1>1
<1> DEFINE front == SubSeq(s, 1, i)
           back == SubSeq(s, m, Len(s))
<1>4. /\ front \in Seq(S)
      /\ Len(front) = i - 1 + 1
      /\ \A j \in 1 .. i - 1 + 1 : front[j] = s[1 + j - 1]
  BY <1>2, SubSeqFacts, Zenon
<1>5. /\ back \in Seq(S)
      /\ Len(back) = Len(s) - m + 1
      /\ \A j \in 1 .. Len(s) - m + 1 : back[j] = s[m + j - 1]
  BY <1>3, SubSeqFacts, Zenon
<1> HIDE DEF front, back
<1>6. Len(front) = i /\ \A j \in 1 .. i : front[j] = s[j]
  BY <1>1, <1>4
<1> QED BY <1>4, <1>5, <1>6 DEF front, back

(* Vec::remove: the elements behind i move up by one.                      *)
LEMMA RemoveAtFacts ==
  ASSUME NEW S, NEW s \in Seq(S), NEW i \in 1 .. Len(s)
  PROVE  /\ RemoveAt(s, i) \in Seq(S)
         /\ Len(RemoveAt(s, i)) = Len(s) - 1
         /\ \A j \in 1 .. Len(s) - 1 :
              RemoveAt(s, i)[j] = IF j < i THEN s[j] ELSE s[j + 1]
<1>1. Len(s) \in Nat /\ i \in Int
  BY LenProperties
<1>2. i - 1 \in 0 .. Len(s) /\ i + 1 \in (i - 1) + 1 .. Len(s) + 1
  BY <1>1
<1> DEFINE front == SubSeq(s, 1, i - 1)
           back == SubSeq(s, i + 1, Len(s))
<1>3. /\ front \in Seq(S)
      /\ Len(front) = i - 1
      /\ \A j \in 1 .. i - 1 : front[j] = s[j]
      /\ back \in Seq(S)
      /\ Len(back) = Len(s) - (i + 1) + 1
      /\ \A j \in 1 .. Len(s) - (i + 1) + 1 : back[j] = s[(i + 1) + j - 1]
  BY <1>2, AroundFacts, Zenon
<1>4. RemoveAt(s, i) = front \o back
  BY Zenon DEF RemoveAt
<1> HIDE DEF front, back
<1> DEFINE r == front \o back
<1>5. /\ r \in Seq(S)
      /\ Len(r) = Len(front) + Len(back)
      /\ \A j \in 1 .. Len(front) + Len(back) :
           r[j] = IF j <= Len(front) THEN front[j] ELSE back[j - Len(front)]
  BY <1>3, ConcatProperties, Zenon
<1> HIDE DEF r
<1>6. Len(r) = Len(s) - 1
  BY <1>1, <1>3, <1>5
<1>7. ASSUME NEW j \in 1 .. Len(s) - 1
      PROVE  r[j] = IF j < i THEN s[j] ELSE s[j + 1]
  <2>1. r[j] = IF j <= Len(front) THEN front[j] ELSE back[j - Len(front)]
    BY <1>1, <1>3, <1>5
  <2>2. CASE j < i
    BY <1>1, <1>3, <2>1, <2>2
  <2>3. CASE ~ (j < i)
    <3>1. j - Len(front) \in 1 .. Len(s) - (i + 1) + 1 /\ ~ (j <= Len(front))
      BY <1>1, <1>3, <2>3
    <3>2. (i + 1) + (j - Len(front)) - 1 = j + 1
      BY <1>1, <1>3
    <3>3. back[j - Len(front)] = s[j + 1]
      BY <1>3, <3>1, <3>2, Zenon
    <3> QED BY <2>1, <2>3, <3>1, <3>3, Zenon
  <2> QED BY <2>2, <2>3
<1> QED BY <1>4, <1>5, <1>6, <1>7, Zenon DEF r

(* Vec::insert: e takes position m, the elements from m on move down.      *)
LEMMA InsertAtFacts ==
  ASSUME NEW S, NEW s \in Seq(S), NEW e \in S, NEW m \in 1 .. Len(s) + 1
  PROVE  /\ InsertAt(s, m, e) \in Seq(S)
         /\ Len(InsertAt(s, m, e)) = Len(s) + 1
         /\ \A j \in 1 .. Len(s) + 1 :
              InsertAt(s, m, e)[j] = IF j < m THEN s[j]
                                     ELSE IF j = m THEN e ELSE s[j - 1]
<1>1. Len(s) \in Nat /\ m \in Int
  BY LenProperties
<1>2. m - 1 \in 0 .. Len(s) /\ m \in (m - 1) + 1 .. Len(s) + 1
  BY <1>1
<1> DEFINE front == SubSeq(s, 1, m - 1)
           back == SubSeq(s, m, Len(s))
           single == <<e>>
<1>3. /\ front \in Seq(S)
      /\ Len(front) = m - 1
      /\ \A j \in 1 .. m - 1 : front[j] = s[j]
      /\ back \in Seq(S)
      /\ Len(back) = Len(s) - m + 1
      /\ \A j \in 1 .. Len(s) - m + 1 : back[j] = s[m + j - 1]
  BY <1>2, AroundFacts, Zenon
<1>4. single \in Seq(S) /\ Len(single) = 1 /\ single[1] = e
  OBVIOUS
<1> DEFINE frontE == front \o single
           r == frontE \o back
<1>5. InsertAt(s, m, e) = r
  BY Zenon DEF InsertAt
<1> HIDE DEF front, back, single
<1>6. /\ frontE \in Seq(S)
      /\ Len(frontE) = Len(front) + Len(single)
      /\ \A j \in 1 .. Len(front) + Len(single) :
           frontE[j] = IF j <= Len(front) THEN front[j] ELSE single[j - Len(front)]
  BY <1>3, <1>4, ConcatProperties, Zenon
<1> HIDE DEF frontE
<1>7. Len(frontE) = m /\ \A j \in 1 .. m : frontE[j] = IF j < m THEN s[j] ELSE e
  <2>1. Len(frontE) = m
    BY <1>1, <1>3, <1>4, <1>6
  <2>2. ASSUME NEW j \in 1 .. m
        PROVE  frontE[j] = IF j < m THEN s[j] ELSE e
    <3>1. frontE[j] = IF j <= m - 1 THEN front[j] ELSE single[j - (m - 1)]
      BY <1>1, <1>3, <1>4, <1>6
    <3>2. CASE j < m
      BY <1>1, <1>3, <3>1, <3>2
    <3>3. CASE j = m
      BY <1>1, <1>4, <3>1, <3>3
    <3> QED BY <1>1, <3>2, <3>3
  <2> QED BY <2>1, <2>2
<1>8. /\ r \in Seq(S)
      /\ Len(r) = Len(frontE) + Len(back)
      /\ \A j \in 1 .. Len(frontE) + Len(back) :
           r[j] = IF j <= Len(frontE) THEN frontE[j] ELSE back[j - Len(frontE)]
  <2>1. frontE \in Seq(S) /\ back \in Seq(S)
    BY <1>3, <1>6
  <2> QED BY <2>1, ConcatProperties, Zenon
<1> HIDE DEF r
<1>9. Len(r) = Len(s) + 1
  BY <1>1, <1>3, <1>7, <1>8
<1>10. ASSUME NEW j \in 1 .. Len(s) + 1
       PROVE  r[j] = IF j < m THEN s[j] ELSE IF j = m THEN e ELSE s[j - 1]
  <2>1. r[j] = IF j <= m THEN frontE[j] ELSE back[j - m]
    BY <1>1, <1>3, <1>7, <1>8
  <2>2. CASE j <= m
    BY <1>1, <1>7, <2>1, <2>2
  <2>3. CASE ~ (j <= m)
    <3>1. /\ j - m \in 1 .. Len(s) - m + 1
          /\ ~ (j < m) /\ j # m
          /\ m + (j - m) - 1 = j - 1
      BY <1>1, <2>3
    <3>2. back[j - m] = s[j - 1]
      BY <1>3, <3>1, Zenon
    <3> QED BY <2>1, <2>3, <3>1, <3>2, Zenon
  <2> QED BY <2>2, <2>3
<1> QED BY <1>5, <1>8, <1>9, <1>10, Zenon

(* Taking the front is removing position 1.                                *)
LEMMA TailIsRemoveAt ==
  ASSUME NEW S, NEW s \in Seq(S), s # <<>>
  PROVE  Tail(s) = RemoveAt(s, 1)
<1>1. Len(s) \in Nat /\ Len(s) > 0 /\ 1 \in 1 .. Len(s)
  BY EmptySeq, LenProperties
<1>2. /\ Tail(s) \in Seq(S)
      /\ Len(Tail(s)) = Len(s) - 1
      /\ \A i \in 1 .. Len(Tail(s)) : Tail(s)[i] = s[i + 1]
  BY HeadTailProperties
<1>3. /\ RemoveAt(s, 1) \in Seq(S)
      /\ Len(RemoveAt(s, 1)) = Len(s) - 1
      /\ \A j \in 1 .. Len(s) - 1 :
           RemoveAt(s, 1)[j] = IF j < 1 THEN s[j] ELSE s[j + 1]
  BY <1>1, RemoveAtFacts
<1>4. \A i \in 1 .. Len(Tail(s)) : Tail(s)[i] = RemoveAt(s, 1)[i]
  BY <1>1, <1>2, <1>3
<1> QED BY <1>2, <1>3, <1>4, SeqEqual

=============================================================================
