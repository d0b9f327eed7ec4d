----------------------------- MODULE BitmapProofs -----------------------------
(***************************************************************************)
(* OccupancyBitmap is the set of levels that OrderBook takes it for, for   *)
(* every grid and every word size.                                         *)
(***************************************************************************)
EXTENDS OccupancyBitmap, BookLemmas

(* No bit beyond the last level is ever set.                               *)
Fits == \A w \in 0 .. LastWord : \A b \in words[w] : w * W + b \in LevelIdxs

IInv == /\ TypeOK
        /\ Fits
        /\ entered \subseteq {p \in I64 : OnGrid(p)}
        /\ Occupied = {PriceToIdx(p) : p \in entered}

-----------------------------------------------------------------------------
(* A level is a word and a bit of it.                                      *)

LEMMA WordSize == W \in Nat \ {0} /\ NumLevels \in Nat \ {0} /\ LevelIdxs \subseteq Nat
BY BitmapAssumption, GridAssumption DEF LevelIdxs

LEMMA Split ==
  ASSUME NEW n \in Nat
  PROVE  n \div W \in Nat /\ n % W \in Bits /\ n = (n \div W) * W + (n % W)
BY WordSize DEF Bits

LEMMA Joined ==
  ASSUME NEW w \in Nat, NEW b \in Bits
  PROVE  w * W + b \in Nat /\ (w * W + b) \div W = w /\ (w * W + b) % W = b
BY WordSize DEF Bits

(* Levels are ordered by their words first.                                *)
LEMMA Lexicographic ==
  ASSUME NEW v \in Nat, NEW w \in Nat, NEW b \in Bits, NEW c \in Bits
  PROVE  v * W + b < w * W + c <=> v < w \/ (v = w /\ b < c)
<1>1. W \in Nat /\ b \in Nat /\ c \in Nat /\ b < W /\ c < W
  BY WordSize DEF Bits
<1>2. ASSUME NEW x \in Nat, NEW y \in Nat, x < y PROVE x * W + W <= y * W
  <2>1. PICK d \in Nat : y = x + 1 + d
    <3>1. y - x - 1 \in Nat /\ y = x + 1 + (y - x - 1)
      BY <1>2
    <3> QED BY <3>1
  <2>2. y * W = x * W + W + d * W /\ d * W \in Nat /\ x * W \in Nat
    BY <1>1, <2>1
  <2> QED BY <1>1, <2>2
<1>3. v < w => v * W + W <= w * W
  BY <1>2
<1>4. w < v => w * W + W <= v * W
  BY <1>2
<1> DEFINE vW == v * W
           wW == w * W
<1>5. vW \in Nat /\ wW \in Nat /\ (v = w => vW = wW)
  BY <1>1
<1>6. (v < w => vW + W <= wW) /\ (w < v => wW + W <= vW)
  BY <1>3, <1>4
<1> HIDE DEF vW, wW
<1>7. vW + b < wW + c <=> v < w \/ (v = w /\ b < c)
  BY <1>1, <1>5, <1>6
<1> QED BY <1>7 DEF vW, wW

(* Every level has a word, and every word but its first bit has a level.   *)
LEMMA WordsOfLevels ==
  /\ LastWord \in Nat
  /\ \A l \in LevelIdxs : l \in Nat /\ l \div W \in 0 .. LastWord /\ l % W \in Bits
<1>1. PICK n \in Nat : n = NumLevels - 1
  BY WordSize
<1>2. n \div W \in Nat /\ n % W \in Bits /\ n = (n \div W) * W + (n % W)
  BY <1>1, Split
<1>3. PICK q \in Nat, r \in Bits : q = n \div W /\ r = n % W
  BY <1>2
<1>4. NumLevels + W - 1 = (q + 1) * W + r
  BY <1>1, <1>2, <1>3, WordSize DEF Bits
<1>5. (NumLevels + W - 1) \div W = q + 1
  <2>1. q + 1 \in Nat
    OBVIOUS
  <2>2. ((q + 1) * W + r) \div W = q + 1
    BY <2>1, Joined
  <2> QED BY <1>4, <2>2
<1>6. LastWord = q
  BY <1>5 DEF LastWord, NumWords
<1>7. ASSUME NEW l \in LevelIdxs PROVE l \in Nat /\ l \div W \in 0 .. q /\ l % W \in Bits
  <2>1. l \in Nat /\ l <= n
    BY <1>1, WordSize DEF LevelIdxs
  <2>2. l \div W \in Nat /\ l % W \in Bits /\ l = (l \div W) * W + (l % W)
    BY <2>1, Split
  <2>3. PICK v \in Nat, b \in Bits : v = l \div W /\ b = l % W
    BY <2>2
  <2>4. ~ (q * W + r < v * W + b)
    BY <1>2, <1>3, <2>1, <2>2, <2>3
  <2>5. ~ (q < v)
    BY <2>4, Lexicographic
  <2> QED BY <2>1, <2>2, <2>3, <2>5
<1> QED BY <1>6, <1>7

LEMMA SameBit ==
  ASSUME NEW l \in LevelIdxs, NEW m \in LevelIdxs, l \div W = m \div W, l % W = m % W
  PROVE  l = m
<1>1. l = (l \div W) * W + (l % W) /\ m = (m \div W) * W + (m % W)
  BY WordSize, Split
<1> QED BY <1>1

-----------------------------------------------------------------------------
(* Setting and clearing a bit.                                             *)

LEMMA SetBitSets ==
  ASSUME words \in [0 .. LastWord -> SUBSET Bits], Fits, NEW l \in LevelIdxs, SetBit(l)
  PROVE  words' \in [0 .. LastWord -> SUBSET Bits] /\ Fits' /\ Occupied' = Occupied \cup {l}
<1>1. l \div W \in 0 .. LastWord /\ l % W \in Bits
  BY WordsOfLevels
<1>2. PICK w \in 0 .. LastWord, b \in Bits : w = l \div W /\ b = l % W
  BY <1>1
<1>3. words' = [words EXCEPT ![w] = words[w] \cup {b}]
  BY <1>2 DEF SetBit
<1>4. words' \in [0 .. LastWord -> SUBSET Bits]
  BY <1>2, <1>3
<1>5. Fits'
  <2>1. w * W + b = l
    BY <1>2, WordSize, Split
  <2>2. ASSUME NEW v \in 0 .. LastWord, NEW c \in words'[v] PROVE v * W + c \in LevelIdxs
    BY <1>3, <2>1, <2>2 DEF Fits
  <2> QED BY <2>2 DEF Fits
<1>6. ASSUME NEW m \in LevelIdxs PROVE Bit(m)' <=> Bit(m) \/ m = l
  <2>1. m \div W \in 0 .. LastWord
    BY WordsOfLevels
  <2>2. PICK v, c : v \in 0 .. LastWord /\ v = m \div W /\ c = m % W
    BY <2>1
  <2>3. m = l <=> v = w /\ c = b
    BY <1>2, <2>2, SameBit
  <2>4. c \in words'[v] <=> c \in words[v] \/ (v = w /\ c = b)
    BY <1>3
  <2> QED BY <2>2, <2>3, <2>4 DEF Bit
<1>7. Occupied' = Occupied \cup {l}
  BY <1>6 DEF Occupied
<1> QED BY <1>4, <1>5, <1>7

LEMMA ClearBitClears ==
  ASSUME words \in [0 .. LastWord -> SUBSET Bits], Fits, NEW l \in LevelIdxs, ClearBit(l)
  PROVE  words' \in [0 .. LastWord -> SUBSET Bits] /\ Fits' /\ Occupied' = Occupied \ {l}
<1>1. l \div W \in 0 .. LastWord /\ l % W \in Bits
  BY WordsOfLevels
<1>2. PICK w \in 0 .. LastWord, b \in Bits : w = l \div W /\ b = l % W
  BY <1>1
<1>3. words' = [words EXCEPT ![w] = words[w] \ {b}]
  BY <1>2 DEF ClearBit
<1>4. words' \in [0 .. LastWord -> SUBSET Bits]
  BY <1>2, <1>3
<1>5. Fits'
  BY <1>3 DEF Fits
<1>6. ASSUME NEW m \in LevelIdxs PROVE Bit(m)' <=> Bit(m) /\ m # l
  <2>1. m \div W \in 0 .. LastWord
    BY WordsOfLevels
  <2>2. PICK v, c : v \in 0 .. LastWord /\ v = m \div W /\ c = m % W
    BY <2>1
  <2>3. m = l <=> v = w /\ c = b
    BY <1>2, <2>2, SameBit
  <2>4. c \in words'[v] <=> c \in words[v] /\ ~ (v = w /\ c = b)
    BY <1>3, <2>2
  <2> QED BY <2>2, <2>3, <2>4 DEF Bit
<1>7. Occupied' = Occupied \ {l}
  BY <1>6 DEF Occupied
<1> QED BY <1>4, <1>5, <1>7

LEMMA InitInv == Init => IInv
<1> SUFFICES ASSUME Init PROVE IInv
  OBVIOUS
<1>1. words = [w \in 0 .. LastWord |-> {}] /\ entered = {}
  BY DEF Init
<1>2. \A l \in LevelIdxs : ~ Bit(l)
  BY <1>1, WordsOfLevels DEF Bit
<1> QED BY <1>1, <1>2 DEF IInv, TypeOK, Fits, Occupied

LEMMA NextInv == ASSUME IInv, [Next]_<<words, entered>> PROVE IInv'
<1>1. /\ words \in [0 .. LastWord -> SUBSET Bits] /\ Fits
      /\ entered \subseteq {p \in I64 : OnGrid(p)} /\ Occupied = {PriceToIdx(p) : p \in entered}
  BY DEF IInv, TypeOK
<1>2. ASSUME NEW p \in I64, Enter(p) PROVE IInv'
  <2>1. OnGrid(p) /\ SetBit(PriceToIdx(p)) /\ entered' = entered \cup {p}
    BY <1>2 DEF Enter
  <2>2. PriceToIdx(p) \in LevelIdxs
    BY <2>1, LevelsArePrices
  <2>3. words' \in [0 .. LastWord -> SUBSET Bits] /\ Fits' /\ Occupied' = Occupied \cup {PriceToIdx(p)}
    BY <1>1, <2>1, <2>2, SetBitSets
  <2>4. entered' \subseteq {r \in I64 : OnGrid(r)}
    BY <1>1, <2>1
  <2>5. Occupied' = {PriceToIdx(r) : r \in entered'}
    BY <1>1, <2>1, <2>3
  <2> QED BY <2>3, <2>4, <2>5 DEF IInv, TypeOK
<1>3. ASSUME NEW p \in I64, Leave(p) PROVE IInv'
  <2>1. p \in entered /\ ClearBit(PriceToIdx(p)) /\ entered' = entered \ {p} /\ OnGrid(p)
    BY <1>1, <1>3 DEF Leave
  <2>2. PriceToIdx(p) \in LevelIdxs
    BY <2>1, LevelsArePrices
  <2>3. words' \in [0 .. LastWord -> SUBSET Bits] /\ Fits' /\ Occupied' = Occupied \ {PriceToIdx(p)}
    BY <1>1, <2>1, <2>2, ClearBitClears
  <2>4. entered' \subseteq {r \in I64 : OnGrid(r)}
    BY <1>1, <2>1
  <2>5. ASSUME NEW r \in entered, PriceToIdx(r) = PriceToIdx(p) PROVE r = p
    <3>1. r \in I64 /\ OnGrid(r)
      BY <1>1
    <3>2. IdxToPrice(PriceToIdx(r)) = r /\ IdxToPrice(PriceToIdx(p)) = p
      BY <2>1, <3>1, LevelsArePrices
    <3> QED BY <2>5, <3>2
  <2>6. Occupied' = {PriceToIdx(r) : r \in entered'}
    BY <1>1, <2>1, <2>3, <2>5
  <2> QED BY <2>3, <2>4, <2>6 DEF IInv, TypeOK
<1>4. CASE UNCHANGED <<words, entered>>
  BY <1>1, <1>4 DEF IInv, TypeOK, Fits, Occupied, Bit
<1> QED BY <1>2, <1>3, <1>4 DEF Next

LEMMA Inductive == Spec => []IInv
BY InitInv, NextInv, PTL DEF Spec

(* The levels whose bits are set read back, through idx_to_price, as the   *)
(* prices that were entered and have not left, and no bit stands for a     *)
(* price that the grid turned away (price_to_idx, config.rs).              *)
THEOREM LevelsReadBack == Spec => []LevelsReadBackAsPrices
<1>1. ASSUME IInv PROVE LevelsReadBackAsPrices
  <2>1. entered \subseteq {p \in I64 : OnGrid(p)} /\ Occupied = {PriceToIdx(p) : p \in entered}
    BY <1>1 DEF IInv
  <2>2. \A p \in entered : IdxToPrice(PriceToIdx(p)) = p
    BY <2>1, LevelsArePrices
  <2> QED BY <2>1, <2>2 DEF LevelsReadBackAsPrices
<1>2. IInv => LevelsReadBackAsPrices
  BY <1>1
<1> QED BY <1>2, Inductive, PTL

-----------------------------------------------------------------------------
(* The scans.                                                              *)

LEMMA MaxIs ==
  ASSUME NEW S \in SUBSET Nat, NEW x \in S, \A y \in S : y <= x
  PROVE  Max(S) = x
<1>1. \A y \in S : x >= y /\ (y >= x => y = x)
  BY SMT
<1> QED BY <1>1 DEF Max

LEMMA MinIs ==
  ASSUME NEW S \in SUBSET Nat, NEW x \in S, \A y \in S : x <= y
  PROVE  Min(S) = x
<1>1. \A y \in S : x <= y /\ (y <= x => y = x)
  BY SMT
<1> QED BY <1>1 DEF Min

(* The words of R, masked to M, hold exactly the levels of T.              *)
Covers(R, M, T) == /\ \A w \in R : \A b \in M[w] : w * W + b \in T
                   /\ \A m \in T : m \div W \in R /\ m % W \in M[m \div W]

LEMMA NoBitNoLevel ==
  ASSUME NEW R \in SUBSET Nat, NEW M \in [R -> SUBSET Bits], NEW T \in SUBSET LevelIdxs,
         Covers(R, M, T)
  PROVE  {w \in R : M[w] # {}} = {} <=> T = {}
BY DEF Covers

(* What a scan answers, put together from the words it stops at.           *)
EndsHigh(R, M, T, hits) == Max(hits) \in R /\ Max(hits) * W + Max(M[Max(hits)]) = Max(T)
EndsLow(R, M, T, hits) == Min(hits) \in R /\ Min(hits) * W + Min(M[Min(hits)]) = Min(T)

(* The greatest bit of the greatest word that has one is the greatest      *)
(* level.                                                                  *)
LEMMA GreatestBit ==
  ASSUME NEW R \in SUBSET Nat, NEW M \in [R -> SUBSET Bits], NEW T \in SUBSET LevelIdxs,
         Covers(R, M, T), NEW hits, \A w : w \in hits <=> w \in R /\ M[w] # {}, T # {}
  PROVE  EndsHigh(R, M, T, hits)
<1>1. T \in SUBSET (0 .. NumLevels - 1) /\ NumLevels - 1 \in Nat
  BY WordSize DEF LevelIdxs
<1>2. PICK g \in T : \A m \in T : m <= g
  BY <1>1, LargestExists
<1>3. g \in Nat /\ \A m \in T : m \in Nat
  BY <1>1
<1>4. g = (g \div W) * W + (g % W) /\ g \div W \in R /\ g % W \in M[g \div W]
  BY <1>3, Split DEF Covers
<1>5. PICK v, c : v \in R /\ c \in M[v] /\ v = g \div W /\ c = g % W
  BY <1>4
<1>6. v \in Nat /\ c \in Bits /\ c \in Nat /\ g = v * W + c
  BY <1>4, <1>5 DEF Bits
<1>7. ASSUME NEW w \in R, NEW b \in M[w] PROVE w < v \/ (w = v /\ b <= c)
  <2>1. w \in Nat /\ b \in Bits /\ b \in Nat
    BY DEF Bits
  <2>2. w * W + b \in T
    BY DEF Covers
  <2>3. ~ (v * W + c < w * W + b)
    <3>1. PICK m : m = w * W + b
      OBVIOUS
    <3>2. m \in T /\ m \in Nat /\ m <= g
      BY <1>2, <1>3, <2>2, <3>1
    <3> QED BY <1>3, <1>6, <3>1, <3>2
  <2>4. ~ (v < w \/ (v = w /\ c < b))
    BY <1>6, <2>1, <2>3, Lexicographic
  <2> QED BY <1>6, <2>1, <2>4
<1>8. v \in hits /\ \A w \in hits : w <= v
  <2>1. ASSUME NEW w \in hits PROVE w <= v
    <3>1. w \in R /\ w \in Nat /\ M[w] # {}
      OBVIOUS
    <3>2. PICK b : b \in M[w]
      BY <3>1
    <3> QED BY <1>6, <1>7, <3>1, <3>2
  <2>2. v \in hits
    BY <1>5
  <2> QED BY <2>1, <2>2
<1>9. Max(hits) = v
  BY <1>8, MaxIs
<1>10. Max(M[v]) = c
  <2>1. M[v] \in SUBSET Nat
    BY <1>5, WordSize DEF Bits
  <2>2. \A b \in M[v] : b <= c
    BY <1>5, <1>6, <1>7
  <2> QED BY <1>5, <2>1, <2>2, MaxIs
<1>11. Max(T) = g
  BY <1>1, <1>2, <1>3, MaxIs
<1> QED BY <1>5, <1>6, <1>9, <1>10, <1>11 DEF EndsHigh

LEMMA LeastBit ==
  ASSUME NEW R \in SUBSET Nat, NEW M \in [R -> SUBSET Bits], NEW T \in SUBSET LevelIdxs,
         Covers(R, M, T), NEW hits, \A w : w \in hits <=> w \in R /\ M[w] # {}, T # {}
  PROVE  EndsLow(R, M, T, hits)
<1>1. T \in SUBSET Nat
  BY WordSize
<1>2. PICK g \in T : \A m \in T : g <= m
  BY <1>1, SmallestExists
<1>3. g \in Nat /\ \A m \in T : m \in Nat
  BY <1>1
<1>4. g = (g \div W) * W + (g % W) /\ g \div W \in R /\ g % W \in M[g \div W]
  BY <1>3, Split DEF Covers
<1>5. PICK v, c : v \in R /\ c \in M[v] /\ v = g \div W /\ c = g % W
  BY <1>4
<1>6. v \in Nat /\ c \in Bits /\ c \in Nat /\ g = v * W + c
  BY <1>4, <1>5 DEF Bits
<1>7. ASSUME NEW w \in R, NEW b \in M[w] PROVE v < w \/ (w = v /\ c <= b)
  <2>1. w \in Nat /\ b \in Bits /\ b \in Nat
    BY DEF Bits
  <2>2. w * W + b \in T
    BY DEF Covers
  <2>3. ~ (w * W + b < v * W + c)
    <3>1. PICK m : m = w * W + b
      OBVIOUS
    <3>2. m \in T /\ m \in Nat /\ g <= m
      BY <1>2, <1>3, <2>2, <3>1
    <3> QED BY <1>3, <1>6, <3>1, <3>2
  <2>4. ~ (w < v \/ (w = v /\ b < c))
    BY <1>6, <2>1, <2>3, Lexicographic
  <2> QED BY <1>6, <2>1, <2>4
<1>8. v \in hits /\ \A w \in hits : v <= w
  <2>1. ASSUME NEW w \in hits PROVE v <= w
    <3>1. w \in R /\ w \in Nat /\ M[w] # {}
      OBVIOUS
    <3>2. PICK b : b \in M[w]
      BY <3>1
    <3> QED BY <1>6, <1>7, <3>1, <3>2
  <2>2. v \in hits
    BY <1>5
  <2> QED BY <2>1, <2>2
<1>9. Min(hits) = v
  BY <1>8, MinIs
<1>10. Min(M[v]) = c
  <2>1. M[v] \in SUBSET Nat
    BY <1>5, WordSize DEF Bits
  <2>2. \A b \in M[v] : c <= b
    BY <1>5, <1>6, <1>7
  <2> QED BY <1>5, <2>1, <2>2, MinIs
<1>11. Min(T) = g
  BY <1>1, <1>2, MinIs
<1> QED BY <1>5, <1>6, <1>9, <1>10, <1>11 DEF EndsLow

(* How a level compares with the one a scan starts from.                   *)
LEMMA ComparedByWords ==
  ASSUME NEW l \in LevelIdxs, NEW w \in Nat, NEW b \in Bits
  PROVE  /\ w * W + b < l <=> w < l \div W \/ (w = l \div W /\ b < l % W)
         /\ l < w * W + b <=> l \div W < w \/ (w = l \div W /\ l % W < b)
<1>1. PICK v \in Nat, c \in Bits : v = l \div W /\ c = l % W /\ l = v * W + c
  BY WordSize, Split
<1> QED BY <1>1, Lexicographic

LEMMA BelowIs ==
  ASSUME IInv, NEW l \in LevelIdxs, NEW T, T = {m \in Occupied : m < l}
  PROVE  NextOccupiedBelow(l) = IF T = {} THEN NIL ELSE Max(T)
<1>1. words \in [0 .. LastWord -> SUBSET Bits] /\ Fits
  BY DEF IInv, TypeOK
<1>2. PICK v \in 0 .. LastWord, c \in Bits : v = l \div W /\ c = l % W
  BY WordsOfLevels
<1>3. v \in Nat /\ c \in Nat /\ LastWord \in Nat
  BY WordsOfLevels DEF Bits
<1> DEFINE R == 0 .. v
           M == [w \in R |-> IF w = v THEN words[w] \cap 0 .. c - 1 ELSE words[w]]
           hits == {w \in R : M[w] # {}}
<1>4. R \subseteq 0 .. LastWord /\ R \in SUBSET Nat /\ M \in [R -> SUBSET Bits]
  BY <1>1, <1>3
<1>5. T \in SUBSET LevelIdxs
  BY DEF Occupied
<1>6. Covers(R, M, T)
  <2>1. ASSUME NEW w \in R, NEW b \in M[w] PROVE w * W + b \in T
    <3>1. w \in 0 .. LastWord /\ w \in Nat /\ b \in words[w] /\ b \in Bits /\ b \in Nat
          /\ (w = v => b < c) /\ w <= v
      BY <1>1, <1>3, <1>4 DEF Bits
    <3>2. w * W + b \in LevelIdxs /\ Bit(w * W + b)
      BY <1>1, <3>1, Joined DEF Fits, Bit
    <3>3. w * W + b < l
      BY <1>2, <1>3, <3>1, ComparedByWords
    <3> QED BY <3>2, <3>3 DEF Occupied
  <2>2. ASSUME NEW m \in T PROVE m \div W \in R /\ m % W \in M[m \div W]
    <3>1. m \in LevelIdxs /\ m < l /\ Bit(m)
      BY DEF Occupied
    <3>2. PICK w \in 0 .. LastWord, b \in Bits : w = m \div W /\ b = m % W
      BY <3>1, WordsOfLevels
    <3>3. m = w * W + b /\ w \in Nat /\ b \in Nat /\ b \in words[w]
      BY <3>1, <3>2, WordSize, Split, WordsOfLevels DEF Bit, Bits
    <3>4. w < v \/ (w = v /\ b < c)
      BY <1>2, <3>1, <3>3, ComparedByWords
    <3>5. w \in R /\ b \in M[w]
      BY <1>3, <3>3, <3>4
    <3> QED BY <3>2, <3>5
  <2> HIDE DEF R, M
  <2> QED BY <2>1, <2>2 DEF Covers
<1>7. NextOccupiedBelow(l) = IF hits = {} THEN NIL ELSE Max(hits) * W + Max(IF Max(hits) = v THEN words[Max(hits)] \cap 0 .. c - 1 ELSE words[Max(hits)])
  <2>1. hits = {w \in 0 .. v : (IF w = v THEN words[w] \cap 0 .. c - 1 ELSE words[w]) # {}}
    OBVIOUS
  <2> HIDE DEF hits
  <2> QED BY <1>2, <2>1, Zenon DEF NextOccupiedBelow
<1>8. Max(hits) \in R => M[Max(hits)] = IF Max(hits) = v THEN words[Max(hits)] \cap 0 .. c - 1 ELSE words[Max(hits)]
  <2>1. \A x \in R : M[x] = IF x = v THEN words[x] \cap 0 .. c - 1 ELSE words[x]
    OBVIOUS
  <2> HIDE DEF hits, M, R
  <2> QED BY <2>1
<1>9. hits = {w \in R : M[w] # {}}
  OBVIOUS
<1> HIDE DEF R, M, hits
<1>10. hits = {} <=> T = {}
  BY <1>4, <1>5, <1>6, <1>9, NoBitNoLevel
<1>11. ASSUME T # {} PROVE Max(hits) \in R /\ Max(hits) * W + Max(M[Max(hits)]) = Max(T)
  <2>1. \A w : w \in hits <=> w \in R /\ M[w] # {}
    BY <1>9
  <2>2. R \in SUBSET Nat /\ M \in [R -> SUBSET Bits] /\ T \in SUBSET LevelIdxs /\ Covers(R, M, T)
    BY <1>4, <1>5, <1>6
  <2>3. EndsHigh(R, M, T, hits)
    BY <1>11, <2>1, <2>2, GreatestBit
  <2> QED BY <2>3 DEF EndsHigh
<1> QED BY <1>7, <1>8, <1>10, <1>11

LEMMA AboveIs ==
  ASSUME IInv, NEW l \in LevelIdxs, NEW T, T = {m \in Occupied : m > l}
  PROVE  NextOccupiedAbove(l) = IF T = {} THEN NIL ELSE Min(T)
<1>1. words \in [0 .. LastWord -> SUBSET Bits] /\ Fits
  BY DEF IInv, TypeOK
<1>2. PICK v \in 0 .. LastWord, c \in Bits : v = l \div W /\ c = l % W
  BY WordsOfLevels
<1>3. v \in Nat /\ c \in Nat /\ c < W /\ LastWord \in Nat /\ W \in Nat
  BY WordsOfLevels, WordSize DEF Bits
<1> DEFINE first == IF c = W - 1 THEN {} ELSE words[v] \cap OnesFrom(c + 1)
           R == v .. LastWord
           M == [w \in R |-> IF w = v THEN first ELSE words[w]]
           hits == {w \in R : M[w] # {}}
<1>4. first = {b \in words[v] : b > c}
  <2>1. words[v] \in SUBSET Bits /\ \A b \in Bits : b \in Nat /\ b <= W - 1
    BY <1>1, <1>3 DEF Bits
  <2>2. CASE c = W - 1
    <3>1. \A b \in Bits : ~ (b > c)
      BY <1>3, <2>1, <2>2
    <3> QED BY <2>1, <2>2, <3>1
  <2>3. CASE c # W - 1
    <3>1. c + 1 \in Nat /\ c + 1 < W
      BY <1>3, <2>3
    <3>2. (c + 1) % W = c + 1
      BY <1>3, <3>1
    <3>3. \A b \in Bits : b \in OnesFrom(c + 1) <=> b > c
      BY <1>3, <2>1, <3>2 DEF OnesFrom
    <3> QED BY <2>1, <2>3, <3>3
  <2> QED BY <2>2, <2>3
<1>5. R \subseteq 0 .. LastWord /\ R \in SUBSET Nat /\ M \in [R -> SUBSET Bits]
  <2>1. R \subseteq 0 .. LastWord /\ R \in SUBSET Nat /\ first \in SUBSET Bits
    BY <1>1, <1>3, <1>4
  <2> HIDE DEF first, R
  <2> QED BY <1>1, <2>1
<1>6. T \in SUBSET LevelIdxs
  BY DEF Occupied
<1>7. Covers(R, M, T)
  <2>1. ASSUME NEW w \in R, NEW b \in M[w] PROVE w * W + b \in T
    <3>1. w \in 0 .. LastWord /\ w \in Nat /\ b \in words[w] /\ (w = v => b > c) /\ v <= w
      <4> HIDE DEF first
      <4> QED BY <1>3, <1>4
    <3>2. b \in Bits /\ b \in Nat
      BY <1>1, <3>1 DEF Bits
    <3>3. w * W + b \in LevelIdxs /\ Bit(w * W + b)
      BY <1>1, <3>1, <3>2, Joined DEF Fits, Bit
    <3>4. w * W + b > l
      <4>1. l < w * W + b <=> v < w \/ (w = v /\ c < b)
        BY <1>2, <3>1, <3>2, ComparedByWords
      <4>2. v < w \/ (w = v /\ c < b)
        BY <1>3, <3>1, <3>2
      <4> QED BY <4>1, <4>2
    <3> QED BY <3>3, <3>4 DEF Occupied
  <2>2. ASSUME NEW m \in T PROVE m \div W \in R /\ m % W \in M[m \div W]
    <3>1. m \in LevelIdxs /\ l < m /\ Bit(m)
      BY DEF Occupied
    <3>2. PICK w \in 0 .. LastWord, b \in Bits : w = m \div W /\ b = m % W
      BY <3>1, WordsOfLevels
    <3>3. m = w * W + b /\ w \in Nat /\ b \in Nat /\ b \in words[w]
      BY <3>1, <3>2, WordSize, Split, WordsOfLevels DEF Bit, Bits
    <3>4. v < w \/ (w = v /\ c < b)
      BY <1>2, <3>1, <3>3, ComparedByWords
    <3>5. w \in R /\ b \in M[w]
      <4>1. w \in R /\ (w = v => b > c)
        BY <1>3, <3>2, <3>3, <3>4
      <4> HIDE DEF first, R
      <4> QED BY <1>4, <3>3, <4>1
    <3> QED BY <3>2, <3>5
  <2> HIDE DEF R, M
  <2> QED BY <2>1, <2>2 DEF Covers
<1>8. NextOccupiedAbove(l) = IF hits = {} THEN NIL
                             ELSE Min(hits) * W + Min(IF Min(hits) = v THEN first ELSE words[Min(hits)])
  <2> DEFINE scan(f, x) ==
               LET masked(w) == IF w = x THEN f ELSE words[w]
                   found == {w \in x .. LastWord : masked(w) # {}}
               IN  IF found = {} THEN NIL ELSE Min(found) * W + Min(masked(Min(found)))
             from == IF l % W = W - 1 THEN {} ELSE words[l \div W] \cap OnesFrom((l % W) + 1)
  <2>1. NextOccupiedAbove(l) = scan(from, l \div W)
    BY DEF NextOccupiedAbove
  <2>2. from = first
    BY <1>2
  <2>3. scan(from, l \div W) = scan(first, v)
    <3> HIDE DEF scan, from, first
    <3> QED BY <1>2, <2>2
  <2>4. hits = {w \in v .. LastWord : (IF w = v THEN first ELSE words[w]) # {}}
    <3> HIDE DEF first, from, scan
    <3> QED OBVIOUS
  <2>5. scan(first, v) = IF hits = {} THEN NIL
                         ELSE Min(hits) * W + Min(IF Min(hits) = v THEN first ELSE words[Min(hits)])
    <3> HIDE DEF first, hits
    <3> QED BY <2>4, Zenon
  <2> HIDE DEF hits, scan, first
  <2> QED BY <2>1, <2>3, <2>5
<1>9. Min(hits) \in R => M[Min(hits)] = IF Min(hits) = v THEN first ELSE words[Min(hits)]
  <2> HIDE DEF first, R
  <2>1. \A x \in R : M[x] = IF x = v THEN first ELSE words[x]
    OBVIOUS
  <2> HIDE DEF hits, M
  <2> QED BY <2>1
<1>10. hits = {w \in R : M[w] # {}}
  OBVIOUS
<1> HIDE DEF first, R, M, hits
<1>11. hits = {} <=> T = {}
  BY <1>5, <1>6, <1>7, <1>10, NoBitNoLevel
<1>12. ASSUME T # {} PROVE Min(hits) \in R /\ Min(hits) * W + Min(M[Min(hits)]) = Min(T)
  <2>1. \A w : w \in hits <=> w \in R /\ M[w] # {}
    BY <1>10
  <2>2. R \in SUBSET Nat /\ M \in [R -> SUBSET Bits] /\ T \in SUBSET LevelIdxs /\ Covers(R, M, T)
    BY <1>5, <1>6, <1>7
  <2>3. EndsLow(R, M, T, hits)
    BY <1>12, <2>1, <2>2, LeastBit
  <2> QED BY <2>3 DEF EndsLow
<1> QED BY <1>8, <1>9, <1>11, <1>12

(* The engine's next level and the validator's best come from these scans: *)
(* they cross from word to word, start at any bit of a word and find what  *)
(* the neighbours in the set of occupied levels are (book_side.rs).        *)
THEOREM ScansFind == Spec => []ScansFindTheNeighbours
<1>1. ASSUME IInv PROVE ScansFindTheNeighbours
  <2> DEFINE greatest(levels) == IF levels = {} THEN NIL ELSE Max(levels)
             least(levels) == IF levels = {} THEN NIL ELSE Min(levels)
             top == NumLevels - 1
  <2>1. \A l \in LevelIdxs : /\ NextOccupiedBelow(l) = greatest({m \in Occupied : m < l})
                             /\ NextOccupiedAbove(l) = least({m \in Occupied : m > l})
    BY <1>1, BelowIs, AboveIs
  <2>2. /\ top \in LevelIdxs /\ 0 \in LevelIdxs /\ Occupied \in SUBSET Nat
        /\ \A m \in Occupied : m \in LevelIdxs /\ 0 <= m /\ m <= top /\ m \in Nat
        /\ top \in Nat
    BY WordSize DEF LevelIdxs, Occupied
  <2>3. ScanTrueBest("Bid") = greatest(Occupied)
    <3>1. CASE Bit(top)
      <4>1. top \in Occupied
        BY <2>2, <3>1 DEF Occupied
      <4>2. Max(Occupied) = top
        <5> HIDE DEF top
        <5> QED BY <2>2, <4>1, MaxIs
      <4> QED BY <3>1, <4>1, <4>2 DEF ScanTrueBest
    <3>2. CASE ~ Bit(top)
      <4>1. {m \in Occupied : m < top} = Occupied
        <5>1. top \notin Occupied
          BY <3>2 DEF Occupied
        <5> HIDE DEF top
        <5>2. \A m \in Occupied : m < top
          BY <2>2, <5>1
        <5> QED BY <5>2
      <4>2. NextOccupiedBelow(top) = greatest({m \in Occupied : m < top})
        BY <2>1, <2>2
      <4> QED BY <3>2, <4>1, <4>2 DEF ScanTrueBest
    <3> QED BY <3>1, <3>2
  <2>4. ScanTrueBest("Ask") = least(Occupied)
    <3>1. CASE Bit(0)
      <4>1. 0 \in Occupied
        BY <2>2, <3>1 DEF Occupied
      <4>2. Min(Occupied) = 0
        BY <2>2, <4>1, MinIs
      <4> QED BY <3>1, <4>1, <4>2 DEF ScanTrueBest
    <3>2. CASE ~ Bit(0)
      <4>1. {m \in Occupied : m > 0} = Occupied
        <5>1. 0 \notin Occupied
          BY <3>2 DEF Occupied
        <5>2. \A m \in Occupied : m > 0
          BY <2>2, <5>1
        <5> QED BY <5>2
      <4>2. NextOccupiedAbove(0) = least({m \in Occupied : m > 0})
        BY <2>1, <2>2
      <4> QED BY <3>2, <4>1, <4>2 DEF ScanTrueBest
    <3> QED BY <3>1, <3>2
  <2> QED BY <2>1, <2>3, <2>4 DEF ScansFindTheNeighbours
<1>2. IInv => ScansFindTheNeighbours
  BY <1>1
<1> QED BY <1>2, Inductive, PTL

=============================================================================
