--------------------------- MODULE RefinementProofs ---------------------------
(***************************************************************************)
(* Theorems about MCOrderBook and MCSnapshot: the fast engine implements   *)
(* the oracle, step by step and answer by answer, for every grid, arena    *)
(* size and input set; Validator.tla finds nothing wrong with it; its hash *)
(* is the oracle's; and a restart from a snapshot does not show.           *)
(*                                                                         *)
(* The refinement map reads a side by walking it.  The proofs put in the   *)
(* place of the walk the chain of the side that EngineProofs describes.    *)
(***************************************************************************)
EXTENDS MCSnapshot, EngineProofs

-----------------------------------------------------------------------------
(* What the oracle's book, as it is read from the engine, becomes.         *)

Chains == \A s \in Sides : Chain(s, Line(s))

LinesKnown ==
  \A s \in Sides : \A q : Chain(s, q) =>
    /\ Line(s) = q
    /\ OracleBook[s] = [k \in 1 .. Len(q) |-> slots[q[k]].order]

LEMMA LinesAreKnown == (BookInv => LinesKnown) /\ (BookInv' => LinesKnown')
<1>1. ASSUME BookInv, NEW s \in Sides, NEW q, Chain(s, q)
      PROVE  /\ Line(s) = q
             /\ OracleBook[s] = [k \in 1 .. Len(q) |-> slots[q[k]].order]
  <2>1. Line(s) = q
    BY <1>1, ChainIsLine
  <2>2. DOMAIN q = 1 .. Len(q)
    BY <1>1, LenProperties DEF Chain
  <2>3. OrdersInLine(s) = [k \in DOMAIN q |-> slots[q[k]].order]
    BY <2>1 DEF OrdersInLine
  <2> QED BY <2>1, <2>2, <2>3 DEF OracleBook
<1>2. BookInv => LinesKnown
  BY <1>1 DEF LinesKnown
<1>3. BookInv' => LinesKnown'
  BY <1>2, PTL
<1> QED BY <1>2, <1>3

(* The book of a state, slot by slot.                                      *)
LEMMA BookRead ==
  ASSUME BookInv, Chains, book = OracleBook, NEW s \in Sides
  PROVE  /\ DOMAIN book = Sides
         /\ book[s] \in Seq(Order) /\ Len(book[s]) = Len(Line(s))
         /\ DOMAIN book[s] = 1 .. Len(Line(s))
         /\ book[s] = [k \in 1 .. Len(Line(s)) |-> slots[Line(s)[k]].order]
         /\ \A k \in 1 .. Len(Line(s)) : book[s][k] = slots[Line(s)[k]].order
                                         /\ book[s][k] \in Order
<1>1. PICK q : q = Line(s) /\ Chain(s, q)
  BY DEF Chains
<1>2. Len(q) \in Nat /\ \A k \in 1 .. Len(q) : q[k] \in LiveSlots
  BY <1>1, ChainTyped
<1>3. book[s] = [k \in 1 .. Len(q) |-> slots[q[k]].order]
  BY <1>1, LinesAreKnown DEF LinesKnown
<1>4. DOMAIN book = Sides
  BY DEF OracleBook
<1>5. \A j \in LiveSlots : slots[j].order \in Order
  BY LiveTyped DEF BookInv, LiveSlots
<1>6. \A k \in 1 .. Len(q) : slots[q[k]].order \in Order
  BY <1>2, <1>5
<1>7. book[s] \in Seq(Order) /\ Len(book[s]) = Len(q)
  BY <1>2, <1>3, <1>6
<1> QED BY <1>1, <1>3, <1>4, <1>6, <1>7

(* The book of the next state, once the new chains are known.              *)
LEMMA BookTurns ==
  ASSUME BookInv', book' = OracleBook', NEW s \in Sides, NEW q, Chain(s, q)'
  PROVE  /\ DOMAIN book' = Sides /\ Line(s)' = q
         /\ book'[s] = [k \in 1 .. Len(q) |-> slots'[q[k]].order]
<1>1. Line(s)' = q /\ OracleBook'[s] = [k \in 1 .. Len(q) |-> slots'[q[k]].order]
  BY LinesAreKnown DEF LinesKnown
<1>2. DOMAIN OracleBook' = Sides
  BY DEF OracleBook
<1> QED BY <1>1, <1>2

(* A side that nothing touches.                                            *)
LEMMA SideStays ==
  ASSUME BookInv, Chains, book = OracleBook, BookInv', book' = OracleBook', NEW s \in Sides,
         NEW q, q = Line(s), Chain(s, q)',
         \A j \in LiveSlots : slots[j].order.side = s => slots'[j].order = slots[j].order
  PROVE  Line(s)' = q /\ book'[s] = book[s]
<1>1. Chain(s, q)
  BY DEF Chains
<1>2. book'[s] = [k \in 1 .. Len(q) |-> slots'[q[k]].order] /\ Line(s)' = q
  BY BookTurns
<1>3. book[s] = [k \in 1 .. Len(q) |-> slots[q[k]].order]
  BY BookRead
<1>4. \A k \in 1 .. Len(q) : slots'[q[k]].order = slots[q[k]].order
  BY <1>1, ChainTyped
<1> QED BY <1>2, <1>3, <1>4

(* The sides of the next state, one by one.                                *)
LinesChained == \A s \in Sides : \E q : q = Line(s) /\ Chain(s, q)

LEMMA ChainsKnown == (LinesChained => Chains) /\ (LinesChained' => Chains')
<1>1. LinesChained => Chains
  BY DEF LinesChained, Chains
<1>2. LinesChained' => Chains'
  BY <1>1, PTL
<1> QED BY <1>1, <1>2

LEMMA BookBecomes ==
  ASSUME book = OracleBook, book' = OracleBook', NEW s \in Sides, NEW e, book'[s] = e,
         \A r \in Sides : r # s => book'[r] = book[r]
  PROVE  book' = [book EXCEPT ![s] = e]
<1>1. book = [r \in Sides |-> book[r]]
  BY DEF OracleBook
<1>2. book' = [r \in Sides |-> book'[r]]
  BY DEF OracleBook
<1> QED BY <1>1, <1>2

(* unlink_and_free removes one order.                                      *)
LEMMA UnlinkBook ==
  ASSUME BookInv, Chains, book = OracleBook, book' = OracleBook',
         NEW i \in LiveSlots, UnlinkAndFree(i), NEW s, s = slots[i].order.side
  PROVE  /\ Chains' /\ s \in Sides
         /\ \E m \in DOMAIN book[s] :
              /\ Line(s)[m] = i /\ book[s][m] = slots[i].order
              /\ book' = [book EXCEPT ![s] = RemoveAt(@, m)]
<1>1. s \in Sides /\ BookInv'
  BY UnlinkInv, Neighbours DEF BookInv
<1>2. PICK q : q = Line(s) /\ Chain(s, q)
  BY <1>1 DEF Chains
<1>3. PICK m \in 1 .. Len(q) : q[m] = i
  BY <1>1, <1>2 DEF Chain
<1>4. Chain(s, RemoveAt(q, m))'
  BY <1>1, <1>2, <1>3, UnlinkOwnChain
<1>5. PICK n \in Nat : n = Len(q) /\ m \in 1 .. n
  BY <1>1, <1>2, ChainTyped
<1>6. PICK r : r = RemoveAt(q, m) /\ Len(r) = n - 1
               /\ \A j \in 1 .. n - 1 : r[j] = IF j < m THEN q[j] ELSE q[j + 1]
  <2>1. q \in Seq(SlotIdxs) /\ m \in 1 .. Len(q)
    BY <1>1, <1>2, ChainTyped
  <2>2. /\ Len(RemoveAt(q, m)) = Len(q) - 1
        /\ \A j \in 1 .. Len(q) - 1 : RemoveAt(q, m)[j] = IF j < m THEN q[j] ELSE q[j + 1]
    BY <2>1, RemoveAtFacts
  <2> QED BY <1>5, <2>2
<1>7. book'[s] = [k \in 1 .. n - 1 |-> slots'[r[k]].order] /\ Line(s)' = r
  <2>1. Chain(s, r)'
    BY <1>4, <1>6
  <2>2. BookInv' /\ s \in Sides /\ book' = OracleBook'
    BY <1>1
  <2>3. book'[s] = [k \in 1 .. Len(r) |-> slots'[r[k]].order] /\ Line(s)' = r
    BY <2>1, <2>2, BookTurns
  <2>4. Len(r) = n - 1
    BY <1>6
  <2> QED BY <2>3, <2>4
<1>8. PICK b \in Seq(Order) : /\ b = book[s] /\ Len(b) = n /\ DOMAIN b = 1 .. n
                              /\ \A k \in 1 .. n : b[k] = slots[q[k]].order
  BY <1>1, <1>2, <1>5, BookRead
<1>9. PICK c \in Seq(Order) : c = RemoveAt(b, m) /\ Len(c) = n - 1
               /\ \A j \in 1 .. n - 1 : c[j] = IF j < m THEN b[j] ELSE b[j + 1]
  <2>1. m \in 1 .. Len(b)
    BY <1>5, <1>8
  <2>2. /\ RemoveAt(b, m) \in Seq(Order) /\ Len(RemoveAt(b, m)) = Len(b) - 1
        /\ \A j \in 1 .. Len(b) - 1 : RemoveAt(b, m)[j] = IF j < m THEN b[j] ELSE b[j + 1]
    BY <2>1, RemoveAtFacts
  <2> QED BY <1>8, <2>2
<1>10. ASSUME NEW k \in 1 .. n - 1 PROVE slots'[r[k]].order = c[k]
  <2>1. PICK a \in 1 .. n : a = (IF k < m THEN k ELSE k + 1) /\ a # m
    BY <1>5
  <2>2. r[k] = q[a] /\ c[k] = b[a]
    BY <1>6, <1>9, <2>1
  <2>3. q[a] \in LiveSlots /\ q[a] # i
    <3>1. a \in 1 .. Len(q) /\ m \in 1 .. Len(q) /\ a # m
      BY <1>5, <2>1
    <3>2. q[a] # q[m]
      <4>1. \A x, y \in 1 .. Len(q) : q[x] = q[y] => x = y
        BY <1>2 DEF Chain
      <4> QED BY <3>1, <4>1
    <3> QED BY <1>1, <1>2, <1>3, <3>1, <3>2, ChainTyped
  <2>4. slots'[q[a]].order = slots[q[a]].order
    BY <2>3, UnlinkKeeps
  <2> QED BY <1>8, <2>1, <2>2, <2>4
<1>11. book'[s] = c
  <2>1. c = [k \in 1 .. n - 1 |-> c[k]]
    BY <1>9
  <2> QED BY <1>7, <1>10, <2>1
<1>12. ASSUME NEW t \in Sides, t # s
       PROVE  book'[t] = book[t] /\ \E p : p = Line(t)' /\ Chain(t, p)'
  <2>1. PICK p : p = Line(t) /\ Chain(t, p)
    BY DEF Chains
  <2>2. Chain(t, p)'
    BY <1>12, <2>1, UnlinkOtherChain
  <2>3. \A j \in LiveSlots : slots[j].order.side = t => slots'[j].order = slots[j].order
    BY <1>12, UnlinkKeeps
  <2>4. Line(t)' = p /\ book'[t] = book[t]
    BY <1>1, <2>1, <2>2, <2>3, SideStays
  <2> QED BY <2>2, <2>4
<1>13. Chains'
  <2>1. ASSUME NEW t \in Sides PROVE \E p : p = Line(t)' /\ Chain(t, p)'
    BY <1>4, <1>6, <1>7, <1>12
  <2> QED BY <2>1, ChainsKnown DEF LinesChained
<1>14. book' = [book EXCEPT ![s] = RemoveAt(@, m)]
  BY <1>1, <1>8, <1>9, <1>11, <1>12, BookBecomes, SMTT(60)
<1> QED BY <1>1, <1>2, <1>3, <1>5, <1>8, <1>13, <1>14

(* A step that leaves the slots alone.                                     *)
LEMMA SameBook ==
  ASSUME BookInv, Chains, book = OracleBook, book' = OracleBook',
         UNCHANGED <<arena, sides, index>>
  PROVE  Chains' /\ book' = book
<1>1. /\ slots' = slots /\ BookInv'
      /\ LiveSlots' = LiveSlots
  BY BookStays DEF arena, LiveSlots, Live
<1>2. ASSUME NEW s \in Sides, NEW q, Chain(s, q) PROVE Chain(s, q)'
  BY <1>1, <1>2 DEF Chain, Lv, Better
<1>3. ASSUME NEW s \in Sides PROVE book'[s] = book[s] /\ \E q : q = Line(s)' /\ Chain(s, q)'
  <2>1. PICK q : q = Line(s) /\ Chain(s, q)
    BY DEF Chains
  <2>2. Chain(s, q)'
    BY <1>2, <2>1
  <2>3. \A j \in LiveSlots : slots[j].order.side = s => slots'[j].order = slots[j].order
    BY <1>1
  <2>4. Line(s)' = q /\ book'[s] = book[s]
    BY <1>1, <2>1, <2>2, <2>3, SideStays
  <2> QED BY <2>2, <2>4
<1>4. Chains'
  BY <1>3, ChainsKnown DEF LinesChained
<1>5. book = [s \in Sides |-> book[s]] /\ book' = [s \in Sides |-> book'[s]]
  BY DEF OracleBook
<1> QED BY <1>3, <1>4, <1>5

(* Levels are ordered as their prices are.                                 *)
LEMMA BetterIsBefore ==
  ASSUME NEW s \in Sides, NEW p \in I64, NEW q \in I64, OnGrid(p), OnGrid(q)
  PROVE  Better(s, PriceToIdx(p), PriceToIdx(q)) <=> View!Before(s, p, q)
<1>1. PICK l \in LevelIdxs, m \in LevelIdxs :
        l = PriceToIdx(p) /\ m = PriceToIdx(q) /\ IdxToPrice(l) = p /\ IdxToPrice(m) = q
  BY LevelsArePrices
<1>2. (p < q <=> l < m) /\ (q < p <=> m < l)
  BY <1>1, PricesAscend
<1>3. l \in Nat /\ m \in Nat /\ p \in Int /\ q \in Int
  BY SlotsAreNats, GridAssumption DEF I64
<1> QED BY <1>1, <1>2, <1>3 DEF Better, View!Before

(* An order at rest has its price from its level.                          *)
LEMMA PriceOfLevel ==
  ASSUME BookInv, NEW i \in LiveSlots
  PROVE  /\ slots[i].order.price \in I64 /\ OnGrid(slots[i].order.price)
         /\ Lv(i) = PriceToIdx(slots[i].order.price)
         /\ IdxToPrice(Lv(i)) = slots[i].order.price
         /\ slots[i].order.remaining \in Nat /\ slots[i].order.remaining > 0
<1>1. slots[i].order.price \in I64 /\ slots[i].order.remaining \in Nat
  BY LiveTyped DEF BookInv, LiveSlots
<1>2. OnGrid(slots[i].order.price) /\ Lv(i) = PriceToIdx(slots[i].order.price)
      /\ slots[i].order.remaining > 0
  BY DEF BookInv, OrdersInPlace, Lv
<1> QED BY <1>1, <1>2, LevelsArePrices

(* rest() inserts one order, where the oracle sorts it to.                 *)
LEMMA RestBook ==
  ASSUME BookInv, Chains, book = OracleBook, book' = OracleBook', ReadyToRest, RestRemainder
  PROVE  /\ Chains'
         /\ \E k \in 0 .. Len(book[taker.side]) :
              /\ View!SortsTo(taker, k)
              /\ book' = [book EXCEPT ![taker.side] = InsertAt(@, k + 1, Resting(taker))]
<1>1. PICK i \in SlotIdxs, s \in Sides, l \in LevelIdxs : RestsIn(i, s, l)
  BY RestFields DEF BookInv
<1>2. BookInv' /\ s = taker.side /\ l = PriceToIdx(taker.price) /\ taker \in Takers
      /\ OnGrid(taker.price) /\ taker.price \in I64 /\ Resting(taker) \in Order
  BY <1>1, RestInv DEF RestsIn, ReadyToRest, Takers
<1>3. PICK q : q = Line(s) /\ Chain(s, q)
  BY <1>1 DEF Chains
<1>4. PICK n \in Nat : n = Len(q)
  BY <1>1, <1>3, ChainTyped
<1>5. PICK m \in 0 .. n : \A j \in 1 .. n : j <= m <=> ~ Better(s, l, Lv(q[j]))
  BY <1>1, <1>3, <1>4, ChainPlace
<1>6. Chain(s, InsertAt(q, m + 1, i))'
  BY <1>1, <1>3, <1>4, <1>5, RestOwnChain
<1>7. m + 1 \in 1 .. n + 1 /\ m \in Nat
  BY <1>5
<1>8. PICK r : r = InsertAt(q, m + 1, i) /\ Len(r) = n + 1
        /\ \A j \in 1 .. n + 1 : r[j] = IF j < m + 1 THEN q[j] ELSE IF j = m + 1 THEN i ELSE q[j - 1]
  <2>1. q \in Seq(SlotIdxs) /\ m + 1 \in 1 .. Len(q) + 1
    BY <1>1, <1>3, <1>4, <1>7, ChainTyped
  <2>2. /\ Len(InsertAt(q, m + 1, i)) = Len(q) + 1
        /\ \A j \in 1 .. Len(q) + 1 : InsertAt(q, m + 1, i)[j] =
             IF j < m + 1 THEN q[j] ELSE IF j = m + 1 THEN i ELSE q[j - 1]
    BY <2>1, InsertAtFacts
  <2> QED BY <1>4, <2>2
<1>9. book'[s] = [k \in 1 .. n + 1 |-> slots'[r[k]].order] /\ Line(s)' = r
  BY <1>1, <1>2, <1>6, <1>8, BookTurns
<1>10. PICK b \in Seq(Order) : /\ b = book[s] /\ Len(b) = n /\ DOMAIN b = 1 .. n
                               /\ \A k \in 1 .. n : b[k] = slots[q[k]].order
  BY <1>1, <1>3, <1>4, BookRead
<1>11. PICK c \in Seq(Order) : c = InsertAt(b, m + 1, Resting(taker)) /\ Len(c) = n + 1
               /\ \A j \in 1 .. n + 1 : c[j] = IF j < m + 1 THEN b[j]
                                               ELSE IF j = m + 1 THEN Resting(taker) ELSE b[j - 1]
  <2>1. PICK h \in 1 .. Len(b) + 1 : h = m + 1
    BY <1>7, <1>10
  <2>2. PICK e \in Order : e = Resting(taker)
    BY <1>2
  <2>3. /\ InsertAt(b, h, e) \in Seq(Order) /\ Len(InsertAt(b, h, e)) = Len(b) + 1
        /\ \A j \in 1 .. Len(b) + 1 : InsertAt(b, h, e)[j] =
             IF j < h THEN b[j] ELSE IF j = h THEN e ELSE b[j - 1]
    BY InsertAtFacts, SMTT(60)
  <2> QED BY <1>10, <2>1, <2>2, <2>3
<1>12. \A k \in 1 .. n : q[k] \in LiveSlots /\ slots'[q[k]].order = slots[q[k]].order
  <2>1. ASSUME NEW k \in 1 .. n PROVE q[k] \in LiveSlots /\ slots'[q[k]].order = slots[q[k]].order
    <3>1. q[k] \in LiveSlots
      BY <1>1, <1>3, <1>4, ChainTyped
    <3> QED BY <1>1, <3>1, RestKeeps
  <2> QED BY <2>1
<1>13. slots'[i].order = Resting(taker)
  BY <1>1, RestSlot
<1>14. ASSUME NEW k \in 1 .. n + 1 PROVE slots'[r[k]].order = c[k]
  <2>1. CASE k = m + 1
    BY <1>8, <1>11, <1>13, <2>1
  <2>2. CASE k < m + 1
    <3>1. k \in 1 .. n
      BY <1>5, <2>2
    <3> QED BY <1>8, <1>10, <1>11, <1>12, <2>2, <3>1
  <2>3. CASE ~ (k < m + 1) /\ k # m + 1
    <3>1. k - 1 \in 1 .. n
      BY <1>7, <2>3
    <3> QED BY <1>8, <1>10, <1>11, <1>12, <2>3, <3>1
  <2> QED BY <2>1, <2>2, <2>3
<1>15. book'[s] = c
  <2>1. c = [k \in 1 .. n + 1 |-> c[k]]
    BY <1>11
  <2> QED BY <1>9, <1>14, <2>1
<1>16. ASSUME NEW t \in Sides, t # s
       PROVE  book'[t] = book[t] /\ \E p : p = Line(t)' /\ Chain(t, p)'
  <2>1. PICK p : p = Line(t) /\ Chain(t, p)
    BY DEF Chains
  <2>2. Chain(t, p)'
    BY <1>1, <1>16, <2>1, RestOtherChain
  <2>3. \A j \in LiveSlots : slots[j].order.side = t => slots'[j].order = slots[j].order
    BY <1>1, RestKeeps
  <2>4. Line(t)' = p /\ book'[t] = book[t]
    BY <1>2, <2>1, <2>2, <2>3, SideStays
  <2> QED BY <2>2, <2>4
<1>17. Chains'
  <2>1. ASSUME NEW t \in Sides PROVE \E p : p = Line(t)' /\ Chain(t, p)'
    BY <1>6, <1>8, <1>9, <1>16
  <2> QED BY <2>1, ChainsKnown DEF LinesChained
<1>18. book' = [book EXCEPT ![s] = InsertAt(@, m + 1, Resting(taker))]
  BY <1>1, <1>10, <1>11, <1>15, <1>16, BookBecomes
<1>19. View!SortsTo(taker, m)
  <2>1. ASSUME NEW j \in 1 .. n PROVE Better(s, l, Lv(q[j])) <=> View!Before(s, taker.price, b[j].price)
    <3>1. PICK x \in LiveSlots : x = q[j]
      BY <1>12
    <3>2. b[j].price \in I64 /\ OnGrid(b[j].price) /\ Lv(q[j]) = PriceToIdx(b[j].price)
      BY <1>10, <3>1, PriceOfLevel
    <3> QED BY <1>2, <3>2, BetterIsBefore
  <2> QED BY <1>2, <1>5, <1>10, <2>1 DEF View!SortsTo
<1> QED BY <1>2, <1>5, <1>10, <1>17, <1>18, <1>19

(* The first of a sequence of orders has less.                             *)
LEMMA FirstReduced ==
  ASSUME NEW n \in Nat, 1 \in 1 .. n, NEW b \in [1 .. n -> Order], NEW x
  PROVE  [b EXCEPT ![1].remaining = @ - x]
           = [k \in 1 .. n |-> IF k = 1 THEN [b[1] EXCEPT !.remaining = @ - x] ELSE b[k]]
OBVIOUS

(* A maker that is filled in part: the first order of its side has less.   *)
FirstLess(b, x) == [b EXCEPT ![1].remaining = @ - x]

InFront(i, s) == 1 \in 1 .. Len(Line(s)) /\ Line(s)[1] = i

LEMMA PartBook ==
  ASSUME BookInv, Chains, book = OracleBook, book' = OracleBook',
         NEW i, NEW s, NEW l, NEW x, FillsPart(i, s, l, x), InFront(i, s)
  PROVE  /\ Chains'
         /\ book'[s] = FirstLess(book[s], x)
         /\ \A r \in Sides : r # s => book'[r] = book[r]
<1>1. /\ BookInv' /\ BookTyped /\ ListsLinked /\ TotalsRight
      /\ s \in Sides /\ i \in LiveSlots /\ i \in SlotIdxs
  BY PartInv, PartFields DEF BookInv, FillsPart
<1>2. /\ LiveSlots' = LiveSlots
      /\ \A j \in LiveSlots : slots'[j].order.side = slots[j].order.side
  BY <1>1, PartAt
<1>3. \A j \in SlotIdxs : /\ slots'[j].level = slots[j].level
                          /\ slots'[j].next = slots[j].next
                          /\ j # i => slots'[j].order = slots[j].order
  BY <1>1, PartFields
<1>4. slots'[i].order = [slots[i].order EXCEPT !.remaining = @ - x]
  BY <1>1 DEF FillsPart, BookTyped, Slot
<1>5. \A t \in Sides : \A p : Chain(t, p) => Chain(t, p)'
  <2>1. ASSUME NEW t \in Sides, NEW p, Chain(t, p) PROVE Chain(t, p)'
    <3>1. \A j \in LiveSlots : j \in SlotIdxs /\ Lv(j)' = Lv(j) /\ slots'[j].next = slots[j].next
      BY <1>3 DEF Lv, LiveSlots
    <3>2. \A k \in 1 .. Len(p) : p[k] \in LiveSlots /\ slots[p[k]].order.side = t
      BY <2>1 DEF Chain
    <3>3. Len(p) \in Nat
      BY <2>1, ChainTyped
    <3>4. \A k \in 1 .. Len(p) : /\ p[k] \in LiveSlots' /\ slots'[p[k]].order.side = t
                                 /\ Lv(p[k])' = Lv(p[k]) /\ slots'[p[k]].next = slots[p[k]].next
      BY <1>2, <3>1, <3>2
    <3>5. \A j \in LiveSlots' : slots'[j].order.side = t => \E k \in 1 .. Len(p) : p[k] = j
      BY <1>2, <2>1 DEF Chain
    <3>6. \A j, k \in 1 .. Len(p) : j < k => ~ Better(t, Lv(p[k])', Lv(p[j])')
      BY <2>1, <3>4 DEF Chain
    <3>7. /\ \A k \in 1 .. Len(p) : slots'[p[k]].next # NIL => /\ k + 1 \in 1 .. Len(p)
                                                               /\ p[k + 1] = slots'[p[k]].next
          /\ \A k \in 1 .. Len(p) : /\ k + 1 \in 1 .. Len(p)
                                    /\ slots'[p[k]].next = NIL
                                    => Lv(p[k])' # Lv(p[k + 1])'
      BY <2>1, <3>4, SMTT(60) DEF Chain
    <3>8. p \in Seq(SlotIdxs) /\ \A j, k \in 1 .. Len(p) : p[j] = p[k] => j = k
      BY <2>1 DEF Chain
    <3> QED BY <3>4, <3>5, <3>6, <3>7, <3>8 DEF Chain
  <2> QED BY <2>1
<1>6. PICK q : q = Line(s) /\ Chain(s, q)
  BY <1>1 DEF Chains
<1>7. PICK n \in Nat : n = Len(q) /\ 1 \in 1 .. n /\ q[1] = i
  BY <1>1, <1>6, ChainTyped DEF InFront
<1>8. book'[s] = [k \in 1 .. n |-> slots'[q[k]].order]
  BY <1>1, <1>5, <1>6, <1>7, BookTurns
<1>9. PICK b \in [1 .. n -> Order] : b = book[s] /\ \A k \in 1 .. n : b[k] = slots[q[k]].order
  <2>1. /\ book[s] = [k \in 1 .. n |-> slots[q[k]].order]
        /\ \A k \in 1 .. n : book[s][k] = slots[q[k]].order /\ book[s][k] \in Order
    BY <1>1, <1>6, <1>7, BookRead
  <2> QED BY <2>1
<1>10. \A k \in 1 .. n : q[k] \in SlotIdxs /\ (q[k] = i => k = 1)
  <2>1. \A k \in 1 .. Len(q) : q[k] \in SlotIdxs
    BY <1>1, <1>6, ChainTyped
  <2> QED BY <1>6, <1>7, <2>1 DEF Chain
<1>11. book'[s] = [b EXCEPT ![1].remaining = @ - x]
  <2>1. \A k \in 1 .. n : slots'[q[k]].order = IF k = 1 THEN [slots[q[k]].order EXCEPT !.remaining = @ - x]
                                               ELSE slots[q[k]].order
    BY <1>3, <1>4, <1>7, <1>10
  <2>2. \A k \in 1 .. n : slots'[q[k]].order = IF k = 1 THEN [b[1] EXCEPT !.remaining = @ - x] ELSE b[k]
    BY <1>7, <1>9, <2>1
  <2>3. book'[s] = [k \in 1 .. n |-> IF k = 1 THEN [b[1] EXCEPT !.remaining = @ - x] ELSE b[k]]
    BY <1>8, <2>2
  <2> QED BY <1>7, <2>3, FirstReduced
<1>12. ASSUME NEW t \in Sides, t # s
       PROVE  book'[t] = book[t] /\ \E p : p = Line(t)' /\ Chain(t, p)'
  <2>1. PICK p : p = Line(t) /\ Chain(t, p)
    BY DEF Chains
  <2>2. Chain(t, p)'
    BY <1>5, <2>1
  <2>3. \A j \in LiveSlots : slots[j].order.side = t => slots'[j].order = slots[j].order
    BY <1>1, <1>3, <1>12 DEF FillsPart, LiveSlots
  <2>4. Line(t)' = p /\ book'[t] = book[t]
    BY <1>1, <2>1, <2>2, <2>3, SideStays
  <2> QED BY <2>2, <2>4
<1>13. Chains'
  <2>1. Chain(s, q)' /\ Line(s)' = q
    BY <1>1, <1>5, <1>6, BookTurns
  <2>2. ASSUME NEW t \in Sides PROVE \E p : p = Line(t)' /\ Chain(t, p)'
    BY <1>12, <2>1
  <2> QED BY <2>2, ChainsKnown DEF LinesChained
<1>14. book'[s] = FirstLess(book[s], x)
  BY <1>9, <1>11 DEF FirstLess
<1> QED BY <1>12, <1>13, <1>14

-----------------------------------------------------------------------------
(* The oracle's view of the engine's data.                                 *)

LEMMA SameWords ==
  /\ View!Sides = Sides
  /\ \A s : View!Opposite(s) = Opposite(s)
  /\ \A t : View!Resting(t) = Resting(t)
  /\ \A p : View!OnGrid(p) <=> OnGrid(p)
  /\ \A a, b : View!Smaller(a, b) = Smaller(a, b)
  /\ \A s, p, q : View!Crosses(s, p, q) <=> Crosses(s, p, q)
  /\ \A id : View!Ack(id) = Ack(id)
  /\ \A id, why : View!Rejected(id, why) = Rejected(id, why)
  /\ \A id, r, why : View!Cancelled(id, r, why) = Cancelled(id, r, why)
  /\ \A t, id, p, q : View!Fill(t, id, p, q) = Fill(t, id, p, q)
  /\ \A o : View!StpCancelled(o) = StpCancelled(o)
BY DEF View!Sides, Sides, View!Opposite, Opposite, View!Resting, Resting, View!OnGrid, OnGrid,
       View!PriceToIdx, PriceToIdx, View!NIL, NIL, View!I64, I64, View!Smaller, Smaller,
       View!Crosses, Crosses, View!Ack, Ack, View!Rejected, Rejected, View!Cancelled, Cancelled,
       View!Fill, Fill, View!StpCancelled, StpCancelled

(* The cached best level is that of the oracle's first order.              *)
LEMMA FrontView ==
  ASSUME BookInv, Chains, book = OracleBook, NEW s \in Sides
  PROVE  /\ best[s] = NIL <=> book[s] = <<>>
         /\ best[s] # NIL => /\ best[s] \in LevelIdxs
                             /\ 1 \in DOMAIN book[s] /\ 1 \in 1 .. Len(Line(s))
                             /\ Line(s)[1] = levels[s][best[s]].head
                             /\ Line(s)[1] \in LiveSlots
                             /\ book[s][1] = slots[Line(s)[1]].order
                             /\ book[s][1].price = IdxToPrice(best[s])
<1>1. PICK q : q = Line(s) /\ Chain(s, q)
  BY DEF Chains
<1>2. Len(q) \in Nat /\ \A k \in 1 .. Len(q) : q[k] # NIL /\ q[k] \in LiveSlots
  BY <1>1, ChainTyped
<1>3. HeadOf(s, best[s]) = IF 1 \in 1 .. Len(q) THEN q[1] ELSE NIL
  BY <1>1, ChainFront
<1>4. /\ book[s] \in Seq(Order) /\ Len(book[s]) = Len(q) /\ DOMAIN book[s] = 1 .. Len(q)
      /\ \A k \in 1 .. Len(q) : book[s][k] = slots[q[k]].order
  BY <1>1, BookRead
<1>5. CASE best[s] = NIL
  <2>1. ~ (1 \in 1 .. Len(q))
    BY <1>2, <1>3, <1>5 DEF HeadOf
  <2>2. Len(book[s]) = 0
    BY <1>2, <1>4, <2>1
  <2>3. book[s] = <<>>
    BY <1>4, <2>2, EmptySeq
  <2> QED BY <1>5, <2>3
<1>6. CASE best[s] # NIL
  <2>1. PICK b \in Occupied(s) : b = best[s]
    BY <1>6 DEF BookInv, BestIsTrue, Occupied
  <2>2. b \in LevelIdxs /\ levels[s][b].head # NIL
    BY <2>1, HeadExists DEF Occupied
  <2>3. 1 \in 1 .. Len(q) /\ q[1] = levels[s][b].head
    BY <1>3, <1>6, <2>1, <2>2 DEF HeadOf
  <2>4. PICK h \in LiveSlots : h = q[1] /\ Lv(h) = b
    <3>1. q[1] \in At(s, b)
      BY <2>2, <2>3 DEF BookInv, ListsLinked, Ended
    <3> QED BY <3>1 DEF At, LiveSlots, Lv
  <2>5. book[s][1] = slots[h].order /\ slots[h].order.price = IdxToPrice(b)
    BY <1>4, <2>3, <2>4, PriceOfLevel
  <2>6. Len(book[s]) # 0
    BY <1>2, <1>4, <2>3
  <2>7. book[s] # <<>>
    BY <1>4, <2>6, EmptySeq
  <2> QED BY <1>1, <1>4, <1>6, <2>1, <2>2, <2>3, <2>4, <2>5, <2>7
<1> QED BY <1>5, <1>6

(* The index knows the ids that find() finds.                              *)
LEMMA LiveView ==
  ASSUME BookInv, Chains, book = OracleBook, NEW id \in OrderIds
  PROVE  index[id] = NIL <=> ~ View!Live(id)
<1>1. ASSUME index[id] # NIL PROVE View!Live(id)
  <2>1. PICK i \in LiveSlots : slots[i].order.id = id
    BY <1>1, IndexedIsLive
  <2>2. PICK s \in Sides : slots[i].order.side = s
    BY Neighbours DEF BookInv
  <2>3. PICK q : q = Line(s) /\ Chain(s, q)
    BY DEF Chains
  <2>4. PICK k \in 1 .. Len(q) : q[k] = i
    BY <2>2, <2>3 DEF Chain
  <2>5. k \in DOMAIN book[s] /\ book[s][k] = slots[i].order
    BY <2>3, <2>4, BookRead
  <2> QED BY <2>1, <2>5, SameWords DEF View!Live
<1>2. ASSUME View!Live(id) PROVE index[id] # NIL
  <2>1. PICK s \in Sides : \E k \in DOMAIN book[s] : book[s][k].id = id
    BY <1>2, SameWords DEF View!Live
  <2>2. PICK q : q = Line(s) /\ Chain(s, q)
    BY DEF Chains
  <2>3. PICK k \in 1 .. Len(q) : slots[q[k]].order.id = id
    <3>1. /\ DOMAIN book[s] = 1 .. Len(q)
          /\ \A k \in 1 .. Len(q) : book[s][k] = slots[q[k]].order
      BY <2>2, BookRead
    <3> QED BY <2>1, <3>1
  <2>4. q[k] \in LiveSlots /\ q[k] # NIL
    BY <2>2, ChainTyped
  <2>5. index[slots[q[k]].order.id] = q[k]
    BY <2>4 DEF BookInv, IndexInverse
  <2> QED BY <2>3, <2>4, <2>5
<1> QED BY <1>1, <1>2

(* The free list is empty when the oracle counts as many orders as may be. *)
LEMMA RoomView ==
  ASSUME BookInv, Chains, book = OracleBook
  PROVE  /\ Len(book["Bid"]) + Len(book["Ask"]) = len
         /\ IsFull <=> View!AtCapacity
<1> DEFINE Of(s) == {i \in LiveSlots : slots[i].order.side = s}
<1>1. ASSUME NEW s \in Sides
      PROVE  /\ IsFiniteSet(Of(s)) /\ Cardinality(Of(s)) = Len(book[s]) /\ Len(book[s]) \in Nat
  <2>1. PICK q : q = Line(s) /\ Chain(s, q)
    BY DEF Chains
  <2>2. PICK n \in Nat : n = Len(q) /\ n = Len(book[s])
    BY <2>1, ChainTyped, BookRead
  <2>3. \A k \in 1 .. n : q[k] \in Of(s)
    BY <2>1, <2>2 DEF Chain
  <2>4. q \in [1 .. n -> Of(s)]
    <3>1. q \in [1 .. n -> SlotIdxs]
      <4>1. q \in Seq(SlotIdxs)
        BY <2>1, ChainTyped
      <4>2. q \in [1 .. Len(q) -> SlotIdxs]
        BY <4>1, LenProperties
      <4> QED BY <2>2, <4>2
    <3> HIDE DEF Of
    <3> QED BY <2>3, <3>1
  <2>5. /\ \A j, k \in 1 .. n : q[j] = q[k] => j = k
        /\ \A i \in Of(s) : \E k \in 1 .. n : q[k] = i
    BY <2>1, <2>2 DEF Chain
  <2> HIDE DEF Of
  <2>6. q \in Bijection(1 .. n, Of(s))
    BY <2>4, <2>5 DEF Bijection, Injection, Surjection, IsInjective
  <2>7. IsFiniteSet(1 .. n) /\ Cardinality(1 .. n) = n
    BY CountTo, IntervalsFinite
  <2>8. IsFiniteSet(Of(s)) /\ Cardinality(Of(s)) = Cardinality(1 .. n)
    BY <2>6, <2>7, FS_Bijection DEF ExistsBijection
  <2> QED BY <2>2, <2>7, <2>8
<1>2. Of("Bid") \cup Of("Ask") = LiveSlots /\ Of("Bid") \cap Of("Ask") = {}
  <2>1. \A i \in LiveSlots : slots[i].order.side \in {"Bid", "Ask"}
    BY Neighbours DEF BookInv, Sides
  <2> QED BY <2>1
<1> HIDE DEF Of
<1>3. "Bid" \in Sides /\ "Ask" \in Sides
  BY DEF Sides
<1>4. Cardinality(LiveSlots) = Cardinality(Of("Bid")) + Cardinality(Of("Ask")) - Cardinality({})
  BY <1>1, <1>2, <1>3, FS_Union
<1>5. Len(book["Bid"]) + Len(book["Ask"]) = Cardinality(LiveSlots)
  <2>1. PICK a \in Nat, b \in Nat : /\ a = Len(book["Bid"]) /\ a = Cardinality(Of("Bid"))
                                   /\ b = Len(book["Ask"]) /\ b = Cardinality(Of("Ask"))
    BY <1>1, <1>3
  <2>2. Cardinality({}) = 0
    BY FS_EmptySet
  <2>3. Cardinality(LiveSlots) = a + b - 0
    BY <1>4, <2>1, <2>2
  <2>4. a + b - 0 = a + b
    OBVIOUS
  <2> QED BY <2>1, <2>3, <2>4
<1>6. len = Cardinality(LiveSlots) /\ len \in 0 .. MaxLiveOrders
  BY DEF BookInv, CountsRight, BookTyped
<1>7. IsFull <=> len >= MaxLiveOrders
  <2>1. PICK m \in Int : m = MaxLiveOrders - len
    BY <1>6, SlotsAreNats
  <2>2. PICK f \in [1 .. m -> SlotIdxs] : Stacked(f, m)
    BY <2>1 DEF BookInv, FreeStack
  <2>3. m \in Nat /\ (m = 0 <=> len >= MaxLiveOrders)
    BY <1>6, <2>1, SlotsAreNats
  <2>4. m # 0 => f[m] \in SlotIdxs
    BY <2>2, <2>3
  <2>5. freeHead = IF m = 0 THEN NIL ELSE f[m]
    BY <2>2 DEF Stacked
  <2> QED BY <2>3, <2>4, <2>5, SlotsAreNats DEF IsFull
<1> QED BY <1>5, <1>6, <1>7 DEF View!AtCapacity, View!LiveCount

-----------------------------------------------------------------------------
(* can_fill_fully: sums over slots, over levels and over positions.        *)

(* The sum that the engine's invariant speaks of is the sum of the module. *)
LEMMA SumsToIsSum ==
  ASSUME NEW w, \A i \in SlotIdxs : w[i] \in Int, NEW t, SumsTo(w, t)
  PROVE  t = SumFunctionOnSet(w, SlotIdxs)
<1>1. PICK acc \in [0 .. MaxLiveOrders -> Nat] :
        /\ acc[0] = 0
        /\ acc[MaxLiveOrders] = t
        /\ \A k \in SlotIdxs : acc[k + 1] = acc[k] + w[k]
  BY DEF SumsTo
<1> DEFINE F == {k \in 0 .. MaxLiveOrders : acc[k] # SumFunctionOnSet(w, 0 .. k - 1)}
<1>2. MaxLiveOrders \in Nat
  BY SlotsAreNats
<1>3. ASSUME F # {} PROVE FALSE
  <2>1. F \in SUBSET Nat
    BY <1>2
  <2>2. PICK k \in F : \A j \in F : k <= j
    <3> HIDE DEF F
    <3> QED BY <1>3, <2>1, SmallestExists
  <2>3. k \in 0 .. MaxLiveOrders /\ acc[k] # SumFunctionOnSet(w, 0 .. k - 1)
    BY <2>2
  <2>4. k # 0
    <3>1. 0 .. 0 - 1 = {}
      OBVIOUS
    <3>2. SumFunctionOnSet(w, {}) = 0
      BY SumEmpty
    <3> QED BY <1>1, <2>3, <3>1, <3>2
  <2>5. PICK j \in SlotIdxs : k = j + 1 /\ j \in 0 .. MaxLiveOrders /\ j \notin F
    <3>1. k - 1 \in SlotIdxs /\ k - 1 \in 0 .. MaxLiveOrders /\ k = (k - 1) + 1
      BY <1>2, <2>3, <2>4 DEF SlotIdxs
    <3>2. k - 1 \notin F
      BY <2>2, <2>3
    <3> QED BY <3>1, <3>2
  <2>6. acc[j] = SumFunctionOnSet(w, 0 .. j - 1) /\ acc[k] = acc[j] + w[j] /\ acc[j] \in Nat
    BY <1>1, <2>5
  <2>7. 0 .. k - 1 = 0 .. j /\ (0 .. j) \ {j} = 0 .. j - 1 /\ j \in 0 .. j /\ 0 .. j \subseteq SlotIdxs
    BY <1>2, <2>5 DEF SlotIdxs
  <2>8. SumFunctionOnSet(w, 0 .. j) = w[j] + SumFunctionOnSet(w, (0 .. j) \ {j})
    <3>1. IsFiniteSet(0 .. j) /\ \A y \in 0 .. j : w[y] \in Int
      BY <2>5, <2>7, IntervalsFinite DEF SlotIdxs
    <3> QED BY <2>7, <3>1, SumStep, SMTT(60)
  <2>9. SumFunctionOnSet(w, 0 .. k - 1) = w[j] + acc[j] /\ w[j] \in Int
    BY <2>5, <2>6, <2>7, <2>8
  <2> QED BY <2>3, <2>6, <2>9
<1>4. t = SumFunctionOnSet(w, 0 .. MaxLiveOrders - 1)
  <2>1. MaxLiveOrders \in 0 .. MaxLiveOrders /\ MaxLiveOrders \notin F
    BY <1>2, <1>3
  <2> QED BY <1>1, <2>1
<1> QED BY <1>4 DEF SlotIdxs

(* A sum of sums over disjoint sets is the sum over all of them.           *)
LEMMA SumGrouped ==
  ASSUME NEW W, IsFiniteSet(W), NEW D, IsFiniteSet(D), NEW A \in [W -> SUBSET D],
         \A l, m \in W : l # m => A[l] \cap A[m] = {},
         NEW f, \A y \in D : f[y] \in Int,
         NEW g, \A l \in W : g[l] = SumFunctionOnSet(f, A[l])
  PROVE  SumFunctionOnSet(g, W) = SumFunctionOnSet(f, UNION {A[l] : l \in W})
<1> DEFINE Pool(T) == UNION {A[l] : l \in T}
           F == {T \in SUBSET W : SumFunctionOnSet(g, T) # SumFunctionOnSet(f, Pool(T))}
<1>1. \A T \in SUBSET W : IsFiniteSet(T) /\ Cardinality(T) \in Nat
  BY FS_Subset, FS_CardinalityType
<1>2. \A l \in W : IsFiniteSet(A[l]) /\ g[l] \in Int
  <2>1. ASSUME NEW l \in W PROVE IsFiniteSet(A[l]) /\ g[l] \in Int
    <3>1. A[l] \in SUBSET D
      OBVIOUS
    <3>2. IsFiniteSet(A[l]) /\ \A y \in A[l] : f[y] \in Int
      BY <3>1, FS_Subset
    <3> QED BY <3>2, SumStep
  <2> QED BY <2>1
<1>3. ASSUME F # {} PROVE FALSE
  <2>1. PICK T \in F : \A U \in F : Cardinality(T) <= Cardinality(U)
    <3>1. \A U \in F : IsFiniteSet(U)
      BY <1>1
    <3> HIDE DEF F
    <3> QED BY <1>3, <3>1, FewestExists
  <2>2. /\ T \in SUBSET W /\ IsFiniteSet(T) /\ Cardinality(T) \in Nat
        /\ SumFunctionOnSet(g, T) # SumFunctionOnSet(f, Pool(T))
    BY <1>1, <2>1
  <2>3. T # {}
    <3>1. Pool({}) = {}
      OBVIOUS
    <3> HIDE DEF Pool
    <3> QED BY <2>2, <3>1, SumEmpty
  <2>4. PICK x \in T : TRUE
    BY <2>3
  <2>5. PICK U : U = T \ {x}
    OBVIOUS
  <2>6. U \in SUBSET W /\ IsFiniteSet(U) /\ Cardinality(U) = Cardinality(T) - 1
    BY <2>2, <2>4, <2>5, FS_RemoveElement
  <2>7. SumFunctionOnSet(g, U) = SumFunctionOnSet(f, Pool(U))
    <3>1. U \notin F
      <4> HIDE DEF F
      <4> QED BY <2>1, <2>2, <2>6
    <3> QED BY <2>6, <3>1
  <2>8. SumFunctionOnSet(g, T) = g[x] + SumFunctionOnSet(g, U)
    <3>1. \A y \in T : g[y] \in Int
      BY <1>2, <2>2
    <3> QED BY <2>2, <2>4, <2>5, <3>1, SumStep
  <2>9. Pool(T) = A[x] \cup Pool(U) /\ A[x] \cap Pool(U) = {} /\ Pool(U) \subseteq D
        /\ A[x] \subseteq D
    BY <2>2, <2>4, <2>5
  <2> HIDE DEF Pool
  <2>10. SumFunctionOnSet(f, Pool(T)) = SumFunctionOnSet(f, A[x]) + SumFunctionOnSet(f, Pool(U))
    <3>1. IsFiniteSet(A[x]) /\ IsFiniteSet(Pool(U)) /\ \A y \in A[x] \cup Pool(U) : f[y] \in Int
      BY <2>9, FS_Subset
    <3> QED BY <2>9, <3>1, SumUnion
  <2> QED BY <2>2, <2>4, <2>7, <2>8, <2>10
<1> QED BY <1>3

(* What rests at a level is its total.                                     *)
Quantities == [i \in SlotIdxs |-> IF i \in LiveSlots THEN slots[i].order.remaining ELSE 0]

LEMMA QuantitiesTyped == ASSUME BookInv PROVE \A i \in SlotIdxs : Quantities[i] \in Nat
<1>1. \A i \in LiveSlots : slots[i].order.remaining \in Nat
  BY PriceOfLevel
<1> QED BY <1>1 DEF Quantities

LEMMA TotalOfLevel ==
  ASSUME BookInv, NEW s \in Sides, NEW l \in LevelIdxs
  PROVE  levels[s][l].total = SumFunctionOnSet(Quantities, At(s, l))
<1>1. /\ SumsTo(QtysAt(s, l), levels[s][l].total)
      /\ At(s, l) \in SUBSET SlotIdxs /\ At(s, l) \in SUBSET LiveSlots
      /\ IsFiniteSet(SlotIdxs)
  BY SlotsAreNats DEF BookInv, TotalsRight, At, LiveSlots
<1>2. PICK w : w = QtysAt(s, l)
  OBVIOUS
<1>3. PICK R : R = SlotIdxs \ At(s, l)
  OBVIOUS
<1>4. /\ \A i \in At(s, l) : w[i] = Quantities[i] /\ w[i] \in Nat
      /\ \A i \in R : w[i] = 0
  BY <1>1, <1>2, <1>3, QuantitiesTyped DEF QtysAt, Quantities, LiveSlots
<1>5. IsFiniteSet(R) /\ IsFiniteSet(At(s, l)) /\ R \cap At(s, l) = {} /\ At(s, l) \cup R = SlotIdxs
  BY <1>1, <1>3, FS_Subset
<1>6. levels[s][l].total = SumFunctionOnSet(w, SlotIdxs)
  <2>1. \A i \in SlotIdxs : w[i] \in Int
    BY <1>4, <1>5
  <2> QED BY <1>1, <1>2, <2>1, SumsToIsSum
<1>7. SumFunctionOnSet(w, SlotIdxs) = SumFunctionOnSet(w, At(s, l)) + SumFunctionOnSet(w, R)
  <2>1. \A i \in At(s, l) \cup R : w[i] \in Int
    BY <1>4
  <2>2. SumFunctionOnSet(w, At(s, l) \cup R) = SumFunctionOnSet(w, At(s, l)) + SumFunctionOnSet(w, R)
    BY <1>5, <2>1, SumUnion
  <2> QED BY <1>5, <2>2
<1>8. SumFunctionOnSet(w, R) = 0
  BY <1>4, <1>5, SumZeros
<1>9. SumFunctionOnSet(w, At(s, l)) = SumFunctionOnSet(Quantities, At(s, l))
  BY <1>4, <1>5, SumSame
<1>10. SumFunctionOnSet(w, At(s, l)) \in Int
  BY <1>4, <1>5, SumStep
<1> QED BY <1>6, <1>7, <1>8, <1>9, <1>10

(* The levels that a walk looks at are the occupied ones.                  *)
LEMMA WalkedIsOccupied ==
  ASSUME BookInv, NEW s \in Sides PROVE LevelsWalked(s) = Occupied(s)
<1>1. /\ best[s] = NIL => Occupied(s) = {}
      /\ best[s] # NIL => best[s] \in Occupied(s)
      /\ \A l \in Occupied(s) : ~ Better(s, l, best[s])
      /\ occupied[s] = Occupied(s)
  <2>1. BestIsTrue /\ NIL \notin LevelIdxs
    BY SlotsAreNats DEF BookInv
  <2> QED BY <2>1 DEF BestIsTrue, Occupied
<1>2. NIL \notin LevelIdxs /\ Occupied(s) \subseteq LevelIdxs
  BY SlotsAreNats DEF Occupied
<1>3. CASE best[s] = NIL
  BY <1>1, <1>2, <1>3 DEF LevelsWalked
<1>4. CASE best[s] # NIL
  <2>1. PICK b \in LevelIdxs : b = best[s] /\ b \in Occupied(s)
    BY <1>1, <1>2, <1>4
  <2>2. \A l \in Occupied(s) : l = b \/ Better(s, b, l)
    BY <1>1, <1>2, <2>1, BetterFacts
  <2> QED BY <1>1, <1>2, <2>1, <2>2 DEF LevelsWalked
<1> QED BY <1>3, <1>4

(* Whatever is not worse than a level within the limit is within it.       *)
LEMMA CrossesBetter ==
  ASSUME NEW s \in Sides, NEW p \in I64, NEW l \in LevelIdxs, NEW m \in LevelIdxs,
         Crosses(s, p, IdxToPrice(l)), ~ Better(Opposite(s), l, m)
  PROVE  Crosses(s, p, IdxToPrice(m))
<1>1. PICK a \in Int, b \in Int : /\ a = IdxToPrice(l) /\ b = IdxToPrice(m)
                                  /\ (a < b <=> l < m) /\ (b < a <=> m < l)
  BY PricesAscend
<1>2. p \in Int /\ l \in Nat /\ m \in Nat
  BY SlotsAreNats, GridAssumption DEF I64
<1> QED BY <1>1, <1>2 DEF Crosses, Better, Opposite, Sides

(* The level totals within the limit of an order are what the orders       *)
(* within its limit have left.                                             *)
LEMMA TotalView ==
  ASSUME BookInv, Chains, book = OracleBook, NEW t \in Takers, NEW b, b = book[Opposite(t.side)]
  PROVE  /\ TotalWithin(t) = SumFunctionOnSet([i \in DOMAIN b |-> b[i].remaining],
                                              {i \in DOMAIN b : Crosses(t.side, t.price, b[i].price)})
         /\ TotalWithin(t) \in Int
<1>1. PICK s \in Sides : s = Opposite(t.side)
  BY OppositeTyped DEF Takers
<1>2. PICK q : q = Line(s) /\ Chain(s, q)
  BY DEF Chains
<1>3. PICK n \in Nat : n = Len(q) /\ DOMAIN b = 1 .. n /\ \A k \in 1 .. n : b[k] = slots[q[k]].order
  <2>1. Len(q) \in Nat
    BY <1>2, ChainTyped
  <2>2. DOMAIN b = 1 .. Len(q) /\ \A k \in 1 .. Len(q) : b[k] = slots[q[k]].order
    BY <1>1, <1>2, BookRead
  <2> QED BY <2>1, <2>2
<1> DEFINE In(l) == Crosses(t.side, t.price, IdxToPrice(l))
           W == {l \in Occupied(s) : In(l)}
           A == [l \in W |-> At(s, l)]
           R == UNION {A[l] : l \in W}
           C == {k \in 1 .. n : Crosses(t.side, t.price, b[k].price)}
           tot == [l \in LevelIdxs |-> levels[s][l].total]
           rem == [k \in 1 .. n |-> b[k].remaining]
<1>4. TotalWithin(t) = SumFunctionOnSet(tot, W)
  <2>1. {l \in LevelsWalked(s) : Crosses(t.side, t.price, IdxToPrice(l))} = W
    BY <1>1, WalkedIsOccupied
  <2> HIDE DEF W
  <2> QED BY <1>1, <2>1 DEF TotalWithin
<1>5. \A k \in 1 .. n : /\ q[k] \in LiveSlots /\ q[k] \in At(s, Lv(q[k])) /\ Lv(q[k]) \in Occupied(s)
                        /\ b[k].price = IdxToPrice(Lv(q[k])) /\ b[k].remaining = Quantities[q[k]]
                        /\ b[k].remaining \in Nat
  <2>1. ASSUME NEW k \in 1 .. n
        PROVE  /\ q[k] \in LiveSlots /\ q[k] \in At(s, Lv(q[k])) /\ Lv(q[k]) \in Occupied(s)
               /\ b[k].price = IdxToPrice(Lv(q[k])) /\ b[k].remaining = Quantities[q[k]]
               /\ b[k].remaining \in Nat
    <3>1. PICK i \in LiveSlots : i = q[k] /\ i \in At(s, Lv(i)) /\ slots[i].order.side = s
      BY <1>2, <1>3, ChainTyped
    <3>2. i \in SlotIdxs /\ Lv(i) \in Occupied(s)
      BY <3>1, LevelOccupied DEF LiveSlots, Lv
    <3>3. b[k].price = IdxToPrice(Lv(i)) /\ slots[i].order.remaining \in Nat
      BY <1>3, <3>1, PriceOfLevel
    <3> QED BY <1>3, <3>1, <3>2, <3>3 DEF Quantities
  <2> QED BY <2>1
<1>6. \A l \in W : l \in LevelIdxs /\ tot[l] = SumFunctionOnSet(Quantities, A[l])
  <2>1. \A l \in W : l \in LevelIdxs
    BY DEF Occupied
  <2> QED BY <2>1, TotalOfLevel
<1>7. IsFiniteSet(W) /\ A \in [W -> SUBSET SlotIdxs] /\ IsFiniteSet(SlotIdxs)
  <2>1. LevelIdxs = 0 .. NumLevels - 1 /\ NumLevels - 1 \in Int /\ IsFiniteSet(LevelIdxs)
    BY SlotsAreNats, IntervalsFinite DEF LevelIdxs
  <2>2. W \in SUBSET LevelIdxs
    BY <1>6
  <2>3. IsFiniteSet(W)
    BY <2>1, <2>2, FS_Subset
  <2>4. A \in [W -> SUBSET SlotIdxs]
    BY DEF At
  <2> QED BY <2>3, <2>4, SlotsAreNats
<1>8. \A l, m \in W : l # m => A[l] \cap A[m] = {}
  BY DEF At
<1>9. SumFunctionOnSet(tot, W) = SumFunctionOnSet(Quantities, R)
  <2>1. \A i \in SlotIdxs : Quantities[i] \in Int
    BY QuantitiesTyped
  <2>2. PICK W1, A1, g1 : W1 = W /\ A1 = A /\ g1 = tot
    OBVIOUS
  <2>3. /\ IsFiniteSet(W1) /\ A1 \in [W1 -> SUBSET SlotIdxs] /\ IsFiniteSet(SlotIdxs)
        /\ \A l, m \in W1 : l # m => A1[l] \cap A1[m] = {}
        /\ \A l \in W1 : g1[l] = SumFunctionOnSet(Quantities, A1[l])
    BY <1>6, <1>7, <1>8, <2>2
  <2>4. SumFunctionOnSet(g1, W1) = SumFunctionOnSet(Quantities, UNION {A1[l] : l \in W1})
    BY <2>1, <2>3, SumGrouped
  <2> QED BY <2>2, <2>4
<1>10. SumFunctionOnSet(rem, C) = SumFunctionOnSet(Quantities, R)
  <2>1. IsFiniteSet(C) /\ IsFiniteSet(R)
    <3>1. C \in SUBSET (1 .. n) /\ IsFiniteSet(1 .. n)
      BY IntervalsFinite
    <3>2. R \in SUBSET SlotIdxs
      BY <1>7
    <3> HIDE DEF C, R
    <3> QED BY <3>1, <3>2, <1>7, FS_Subset
  <2>2. \A k \in C : rem[k] = Quantities[q[k]] /\ rem[k] \in Int
    BY <1>5
  <2>3. \A k \in C : q[k] \in R
    <3>1. ASSUME NEW k \in C PROVE q[k] \in R
      <4>1. PICK l \in Occupied(s) : l = Lv(q[k]) /\ In(l) /\ q[k] \in At(s, l)
        BY <1>5
      <4>2. l \in W /\ q[k] \in A[l]
        BY <4>1
      <4> HIDE DEF W, A
      <4> QED BY <4>2
    <3> QED BY <3>1
  <2>4. \A i \in R : \E k \in C : q[k] = i
    <3>1. ASSUME NEW i \in R PROVE \E k \in C : q[k] = i
      <4>1. PICK l \in W : i \in At(s, l)
        BY <3>1
      <4>2. i \in LiveSlots /\ slots[i].order.side = s /\ Lv(i) = l
        BY <4>1 DEF At, LiveSlots, Lv
      <4>3. PICK k \in 1 .. n : q[k] = i
        BY <1>2, <1>3, <4>2 DEF Chain
      <4>4. k \in C
        BY <1>5, <4>2, <4>3
      <4> QED BY <4>3, <4>4
    <3> QED BY <3>1
  <2>5. \A j, k \in C : q[j] = q[k] => j = k
    BY <1>2, <1>3 DEF Chain
  <2>6. PICK S1, R1, f1, h : S1 = C /\ R1 = R /\ f1 = rem /\ h = [k \in C |-> q[k]]
    OBVIOUS
  <2>7. /\ IsFiniteSet(S1) /\ \A y \in S1 : f1[y] \in Int
        /\ IsFiniteSet(R1) /\ h \in [S1 -> R1]
        /\ \A y \in S1 : Quantities[h[y]] = f1[y]
        /\ \A x, y \in S1 : h[x] = h[y] => x = y
        /\ \A z \in R1 : \E y \in S1 : h[y] = z
    <3> HIDE DEF C, R, rem
    <3> QED BY <2>1, <2>2, <2>3, <2>4, <2>5, <2>6
  <2>8. SumFunctionOnSet(f1, S1) = SumFunctionOnSet(Quantities, R1)
    BY <2>7, SumRenamed
  <2> QED BY <2>6, <2>8
<1>11. SumFunctionOnSet(Quantities, R) \in Int
  <2>1. IsFiniteSet(R) /\ \A i \in R : Quantities[i] \in Int
    <3>1. R \in SUBSET SlotIdxs
      BY <1>7
    <3> HIDE DEF R
    <3> QED BY <1>7, <3>1, QuantitiesTyped, FS_Subset
  <2> HIDE DEF R
  <2> QED BY <2>1, SumStep
<1>12. SumFunctionOnSet(rem, C) = SumFunctionOnSet([i \in DOMAIN b |-> b[i].remaining],
                                              {i \in DOMAIN b : Crosses(t.side, t.price, b[i].price)})
  BY <1>3
<1> HIDE DEF R, C, W, tot, rem
<1> QED BY <1>4, <1>9, <1>10, <1>11, <1>12

LEMMA SameSum == \A f, S : View!SumFunctionOnSet(f, S) = SumFunctionOnSet(f, S)
<1>1. \A f, S : View!SumFunctionOnSet(f, S) = SumFn(f, S)[S]
  BY DEF View!SumFunctionOnSet, View!FoldFunctionOnSet, View!MapThenFoldSet, SumFn, SumEq, Some
<1> QED BY <1>1, SumUnfolds

(* Both engines count the same for a fill-or-kill: the fast one the totals *)
(* of the levels within its limit, or along the lists with self-trade      *)
(* prevention, the oracle order by order.                                  *)
LEMMA FokView ==
  ASSUME BookInv, Chains, book = OracleBook, NEW t \in Takers
  PROVE  CanFillFully(t) <=> View!CanFillFully(t)
<1>1. PICK s \in Sides : s = Opposite(t.side)
  BY OppositeTyped DEF Takers
<1>2. PICK q : q = Line(s) /\ Chain(s, q)
  BY DEF Chains
<1>3. PICK n \in Nat : n = Len(q) /\ DOMAIN q = 1 .. n
  <2>1. q \in Seq(SlotIdxs) /\ Len(q) \in Nat
    BY <1>2, ChainTyped
  <2> QED BY <2>1, LenProperties
<1>4. PICK b : b = book[s] /\ DOMAIN b = 1 .. n /\ \A k \in 1 .. n : b[k] = slots[q[k]].order
  <2>1. /\ DOMAIN book[s] = 1 .. Len(q)
        /\ \A k \in 1 .. Len(q) : book[s][k] = slots[q[k]].order
    BY <1>2, BookRead
  <2> QED BY <1>3, <2>1
<1>5. \A k \in 1 .. n : /\ q[k] \in LiveSlots /\ b[k].price = IdxToPrice(Lv(q[k])) /\ Lv(q[k]) \in LevelIdxs
                        /\ b[k].remaining \in Nat
  <2>1. ASSUME NEW k \in 1 .. n
        PROVE  /\ q[k] \in LiveSlots /\ b[k].price = IdxToPrice(Lv(q[k])) /\ Lv(q[k]) \in LevelIdxs
               /\ b[k].remaining \in Nat
    <3>1. PICK i \in LiveSlots : i = q[k] /\ Lv(i) \in LevelIdxs
      BY <1>2, <1>3, ChainTyped
    <3>2. slots[i].order.price = IdxToPrice(Lv(i)) /\ slots[i].order.remaining \in Nat
      BY PriceOfLevel
    <3> QED BY <1>4, <3>1, <3>2
  <2> QED BY <2>1
<1> DEFINE Own(k) == b[k].trader = t.trader
           Meets(k) == Crosses(t.side, t.price, b[k].price)
           Counted == {k \in 1 .. n : /\ ~ (t.stp # "None" /\ Own(k))
                                      /\ \A j \in 1 .. k : /\ Meets(j)
                                                           /\ (t.stp # "None" /\ Own(j)) => t.stp = "CancelResting"}
           rem == [k \in 1 .. n |-> b[k].remaining]
<1>6. View!CanFillFully(t) <=> SumFunctionOnSet(rem, Counted) >= t.remaining
  <2>1. View!CanFillFully(t) <=> View!SumFunctionOnSet(rem, Counted) >= t.remaining
    BY <1>1, <1>4, SameWords DEF View!CanFillFully
  <2> QED BY <2>1, SameSum
<1>7. SumFunctionOnSet(rem, Counted) \in Int /\ t.remaining \in Int
  <2>1. Counted \in SUBSET (1 .. n) /\ IsFiniteSet(1 .. n)
    BY IntervalsFinite
  <2>2. \A k \in Counted : rem[k] \in Int
    BY <1>5
  <2> HIDE DEF Counted, rem
  <2>3. IsFiniteSet(Counted)
    BY <2>1, FS_Subset
  <2> QED BY <2>2, <2>3, SumStep DEF Takers
<1>8. CASE t.stp = "None"
  <2>1. Counted = {k \in 1 .. n : Meets(k)}
    <3>1. ASSUME NEW k \in 1 .. n, Meets(k), NEW j \in 1 .. k PROVE Meets(j)
      <4>1. j \in 1 .. n /\ j <= k
        BY <1>3
      <4>2. CASE j = k
        BY <3>1, <4>2
      <4>3. CASE j < k
        <5>1. ~ Better(s, Lv(q[k]), Lv(q[j]))
          BY <1>2, <1>3, <4>1, <4>3 DEF Chain
        <5>2. t.side \in Sides /\ t.price \in I64
          BY DEF Takers
        <5>3. PICK l \in LevelIdxs, m \in LevelIdxs :
                l = Lv(q[k]) /\ m = Lv(q[j]) /\ b[k].price = IdxToPrice(l) /\ b[j].price = IdxToPrice(m)
          BY <1>5, <4>1
        <5> QED BY <1>1, <3>1, <5>1, <5>2, <5>3, CrossesBetter
      <4> QED BY <4>1, <4>2, <4>3
    <3>2. \A k \in 1 .. n : k \in 1 .. k
      OBVIOUS
    <3>3. Counted = {k \in 1 .. n : \A j \in 1 .. k : Meets(j)}
      BY <1>8
    <3> HIDE DEF Meets, Counted
    <3> QED BY <3>1, <3>2, <3>3
  <2>2. TotalWithin(t) = SumFunctionOnSet(rem, {k \in 1 .. n : Meets(k)})
    BY <1>1, <1>4, TotalView
  <2>3. CanFillFully(t) <=> t.remaining <= TotalWithin(t)
    BY <1>8 DEF CanFillFully
  <2> HIDE DEF Counted, rem, Meets
  <2>4. PICK v \in Int : v = SumFunctionOnSet(rem, Counted) /\ v = TotalWithin(t)
    BY <1>7, <2>1, <2>2
  <2> QED BY <1>6, <1>7, <2>3, <2>4
<1>9. CASE t.stp # "None"
  <2> DEFINE Met(k) == Crosses(t.side, t.price, IdxToPrice(slots[q[k]].level))
             Mine(k) == slots[q[k]].order.trader = t.trader
             Count == {k \in 1 .. n : /\ ~ Mine(k)
                                      /\ \A j \in 1 .. k : Met(j) /\ (Mine(j) => t.stp = "CancelResting")}
             left == [k \in 1 .. n |-> slots[q[k]].order.remaining]
  <2>1. CanFillFully(t) <=> t.remaining <= SumFunctionOnSet(left, Count)
    BY <1>1, <1>2, <1>3, <1>9 DEF CanFillFully
  <2>2. \A k \in 1 .. n : (Met(k) <=> Meets(k)) /\ (Mine(k) <=> Own(k))
    BY <1>4, <1>5 DEF Lv
  <2>3. Count = Counted
    <3>1. \A k \in 1 .. n : \A j \in 1 .. k : j \in 1 .. n
      BY <1>3
    <3> HIDE DEF Met, Mine, Meets, Own
    <3> QED BY <1>9, <2>2, <3>1
  <2>4. left = rem
    BY <1>4
  <2> HIDE DEF Counted, rem, Count, left
  <2>5. PICK v \in Int : v = SumFunctionOnSet(rem, Counted)
    BY <1>7
  <2> QED BY <1>6, <1>7, <2>1, <2>3, <2>4, <2>5
<1> QED BY <1>8, <1>9

(* Verdict by verdict.                                                     *)
LEMMA NewVerdictView ==
  ASSUME BookInv, Chains, book = OracleBook, NEW t \in Takers
  PROVE  NewVerdict(t) = View!NewVerdict(t)
<1>1. index[t.id] # NIL <=> View!Live(t.id)
  BY LiveView DEF Takers
<1>2. IsFull <=> View!AtCapacity
  BY RoomView
<1>3. CanFillFully(t) <=> View!CanFillFully(t)
  BY FokView
<1>4. OnGrid(t.price) <=> View!OnGrid(t.price)
  BY SameWords
<1> QED BY <1>1, <1>2, <1>3, <1>4 DEF NewVerdict, View!NewVerdict

(* The order that the oracle finds is the one that the index leads to.     *)
LEMMA LookupView ==
  ASSUME BookInv, Chains, book = OracleBook, NEW s \in Sides, NEW k \in DOMAIN book[s]
  PROVE  \E i \in LiveSlots : /\ book[s][k] = slots[i].order /\ slots[i].order \in Order
                             /\ slots[i].order.side = s /\ i = Line(s)[k]
                             /\ index[slots[i].order.id] = i /\ i # NIL
<1>1. PICK q : q = Line(s) /\ Chain(s, q)
  BY DEF Chains
<1>2. k \in 1 .. Len(q) /\ book[s][k] = slots[q[k]].order /\ slots[q[k]].order \in Order
  <2>1. /\ DOMAIN book[s] = 1 .. Len(q)
        /\ \A j \in 1 .. Len(q) : book[s][j] = slots[q[j]].order /\ book[s][j] \in Order
    BY <1>1, BookRead
  <2> QED BY <2>1
<1>3. PICK i \in LiveSlots : i = q[k] /\ i # NIL /\ slots[i].order.side = s
  BY <1>1, <1>2, ChainTyped
<1>4. index[slots[i].order.id] = i
  BY DEF BookInv, IndexInverse
<1> QED BY <1>1, <1>2, <1>3, <1>4

LEMMA OwnerView ==
  ASSUME NEW o, NEW i, i # NIL, index[o.id] = i, slots[i].order = o, NEW tr
  PROVE  /\ CancelVerdict(o.id, tr) = IF o.trader # tr THEN "WrongTrader" ELSE "Accepted"
         /\ \A p, q : ModifyVerdict(o.id, tr, p, q) = View!ModifyVerdict(o, tr, p, q)
<1>1. CancelVerdict(o.id, tr) = IF o.trader # tr THEN "WrongTrader" ELSE "Accepted"
  BY DEF CancelVerdict
<1> QED BY <1>1, SameWords DEF ModifyVerdict, View!ModifyVerdict

LEMMA VerdictsView ==
  ASSUME BookInv, Chains, book = OracleBook
  PROVE  VerdictsAgree
<1>1. ASSUME NEW t \in NewOrders PROVE NewVerdict(t) = View!NewVerdict(t)
  <2>1. t \in Takers
    BY BookAssumption DEF NewOrders, Takers
  <2> QED BY <2>1, NewVerdictView
<1>2. \A id \in OrderIds : index[id] = NIL <=> ~ View!Live(id)
  BY LiveView
<1>3. ASSUME NEW s \in Sides, NEW k \in DOMAIN book[s], NEW tr \in TraderIds
      PROVE  /\ CancelVerdict(book[s][k].id, tr) = "WrongTrader" <=> book[s][k].trader # tr
             /\ \A p \in InPrices, q \in InQtys :
                  ModifyVerdict(book[s][k].id, tr, p, q) = View!ModifyVerdict(book[s][k], tr, p, q)
  <2>1. PICK o : o = book[s][k]
    OBVIOUS
  <2>2. PICK i \in LiveSlots : i # NIL /\ index[o.id] = i /\ slots[i].order = o
    BY <2>1, LookupView
  <2>3. /\ CancelVerdict(o.id, tr) = IF o.trader # tr THEN "WrongTrader" ELSE "Accepted"
        /\ \A p, q : ModifyVerdict(o.id, tr, p, q) = View!ModifyVerdict(o, tr, p, q)
    BY <2>2, OwnerView
  <2> QED BY <2>1, <2>3
<1> QED BY <1>1, <1>2, <1>3 DEF VerdictsAgree

-----------------------------------------------------------------------------
(* The invariant of the refinement: the book is what the engine's lists    *)
(* say, the level being walked is within the limit of the order in the     *)
(* loop, and the event buffer has room for what is still to be said.       *)

WithinLimit == lvl # NIL => Crosses(taker.side, taker.price, IdxToPrice(lvl))

Pending(t) == IF t # NoOrder /\ t.remaining > 0 THEN 1 ELSE 0

RoomForEvents == Len(out) + len + Pending(taker) <= MaxLiveOrders + 2

RInv == IInv /\ Chains /\ book = OracleBook /\ WithinLimit /\ RoomForEvents

(* What is left to show of a step of the engine.                           *)
Simulated == /\ Chains' /\ WithinLimit' /\ RoomForEvents'
             /\ View!Next \/ UNCHANGED <<book, taker, out>>

LEMMA PendingIsNat == \A t : Pending(t) \in 0 .. 1
BY DEF Pending

LEMMA PushAppends ==
  ASSUME NEW buf \in Seq(Event), Len(buf) <= MaxLiveOrders + 3, NEW e
  PROVE  Pushed(buf, e) = Append(buf, e)
BY LenProperties, SlotsAreNats DEF Pushed, EventCapacity

LEMMA RoomNow ==
  ASSUME RInv
  PROVE  /\ out \in Seq(Event) /\ Len(out) \in Nat /\ len \in Nat /\ MaxLiveOrders \in Nat \ {0}
         /\ len \in 0 .. MaxLiveOrders
         /\ Len(out) <= MaxLiveOrders + 2
         /\ \A e : Pushed(out, e) = Append(out, e)
         /\ \A d, e : d \in Event => Pushed(Pushed(out, d), e) = out \o <<d, e>>
         /\ \A e \in Event : Len(Append(out, e)) = Len(out) + 1
         /\ \A d, e \in Event : Len(out \o <<d, e>>) = Len(out) + 2
<1>1. /\ out \in Seq(Event) /\ len \in 0 .. MaxLiveOrders
      /\ Len(out) + len + Pending(taker) <= MaxLiveOrders + 2
  BY DEF RInv, IInv, LoopInv, BookInv, BookTyped, RoomForEvents
<1>2. Len(out) \in Nat /\ MaxLiveOrders \in Nat \ {0} /\ len \in Nat
  BY <1>1, LenProperties, SlotsAreNats
<1>3. PICK n \in 0 .. 1 : n = Pending(taker)
  BY PendingIsNat
<1>4. Len(out) <= MaxLiveOrders + 2 /\ Len(out) <= MaxLiveOrders + 3
  BY <1>1, <1>2, <1>3
<1>5. \A e : Pushed(out, e) = Append(out, e)
  BY <1>1, <1>4, PushAppends
<1>6. \A e \in Event : Append(out, e) \in Seq(Event) /\ Len(Append(out, e)) = Len(out) + 1
  BY <1>1, AppendProperties
<1>7. ASSUME NEW d \in Event, NEW e PROVE Pushed(Pushed(out, d), e) = out \o <<d, e>>
  <2>1. PICK b \in Seq(Event) : b = Append(out, d) /\ Len(b) = Len(out) + 1 /\ b = Pushed(out, d)
    BY <1>5, <1>6
  <2>2. Len(b) <= MaxLiveOrders + 3
    BY <1>2, <1>4, <2>1
  <2>3. Pushed(b, e) = Append(b, e)
    BY <2>2, PushAppends
  <2>4. Append(Append(out, d), e) = out \o <<d, e>>
    BY <1>1
  <2> QED BY <2>1, <2>3, <2>4
<1>8. \A d, e \in Event : Len(out \o <<d, e>>) = Len(out) + 2
  BY <1>1
<1> QED BY <1>1, <1>2, <1>4, <1>5, <1>6, <1>7, <1>8

-----------------------------------------------------------------------------
(* The engine's actions, one by one.                                       *)

(* The room that is left, and the limit, in the next state.                *)
LEMMA RoomLeft ==
  ASSUME Len(out') + len' + (IF taker' # NoOrder /\ taker'.remaining > 0 THEN 1 ELSE 0)
           <= MaxLiveOrders + 2
  PROVE  RoomForEvents'
BY DEF RoomForEvents, Pending

LEMMA NoLimit == ASSUME lvl' = NIL PROVE WithinLimit'
BY DEF WithinLimit

(* What the steps of the engine that say nothing about the orders keep.    *)
LEMMA EnginePauses ==
  ASSUME RInv, book' = OracleBook', UNCHANGED <<arena, sides, index, taker, out>>, WithinLimit'
  PROVE  Simulated
<1>1. BookInv /\ Chains /\ book = OracleBook /\ UNCHANGED <<arena, sides, index>>
  BY DEF RInv, IInv
<1>2. Chains' /\ book' = book
  BY <1>1, SameBook
<1>3. RoomForEvents'
  <2>1. len' = len
    BY DEF arena
  <2> QED BY <2>1, RoomLeft DEF RInv, RoomForEvents, Pending
<1> QED BY <1>2, <1>3 DEF Simulated

LEMMA EnterSim == ASSUME RInv, book' = OracleBook', EnterLevel PROVE Simulated
<1>1. /\ UNCHANGED <<arena, sides, index, taker, out>>
      /\ lvl' = best[Opp] /\ Crosses(taker.side, taker.price, IdxToPrice(best[Opp]))
      /\ taker' = taker
  BY DEF EnterLevel, Marketable
<1>2. WithinLimit'
  BY <1>1 DEF WithinLimit
<1> QED BY <1>1, <1>2, EnginePauses

LEMMA LeaveSim == ASSUME RInv, book' = OracleBook', LeaveLevel PROVE Simulated
<1>1. UNCHANGED <<arena, sides, index, taker, out>> /\ lvl' = NIL
  BY DEF LeaveLevel
<1> QED BY <1>1, NoLimit, EnginePauses

LEMMA StutterSim == ASSUME RInv, book' = OracleBook', UNCHANGED vars PROVE Simulated
<1>1. UNCHANGED <<arena, sides, index, taker, out>> /\ lvl' = lvl /\ taker' = taker
  BY DEF vars, arena, sides
<1>2. WithinLimit'
  BY <1>1 DEF RInv, WithinLimit
<1> QED BY <1>1, <1>2, EnginePauses

(* The maker of the engine is the first order of the oracle's other side.  *)
LEMMA MakerView ==
  ASSUME RInv, AtMaker
  PROVE  /\ View!Opp = Opp /\ View!Maker = Maker /\ View!Marketable
         /\ View!SelfTrade <=> SelfTrade
         /\ Opp \in Sides /\ cur \in LiveSlots /\ slots[cur].order.side = Opp
         /\ slots[cur].level = lvl
         /\ 1 \in DOMAIN book[Opp] /\ 1 \in 1 .. Len(Line(Opp)) /\ Line(Opp)[1] = cur
         /\ book[Opp][1] = Maker /\ Maker \in Order
         /\ taker \in Takers /\ taker # NoOrder /\ taker.remaining > 0
         /\ Len(out) + len <= MaxLiveOrders + 1
<1>1. /\ BookInv /\ Chains /\ book = OracleBook /\ IInv
      /\ lvl # NIL /\ cur # NIL /\ taker.remaining > 0
  BY DEF RInv, IInv, AtMaker
<1>2. /\ cur \in LiveSlots /\ lvl \in LevelIdxs /\ slots[cur].order.side = Opp
      /\ slots[cur].level = lvl /\ slots[cur].order \in Order /\ taker \in Takers
  BY <1>1, AtHead
<1>3. PICK s \in Sides : s = Opp /\ best[s] = lvl
  BY <1>1, AtHead
<1>4. levels[s][lvl].head = cur
  <2>1. ~ (taker.remaining = 0)
    BY <1>1
  <2> QED BY <1>1, <1>3, <2>1 DEF IInv, CursorAtHead
<1>5. taker # NoOrder
  BY <1>2, BookAssumption
<1>6. /\ book[s] # <<>> /\ 1 \in DOMAIN book[s] /\ 1 \in 1 .. Len(Line(s))
      /\ Line(s)[1] = cur /\ book[s][1] = slots[cur].order
      /\ book[s][1].price = IdxToPrice(lvl)
  BY <1>1, <1>3, <1>4, FrontView
<1>7. Crosses(taker.side, taker.price, IdxToPrice(lvl))
  BY <1>1 DEF RInv, WithinLimit
<1>8. View!Opp = s
  BY <1>3, SameWords DEF View!Opp, Opp
<1>9. View!Maker = Maker
  BY <1>6, <1>8 DEF View!Maker, Maker
<1>10. View!Marketable
  BY <1>1, <1>5, <1>6, <1>7, <1>8, SameWords DEF View!Marketable, View!Maker
<1>11. View!SelfTrade <=> SelfTrade
  BY <1>9 DEF View!SelfTrade, SelfTrade
<1>12. Len(out) + len <= MaxLiveOrders + 1
  <2>1. Len(out) + len + 1 <= MaxLiveOrders + 2
    BY <1>1, <1>5 DEF RInv, RoomForEvents, Pending
  <2> QED BY <2>1, RoomNow
<1> QED BY <1>1, <1>2, <1>3, <1>5, <1>6, <1>8, <1>9, <1>10, <1>11, <1>12 DEF Maker

(* A maker that goes is the first of its side.                             *)
LEMMA FrontLeaves ==
  ASSUME RInv, AtMaker, book' = OracleBook', UnlinkAndFree(cur)
  PROVE  /\ Chains' /\ len' = len - 1
         /\ book' = [book EXCEPT ![Opp] = Tail(@)]
<1>1. BookInv /\ Chains /\ book = OracleBook /\ len' = len - 1
  BY DEF RInv, IInv, UnlinkAndFree
<1>2. PICK i \in LiveSlots, s \in Sides :
        /\ i = cur /\ s = Opp /\ s = slots[i].order.side
        /\ 1 \in 1 .. Len(Line(s)) /\ Line(s)[1] = i
  BY MakerView
<1>3. UnlinkAndFree(i)
  BY <1>2
<1>4. Chains' /\ \E m \in DOMAIN book[s] : /\ Line(s)[m] = i
                                           /\ book' = [book EXCEPT ![s] = RemoveAt(@, m)]
  BY <1>1, <1>2, <1>3, UnlinkBook
<1>5. PICK m \in DOMAIN book[s] : Line(s)[m] = i /\ book' = [book EXCEPT ![s] = RemoveAt(@, m)]
  BY <1>4
<1>6. /\ DOMAIN book[s] = 1 .. Len(Line(s)) /\ book[s] \in Seq(Order)
      /\ Len(book[s]) = Len(Line(s))
  BY <1>1, BookRead
<1>7. m = 1
  <2>1. PICK q : q = Line(s) /\ Chain(s, q)
    BY <1>1 DEF Chains
  <2>2. \A j, k \in 1 .. Len(q) : q[j] = q[k] => j = k
    BY <2>1 DEF Chain
  <2> QED BY <1>2, <1>5, <1>6, <2>1, <2>2
<1>8. Tail(book[s]) = RemoveAt(book[s], 1)
  <2>1. PICK b \in Seq(Order) : b = book[s] /\ 1 \in 1 .. Len(b)
    BY <1>2, <1>6
  <2>2. b # <<>>
    BY <2>1
  <2>3. Tail(b) = RemoveAt(b, 1)
    BY <2>1, <2>2, TailIsRemoveAt
  <2> QED BY <2>1, <2>3
<1> QED BY <1>1, <1>2, <1>4, <1>5, <1>7, <1>8

LEMMA StpRestingSim == ASSUME RInv, book' = OracleBook', StpCancelResting PROVE Simulated
<1>1. /\ AtMaker /\ SelfTrade /\ taker.stp = "CancelResting" /\ UnlinkAndFree(cur)
      /\ out' = Pushed(out, StpCancelled(Maker)) /\ taker' = taker /\ lvl' = lvl
  BY DEF StpCancelResting
<1>2. Chains' /\ len' = len - 1 /\ book' = [book EXCEPT ![Opp] = Tail(@)]
  BY <1>1, FrontLeaves
<1>3. PICK e : e = StpCancelled(Maker)
  OBVIOUS
<1>4. e \in Event
  BY <1>1, <1>3, MakerView, EventTypes DEF StpCancelled, Order
<1>5. out' = Append(out, e) /\ Len(out') = Len(out) + 1
  BY <1>1, <1>3, <1>4, RoomNow
<1>6. View!StpCancelled(Maker) = e
  BY <1>3, SameWords
<1>7. View!StpCancelResting
  BY <1>1, <1>2, <1>5, <1>6, MakerView DEF View!StpCancelResting
<1>8. View!Next
  BY <1>7 DEF View!Next, View!Proceed
<1>9. WithinLimit'
  BY <1>1 DEF RInv, WithinLimit
<1>10. RoomForEvents'
  <2>1. Len(out) + len <= MaxLiveOrders + 1 /\ Len(out) \in Nat /\ len \in Nat
        /\ MaxLiveOrders \in Nat
    BY <1>1, MakerView, RoomNow
  <2>2. Len(out') + len' + (IF taker' # NoOrder /\ taker'.remaining > 0 THEN 1 ELSE 0)
          <= MaxLiveOrders + 2
    BY <1>2, <1>5, <2>1
  <2> QED BY <2>2, RoomLeft
<1> QED BY <1>2, <1>8, <1>9, <1>10 DEF Simulated

(* The order in the loop is given up or done with.                         *)
LEMMA RoomAtTheEnd ==
  ASSUME taker' = NoOrder, Len(out') + len' <= MaxLiveOrders + 2, Len(out') \in Nat, len' \in Nat
  PROVE  RoomForEvents'
<1>1. Len(out') + len' + 0 <= MaxLiveOrders + 2
  OBVIOUS
<1> QED BY <1>1, RoomLeft

LEMMA StpAggressorSim == ASSUME RInv, book' = OracleBook', StpCancelAggressor PROVE Simulated
<1>1. /\ AtMaker /\ SelfTrade /\ taker.stp = "CancelAggressor"
      /\ out' = Pushed(out, StpCancelled(taker)) /\ taker' = NoOrder /\ lvl' = NIL
      /\ UNCHANGED <<arena, sides, index>> /\ len' = len
  BY DEF StpCancelAggressor, arena
<1>2. Chains' /\ book' = book
  BY <1>1, SameBook DEF RInv, IInv
<1>3. PICK e : e = StpCancelled(taker)
  OBVIOUS
<1>4. e \in Event
  BY <1>1, <1>3, MakerView, EventTypes DEF StpCancelled, Takers
<1>5. out' = Append(out, e) /\ Len(out') = Len(out) + 1
  BY <1>1, <1>3, <1>4, RoomNow
<1>6. View!StpCancelled(taker) = e
  BY <1>3, SameWords
<1>7. View!StpCancelAggressor
  BY <1>1, <1>2, <1>5, <1>6, MakerView DEF View!StpCancelAggressor
<1>8. View!Next
  BY <1>7 DEF View!Next, View!Proceed
<1>9. RoomForEvents'
  <2>1. Len(out) + len <= MaxLiveOrders + 1 /\ Len(out) \in Nat /\ len \in Nat
        /\ MaxLiveOrders \in Nat
    BY <1>1, MakerView, RoomNow
  <2>2. Len(out') + len' <= MaxLiveOrders + 2 /\ Len(out') \in Nat /\ len' \in Nat
    BY <1>1, <1>5, <2>1
  <2> QED BY <1>1, <2>2, RoomAtTheEnd
<1> QED BY <1>1, <1>2, <1>8, <1>9, NoLimit DEF Simulated

LEMMA StpBothSim == ASSUME RInv, IInv', book' = OracleBook', StpCancelBoth PROVE Simulated
<1>1. /\ AtMaker /\ SelfTrade /\ taker.stp = "CancelBoth" /\ UnlinkAndFree(cur)
      /\ out' = Pushed(Pushed(out, StpCancelled(Maker)), StpCancelled(taker))
      /\ taker' = NoOrder /\ lvl' = NIL
  BY DEF StpCancelBoth
<1>2. Chains' /\ len' = len - 1 /\ book' = [book EXCEPT ![Opp] = Tail(@)]
  BY <1>1, FrontLeaves
<1>3. PICK d, e : d = StpCancelled(Maker) /\ e = StpCancelled(taker)
  OBVIOUS
<1>4. d \in Event /\ e \in Event
  BY <1>1, <1>3, MakerView, EventTypes DEF StpCancelled, Takers, Order
<1>5. out' = out \o <<d, e>> /\ Len(out') = Len(out) + 2
  BY <1>1, <1>3, <1>4, RoomNow
<1>6. View!StpCancelled(Maker) = d /\ View!StpCancelled(taker) = e
  BY <1>3, SameWords
<1>7. View!StpCancelBoth
  BY <1>1, <1>2, <1>5, <1>6, MakerView DEF View!StpCancelBoth
<1>8. View!Next
  BY <1>7 DEF View!Next, View!Proceed
<1>9. RoomForEvents'
  <2>1. Len(out) + len <= MaxLiveOrders + 1 /\ Len(out) \in Nat /\ len \in Nat
        /\ MaxLiveOrders \in Nat
    BY <1>1, MakerView, RoomNow
  <2>2. len' \in Nat
    BY SlotsAreNats DEF IInv, BookInv, BookTyped
  <2>3. Len(out') + len' <= MaxLiveOrders + 2 /\ Len(out') \in Nat
    BY <1>2, <1>5, <2>1
  <2> QED BY <1>1, <2>2, <2>3, RoomAtTheEnd
<1> QED BY <1>1, <1>2, <1>8, <1>9, NoLimit DEF Simulated

LEMMA FillSim == ASSUME RInv, IInv', book' = OracleBook', FillMaker PROVE Simulated
<1>1. PICK q : q = Smaller(taker.remaining, Maker.remaining)
  OBVIOUS
<1>2. PICK m : m = Maker
  OBVIOUS
<1>3. /\ AtMaker /\ ~ SelfTrade /\ lvl' = lvl
      /\ out' = Pushed(out, Fill(taker, m.id, m.price, q))
      /\ taker' = [taker EXCEPT !.remaining = @ - q]
      /\ IF q = m.remaining
         THEN UnlinkAndFree(cur)
         ELSE /\ slots' = [slots EXCEPT ![cur].order.remaining = @ - q]
              /\ levels' = [levels EXCEPT ![Opp][lvl].total = @ - q]
              /\ UNCHANGED <<freeHead, len, occupied, best, index>>
  BY <1>1, <1>2 DEF FillMaker
<1>4. m \in Order /\ taker \in Takers /\ m.remaining \in Nat /\ m.id \in OrderIds /\ m.price \in I64
      /\ taker.remaining \in Nat
  BY <1>2, <1>3, MakerView DEF Order, Takers
<1>5. q \in Nat /\ taker.remaining - q \in Nat /\ q <= m.remaining
      /\ (q # m.remaining => q < m.remaining /\ taker.remaining - q = 0)
  BY <1>1, <1>2, <1>4 DEF Smaller
<1>6. /\ taker'.price = taker.price /\ taker'.side = taker.side
      /\ taker'.remaining = taker.remaining - q
  BY <1>3, <1>4, <1>5 DEF Takers
<1>7. PICK e \in Event : e = Fill(taker, m.id, m.price, q)
  BY <1>4, <1>5, EventTypes
<1>8. out' = Append(out, e) /\ Len(out') = Len(out) + 1
  BY <1>3, <1>7, RoomNow
<1>9. PICK s \in Sides : s = Opp /\ book[s][1] = m /\ 1 \in 1 .. Len(Line(s)) /\ Line(s)[1] = cur
  BY <1>2, <1>3, MakerView
<1>10. /\ Chains' /\ book' = [book EXCEPT ![s] = View!AfterFill(@, q)]
       /\ \/ len' = len - 1
          \/ len' = len /\ taker'.remaining = 0
  <2>1. CASE q = m.remaining
    <3>1. UnlinkAndFree(cur)
      BY <1>3, <2>1
    <3>2. Chains' /\ len' = len - 1 /\ book' = [book EXCEPT ![s] = Tail(@)]
      BY <1>3, <1>9, <3>1, FrontLeaves
    <3>3. View!AfterFill(book[s], q) = Tail(book[s])
      BY <1>9, <2>1 DEF View!AfterFill
    <3> QED BY <3>2, <3>3
  <2>2. CASE q # m.remaining
    <3>1. PICK i, l : i = cur /\ l = lvl
      OBVIOUS
    <3>2. FillsPart(i, s, l, q)
      BY <1>2, <1>3, <1>5, <1>9, <2>2, <3>1, MakerView DEF FillsPart, Maker
    <3>3. BookInv /\ Chains /\ book = OracleBook /\ InFront(i, s)
      BY <1>9, <3>1 DEF RInv, IInv, InFront
    <3>4. /\ Chains' /\ book'[s] = FirstLess(book[s], q)
          /\ \A r \in Sides : r # s => book'[r] = book[r]
      BY <3>2, <3>3, PartBook
    <3>5. View!AfterFill(book[s], q) = FirstLess(book[s], q)
      BY <1>9, <2>2 DEF View!AfterFill, FirstLess
    <3>6. len' = len /\ taker'.remaining = 0
      BY <1>3, <1>5, <1>6, <2>2
    <3>7. book' = [book EXCEPT ![s] = View!AfterFill(book[s], q)]
      BY <3>3, <3>4, <3>5, BookBecomes
    <3> QED BY <3>4, <3>6, <3>7
  <2> QED BY <2>1, <2>2
<1>11. View!FillFront
  <2>1. View!Marketable /\ ~ View!SelfTrade /\ View!Maker = m /\ View!Opp = s
    BY <1>2, <1>3, <1>9, MakerView
  <2>2. q = View!Smaller(taker.remaining, m.remaining) /\ e = View!Fill(taker, m.id, m.price, q)
    BY <1>1, <1>2, <1>7, SameWords
  <2> QED BY <1>3, <1>8, <1>10, <2>1, <2>2 DEF View!FillFront
<1>12. View!Next
  BY <1>11 DEF View!Next, View!Proceed
<1>13. WithinLimit'
  BY <1>3, <1>6 DEF RInv, WithinLimit
<1>14. RoomForEvents'
  <2>1. Len(out) + len <= MaxLiveOrders + 1 /\ Len(out) \in Nat /\ len \in Nat
        /\ MaxLiveOrders \in Nat
    BY <1>3, MakerView, RoomNow
  <2>2. len' \in Nat
    BY SlotsAreNats DEF IInv, BookInv, BookTyped
  <2>3. Len(out') + len' + (IF taker' # NoOrder /\ taker'.remaining > 0 THEN 1 ELSE 0)
          <= MaxLiveOrders + 2
    BY <1>8, <1>10, <2>1, <2>2
  <2> QED BY <2>3, RoomLeft
<1> QED BY <1>10, <1>12, <1>13, <1>14 DEF Simulated

(* Both leave the loop when the first order is out of reach.               *)
LEMMA DoneView ==
  ASSUME RInv, CrossDone
  PROVE  /\ taker \in Takers /\ taker # NoOrder /\ lvl = NIL /\ ReadyToRest
         /\ BookInv /\ Chains /\ book = OracleBook
         /\ taker.remaining > 0 => ~ View!Marketable
<1>1. BookInv /\ Chains /\ book = OracleBook /\ IInv
  BY DEF RInv, IInv
<1>2. taker \in Takers /\ taker # NoOrder /\ lvl = NIL /\ ReadyToRest
  BY <1>1, DoneFacts DEF CrossDone
<1>3. PICK s \in Sides : s = Opp
  BY <1>2, OppositeTyped DEF Opp, Takers
<1>4. View!Opp = s
  BY <1>3, SameWords DEF View!Opp, Opp
<1>5. ASSUME taker.remaining > 0, View!Marketable PROVE FALSE
  <2>1. book[s] # <<>> /\ View!Crosses(taker.side, taker.price, book[s][1].price)
    BY <1>4, <1>5 DEF View!Marketable, View!Maker
  <2>2. best[s] # NIL /\ book[s][1].price = IdxToPrice(best[s])
    BY <1>1, <2>1, FrontView
  <2>3. Crosses(taker.side, taker.price, IdxToPrice(best[s]))
    BY <2>1, <2>2, SameWords
  <2>4. Marketable
    BY <1>3, <2>2, <2>3 DEF Marketable
  <2>5. taker.remaining \in Nat
    BY <1>2 DEF Takers
  <2> QED BY <1>5, <2>4, <2>5 DEF CrossDone
<1> QED BY <1>1, <1>2, <1>5

LEMMA FinishSim == ASSUME RInv, IInv', book' = OracleBook', FinishFilled PROVE Simulated
<1>1. /\ CrossDone /\ taker.remaining = 0 /\ taker' = NoOrder /\ out' = out /\ lvl' = lvl
      /\ UNCHANGED <<arena, sides, index>> /\ len' = len
  BY DEF FinishFilled, arena
<1>2. taker # NoOrder /\ lvl' = NIL /\ BookInv /\ Chains /\ book = OracleBook
  BY <1>1, DoneView
<1>3. Chains' /\ book' = book
  BY <1>1, <1>2, SameBook
<1>4. View!FinishFilled
  BY <1>1, <1>2, <1>3 DEF View!FinishFilled
<1>5. View!Next
  BY <1>4 DEF View!Next, View!Proceed
<1>6. RoomForEvents'
  <2>1. PICK n \in Nat, k \in Nat, j \in 0 .. 1 :
          n = Len(out) /\ k = len /\ j = Pending(taker) /\ MaxLiveOrders \in Nat
    BY RoomNow, PendingIsNat
  <2>2. n + k + j <= MaxLiveOrders + 2
    BY <2>1 DEF RInv, RoomForEvents
  <2>3. n + k <= MaxLiveOrders + 2
    BY <2>1, <2>2
  <2> QED BY <1>1, <2>1, <2>3, RoomAtTheEnd
<1> QED BY <1>2, <1>3, <1>5, <1>6, NoLimit DEF Simulated

LEMMA KillSim == ASSUME RInv, IInv', book' = OracleBook', KillRemainder PROVE Simulated
<1>1. /\ CrossDone /\ taker.remaining > 0 /\ taker.tif \in {"Ioc", "Fok"}
      /\ out' = Pushed(out, Cancelled(taker.id, taker.remaining, "Ioc"))
      /\ taker' = NoOrder /\ lvl' = lvl
      /\ UNCHANGED <<arena, sides, index>> /\ len' = len
  BY DEF KillRemainder, arena
<1>2. /\ taker # NoOrder /\ lvl' = NIL /\ BookInv /\ Chains /\ book = OracleBook /\ taker \in Takers
      /\ ~ View!Marketable
  BY <1>1, DoneView
<1>3. Chains' /\ book' = book
  BY <1>1, <1>2, SameBook
<1>4. PICK e \in Event : e = Cancelled(taker.id, taker.remaining, "Ioc")
  BY <1>2, EventTypes DEF Takers
<1>5. out' = Append(out, e) /\ Len(out') = Len(out) + 1
  BY <1>1, <1>4, RoomNow
<1>6. View!KillRemainder
  <2>1. View!Cancelled(taker.id, taker.remaining, "Ioc") = e
    BY <1>4, SameWords
  <2> QED BY <1>1, <1>2, <1>3, <1>5, <2>1 DEF View!KillRemainder
<1>7. View!Next
  BY <1>6 DEF View!Next, View!Proceed
<1>8. RoomForEvents'
  <2>1. Len(out) \in Nat /\ len \in Nat /\ MaxLiveOrders \in Nat
    BY RoomNow
  <2>2. Len(out) + len + 1 <= MaxLiveOrders + 2
    BY <1>1, <1>2 DEF RInv, RoomForEvents, Pending
  <2>3. Len(out') + len' <= MaxLiveOrders + 2 /\ Len(out') \in Nat
    BY <1>1, <1>5, <2>1, <2>2
  <2> QED BY <1>1, <2>1, <2>3, RoomAtTheEnd
<1> QED BY <1>2, <1>3, <1>7, <1>8, NoLimit DEF Simulated

LEMMA RestsSim == ASSUME RInv, IInv', book' = OracleBook', RestRemainder PROVE Simulated
<1>1. CrossDone /\ taker.remaining > 0 /\ taker.tif = "Gtc" /\ taker' = NoOrder /\ lvl' = lvl
  BY DEF RestRemainder
<1>2. /\ taker # NoOrder /\ lvl' = NIL /\ BookInv /\ Chains /\ book = OracleBook /\ taker \in Takers
      /\ ~ View!Marketable /\ ReadyToRest
  BY <1>1, DoneView
<1>3. out' = out /\ len' = len + 1
  BY <1>2 DEF RestRemainder, ReadyToRest
<1>4. Chains'
  BY <1>2, RestBook
<1>5. PICK k \in 0 .. Len(book[taker.side]) :
        /\ View!SortsTo(taker, k)
        /\ book' = [book EXCEPT ![taker.side] = InsertAt(@, k + 1, Resting(taker))]
  BY <1>2, RestBook
<1>6. book' = [book EXCEPT ![taker.side] = View!InsertAt(@, k + 1, View!Resting(taker))]
  <2>1. View!Resting(taker) = Resting(taker)
    BY SameWords
  <2>2. \A b, j, x : View!InsertAt(b, j, x) = InsertAt(b, j, x)
    BY DEF View!InsertAt, InsertAt
  <2> QED BY <1>5, <2>1, <2>2
<1>7. View!RestRemainder
  BY <1>1, <1>2, <1>3, <1>5, <1>6 DEF View!RestRemainder
<1>8. View!Next
  BY <1>7 DEF View!Next, View!Proceed
<1>9. RoomForEvents'
  <2>1. Len(out) \in Nat /\ len \in Nat /\ MaxLiveOrders \in Nat
    BY RoomNow
  <2>2. Len(out) + len + 1 <= MaxLiveOrders + 2
    BY <1>1, <1>2 DEF RInv, RoomForEvents, Pending
  <2>3. Len(out') + len' <= MaxLiveOrders + 2 /\ Len(out') \in Nat /\ len' \in Nat
    BY <1>3, <2>1, <2>2
  <2> QED BY <1>1, <2>3, RoomAtTheEnd
<1> QED BY <1>2, <1>4, <1>8, <1>9, NoLimit DEF Simulated

LEMMA DrainSim == ASSUME RInv, IInv', book' = OracleBook', Drain PROVE Simulated
<1>1. /\ taker = NoOrder /\ taker' = NoOrder /\ out # <<>> /\ out' = <<>> /\ lvl' = lvl
      /\ UNCHANGED <<arena, sides, index>> /\ len' = len
  BY DEF Drain, arena
<1>2. lvl' = NIL /\ BookInv /\ Chains /\ book = OracleBook
  BY <1>1 DEF RInv, IInv, LoopInv
<1>3. Chains' /\ book' = book
  BY <1>1, <1>2, SameBook
<1>4. View!Drain
  BY <1>1, <1>3 DEF View!Drain
<1>5. View!Next
  BY <1>4 DEF View!Next
<1>6. RoomForEvents'
  <2>1. len \in 0 .. MaxLiveOrders /\ MaxLiveOrders \in Nat /\ Len(out') = 0
    BY <1>1, RoomNow
  <2>2. Len(out') + len' <= MaxLiveOrders + 2 /\ Len(out') \in Nat /\ len' \in Nat
    BY <1>1, <2>1
  <2> QED BY <1>1, <2>2, RoomAtTheEnd
<1> QED BY <1>2, <1>3, <1>5, <1>6, NoLimit DEF Simulated

(* Between two inputs the buffer is empty, and what is pushed comes first. *)
LEMMA QuietView ==
  ASSUME RInv, Quiescent
  PROVE  /\ taker = NoOrder /\ lvl = NIL /\ out = <<>> /\ View!Quiescent
         /\ BookInv /\ Chains /\ book = OracleBook
         /\ len \in 0 .. MaxLiveOrders /\ MaxLiveOrders \in Nat
         /\ \A e \in Event : Pushed(out, e) = <<e>> /\ Len(<<e>>) = 1
         /\ \A d, e \in Event : Pushed(Pushed(out, d), e) = <<d, e>> /\ Len(<<d, e>>) = 2
<1>1. taker = NoOrder /\ out = <<>> /\ IInv
  BY DEF Quiescent, RInv
<1>2. lvl = NIL
  BY <1>1, QuiescentFacts
<1>3. \A e \in Event : Pushed(out, e) = <<e>>
  <2>1. \A e \in Event : Append(<<>>, e) = <<e>>
    OBVIOUS
  <2> QED BY <1>1, <2>1, RoomNow
<1>4. \A d, e \in Event : Pushed(Pushed(out, d), e) = <<d, e>>
  <2>1. \A d, e \in Event : <<>> \o <<d, e>> = <<d, e>>
    OBVIOUS
  <2> QED BY <1>1, <2>1, RoomNow
<1> QED BY <1>1, <1>2, <1>3, <1>4, RoomNow DEF RInv, IInv, View!Quiescent

LEMMA NewSim ==
  ASSUME RInv, book' = OracleBook', NEW id \in OrderIds, NEW tr \in TraderIds, NEW s \in Sides,
         NEW p \in InPrices, NEW q \in InQtys, NEW tif \in InTifs, NEW stp \in InStps,
         ApplyNew(id, tr, s, p, q, tif, stp)
  PROVE  Simulated
<1>1. PICK t : t = [id |-> id, trader |-> tr, side |-> s, price |-> p,
                    original |-> q, remaining |-> q, tif |-> tif, stp |-> stp]
  OBVIOUS
<1>2. /\ Quiescent /\ UNCHANGED <<arena, sides, index>> /\ lvl' = lvl /\ len' = len
      /\ \/ NewVerdict(t) = "Accepted" /\ taker' = t /\ out' = Pushed(out, Ack(id))
         \/ /\ NewVerdict(t) # "Accepted"
            /\ out' = Pushed(out, Rejected(id, NewVerdict(t)))
            /\ taker' = taker
  BY <1>1 DEF ApplyNew, arena
<1>3. t \in Takers
  BY <1>1, BookAssumption DEF Takers
<1>4. /\ taker = NoOrder /\ lvl = NIL /\ View!Quiescent
      /\ BookInv /\ Chains /\ book = OracleBook
      /\ len \in 0 .. MaxLiveOrders /\ MaxLiveOrders \in Nat
  BY <1>2, QuietView
<1>5. Chains' /\ book' = book
  BY <1>2, <1>4, SameBook
<1>6. NewVerdict(t) = View!NewVerdict(t)
  BY <1>3, <1>4, NewVerdictView
<1>7. (View!ApplyNew(id, tr, s, p, q, tif, stp)) /\ RoomForEvents'
  <2>1. CASE NewVerdict(t) = "Accepted" /\ taker' = t /\ out' = Pushed(out, Ack(id))
    <3>1. PICK e \in Event : e = Ack(id) /\ e = View!Ack(id)
      BY EventTypes, SameWords
    <3>2. out' = <<e>> /\ Len(out') = 1
      BY <1>2, <2>1, <3>1, QuietView
    <3>3. View!ApplyNew(id, tr, s, p, q, tif, stp)
      BY <1>1, <1>4, <1>5, <1>6, <2>1, <3>1, <3>2 DEF View!ApplyNew
    <3>4. len < MaxLiveOrders
      <4>1. ~ IsFull
        BY <2>1 DEF NewVerdict
      <4>2. ~ View!AtCapacity /\ View!LiveCount = len
        BY <1>4, <4>1, RoomView DEF View!LiveCount
      <4> QED BY <1>4, <4>2 DEF View!AtCapacity
    <3>5. Len(out') + len' + (IF taker' # NoOrder /\ taker'.remaining > 0 THEN 1 ELSE 0)
            <= MaxLiveOrders + 2
      BY <1>2, <1>4, <3>2, <3>4
    <3> QED BY <3>3, <3>5, RoomLeft
  <2>2. CASE /\ NewVerdict(t) # "Accepted"
             /\ out' = Pushed(out, Rejected(id, NewVerdict(t)))
             /\ taker' = taker
    <3>1. NewVerdict(t) \in {"DuplicateOrderId", "UnknownOrderId", "PriceOutOfBounds", "ZeroQty",
                             "FokUnfillable", "ArenaFull", "WrongTrader"}
      BY <2>2 DEF NewVerdict
    <3>2. PICK e \in Event : /\ e = Rejected(id, NewVerdict(t))
                             /\ e = View!Rejected(id, View!NewVerdict(t))
      BY <1>6, <3>1, EventTypes, SameWords
    <3>3. out' = <<e>> /\ Len(out') = 1
      BY <1>2, <2>2, <3>2, QuietView
    <3>4. View!ApplyNew(id, tr, s, p, q, tif, stp)
      BY <1>1, <1>4, <1>5, <1>6, <2>2, <3>2, <3>3 DEF View!ApplyNew
    <3>5. Len(out') + len' <= MaxLiveOrders + 2 /\ Len(out') \in Nat /\ len' \in Nat
      BY <1>2, <1>4, <3>3
    <3> QED BY <1>4, <2>2, <3>4, <3>5, RoomAtTheEnd
  <2> QED BY <1>2, <2>1, <2>2
<1>8. View!Next
  BY <1>7, SameWords DEF View!Next
<1> QED BY <1>2, <1>4, <1>5, <1>7, <1>8, NoLimit DEF Simulated

LEMMA FewAreFew == \A n, m \in Nat : n <= m => 1 + n <= m + 2
OBVIOUS

LEMMA RoomAfterOne ==
  ASSUME taker' = NoOrder, Len(out') = 1, len' \in 0 .. MaxLiveOrders
  PROVE  RoomForEvents'
<1>1. MaxLiveOrders \in Nat /\ len' \in Nat /\ len' <= MaxLiveOrders
  BY SlotsAreNats
<1>2. 1 + len' <= MaxLiveOrders + 2
  BY <1>1, FewAreFew
<1>3. Len(out') + len' <= MaxLiveOrders + 2 /\ Len(out') \in Nat
  BY <1>2
<1> QED BY <1>1, <1>3, RoomAtTheEnd

(* find() finds the order in a live slot.                                  *)
LEMMA FoundView ==
  ASSUME BookInv, Chains, book = OracleBook, NEW i \in LiveSlots
  PROVE  \E s \in Sides : \E m \in DOMAIN book[s] : book[s][m] = slots[i].order
<1>1. PICK s \in Sides : slots[i].order.side = s
  BY Neighbours DEF BookInv
<1>2. PICK q : q = Line(s) /\ Chain(s, q)
  BY <1>1 DEF Chains
<1>3. PICK k \in 1 .. Len(q) : q[k] = i
  BY <1>1, <1>2 DEF Chain
<1>4. k \in DOMAIN book[s] /\ book[s][k] = slots[i].order
  BY <1>2, <1>3, BookRead
<1> QED BY <1>4

LEMMA SameRemoveAt == \A b, m : View!RemoveAt(b, m) = RemoveAt(b, m)
BY DEF View!RemoveAt, RemoveAt

LEMMA CancelSim ==
  ASSUME RInv, IInv', book' = OracleBook', NEW id \in OrderIds, NEW tr \in TraderIds,
         ApplyCancel(id, tr)
  PROVE  Simulated
<1>1. /\ Quiescent /\ taker' = taker /\ lvl' = lvl
      /\ \/ /\ CancelVerdict(id, tr) = "Accepted"
            /\ UnlinkAndFree(index[id])
            /\ out' = Pushed(out, Cancelled(id, slots[index[id]].order.remaining, "User"))
         \/ /\ CancelVerdict(id, tr) # "Accepted"
            /\ out' = Pushed(out, Rejected(id, CancelVerdict(id, tr)))
            /\ UNCHANGED <<arena, sides, index>>
  BY DEF ApplyCancel
<1>2. /\ taker = NoOrder /\ lvl = NIL /\ View!Quiescent
      /\ BookInv /\ Chains /\ book = OracleBook
      /\ len \in 0 .. MaxLiveOrders /\ MaxLiveOrders \in Nat
  BY <1>1, QuietView
<1>3. len' \in 0 .. MaxLiveOrders
  BY DEF IInv, BookInv, BookTyped
<1>4. CASE CancelVerdict(id, tr) = "Accepted"
  <2>1. index[id] # NIL
    BY <1>4 DEF CancelVerdict
  <2>2. PICK i \in LiveSlots : i = index[id] /\ slots[i].order.id = id
    BY <1>2, <2>1, IndexedIsLive
  <2>3. PICK o \in Order : o = slots[i].order
    BY <1>2, LiveTyped DEF BookInv, LiveSlots
  <2>4. o.trader = tr /\ UnlinkAndFree(i) /\ o.id = id
    BY <1>1, <1>4, <2>1, <2>2, <2>3 DEF CancelVerdict
  <2>5. PICK e \in Event : e = Cancelled(id, o.remaining, "User")
    BY EventTypes DEF Order
  <2>6. out' = <<e>> /\ Len(out') = 1
    BY <1>1, <1>4, <2>2, <2>3, <2>5, QuietView
  <2>7. PICK s \in Sides : s = slots[i].order.side
    BY <1>2, Neighbours DEF BookInv
  <2>8. Chains' /\ \E m \in DOMAIN book[s] : /\ book[s][m] = o
                                             /\ book' = [book EXCEPT ![s] = RemoveAt(@, m)]
    BY <1>2, <2>3, <2>4, <2>7, UnlinkBook
  <2>9. PICK m \in DOMAIN book[s] : /\ book[s][m] = o
                                    /\ book' = [book EXCEPT ![s] = RemoveAt(@, m)]
    BY <2>8
  <2>10. View!ApplyCancel(id, tr)
    <3>1. View!RemoveOrder(s, m)
      BY <2>9, SameRemoveAt DEF View!RemoveOrder
    <3>2. e = View!Cancelled(id, o.remaining, "User") /\ s \in View!Sides
      BY <2>5, SameWords
    <3> QED BY <1>1, <1>2, <2>4, <2>6, <2>9, <3>1, <3>2 DEF View!ApplyCancel
  <2>11. View!Next
    BY <2>10 DEF View!Next
  <2>12. RoomForEvents'
    BY <1>1, <1>2, <1>3, <2>6, RoomAfterOne
  <2> QED BY <1>1, <1>2, <2>8, <2>11, <2>12, NoLimit DEF Simulated
<1>5. CASE CancelVerdict(id, tr) # "Accepted"
  <2>1. PICK why : why = CancelVerdict(id, tr)
    OBVIOUS
  <2>2. PICK e \in Event : e = Rejected(id, why) /\ e = View!Rejected(id, why)
    <3>1. why \in {"DuplicateOrderId", "UnknownOrderId", "PriceOutOfBounds",
                   "ZeroQty", "FokUnfillable", "ArenaFull", "WrongTrader"}
      BY <1>5, <2>1 DEF CancelVerdict
    <3> QED BY <3>1, EventTypes, SameWords
  <2>3. out' = <<e>> /\ Len(out') = 1 /\ UNCHANGED <<arena, sides, index>>
    BY <1>1, <1>5, <2>1, <2>2, QuietView
  <2>4. Chains' /\ book' = book
    BY <1>2, <2>3, SameBook
  <2>5. View!ApplyCancel(id, tr)
    <3>1. CASE index[id] = NIL
      <4>1. ~ View!Live(id)
        BY <1>2, <3>1, LiveView
      <4>2. why = "UnknownOrderId"
        BY <2>1, <3>1 DEF CancelVerdict
      <4>3. View!RejectUnknown(id)
        BY <1>1, <1>2, <2>2, <2>3, <2>4, <4>1, <4>2 DEF View!RejectUnknown
      <4> QED BY <4>3 DEF View!ApplyCancel
    <3>2. CASE index[id] # NIL
      <4>1. PICK i \in LiveSlots : i = index[id] /\ slots[i].order.id = id
        BY <1>2, <3>2, IndexedIsLive
      <4>2. PICK s \in Sides : \E m \in DOMAIN book[s] : book[s][m] = slots[i].order
        BY <1>2, FoundView
      <4>3. PICK m \in DOMAIN book[s] : book[s][m].id = id /\ book[s][m] = slots[i].order
        BY <4>1, <4>2
      <4>4. why = "WrongTrader" /\ book[s][m].trader # tr
        BY <1>5, <2>1, <3>2, <4>1, <4>3 DEF CancelVerdict
      <4>5. s \in View!Sides
        BY SameWords
      <4> QED BY <1>1, <1>2, <2>2, <2>3, <2>4, <4>3, <4>4, <4>5 DEF View!ApplyCancel
    <3> QED BY <3>1, <3>2
  <2>6. View!Next
    BY <2>5 DEF View!Next
  <2>7. RoomForEvents'
    BY <1>1, <1>2, <1>3, <2>3, RoomAfterOne
  <2> QED BY <1>1, <1>2, <2>4, <2>6, <2>7, NoLimit DEF Simulated
<1> QED BY <1>4, <1>5

LEMMA ModifyView ==
  ASSUME NEW id, index[id] # NIL, NEW tr, NEW p, NEW q
  PROVE  ModifyVerdict(id, tr, p, q) = View!ModifyVerdict(slots[index[id]].order, tr, p, q)
BY SameWords DEF ModifyVerdict, CancelVerdict, View!ModifyVerdict

LEMMA ModifySim ==
  ASSUME RInv, IInv', book' = OracleBook', NEW id \in OrderIds, NEW tr \in TraderIds,
         NEW p \in InPrices, NEW q \in InQtys, ApplyModify(id, tr, p, q)
  PROVE  Simulated
<1>1. Quiescent /\ lvl' = lvl
  BY DEF ApplyModify
<1>2. /\ taker = NoOrder /\ lvl = NIL /\ View!Quiescent
      /\ BookInv /\ Chains /\ book = OracleBook
      /\ len \in 0 .. MaxLiveOrders /\ MaxLiveOrders \in Nat
  BY <1>1, QuietView
<1>3. len' \in 0 .. MaxLiveOrders
  BY DEF IInv, BookInv, BookTyped
<1>4. CASE ModifyVerdict(id, tr, p, q) = "Accepted"
  <2>1. index[id] # NIL
    BY <1>4 DEF ModifyVerdict, CancelVerdict
  <2>2. PICK i \in LiveSlots : i = index[id] /\ slots[i].order.id = id /\ i # NIL
    BY <1>2, <2>1, IndexedIsLive
  <2>3. PICK o \in Order : o = slots[i].order
    BY <1>2, LiveTyped DEF BookInv, LiveSlots
  <2>4. PICK t : t = [id |-> id, trader |-> tr, side |-> o.side, price |-> p, original |-> q,
                      remaining |-> q, tif |-> "Gtc", stp |-> o.stp]
    OBVIOUS
  <2>5. /\ UnlinkAndFree(i) /\ taker' = t
        /\ out' = Pushed(Pushed(out, Cancelled(id, o.remaining, "User")), Ack(id))
    BY <1>4, <2>2, <2>3, <2>4 DEF ApplyModify
  <2>6. Cancelled(id, o.remaining, "User") \in Event /\ Ack(id) \in Event
    BY EventTypes DEF Order
  <2>7. out' = <<Cancelled(id, o.remaining, "User"), Ack(id)>> /\ Len(out') = 2
    BY <1>1, <2>5, <2>6, QuietView
  <2>8. PICK s \in Sides : s = slots[i].order.side
    BY <1>2, Neighbours DEF BookInv
  <2>9. Chains' /\ \E m \in DOMAIN book[s] : /\ book[s][m] = o
                                             /\ book' = [book EXCEPT ![s] = RemoveAt(@, m)]
    BY <1>2, <2>3, <2>5, <2>8, UnlinkBook
  <2>10. PICK m \in DOMAIN book[s] : /\ book[s][m] = o
                                     /\ book' = [book EXCEPT ![s] = RemoveAt(@, m)]
    BY <2>9
  <2>11. View!ApplyModify(id, tr, p, q)
    <3>1. View!ModifyVerdict(o, tr, p, q) = "Accepted"
      BY <1>4, <2>1, <2>2, <2>3, ModifyView
    <3>2. View!RemoveOrder(s, m)
      BY <2>10, SameRemoveAt DEF View!RemoveOrder
    <3>3. /\ s \in View!Sides /\ View!Ack(id) = Ack(id)
          /\ View!Cancelled(id, o.remaining, "User") = Cancelled(id, o.remaining, "User")
      BY SameWords
    <3>4. o.id = id
      BY <2>2, <2>3
    <3> QED BY <1>2, <2>4, <2>5, <2>7, <2>10, <3>1, <3>2, <3>3, <3>4 DEF View!ApplyModify
  <2>12. View!Next
    BY <2>11 DEF View!Next
  <2>13. RoomForEvents'
    <3>1. len' = len - 1
      BY <2>5 DEF UnlinkAndFree
    <3>2. PICK a \in Nat : a = Len(out') /\ a = 2
      BY <2>7
    <3>3. a + len' + (IF taker' # NoOrder /\ taker'.remaining > 0 THEN 1 ELSE 0)
            <= MaxLiveOrders + 2
      BY <1>2, <3>1, <3>2
    <3> QED BY <3>2, <3>3, RoomLeft
  <2> QED BY <1>1, <1>2, <2>9, <2>12, <2>13, NoLimit DEF Simulated
<1>5. CASE ModifyVerdict(id, tr, p, q) # "Accepted"
  <2>1. PICK why : why = ModifyVerdict(id, tr, p, q)
    OBVIOUS
  <2>2. PICK e \in Event : e = Rejected(id, why) /\ e = View!Rejected(id, why)
    <3>1. why \in {"DuplicateOrderId", "UnknownOrderId", "PriceOutOfBounds",
                   "ZeroQty", "FokUnfillable", "ArenaFull", "WrongTrader"}
      BY <1>5, <2>1 DEF ModifyVerdict, CancelVerdict
    <3> QED BY <3>1, EventTypes, SameWords
  <2>3. /\ UNCHANGED <<arena, sides, index>> /\ taker' = taker
        /\ out' = Pushed(out, Rejected(id, ModifyVerdict(id, tr, p, q)))
    BY <1>5 DEF ApplyModify
  <2>4. out' = <<e>> /\ Len(out') = 1
    BY <1>1, <2>1, <2>2, <2>3, QuietView
  <2>5. Chains' /\ book' = book
    BY <1>2, <2>3, SameBook
  <2>6. View!ApplyModify(id, tr, p, q)
    <3>1. CASE index[id] = NIL
      <4>1. ~ View!Live(id)
        BY <1>2, <3>1, LiveView
      <4>2. why = "UnknownOrderId"
        BY <2>1, <3>1 DEF ModifyVerdict, CancelVerdict
      <4>3. View!RejectUnknown(id)
        BY <1>2, <2>2, <2>3, <2>4, <2>5, <4>1, <4>2 DEF View!RejectUnknown
      <4> QED BY <4>3 DEF View!ApplyModify
    <3>2. CASE index[id] # NIL
      <4>1. PICK i \in LiveSlots : i = index[id] /\ slots[i].order.id = id /\ i # NIL
        BY <1>2, <3>2, IndexedIsLive
      <4>2. PICK o : o = slots[i].order /\ o.id = id
        BY <4>1
      <4>3. PICK s \in Sides : \E m \in DOMAIN book[s] : book[s][m] = o
        BY <1>2, <4>2, FoundView
      <4>4. PICK m \in DOMAIN book[s] : book[s][m] = o
        BY <4>3
      <4>5. View!ModifyVerdict(o, tr, p, q) = why
        <5>1. ModifyVerdict(id, tr, p, q) = View!ModifyVerdict(slots[index[id]].order, tr, p, q)
          BY <3>2, ModifyView
        <5> QED BY <2>1, <4>1, <4>2, <5>1
      <4>6. s \in View!Sides
        BY SameWords
      <4> QED BY <1>2, <1>5, <2>1, <2>2, <2>3, <2>4, <2>5, <4>2, <4>4, <4>5, <4>6
              DEF View!ApplyModify
    <3> QED BY <3>1, <3>2
  <2>7. View!Next
    BY <2>6 DEF View!Next
  <2>8. RoomForEvents'
    BY <1>2, <1>3, <2>3, <2>4, RoomAfterOne
  <2> QED BY <1>1, <1>2, <2>5, <2>7, <2>8, NoLimit DEF Simulated
<1> QED BY <1>4, <1>5

(* Every step.                                                             *)
LEMMA StepSim == ASSUME RInv, [Next]_vars, book' = OracleBook' PROVE RInv' /\ Simulated
<1>1. IInv'
  BY NextHolds DEF RInv
<1>2. ASSUME NEW id \in OrderIds, NEW tr \in TraderIds, NEW s \in Sides, NEW p \in InPrices,
             NEW q \in InQtys, NEW tif \in InTifs, NEW stp \in InStps,
             ApplyNew(id, tr, s, p, q, tif, stp)
      PROVE  Simulated
  BY <1>2, NewSim
<1>3. ASSUME NEW id \in OrderIds, NEW tr \in TraderIds, ApplyCancel(id, tr) PROVE Simulated
  BY <1>1, <1>3, CancelSim
<1>4. ASSUME NEW id \in OrderIds, NEW tr \in TraderIds, NEW p \in InPrices, NEW q \in InQtys,
             ApplyModify(id, tr, p, q)
      PROVE  Simulated
  BY <1>1, <1>4, ModifySim
<1>5. ASSUME Proceed PROVE Simulated
  BY <1>1, <1>5, EnterSim, LeaveSim, FillSim, StpRestingSim, StpAggressorSim, StpBothSim,
     FinishSim, RestsSim, KillSim DEF Proceed
<1>6. ASSUME Drain PROVE Simulated
  BY <1>1, <1>6, DrainSim
<1>7. ASSUME UNCHANGED vars PROVE Simulated
  BY <1>7, StutterSim
<1>8. Simulated
  BY <1>2, <1>3, <1>4, <1>5, <1>6, <1>7 DEF Next
<1> QED BY <1>1, <1>8 DEF RInv, Simulated

(* An empty book has empty chains.                                         *)
LEMMA StartSim == ASSUME Init, book = OracleBook PROVE RInv /\ View!Init
<1>1. IInv /\ BookInv
  BY InitHolds DEF IInv
<1>2. \A i \in SlotIdxs : slots[i].order = NoOrder
  BY DEF Init, FreeSlot
<1>3. LiveSlots = {}
  BY <1>2 DEF LiveSlots, Live
<1>4. ASSUME NEW s \in Sides PROVE Chain(s, <<>>)
  <2>1. <<>> \in Seq(SlotIdxs) /\ Len(<<>>) = 0 /\ 1 .. 0 = {}
    OBVIOUS
  <2> QED BY <1>3, <2>1 DEF Chain
<1>5. ASSUME NEW s \in Sides PROVE Line(s) = <<>> /\ OracleBook[s] = <<>>
  <2>1. Line(s) = <<>> /\ OracleBook[s] = [k \in 1 .. Len(<<>>) |-> slots[<<>>[k]].order]
    BY <1>1, <1>4, LinesAreKnown DEF LinesKnown
  <2> QED BY <2>1
<1>6. Chains
  BY <1>4, <1>5 DEF Chains
<1>7. taker = NoOrder /\ out = <<>> /\ lvl = NIL /\ len = 0
  BY DEF Init
<1>8. WithinLimit /\ RoomForEvents
  <2>1. Len(out) = 0 /\ Pending(taker) = 0
    BY <1>7 DEF Pending
  <2>2. 0 + 0 + 0 <= MaxLiveOrders + 2
    BY SlotsAreNats
  <2> QED BY <1>7, <2>1, <2>2 DEF WithinLimit, RoomForEvents
<1>9. book = [s \in Sides |-> <<>>]
  BY <1>5 DEF OracleBook
<1>10. View!Init
  BY <1>7, <1>9, SameWords DEF View!Init
<1> QED BY <1>1, <1>6, <1>8, <1>10 DEF RInv

(* The book is read from the engine's variables alone.                     *)
LEMMA BookHeld == ASSUME UNCHANGED vars PROVE OracleBook' = OracleBook
<1>1. slots' = slots /\ levels' = levels /\ occupied' = occupied /\ best' = best
  BY DEF vars
<1> QED BY <1>1, SMTT(60) DEF OracleBook, OrdersInLine, Line, Nodes, After, HeadOf, NextWorse

LEMMA Refines == ViewSpec => []RInv
<1>1. ViewInit => RInv
  BY StartSim DEF ViewInit
<1>2. RInv /\ [ViewNext]_<<vars, book>> => RInv'
  <2>1. ASSUME RInv, ViewNext PROVE RInv'
    BY <2>1, StepSim DEF ViewNext
  <2>2. ASSUME RInv, UNCHANGED <<vars, book>> PROVE RInv'
    <3>1. UNCHANGED vars /\ book' = book
      BY <2>2
    <3>2. OracleBook' = OracleBook
      BY <3>1, BookHeld
    <3> QED BY <2>2, <3>1, <3>2, StepSim DEF RInv
  <2> QED BY <2>1, <2>2
<1> QED BY <1>1, <1>2, PTL DEF ViewSpec

-----------------------------------------------------------------------------
(* The validator's walks.                                                  *)

(* f visits what Visited does.                                             *)
VisitsAlong(first, f) ==
  f = [k \in 1 .. MaxLiveOrders + 1 |->
         IF k = 1 THEN first
         ELSE LET p == f[k - 1] IN IF p = NIL THEN NIL ELSE slots[p].next]

LEMMA VisitedChosen == \A first : Visited(first) = CHOOSE f : VisitsAlong(first, f)
BY DEF Visited, VisitsAlong

LEMMA VisitsUnique ==
  ASSUME NEW first, NEW f, NEW g, VisitsAlong(first, f), VisitsAlong(first, g)
  PROVE  f = g
<1> DEFINE D == 1 .. MaxLiveOrders + 1
           F == {k \in D : f[k] # g[k]}
<1>1. DOMAIN f = D /\ DOMAIN g = D /\ f = [k \in D |-> f[k]] /\ g = [k \in D |-> g[k]]
  BY DEF VisitsAlong
<1>2. ASSUME F # {} PROVE FALSE
  <2>1. F \in SUBSET Nat
    BY SlotsAreNats
  <2>2. PICK k \in F : \A j \in F : k <= j
    <3> HIDE DEF F
    <3> QED BY <1>2, <2>1, SmallestExists
  <2>3. k \in D /\ f[k] # g[k]
    BY <2>2
  <2>4. k # 1
    BY <2>3 DEF VisitsAlong
  <2>5. k - 1 \in D /\ k - 1 \notin F
    BY <2>2, <2>3, <2>4, SlotsAreNats
  <2>6. f[k - 1] = g[k - 1]
    BY <2>5
  <2>7. /\ f[k] = IF f[k - 1] = NIL THEN NIL ELSE slots[f[k - 1]].next
        /\ g[k] = IF g[k - 1] = NIL THEN NIL ELSE slots[g[k - 1]].next
    BY <2>3, <2>4 DEF VisitsAlong
  <2> QED BY <2>3, <2>6, <2>7
<1> QED BY <1>1, <1>2

(* From its first slot on, each but the last leads to the one after it.    *)
LinkedUp(first, q) ==
  /\ q \in Seq(SlotIdxs)
  /\ Len(q) <= MaxLiveOrders
  /\ first = IF Len(q) = 0 THEN NIL ELSE q[1]
  /\ \A k \in 1 .. Len(q) : slots[q[k]].next = IF k = Len(q) THEN NIL ELSE q[k + 1]

(* A walk finds the slots that are linked up, and ends after them.         *)
LEMMA WalkIs ==
  ASSUME NEW first, NEW q, LinkedUp(first, q)
  PROVE  Walk(first) = q
<1> DEFINE D == 1 .. MaxLiveOrders + 1
           g == [k \in D |-> IF k \in 1 .. Len(q) THEN q[k] ELSE NIL]
<1>1. PICK n \in Nat : n = Len(q) /\ n <= MaxLiveOrders /\ MaxLiveOrders \in Nat \ {0}
  BY SlotsAreNats, LenProperties DEF LinkedUp
<1>2. /\ \A k \in 1 .. n : q[k] \in SlotIdxs /\ q[k] # NIL
      /\ q = [k \in 1 .. n |-> q[k]]
  <2>1. q \in Seq(SlotIdxs) /\ q \in [1 .. Len(q) -> SlotIdxs]
    BY LenProperties DEF LinkedUp
  <2>2. \A k \in 1 .. n : q[k] \in SlotIdxs
    BY <1>1, <2>1
  <2> QED BY <1>1, <2>1, <2>2, SlotsAreNats
<1>3. ASSUME NEW k \in D
      PROVE  g[k] = IF k = 1 THEN first
                    ELSE IF g[k - 1] = NIL THEN NIL ELSE slots[g[k - 1]].next
  <2>1. CASE k = 1
    <3>1. first = IF n = 0 THEN NIL ELSE q[1]
      BY <1>1 DEF LinkedUp
    <3> QED BY <1>1, <2>1, <3>1
  <2>2. CASE k # 1
    <3>1. PICK j \in D : j = k - 1 /\ j + 1 = k
      BY <1>1, <2>2
    <3>2. CASE j \in 1 .. n
      <4>1. g[j] = q[j] /\ g[j] # NIL
        BY <1>1, <1>2, <3>2
      <4>2. slots[q[j]].next = IF j = n THEN NIL ELSE q[j + 1]
        BY <1>1, <3>2 DEF LinkedUp
      <4>3. j = n <=> k \notin 1 .. n
        BY <1>1, <3>1, <3>2
      <4>4. g[k] = IF j = n THEN NIL ELSE q[k]
        BY <1>1, <4>3
      <4> QED BY <2>2, <3>1, <4>1, <4>2, <4>4
    <3>3. CASE j \notin 1 .. n
      <4>1. k \notin 1 .. n
        BY <1>1, <3>1, <3>3
      <4> QED BY <1>1, <2>2, <3>1, <3>3, <4>1
    <3> QED BY <3>2, <3>3
  <2> QED BY <2>1, <2>2
<1>4. VisitsAlong(first, g)
  <2>1. g = [k \in D |-> g[k]]
    OBVIOUS
  <2> HIDE DEF g
  <2> QED BY <1>3, <2>1 DEF VisitsAlong
<1>5. Visited(first) = g
  <2> HIDE DEF g
  <2>1. VisitsAlong(first, CHOOSE f : VisitsAlong(first, f))
    BY <1>4
  <2> QED BY <1>4, <2>1, VisitedChosen, VisitsUnique
<1>6. {k \in D : g[k] # NIL} = 1 .. n
  <2>1. \A k \in 1 .. n : k \in D /\ g[k] = q[k] /\ q[k] # NIL
    BY <1>1, <1>2
  <2>2. \A k \in D : k \notin 1 .. n => g[k] = NIL
    BY <1>1
  <2> HIDE DEF g
  <2> QED BY <2>1, <2>2
<1>7. Cardinality(1 .. n) = n
  BY CountTo
<1>8. Walk(first) = [k \in 1 .. n |-> g[k]]
  <2> HIDE DEF g
  <2> QED BY <1>5, <1>6, <1>7 DEF Walk
<1>9. \A k \in 1 .. n : g[k] = q[k]
  BY <1>1
<1> HIDE DEF g
<1> QED BY <1>2, <1>8, <1>9

(* The list of an occupied level: the part of the chain that is at it.     *)
ListOf(s, l, q) ==
  /\ LinkedUp(levels[s][l].head, q)
  /\ Len(q) \in Nat \ {0} /\ q[Len(q)] = levels[s][l].tail
  /\ \A k \in 1 .. Len(q) : q[k] \in At(s, l) /\ slots[q[k]].prev = IF k = 1 THEN NIL ELSE q[k - 1]
  /\ \A j, k \in 1 .. Len(q) : q[j] = q[k] => j = k
  /\ \A i \in At(s, l) : \E k \in 1 .. Len(q) : q[k] = i

CutOut(line, l, q, a) ==
  /\ a \in Nat
  /\ \A k \in 1 .. Len(line) : Lv(line[k]) = l <=> a < k /\ k <= a + Len(q)
  /\ \A j \in 1 .. Len(q) : a + j \in 1 .. Len(line) /\ q[j] = line[a + j]

LEMMA LevelHasList ==
  ASSUME BookInv, NEW s \in Sides, NEW line, Chain(s, line), NEW l \in Occupied(s)
  PROVE  \E q, a : ListOf(s, l, q) /\ CutOut(line, l, q, a)
<1> DEFINE P == {k \in 1 .. Len(line) : Lv(line[k]) = l}
<1>1. PICK N \in Nat : N = Len(line) /\ N <= MaxLiveOrders
  BY ChainTyped, ChainFits
<1>2. P \in SUBSET (1 .. N) /\ P \in SUBSET Nat /\ P # {}
  BY <1>1, ChainMeets
<1>3. PICK a \in P : \A k \in P : a <= k
  <2> HIDE DEF P
  <2> QED BY <1>2, SmallestExists
<1>4. PICK b \in P : \A k \in P : k <= b
  <2>1. P \in SUBSET (0 .. N)
    BY <1>2
  <2> HIDE DEF P
  <2> QED BY <1>1, <1>2, <2>1, LargestExists
<1>5. /\ a \in 1 .. N /\ b \in 1 .. N /\ a <= b /\ Lv(line[a]) = l /\ Lv(line[b]) = l
      /\ \A k \in 1 .. N : Lv(line[k]) = l => a <= k /\ k <= b
  BY <1>1, <1>3, <1>4
<1>6. ASSUME NEW k \in 1 .. N, a <= k, k <= b PROVE Lv(line[k]) = l
  BY <1>1, <1>5, <1>6, ChainBetween
<1> HIDE DEF P
<1>7. PICK n \in Nat \ {0} : n = b - a + 1 /\ n <= N
  BY <1>1, <1>5
<1>8. PICK q : q = [k \in 1 .. n |-> line[a + k - 1]]
  OBVIOUS
<1>9. /\ \A k \in 1 .. n : /\ a + k - 1 \in 1 .. N /\ a <= a + k - 1 /\ a + k - 1 <= b
                           /\ q[k] = line[a + k - 1]
      /\ \A j \in 1 .. N : a <= j /\ j <= b => j - a + 1 \in 1 .. n /\ a + (j - a + 1) - 1 = j
  BY <1>1, <1>5, <1>7, <1>8
<1>10. ASSUME NEW k \in 1 .. n
       PROVE  \E j \in 1 .. N : /\ j = a + k - 1 /\ q[k] = line[j] /\ a <= j /\ j <= b
                                /\ Lv(line[j]) = l
                                /\ line[j] \in At(s, l) /\ line[j] \in SlotIdxs /\ line[j] # NIL
  <2>1. PICK j \in 1 .. N : j = a + k - 1 /\ q[k] = line[j] /\ a <= j /\ j <= b
    BY <1>9
  <2>2. Lv(line[j]) = l
    BY <1>6, <2>1
  <2> QED BY <1>1, <2>1, <2>2, ChainTyped
<1>11. ASSUME NEW k \in 1 .. n, NEW j \in 1 .. N, j = a + k - 1
       PROVE  /\ j + 1 \in 1 .. N /\ Lv(line[j + 1]) = l => k # n /\ q[k + 1] = line[j + 1]
              /\ k # n => j + 1 \in 1 .. N /\ Lv(line[j + 1]) = l /\ q[k + 1] = line[j + 1]
              /\ j - 1 \in 1 .. N /\ Lv(line[j - 1]) = l => k # 1 /\ q[k - 1] = line[j - 1]
              /\ k # 1 => j - 1 \in 1 .. N /\ Lv(line[j - 1]) = l /\ q[k - 1] = line[j - 1]
  <2>1. /\ j + 1 \in 1 .. N /\ Lv(line[j + 1]) = l => k # n
        /\ j - 1 \in 1 .. N /\ Lv(line[j - 1]) = l => k # 1
    BY <1>5, <1>7, <1>11
  <2>2. ASSUME k # n PROVE j + 1 \in 1 .. N /\ Lv(line[j + 1]) = l /\ q[k + 1] = line[j + 1]
    <3>1. PICK m \in 1 .. n : m = k + 1 /\ a + m - 1 = j + 1
      BY <1>5, <1>7, <1>11, <2>2
    <3> QED BY <1>10, <3>1
  <2>3. ASSUME k # 1 PROVE j - 1 \in 1 .. N /\ Lv(line[j - 1]) = l /\ q[k - 1] = line[j - 1]
    <3>1. PICK m \in 1 .. n : m = k - 1 /\ a + m - 1 = j - 1
      BY <1>5, <1>7, <1>11, <2>3
    <3> QED BY <1>10, <3>1
  <2> QED BY <2>1, <2>2, <2>3
<1>12. ASSUME NEW k \in 1 .. n
       PROVE  slots[q[k]].next = IF k = n THEN NIL ELSE q[k + 1]
  <2>1. PICK j \in 1 .. N : j = a + k - 1 /\ q[k] = line[j] /\ Lv(line[j]) = l
    BY <1>10
  <2>2. ASSUME slots[line[j]].next # NIL PROVE k # n /\ q[k + 1] = slots[line[j]].next
    <3>1. j + 1 \in 1 .. N /\ line[j + 1] = slots[line[j]].next /\ Lv(line[j + 1]) = Lv(line[j])
      <4>1. j \in 1 .. Len(line)
        BY <1>1
      <4>2. j + 1 \in 1 .. Len(line) /\ line[j + 1] = slots[line[j]].next /\ Lv(line[j + 1]) = Lv(line[j])
        BY <2>2, <4>1, ChainLinks
      <4> QED BY <1>1, <4>2
    <3> QED BY <1>11, <2>1, <3>1
  <2>3. ASSUME slots[line[j]].next = NIL, k # n PROVE FALSE
    <3>1. j + 1 \in 1 .. N /\ Lv(line[j + 1]) = l
      BY <1>11, <2>1, <2>3
    <3>2. Lv(line[j]) # Lv(line[j + 1])
      BY <1>1, <2>3, <3>1 DEF Chain
    <3> QED BY <2>1, <3>1, <3>2
  <2> QED BY <2>1, <2>2, <2>3
<1>13. ASSUME NEW k \in 1 .. n
       PROVE  slots[q[k]].prev = IF k = 1 THEN NIL ELSE q[k - 1]
  <2>1. PICK j \in 1 .. N : j = a + k - 1 /\ q[k] = line[j] /\ Lv(line[j]) = l /\ line[j] # NIL
    BY <1>10
  <2>2. ASSUME slots[line[j]].prev # NIL PROVE k # 1 /\ q[k - 1] = slots[line[j]].prev
    <3>1. j - 1 \in 1 .. N /\ line[j - 1] = slots[line[j]].prev /\ Lv(line[j - 1]) = Lv(line[j])
      <4>1. j \in 1 .. Len(line)
        BY <1>1
      <4>2. j - 1 \in 1 .. Len(line) /\ line[j - 1] = slots[line[j]].prev /\ Lv(line[j - 1]) = Lv(line[j])
        BY <2>2, <4>1, ChainLinks
      <4> QED BY <1>1, <4>2
    <3> QED BY <1>11, <2>1, <3>1
  <2>3. ASSUME slots[line[j]].prev = NIL, k # 1 PROVE FALSE
    <3>1. PICK i \in 1 .. N : i = j - 1 /\ i + 1 = j /\ q[k - 1] = line[i] /\ line[i] # NIL
      <4>1. j - 1 \in 1 .. N /\ q[k - 1] = line[j - 1]
        BY <1>11, <2>1, <2>3
      <4>2. line[j - 1] # NIL
        BY <1>1, <4>1, ChainTyped
      <4> QED BY <4>1, <4>2
    <3>2. k - 1 \in 1 .. n /\ k - 1 # n /\ (k - 1) + 1 = k
      BY <1>7, <2>3
    <3>3. slots[line[i]].next = line[j]
      BY <1>12, <2>1, <3>1, <3>2
    <3>4. slots[line[i + 1]].prev = line[i]
      BY <1>1, <2>1, <3>1, <3>3, ChainLinks
    <3> QED BY <2>3, <3>1, <3>4
  <2> QED BY <2>1, <2>2, <2>3
<1>14. q \in Seq(SlotIdxs) /\ Len(q) = n
  <2>1. q \in [1 .. n -> SlotIdxs]
    BY <1>8, <1>10
  <2> QED BY <2>1, <1>7, IsASeq, LenProperties
<1>15. levels[s][l].head = q[1] /\ levels[s][l].tail = q[n]
  <2>1. 1 \in 1 .. n /\ n \in 1 .. n
    BY <1>7
  <2>2. q[1] \in At(s, l) /\ q[n] \in At(s, l)
    BY <1>10, <2>1
  <2>3. slots[q[1]].prev = NIL /\ slots[q[n]].next = NIL
    BY <1>12, <1>13, <2>1
  <2>4. ASSUME NEW i \in At(s, l)
        PROVE  /\ slots[i].prev = NIL => levels[s][l].head = i
               /\ slots[i].next = NIL => levels[s][l].tail = i
    <3>1. i \in LiveSlots /\ slots[i].order.side = s /\ slots[i].level = l
      BY DEF At, LiveSlots
    <3> QED BY <3>1 DEF BookInv, ListsLinked, Mirrored
  <2> QED BY <2>2, <2>3, <2>4
<1>16. LinkedUp(levels[s][l].head, q)
  <2>1. n <= MaxLiveOrders /\ n # 0
    BY <1>1, <1>7, SlotsAreNats
  <2> QED BY <1>12, <1>14, <1>15, <2>1 DEF LinkedUp
<1>17. ASSUME NEW j \in 1 .. n, NEW k \in 1 .. n, q[j] = q[k] PROVE j = k
  <2>1. a + j - 1 \in 1 .. N /\ a + k - 1 \in 1 .. N /\ line[a + j - 1] = line[a + k - 1]
    BY <1>9, <1>17
  <2>2. \A x, y \in 1 .. N : line[x] = line[y] => x = y
    BY <1>1 DEF Chain
  <2>3. a + j - 1 = a + k - 1
    BY <2>1, <2>2
  <2> QED BY <1>5, <2>3
<1>18. ASSUME NEW i \in At(s, l) PROVE \E k \in 1 .. n : q[k] = i
  <2>1. i \in LiveSlots /\ slots[i].order.side = s /\ Lv(i) = l
    BY DEF At, LiveSlots, Lv
  <2>2. PICK j \in 1 .. N : line[j] = i
    BY <1>1, <2>1 DEF Chain
  <2>3. a <= j /\ j <= b
    BY <1>5, <2>1, <2>2
  <2>4. PICK k \in 1 .. n : a + k - 1 = j
    BY <1>9, <2>3
  <2> QED BY <1>9, <2>2, <2>4
<1>19. \A k \in 1 .. n : q[k] \in At(s, l)
  BY <1>10
<1>20. ListOf(s, l, q)
  BY <1>7, <1>13, <1>14, <1>15, <1>16, <1>17, <1>18, <1>19 DEF ListOf
<1>21. CutOut(line, l, q, a - 1)
  <2>1. ASSUME NEW j \in 1 .. n PROVE (a - 1) + j \in 1 .. N /\ q[j] = line[(a - 1) + j]
    <3>1. (a - 1) + j = a + j - 1
      BY <1>5
    <3> QED BY <1>9, <3>1
  <2>2. ASSUME NEW k \in 1 .. N
        PROVE  Lv(line[k]) = l <=> a - 1 < k /\ k <= (a - 1) + n
    BY <1>5, <1>6, <1>7
  <2>3. a - 1 \in Nat
    BY <1>5
  <2> QED BY <1>1, <1>14, <2>1, <2>2, <2>3 DEF CutOut
<1> QED BY <1>20, <1>21

LEMMA FifoIs ==
  ASSUME NEW s \in Sides, NEW l \in LevelIdxs, NEW q, ListOf(s, l, q)
  PROVE  Fifo(s, l) = q /\ DOMAIN q = 1 .. Len(q) /\ ToSet(q) = At(s, l)
<1>1. LinkedUp(levels[s][l].head, q)
  BY DEF ListOf
<1>2. Fifo(s, l) = q
  BY <1>1, WalkIs DEF Fifo
<1>3. DOMAIN q = 1 .. Len(q)
  BY <1>1, LenProperties DEF LinkedUp
<1>4. \A k \in 1 .. Len(q) : q[k] \in At(s, l)
  BY DEF ListOf
<1>5. \A i \in At(s, l) : \E k \in 1 .. Len(q) : q[k] = i
  BY DEF ListOf
<1>6. ToSet(q) = {q[k] : k \in 1 .. Len(q)}
  BY <1>3 DEF ToSet
<1> QED BY <1>2, <1>3, <1>4, <1>5, <1>6

(* A list has as many slots as its level has orders, and they hold what    *)
(* the level's total says.                                                 *)
LEMMA ListCounts ==
  ASSUME BookInv, NEW s \in Sides, NEW l \in LevelIdxs, NEW q, ListOf(s, l, q)
  PROVE  /\ Len(q) = levels[s][l].count
         /\ SumFunction([k \in DOMAIN q |-> slots[q[k]].order.remaining]) = levels[s][l].total
<1>1. PICK n \in Nat : n = Len(q) /\ DOMAIN q = 1 .. n
  BY FifoIs DEF ListOf
<1>2. PICK A \in SUBSET LiveSlots : A = At(s, l)
  BY DEF At, LiveSlots
<1>3. /\ \A k \in 1 .. n : q[k] \in A
      /\ \A j, k \in 1 .. n : q[j] = q[k] => j = k
      /\ \A i \in A : \E k \in 1 .. n : q[k] = i
  BY <1>1, <1>2 DEF ListOf
<1>4. q \in [1 .. n -> A]
  <2>1. q = [k \in 1 .. n |-> q[k]]
    <3>1. q \in Seq(SlotIdxs)
      BY DEF ListOf, LinkedUp
    <3>2. q \in [1 .. Len(q) -> SlotIdxs]
      BY <3>1, LenProperties
    <3> QED BY <1>1, <3>2
  <2> QED BY <1>3, <2>1
<1>5. q \in Bijection(1 .. n, A)
  BY <1>3, <1>4 DEF Bijection, Injection, Surjection, IsInjective
<1>6. IsFiniteSet(1 .. n) /\ Cardinality(1 .. n) = n /\ IsFiniteSet(A)
  BY <1>2, CountTo, IntervalsFinite, AtFinite
<1>7. Cardinality(A) = n
  <2>1. ExistsBijection(1 .. n, A)
    BY <1>5 DEF ExistsBijection
  <2> QED BY <1>6, <2>1, FS_Bijection
<1>8. levels[s][l].count = Cardinality(A) /\ levels[s][l].total = SumFunctionOnSet(Quantities, A)
  BY <1>2, TotalOfLevel DEF BookInv, CountsRight
<1>9. PICK f : f = [k \in 1 .. n |-> slots[q[k]].order.remaining]
  OBVIOUS
<1>10. \A k \in 1 .. n : Quantities[q[k]] = f[k] /\ f[k] \in Int
  <2>1. \A i \in A : i \in SlotIdxs /\ i \in LiveSlots
    BY DEF LiveSlots
  <2>2. \A i \in A : Quantities[i] = slots[i].order.remaining /\ Quantities[i] \in Int
    BY <2>1, QuantitiesTyped DEF Quantities
  <2> QED BY <1>3, <1>9, <2>2
<1>11. SumFunctionOnSet(f, 1 .. n) = SumFunctionOnSet(Quantities, A)
  BY <1>3, <1>4, <1>6, <1>10, SumRenamed
<1>12. SumFunction(f) = SumFunctionOnSet(f, 1 .. n)
  BY <1>9 DEF SumFunction
<1> QED BY <1>1, <1>7, <1>8, <1>9, <1>11, <1>12

LEMMA OccupiedBits ==
  ASSUME BookInv, NEW s \in Sides
  PROVE  /\ {l \in LevelIdxs : levels[s][l].count > 0} = Occupied(s)
         /\ occupied[s] = Occupied(s)
         /\ \A l \in LevelIdxs : l \in occupied[s] <=> levels[s][l].count > 0
BY DEF BookInv, BestIsTrue, Occupied

(* I3, I5, I6, I7, I9: one level of validate_side.                         *)
LEMMA LevelIsValid ==
  ASSUME BookInv, NEW s \in Sides, NEW line, Chain(s, line), NEW l \in LevelIdxs
  PROVE  /\ ValidLevel(s, l)
         /\ levels[s][l].count > 0 => ToSet(Fifo(s, l)) = At(s, l)
<1>1. l \in occupied[s] <=> levels[s][l].count > 0
  BY OccupiedBits
<1>2. ASSUME levels[s][l].count = 0 PROVE levels[s][l] = EmptyLevel
  <2>1. At(s, l) = {}
    BY <1>2, AtFinite, FS_EmptySet DEF BookInv, CountsRight
  <2>2. levels[s][l].head = NIL /\ levels[s][l].tail = NIL
    BY <2>1 DEF BookInv, ListsLinked, Ended
  <2>3. levels[s][l].total = 0
    BY <2>1, TotalOfLevel, SumEmpty
  <2>4. levels[s][l] \in Level
    BY LevelTyped DEF BookInv
  <2> QED BY <1>2, <2>2, <2>3, <2>4 DEF Level, EmptyLevel
<1>3. ASSUME levels[s][l].count > 0
      PROVE  /\ Len(Fifo(s, l)) = levels[s][l].count
             /\ \A k \in DOMAIN Fifo(s, l) : ValidLink(s, l, Fifo(s, l), k)
             /\ Last(Fifo(s, l)) = levels[s][l].tail
             /\ SumFunction([k \in DOMAIN Fifo(s, l) |-> slots[Fifo(s, l)[k]].order.remaining])
                  = levels[s][l].total
             /\ ToSet(Fifo(s, l)) = At(s, l)
  <2>1. l \in Occupied(s)
    BY <1>3 DEF Occupied
  <2>2. PICK q : ListOf(s, l, q)
    BY <2>1, LevelHasList
  <2>3. Fifo(s, l) = q /\ DOMAIN q = 1 .. Len(q) /\ ToSet(q) = At(s, l)
    BY <2>2, FifoIs
  <2>4. /\ Len(q) = levels[s][l].count
        /\ SumFunction([k \in DOMAIN q |-> slots[q[k]].order.remaining]) = levels[s][l].total
    BY <2>2, ListCounts
  <2>5. Last(q) = levels[s][l].tail
    BY <2>2 DEF ListOf, Last
  <2>6. ASSUME NEW k \in 1 .. Len(q) PROVE ValidLink(s, l, q, k)
    <3>1. /\ q[k] \in At(s, l)
          /\ slots[q[k]].prev = IF k = 1 THEN NIL ELSE q[k - 1]
      BY <2>2 DEF ListOf
    <3>2. PICK i \in LiveSlots : /\ i = q[k] /\ slots[i].order # NoOrder
                                 /\ slots[i].order.side = s /\ slots[i].level = l
      BY <3>1 DEF At, LiveSlots, Live
    <3>3. slots[i].order.remaining # 0
      BY PriceOfLevel
    <3>4. index[slots[i].order.id] = i
      BY DEF BookInv, IndexInverse
    <3>5. \A j \in 1 .. k - 1 : q[j] # q[k]
      <4>1. \A x, y \in 1 .. Len(q) : q[x] = q[y] => x = y
        BY <2>2 DEF ListOf
      <4>2. Len(q) \in Nat
        BY <2>2 DEF ListOf
      <4>3. \A j \in 1 .. k - 1 : j \in 1 .. Len(q) /\ j # k
        BY <4>2
      <4> QED BY <4>1, <4>3
    <3> QED BY <3>1, <3>2, <3>3, <3>4, <3>5 DEF ValidLink
  <2> QED BY <2>3, <2>4, <2>5, <2>6
<1> QED BY <1>1, <1>2, <1>3 DEF ValidLevel

(* I4: the cached best, as the walk finds it and as the bitmap has it.     *)
LEMMA BestIsFound ==
  ASSUME BookInv, NEW s \in Sides
  PROVE  best[s] = BestOf(s, Occupied(s))
<1>1. /\ Occupied(s) = {} => best[s] = NIL
      /\ Occupied(s) # {} => best[s] \in Occupied(s)
      /\ \A l \in Occupied(s) : ~ Better(s, l, best[s])
      /\ Occupied(s) \subseteq LevelIdxs
  BY SlotsAreNats DEF BookInv, BestIsTrue, Occupied
<1>2. CASE Occupied(s) = {}
  BY <1>1, <1>2 DEF BestOf
<1>3. CASE Occupied(s) # {}
  <2>1. PICK b \in Occupied(s) : b = best[s]
    BY <1>1, <1>3
  <2>2. \A m \in Occupied(s) \ {b} : Better(s, b, m)
    BY <1>1, <2>1, BetterFacts
  <2>3. ASSUME NEW l \in Occupied(s), \A m \in Occupied(s) \ {l} : Better(s, l, m)
        PROVE  l = b
    BY <1>1, <2>1, <2>3
  <2>4. b = CHOOSE l \in Occupied(s) : \A m \in Occupied(s) \ {l} : Better(s, l, m)
    BY <2>2, <2>3
  <2> QED BY <1>3, <2>1, <2>4 DEF BestOf
<1> QED BY <1>2, <1>3

(* The slots that are linked into a side are those of its orders.          *)
LEMMA LinkedInIs ==
  ASSUME BookInv, NEW s \in Sides, NEW line, Chain(s, line)
  PROVE  LinkedIn(s) = {i \in LiveSlots : slots[i].order.side = s}
<1>1. LinkedIn(s) = UNION {ToSet(Fifo(s, l)) : l \in Occupied(s)}
  BY OccupiedBits DEF LinkedIn
<1>2. \A l \in Occupied(s) : ToSet(Fifo(s, l)) = At(s, l)
  BY LevelIsValid DEF Occupied
<1>3. ASSUME NEW i \in LiveSlots, slots[i].order.side = s
      PROVE  \E l \in Occupied(s) : i \in At(s, l)
  <2>1. slots[i].level \in Occupied(s) /\ i \in At(s, slots[i].level)
    BY <1>3, LevelOccupied, Neighbours DEF BookInv
  <2> QED BY <2>1
<1>4. \A l \in Occupied(s) : \A i \in At(s, l) : i \in LiveSlots /\ slots[i].order.side = s
  BY DEF At, LiveSlots
<1> QED BY <1>1, <1>2, <1>3, <1>4

(* I7, by number: the index has as many ids as there are live slots.       *)
LEMMA IndexCounts ==
  ASSUME BookInv
  PROVE  Cardinality({id \in OrderIds : index[id] # NIL}) = Cardinality(LiveSlots)
<1> DEFINE Ids == {id \in OrderIds : index[id] # NIL}
           h == [i \in LiveSlots |-> slots[i].order.id]
<1>1. ASSUME NEW i \in LiveSlots
      PROVE  slots[i].order.id \in OrderIds /\ index[slots[i].order.id] = i /\ i # NIL
  <2>1. i \in SlotIdxs /\ Live(i) /\ i # NIL
    BY SlotsAreNats DEF LiveSlots
  <2> QED BY <2>1, LiveTyped DEF BookInv, IndexInverse
<1>2. ASSUME NEW id \in Ids PROVE index[id] \in LiveSlots /\ slots[index[id]].order.id = id
  BY IndexedIsLive
<1>3. /\ h \in [LiveSlots -> Ids]
      /\ \A i, j \in LiveSlots : h[i] = h[j] => i = j
      /\ \A id \in Ids : \E i \in LiveSlots : h[i] = id
  BY <1>1, <1>2
<1>4. ExistsBijection(LiveSlots, Ids)
  <2> HIDE DEF h, Ids
  <2>1. h \in Bijection(LiveSlots, Ids)
    BY <1>3 DEF Bijection, Injection, Surjection, IsInjective
  <2> QED BY <2>1 DEF ExistsBijection
<1> HIDE DEF h, Ids
<1>5. Cardinality(Ids) = Cardinality(LiveSlots)
  BY <1>4, AtFinite, FS_Bijection
<1> QED BY <1>5 DEF Ids

(* I8: the free list is walked from the top of its stack to the bottom.    *)
LEMMA FreeListIsValid == ASSUME BookInv PROVE ValidFreeList(LiveSlots)
<1>1. PICK m \in Nat : m = MaxLiveOrders - len /\ m <= MaxLiveOrders /\ len \in Nat
  BY SlotsAreNats DEF BookInv, BookTyped
<1>2. PICK f \in [1 .. m -> SlotIdxs] : Stacked(f, m)
  BY <1>1 DEF BookInv, FreeStack
<1>3. PICK q : q = [k \in 1 .. m |-> f[m + 1 - k]]
  OBVIOUS
<1>4. ASSUME NEW k \in 1 .. m
      PROVE  m + 1 - k \in 1 .. m /\ q[k] = f[m + 1 - k] /\ q[k] \in SlotIdxs
  BY <1>2, <1>3
<1>5. q \in Seq(SlotIdxs) /\ Len(q) = m /\ DOMAIN q = 1 .. m
  <2>1. q \in [1 .. m -> SlotIdxs]
    BY <1>3, <1>4
  <2> QED BY <2>1, LenProperties
<1>6. /\ freeHead = IF m = 0 THEN NIL ELSE f[m]
      /\ \A k \in 1 .. m : ~ Live(f[k]) /\ slots[f[k]].next = IF k = 1 THEN NIL ELSE f[k - 1]
      /\ \A j, k \in 1 .. m : f[j] = f[k] => j = k
  BY <1>2 DEF Stacked
<1>7. LinkedUp(freeHead, q)
  <2>1. freeHead = IF m = 0 THEN NIL ELSE q[1]
    <3>1. m # 0 => 1 \in 1 .. m /\ m + 1 - 1 = m
      OBVIOUS
    <3> QED BY <1>4, <1>6, <3>1
  <2>2. ASSUME NEW k \in 1 .. m PROVE slots[q[k]].next = IF k = m THEN NIL ELSE q[k + 1]
    <3>1. PICK j \in 1 .. m : j = m + 1 - k /\ q[k] = f[j] /\ (j = 1 <=> k = m)
      BY <1>4
    <3>2. slots[f[j]].next = IF j = 1 THEN NIL ELSE f[j - 1]
      BY <1>6
    <3>3. k # m => q[k + 1] = f[j - 1]
      <4>1. k # m => k + 1 \in 1 .. m /\ m + 1 - (k + 1) = j - 1
        BY <3>1
      <4> QED BY <1>4, <4>1
    <3> QED BY <3>1, <3>2, <3>3
  <2> QED BY <1>1, <1>5, <2>1, <2>2 DEF LinkedUp
<1>8. Walk(freeHead) = q
  BY <1>7, WalkIs
<1>9. ToSet(q) \cap LiveSlots = {}
  <2>1. \A k \in 1 .. m : q[k] \notin LiveSlots
    BY <1>4, <1>6 DEF LiveSlots
  <2>2. ToSet(q) = {q[k] : k \in 1 .. m}
    BY <1>5 DEF ToSet
  <2> QED BY <2>1, <2>2
<1>10. IsInjective(q)
  <2>1. ASSUME NEW j \in 1 .. m, NEW k \in 1 .. m, q[j] = q[k] PROVE j = k
    <3>1. m + 1 - j = m + 1 - k
      BY <1>4, <1>6, <2>1
    <3> QED BY <3>1
  <2> QED BY <1>5, <2>1 DEF IsInjective
<1>11. Len(q) + len = MaxLiveOrders
  BY <1>1, <1>5, SlotsAreNats
<1> QED BY <1>8, <1>9, <1>10, <1>11 DEF ValidFreeList

(* validate() finds nothing.                                               *)
LEMMA BookIsValid == ASSUME BookInv, Chains PROVE Validate
<1>1. "Bid" \in Sides /\ "Ask" \in Sides
  BY DEF Sides
<1>2. \A s \in Sides : \E line : Chain(s, line)
  BY DEF Chains
<1>3. ASSUME NEW s \in Sides PROVE ValidSide(s)
  <2>1. \A l \in LevelIdxs : ValidLevel(s, l)
    BY <1>2, LevelIsValid
  <2>2. best[s] = BestOf(s, Occupied(s))
    BY BestIsFound
  <2> QED BY <2>1, <2>2, OccupiedBits DEF ValidSide
<1>4. \A s \in Sides : LinkedIn(s) = {i \in LiveSlots : slots[i].order.side = s}
  BY <1>2, LinkedInIs
<1>5. LinkedIn("Bid") \cap LinkedIn("Ask") = {}
  BY <1>1, <1>4
<1>6. LinkedIn("Bid") \cup LinkedIn("Ask") = LiveSlots
  <2>1. \A i \in LiveSlots : slots[i].order.side \in {"Bid", "Ask"}
    BY Neighbours DEF BookInv, Sides
  <2> QED BY <1>1, <1>4, <2>1
<1>7. NotCrossed
  <2>1. SUFFICES ASSUME best["Bid"] # NIL, best["Ask"] # NIL
                 PROVE  IdxToPrice(best["Bid"]) < IdxToPrice(best["Ask"])
    BY DEF NotCrossed
  <2>2. best["Bid"] \in Occupied("Bid") /\ best["Ask"] \in Occupied("Ask")
    BY <1>1, <2>1 DEF BookInv, BestIsTrue, Occupied
  <2>3. best["Bid"] < best["Ask"]
    BY <2>2 DEF BookInv, SidesApart
  <2>4. best["Bid"] \in LevelIdxs /\ best["Ask"] \in LevelIdxs
    BY <2>2 DEF Occupied
  <2> QED BY <2>3, <2>4, PricesAscend
<1>8. Cardinality(LiveSlots) = len
  BY DEF BookInv, CountsRight
<1> QED BY <1>3, <1>5, <1>6, <1>7, <1>8, IndexCounts, FreeListIsValid DEF Validate

-----------------------------------------------------------------------------
(* The state hash: what the engine lists level by level, walking its       *)
(* queues, the oracle filters out of its vectors.                          *)

(* R orders S.                                                             *)
Orders(R, S) ==
  /\ \A x, y \in S : <<x, y>> \in R \/ <<y, x>> \in R
  /\ \A x, y \in S : <<x, y>> \in R /\ <<y, x>> \in R => x = y
  /\ \A x, y, z \in S : <<x, y>> \in R /\ <<y, z>> \in R => <<x, z>> \in R

(* The elements of S that R puts no later than x.                          *)
NoLater(S, R, x) == {y \in S : <<y, x>> \in R}

(* A listing has each element once, at the place that its order gives it.  *)
LEMMA ListedFacts ==
  ASSUME NEW S, IsFiniteSet(S), NEW R, Orders(R, S), NEW L, L = Listed(S, R)
  PROVE  /\ Cardinality(S) \in Nat /\ L \in [1 .. Cardinality(S) -> S]
         /\ \A j, k \in 1 .. Cardinality(S) : j < k => <<L[j], L[k]>> \in R /\ L[j] # L[k]
         /\ \A x \in S : /\ Cardinality(NoLater(S, R, x)) \in 1 .. Cardinality(S)
                         /\ L[Cardinality(NoLater(S, R, x))] = x
<1>1. PICK n \in Nat : n = Cardinality(S)
  BY FS_CardinalityType
<1> DEFINE r == [x \in S |-> Cardinality(NoLater(S, R, x))]
<1>2. ASSUME NEW x \in S
      PROVE  /\ NoLater(S, R, x) \in SUBSET S /\ IsFiniteSet(NoLater(S, R, x))
             /\ x \in NoLater(S, R, x) /\ r[x] \in 1 .. n /\ r[x] = Cardinality(NoLater(S, R, x))
  <2>1. NoLater(S, R, x) \in SUBSET S /\ x \in NoLater(S, R, x)
    BY DEF NoLater, Orders
  <2>2. IsFiniteSet(NoLater(S, R, x)) /\ Cardinality(NoLater(S, R, x)) <= n
        /\ Cardinality(NoLater(S, R, x)) \in Nat
    BY <1>1, <2>1, FS_Subset, FS_CardinalityType
  <2>3. Cardinality(NoLater(S, R, x)) # 0
    BY <2>1, <2>2, FS_EmptySet
  <2> QED BY <1>1, <2>1, <2>2, <2>3
<1>3. ASSUME NEW x \in S, NEW y \in S, x # y, <<x, y>> \in R PROVE r[x] < r[y]
  <2>1. NoLater(S, R, x) \in SUBSET NoLater(S, R, y)
    BY <1>3 DEF NoLater, Orders
  <2>2. y \notin NoLater(S, R, x)
    BY <1>3 DEF NoLater, Orders
  <2>3. y \in NoLater(S, R, y) /\ IsFiniteSet(NoLater(S, R, y))
    BY <1>2
  <2>4. /\ Cardinality(NoLater(S, R, x)) <= Cardinality(NoLater(S, R, y))
        /\ Cardinality(NoLater(S, R, x)) # Cardinality(NoLater(S, R, y))
    BY <2>1, <2>2, <2>3, FS_Subset
  <2>5. r[x] \in Nat /\ r[y] \in Nat /\ r[x] <= r[y] /\ r[x] # r[y]
    BY <1>2, <2>4
  <2> QED BY <2>5
<1>4. \A x, y \in S : r[x] = r[y] => x = y
  <2> TAKE x, y \in S
  <2>1. <<x, y>> \in R \/ <<y, x>> \in R
    BY DEF Orders
  <2>2. r[x] \in Int /\ r[y] \in Int
    BY <1>2
  <2> HIDE DEF r
  <2> QED BY <1>3, <2>1, <2>2
<1>5. r \in Surjection(S, 1 .. n)
  <2>1. r \in [S -> 1 .. n]
    BY <1>2
  <2>2. r \in Injection(S, 1 .. n)
    BY <1>4, <2>1 DEF Injection, IsInjective
  <2>3. IsFiniteSet(1 .. n) /\ Cardinality(1 .. n) = n
    BY CountTo, FS_Interval
  <2> HIDE DEF r
  <2> QED BY <1>1, <2>2, <2>3, FS_Injection
<1>6. ASSUME NEW k \in 1 .. n PROVE L[k] \in S /\ r[L[k]] = k
  <2>1. \E x \in S : r[x] = k
    <3> HIDE DEF r
    <3> QED BY <1>5 DEF Surjection
  <2>2. L[k] = CHOOSE x \in S : Cardinality({y \in S : <<y, x>> \in R}) = k
    BY <1>1 DEF Listed
  <2>3. L[k] = CHOOSE x \in S : Cardinality(NoLater(S, R, x)) = k
    BY <2>2 DEF NoLater
  <2>4. \E x \in S : Cardinality(NoLater(S, R, x)) = k
    BY <2>1
  <2>5. L[k] \in S /\ Cardinality(NoLater(S, R, L[k])) = k
    BY <2>3, <2>4
  <2> QED BY <2>5
<1>7. ASSUME NEW x \in S PROVE L[r[x]] = x
  <2>1. r[x] \in 1 .. n
    BY <1>2
  <2> HIDE DEF r
  <2> QED BY <1>4, <1>6, <2>1
<1>8. L \in [1 .. n -> S]
  <2>1. L = [k \in 1 .. n |-> CHOOSE x \in S : Cardinality({y \in S : <<y, x>> \in R}) = k]
    BY <1>1 DEF Listed
  <2> HIDE DEF r
  <2> QED BY <1>6, <2>1
<1>9. ASSUME NEW j \in 1 .. n, NEW k \in 1 .. n, j < k
      PROVE  <<L[j], L[k]>> \in R /\ L[j] # L[k]
  <2>1. L[j] \in S /\ L[k] \in S /\ r[L[j]] = j /\ r[L[k]] = k
    BY <1>6
  <2>2. <<L[j], L[k]>> \in R \/ <<L[k], L[j]>> \in R
    BY <2>1 DEF Orders
  <2>3. L[j] # L[k]
    BY <1>9, <2>1
  <2> HIDE DEF r
  <2>4. ASSUME <<L[k], L[j]>> \in R PROVE FALSE
    <3>1. r[L[k]] < r[L[j]]
      BY <1>3, <2>1, <2>3, <2>4
    <3> QED BY <1>9, <2>1, <3>1
  <2> QED BY <2>2, <2>3, <2>4
<1> HIDE DEF r
<1>10. \A x \in S : Cardinality(NoLater(S, R, x)) \in 1 .. n /\ L[Cardinality(NoLater(S, R, x))] = x
  BY <1>2, <1>7
<1> QED BY <1>1, <1>8, <1>9, <1>10

LEMMA AscendingOrders ==
  ASSUME NEW S \in SUBSET Int, NEW R, R = {r \in S \X S : r[1] <= r[2]}
  PROVE  Orders(R, S) /\ \A x, y \in S : <<x, y>> \in R <=> x <= y
<1>1. \A x, y \in S : <<x, y>> \in R <=> x <= y
  OBVIOUS
<1>2. \A x \in S : x \in Int
  OBVIOUS
<1> QED BY <1>1, <1>2 DEF Orders

LEMMA AscendingTyped ==
  ASSUME NEW S \in SUBSET LevelIdxs, NEW L, L = Ascending(S)
  PROVE  L \in [1 .. Cardinality(S) -> S]
<1>1. PICK R : R = {r \in S \X S : r[1] <= r[2]}
  OBVIOUS
<1>2. S \in SUBSET Int /\ IsFiniteSet(S)
  <2>1. IsFiniteSet(LevelIdxs) /\ LevelIdxs \subseteq Int
    BY SlotsAreNats, FS_Interval DEF LevelIdxs
  <2> QED BY <2>1, FS_Subset
<1>3. L = Listed(S, R) /\ Orders(R, S)
  BY <1>1, <1>2, AscendingOrders DEF Ascending
<1> QED BY <1>2, <1>3, ListedFacts

LEMMA AscendingInterval ==
  ASSUME NEW a \in Nat, NEW n \in Nat, NEW S, S = a + 1 .. a + n
  PROVE  Ascending(S) = [j \in 1 .. n |-> a + j]
<1>1. PICK R : R = {r \in S \X S : r[1] <= r[2]}
  OBVIOUS
<1>2. S = a + 1 .. a + n /\ S \in SUBSET Int
  OBVIOUS
<1>3. Orders(R, S) /\ \A x, y \in S : <<x, y>> \in R <=> x <= y
  BY <1>1, <1>2, AscendingOrders
<1>4. IsFiniteSet(S) /\ Cardinality(S) = n
  <2>1. a + 1 \in Int /\ a + n \in Int /\ (a + 1 > a + n => n = 0) /\ (a + n) - (a + 1) + 1 = n
    OBVIOUS
  <2> QED BY <1>2, <2>1, FS_Interval
<1>5. PICK L : L = Listed(S, R)
  OBVIOUS
<1>6. /\ L \in [1 .. n -> S]
      /\ \A x \in S : L[Cardinality(NoLater(S, R, x))] = x
  <2>1. /\ L \in [1 .. Cardinality(S) -> S]
        /\ \A x \in S : L[Cardinality(NoLater(S, R, x))] = x
    <3>1. IsFiniteSet(S) /\ Orders(R, S)
      BY <1>3, <1>4
    <3> QED BY <1>5, <3>1, ListedFacts
  <2> QED BY <1>4, <2>1
<1>7. ASSUME NEW j \in 1 .. n PROVE L[j] = a + j
  <2>1. PICK x \in S : x = a + j
    BY <1>2
  <2>2. NoLater(S, R, x) = a + 1 .. a + j
    BY <1>2, <1>3, <2>1 DEF NoLater
  <2>3. a + 1 \in Int /\ a + j \in Int /\ ~ (a + 1 > a + j) /\ (a + j) - (a + 1) + 1 = j
    OBVIOUS
  <2>4. Cardinality(NoLater(S, R, x)) = j
    BY <2>2, <2>3, FS_Interval
  <2> QED BY <1>6, <2>1, <2>4
<1>8. Ascending(S) = L
  BY <1>1, <1>5 DEF Ascending
<1> QED BY <1>6, <1>7, <1>8

-----------------------------------------------------------------------------
LEMMA SameListings ==
  /\ \A S : View!Ascending(S) = Ascending(S)
  /\ \A o : View!Hashed(o) = Hashed(o)
  /\ View!LevelIdxs = LevelIdxs
  /\ \A p : View!PriceToIdx(p) = PriceToIdx(p)
  /\ \A f : View!SumFunction(f) = SumFunction(f)
<1>1. \A S : View!Ascending(S) = Ascending(S)
  BY DEF View!Ascending, Ascending, View!Listed, Listed, View!Cardinality, Cardinality
<1>2. \A f : View!SumFunction(f) = SumFunction(f)
  BY SameSum DEF View!SumFunction, SumFunction
<1>3. View!LevelIdxs = LevelIdxs
  BY DEF View!LevelIdxs, LevelIdxs
<1>4. \A p : View!PriceToIdx(p) = PriceToIdx(p)
  BY DEF View!PriceToIdx, PriceToIdx, View!NIL, NIL, View!I64, I64
<1>5. \A o : View!Hashed(o) = Hashed(o)
  BY DEF View!Hashed, Hashed
<1> QED BY <1>1, <1>2, <1>3, <1>4, <1>5

(* What the oracle filters out of its vector for a level is the level's    *)
(* queue.                                                                  *)
LEMMA OracleAtLevel ==
  ASSUME BookInv, Chains, book = OracleBook, NEW s \in Sides, NEW l \in LevelIdxs
  PROVE  /\ l \notin Occupied(s) => View!AtLevel(s, l) = <<>>
         /\ l \in Occupied(s) =>
              \E q : /\ ListOf(s, l, q)
                     /\ View!AtLevel(s, l) = [j \in 1 .. Len(q) |-> slots[q[j]].order]
<1>1. PICK line : line = Line(s) /\ Chain(s, line)
  BY DEF Chains
<1>2. PICK N \in Nat : N = Len(line)
  BY <1>1, ChainTyped
<1>3. DOMAIN book[s] = 1 .. N /\ \A k \in 1 .. N : book[s][k] = slots[line[k]].order
  BY <1>1, <1>2, BookRead
<1>4. PICK P : P = {k \in DOMAIN book[s] : PriceToIdx(book[s][k].price) = l}
  OBVIOUS
<1>5. P = {k \in 1 .. N : Lv(line[k]) = l}
  <2>1. ASSUME NEW k \in 1 .. N
        PROVE  PriceToIdx(book[s][k].price) = Lv(line[k])
    <3>1. PICK i \in LiveSlots : i = line[k]
      BY <1>1, <1>2, ChainTyped
    <3> QED BY <1>3, <3>1, PriceOfLevel
  <2> QED BY <1>3, <1>4, <2>1
<1>6. View!AtLevel(s, l) = [j \in DOMAIN Ascending(P) |-> book[s][Ascending(P)[j]]]
  <2>1. P = {k \in DOMAIN book[s] : View!PriceToIdx(book[s][k].price) = l}
    BY <1>4, SameListings
  <2>2. View!Ascending(P) = Ascending(P)
    BY SameListings
  <2> QED BY <2>1, <2>2 DEF View!AtLevel
<1>7. ASSUME l \notin Occupied(s) PROVE View!AtLevel(s, l) = <<>>
  <2>1. \A k \in 1 .. N : Lv(line[k]) # l
    <3> TAKE k \in 1 .. N
    <3>1. PICK i \in LiveSlots : i = line[k] /\ slots[i].order.side = s
      BY <1>1, <1>2, ChainTyped
    <3> QED BY <1>7, <3>1, LevelOccupied DEF BookInv, Lv
  <2>2. P = 0 + 1 .. 0 + 0
    BY <1>5, <2>1
  <2>3. Ascending(P) = [j \in 1 .. 0 |-> 0 + j]
    BY <2>2, AscendingInterval
  <2> QED BY <1>6, <2>3
<1>8. ASSUME l \in Occupied(s)
      PROVE  \E q : /\ ListOf(s, l, q)
                    /\ View!AtLevel(s, l) = [j \in 1 .. Len(q) |-> slots[q[j]].order]
  <2>1. PICK q, a : ListOf(s, l, q) /\ CutOut(line, l, q, a)
    BY <1>1, <1>8, LevelHasList
  <2>2. PICK n \in Nat \ {0} : n = Len(q)
    BY <2>1 DEF ListOf
  <2>3. /\ a \in Nat
        /\ \A k \in 1 .. N : Lv(line[k]) = l <=> a < k /\ k <= a + n
        /\ \A j \in 1 .. n : a + j \in 1 .. N /\ q[j] = line[a + j]
    BY <1>2, <2>1, <2>2 DEF CutOut
  <2>4. P = a + 1 .. a + n
    <3>1. a + 1 \in 1 .. N /\ a + n \in 1 .. N
      BY <2>2, <2>3
    <3> QED BY <1>5, <2>2, <2>3, <3>1
  <2>5. Ascending(P) = [j \in 1 .. n |-> a + j]
    BY <2>2, <2>3, <2>4, AscendingInterval
  <2>6. View!AtLevel(s, l) = [j \in 1 .. n |-> book[s][a + j]]
    BY <1>6, <2>5
  <2>7. \A j \in 1 .. n : book[s][a + j] = slots[q[j]].order
    BY <1>3, <2>3
  <2>8. View!AtLevel(s, l) = [j \in 1 .. n |-> slots[q[j]].order]
    BY <2>6, <2>7
  <2> QED BY <2>1, <2>2, <2>8
<1> QED BY <1>7, <1>8

(* Level by level both hashes take the same words.                         *)
LEMMA HashView ==
  ASSUME BookInv, Chains, book = OracleBook
  PROVE  StateHash = View!StateHash
<1>1. ASSUME NEW s \in Sides
      PROVE  {l \in LevelIdxs : View!AtLevel(s, l) # <<>>} = occupied[s]
  <2>1. ASSUME NEW l \in LevelIdxs
        PROVE  View!AtLevel(s, l) # <<>> <=> l \in Occupied(s)
    <3>1. ASSUME l \in Occupied(s), View!AtLevel(s, l) = <<>> PROVE FALSE
      <4>1. PICK q : /\ ListOf(s, l, q)
                     /\ View!AtLevel(s, l) = [j \in 1 .. Len(q) |-> slots[q[j]].order]
        BY <3>1, OracleAtLevel
      <4>2. Len(q) \in Nat \ {0}
        BY <4>1 DEF ListOf
      <4>3. DOMAIN View!AtLevel(s, l) = 1 .. Len(q)
        BY <4>1
      <4>4. DOMAIN <<>> = {}
        OBVIOUS
      <4> QED BY <3>1, <4>2, <4>3, <4>4
    <3> QED BY <3>1, OracleAtLevel
  <2>2. occupied[s] = Occupied(s)
    BY OccupiedBits
  <2> QED BY <2>1, <2>2 DEF Occupied
<1> DEFINE EngineWords(s, l) ==
             <<l, levels[s][l].total, levels[s][l].count,
               [j \in DOMAIN Fifo(s, l) |-> Hashed(slots[Fifo(s, l)[j]].order)]>>
           OracleWords(s, l) ==
             <<l, SumFunction([j \in DOMAIN View!AtLevel(s, l) |-> View!AtLevel(s, l)[j].remaining]),
               Len(View!AtLevel(s, l)),
               [j \in DOMAIN View!AtLevel(s, l) |-> Hashed(View!AtLevel(s, l)[j])]>>
<1>2. ASSUME NEW s \in Sides, NEW l \in Occupied(s) PROVE EngineWords(s, l) = OracleWords(s, l)
  <2>1. l \in LevelIdxs
    BY DEF Occupied
  <2>2. PICK q : ListOf(s, l, q) /\ View!AtLevel(s, l) = [j \in 1 .. Len(q) |-> slots[q[j]].order]
    BY <2>1, OracleAtLevel
  <2>3. Fifo(s, l) = q /\ DOMAIN q = 1 .. Len(q)
    BY <2>1, <2>2, FifoIs
  <2>4. /\ Len(q) = levels[s][l].count
        /\ SumFunction([k \in DOMAIN q |-> slots[q[k]].order.remaining]) = levels[s][l].total
    BY <2>1, <2>2, ListCounts
  <2>5. PICK n \in Nat : n = Len(q)
    BY <2>2 DEF ListOf
  <2>6. PICK w : w = View!AtLevel(s, l)
    OBVIOUS
  <2>7. w = [j \in 1 .. n |-> slots[q[j]].order]
    BY <2>2, <2>5, <2>6
  <2>8. DOMAIN w = 1 .. n /\ Len(w) = n /\ \A j \in 1 .. n : w[j] = slots[q[j]].order
    BY <2>5, <2>7
  <2>9. [j \in DOMAIN w |-> w[j].remaining] = [k \in DOMAIN q |-> slots[q[k]].order.remaining]
    BY <2>3, <2>5, <2>8
  <2>10. [j \in DOMAIN w |-> Hashed(w[j])] = [j \in DOMAIN q |-> Hashed(slots[q[j]].order)]
    BY <2>3, <2>5, <2>8
  <2>11. OracleWords(s, l) = <<l, levels[s][l].total, levels[s][l].count,
                               [j \in DOMAIN q |-> Hashed(slots[q[j]].order)]>>
    BY <2>4, <2>5, <2>6, <2>8, <2>9, <2>10
  <2> QED BY <2>3, <2>11
<1>3. ASSUME NEW s \in Sides
      PROVE  LET occ == Ascending(occupied[s])
             IN  [k \in DOMAIN occ |-> EngineWords(s, occ[k])] = [k \in DOMAIN occ |-> OracleWords(s, occ[k])]
  <2>1. PICK L : L = Ascending(occupied[s])
    OBVIOUS
  <2>2. occupied[s] = Occupied(s) /\ occupied[s] \in SUBSET LevelIdxs
    BY OccupiedBits DEF Occupied
  <2>3. L \in [1 .. Cardinality(occupied[s]) -> occupied[s]]
    BY <2>1, <2>2, AscendingTyped
  <2>4. \A k \in DOMAIN L : L[k] \in Occupied(s)
    BY <2>2, <2>3
  <2> HIDE DEF EngineWords, OracleWords
  <2>5. \A k \in DOMAIN L : EngineWords(s, L[k]) = OracleWords(s, L[k])
    BY <1>2, <2>4
  <2> QED BY <2>1, <2>5
<1>4. StateHash = [s \in Sides |-> LET occ == Ascending(occupied[s])
                                   IN  [k \in DOMAIN occ |-> EngineWords(s, occ[k])]]
  BY DEF StateHash
<1>5. View!StateHash = [s \in Sides |-> LET occ == Ascending(occupied[s])
                                   IN  [k \in DOMAIN occ |-> OracleWords(s, occ[k])]]
  <2>1. ASSUME NEW s \in Sides
        PROVE  View!Ascending({l \in View!LevelIdxs : View!AtLevel(s, l) # <<>>}) = Ascending(occupied[s])
    BY <1>1, SameListings
  <2>2. ASSUME NEW s, NEW l
        PROVE  LET q == View!AtLevel(s, l)
               IN  <<l, View!SumFunction([j \in DOMAIN q |-> q[j].remaining]), Len(q),
                     [j \in DOMAIN q |-> View!Hashed(q[j])]>> = OracleWords(s, l)
    <3>1. PICK q : q = View!AtLevel(s, l)
      OBVIOUS
    <3>2. View!SumFunction([j \in DOMAIN q |-> q[j].remaining]) = SumFunction([j \in DOMAIN q |-> q[j].remaining])
      BY SameListings
    <3>3. [j \in DOMAIN q |-> View!Hashed(q[j])] = [j \in DOMAIN q |-> Hashed(q[j])]
      BY SameListings
    <3> QED BY <3>1, <3>2, <3>3
  <2>3. View!Sides = Sides
    BY SameWords
  <2>4. View!StateHash =
          [s \in Sides |->
             LET occ == View!Ascending({l \in View!LevelIdxs : View!AtLevel(s, l) # <<>>})
             IN  [k \in DOMAIN occ |->
                    LET q == View!AtLevel(s, occ[k])
                    IN  <<occ[k], View!SumFunction([j \in DOMAIN q |-> q[j].remaining]), Len(q),
                          [j \in DOMAIN q |-> View!Hashed(q[j])]>>]]
    BY <2>3 DEF View!StateHash
  <2> HIDE DEF OracleWords
  <2> QED BY <2>1, <2>2, <2>4
<1> HIDE DEF EngineWords, OracleWords
<1> QED BY <1>3, <1>4, <1>5

-----------------------------------------------------------------------------
(* The snapshot lists the live slots, each once.                           *)

Along(s, l, k) == [side |-> s, level |-> l, place |-> k]

(* A level whose bit is set has a queue, and its places are the places of  *)
(* the queue.                                                              *)
LEMMA QueueOf ==
  ASSUME BookInv, Chains, NEW s \in Sides, NEW l \in occupied[s]
  PROVE  /\ l \in LevelIdxs /\ ListOf(s, l, Fifo(s, l))
         /\ Len(Fifo(s, l)) \in 1 .. MaxLiveOrders
         /\ \A k \in 1 .. Len(Fifo(s, l)) : /\ Along(s, l, k) \in Places
                                            /\ SlotAt(Along(s, l, k)) = Fifo(s, l)[k]
<1>1. l \in Occupied(s) /\ l \in LevelIdxs
  BY OccupiedBits DEF Occupied
<1>2. PICK line : Chain(s, line)
  BY DEF Chains
<1>3. PICK q : ListOf(s, l, q)
  BY <1>1, <1>2, LevelHasList
<1>4. Fifo(s, l) = q
  BY <1>1, <1>3, FifoIs
<1>5. Len(q) \in 1 .. MaxLiveOrders
  BY <1>3, SlotsAreNats DEF ListOf, LinkedUp
<1>6. ASSUME NEW k \in 1 .. Len(q)
      PROVE  Along(s, l, k) \in Places /\ SlotAt(Along(s, l, k)) = q[k]
  <2>1. k \in 1 .. MaxLiveOrders /\ k <= Len(q)
    BY <1>5, SlotsAreNats
  <2> QED BY <1>1, <1>4, <2>1 DEF Along, Places, SlotAt
<1> QED BY <1>1, <1>3, <1>4, <1>5, <1>6

LEMMA PlaceFacts ==
  ASSUME BookInv, Chains, NEW p \in Places
  PROVE  \E s \in Sides : \E l \in occupied[s] : \E k \in 1 .. Len(Fifo(s, l)) :
           p = Along(s, l, k) /\ SlotAt(p) = Fifo(s, l)[k] /\ SlotAt(p) \in At(s, l)
<1>1. PICK s \in Sides, l \in LevelIdxs, k \in 1 .. MaxLiveOrders :
        p = Along(s, l, k) /\ l \in occupied[s] /\ k <= Len(Fifo(s, l))
  BY DEF Places, Along
<1>2. ListOf(s, l, Fifo(s, l)) /\ Len(Fifo(s, l)) \in Nat
  BY <1>1, QueueOf
<1>3. k \in 1 .. Len(Fifo(s, l))
  BY <1>1, <1>2
<1>4. SlotAt(p) = Fifo(s, l)[k]
  BY <1>1 DEF SlotAt, Along
<1>5. Fifo(s, l)[k] \in At(s, l)
  BY <1>2, <1>3 DEF ListOf
<1> QED BY <1>1, <1>3, <1>4, <1>5

LEMMA PlacesAreSlots ==
  ASSUME BookInv, Chains
  PROVE  /\ \A p, r \in Places : SlotAt(p) = SlotAt(r) => p = r
         /\ \A i \in LiveSlots : \E p \in Places : SlotAt(p) = i
<1>1. ASSUME NEW p \in Places, NEW r \in Places, SlotAt(p) = SlotAt(r) PROVE p = r
  <2>1. PICK s \in Sides : \E l \in occupied[s] : \E k \in 1 .. Len(Fifo(s, l)) :
           p = Along(s, l, k) /\ SlotAt(p) = Fifo(s, l)[k] /\ SlotAt(p) \in At(s, l)
    BY PlaceFacts
  <2>2. PICK l \in occupied[s] : \E k \in 1 .. Len(Fifo(s, l)) :
           p = Along(s, l, k) /\ SlotAt(p) = Fifo(s, l)[k] /\ SlotAt(p) \in At(s, l)
    BY <2>1
  <2>3. PICK k \in 1 .. Len(Fifo(s, l)) :
           p = Along(s, l, k) /\ SlotAt(p) = Fifo(s, l)[k] /\ SlotAt(p) \in At(s, l)
    BY <2>2
  <2>4. PICK s2 \in Sides : \E l2 \in occupied[s2] : \E k2 \in 1 .. Len(Fifo(s2, l2)) :
           r = Along(s2, l2, k2) /\ SlotAt(r) = Fifo(s2, l2)[k2] /\ SlotAt(r) \in At(s2, l2)
    BY PlaceFacts
  <2>5. PICK l2 \in occupied[s2] : \E k2 \in 1 .. Len(Fifo(s2, l2)) :
           r = Along(s2, l2, k2) /\ SlotAt(r) = Fifo(s2, l2)[k2] /\ SlotAt(r) \in At(s2, l2)
    BY <2>4
  <2>6. PICK k2 \in 1 .. Len(Fifo(s2, l2)) :
           r = Along(s2, l2, k2) /\ SlotAt(r) = Fifo(s2, l2)[k2] /\ SlotAt(r) \in At(s2, l2)
    BY <2>5
  <2>7. s2 = s /\ l2 = l
    BY <1>1, <2>3, <2>6 DEF At
  <2>8. ListOf(s, l, Fifo(s, l))
    BY QueueOf
  <2>9. k2 = k
    BY <1>1, <2>3, <2>6, <2>7, <2>8 DEF ListOf
  <2> QED BY <2>3, <2>6, <2>7, <2>9
<1>2. ASSUME NEW i \in LiveSlots PROVE \E p \in Places : SlotAt(p) = i
  <2>1. PICK s \in Sides, l \in LevelIdxs : i \in At(s, l) /\ l \in Occupied(s)
    <3>1. slots[i].order.side \in Sides /\ slots[i].level \in Occupied(slots[i].order.side)
          /\ i \in At(slots[i].order.side, slots[i].level)
      BY LevelOccupied, Neighbours DEF BookInv
    <3> QED BY <3>1 DEF Occupied
  <2>2. l \in occupied[s]
    BY <2>1, OccupiedBits
  <2>3. PICK k \in 1 .. Len(Fifo(s, l)) : Fifo(s, l)[k] = i
    BY <2>1, <2>2, QueueOf DEF ListOf
  <2>4. Along(s, l, k) \in Places /\ SlotAt(Along(s, l, k)) = Fifo(s, l)[k]
    BY <2>2, QueueOf
  <2> QED BY <2>3, <2>4
<1> QED BY <1>1, <1>2

LEMMA VisitsOrdered ==
  ASSUME NEW R, R = {r \in Places \X Places : NotAfter(r[1], r[2])}
  PROVE  Orders(R, Places) /\ \A p, r \in Places : <<p, r>> \in R <=> NotAfter(p, r)
<1>1. \A p, r \in Places : <<p, r>> \in R <=> NotAfter(p, r)
  OBVIOUS
<1>2. ASSUME NEW p \in Places
      PROVE  /\ p.side \in {"Bid", "Ask"} /\ p.level \in Int /\ p.place \in Int
             /\ p = Along(p.side, p.level, p.place)
  <2>1. p \in [side : Sides, level : LevelIdxs, place : 1 .. MaxLiveOrders]
    BY DEF Places
  <2>2. p.side \in Sides /\ p.level \in LevelIdxs /\ p.place \in 1 .. MaxLiveOrders
    BY <2>1
  <2>3. p = [side |-> p.side, level |-> p.level, place |-> p.place]
    BY <2>1
  <2> QED BY <2>2, <2>3, SlotsAreNats DEF Sides, Along
<1>3. \A p, r \in Places : NotAfter(p, r) \/ NotAfter(r, p)
  BY <1>2 DEF NotAfter
<1>4. ASSUME NEW p \in Places, NEW r \in Places, NotAfter(p, r), NotAfter(r, p) PROVE p = r
  <2>1. p.side = r.side /\ p.level = r.level /\ p.place = r.place
    BY <1>2, <1>4 DEF NotAfter
  <2> QED BY <1>2, <2>1
<1>5. \A p, q, r \in Places : NotAfter(p, q) /\ NotAfter(q, r) => NotAfter(p, r)
  BY <1>2 DEF NotAfter
<1> QED BY <1>1, <1>3, <1>4, <1>5 DEF Orders

(* Orders of a side and a level.                                           *)
Together(i, j) == slots[i].order.side = slots[j].order.side /\ Lv(i) = Lv(j)

(* z is the order in which snapshot() visits the live slots: each once,    *)
(* and the orders of a level from head to tail.                            *)
SnapLists(z) ==
  /\ z \in [1 .. len -> LiveSlots]
  /\ \A j, k \in 1 .. len : z[j] = z[k] => j = k
  /\ \A i \in LiveSlots : \E k \in 1 .. len : z[k] = i
  /\ SnapOrders = [k \in 1 .. len |-> slots[z[k]].order]
  /\ \A j, k \in 1 .. len : slots[z[j]].next = z[k] =>
       j < k /\ \A m \in 1 .. len : j < m /\ m < k => ~ Together(z[j], z[m])
  /\ \A s \in Sides, l \in LevelIdxs : \A j, k \in 1 .. len : z[j] \in At(s, l) =>
       /\ levels[s][l].head = z[k] => k <= j
       /\ levels[s][l].tail = z[k] => j <= k

LEMMA SnapshotLists ==
  ASSUME BookInv, Chains
  PROVE  \E z : SnapLists(z)
<1>1. PICK R : R = {r \in Places \X Places : NotAfter(r[1], r[2])}
  OBVIOUS
<1>2. PICK L : L = Listed(Places, R) /\ L = Visits
  BY <1>1 DEF Visits
<1>3. Orders(R, Places) /\ \A p, r \in Places : <<p, r>> \in R <=> NotAfter(p, r)
  BY <1>1, VisitsOrdered
<1> DEFINE at == [p \in Places |-> SlotAt(p)]
<1>4. ASSUME NEW p \in Places PROVE SlotAt(p) \in LiveSlots
  BY PlaceFacts DEF At, LiveSlots
<1>5. at \in Bijection(Places, LiveSlots)
  <2>1. at \in [Places -> LiveSlots]
    BY <1>4
  <2> QED BY <2>1, PlacesAreSlots DEF Bijection, Injection, Surjection, IsInjective
<1>6. IsFiniteSet(Places) /\ Cardinality(Places) = len
  <2>1. at \in Injection(Places, LiveSlots) /\ at \in Surjection(Places, LiveSlots)
    BY <1>5 DEF Bijection
  <2>2. IsFiniteSet(LiveSlots) /\ Cardinality(LiveSlots) = len
    BY AtFinite DEF BookInv, CountsRight
  <2> HIDE DEF at
  <2> QED BY <2>1, <2>2, FS_Injection
<1> HIDE DEF at
<1>7. len \in Nat /\ L \in [1 .. len -> Places]
      /\ \A j, k \in 1 .. len : j < k => <<L[j], L[k]>> \in R /\ L[j] # L[k]
  <2>1. IsFiniteSet(Places) /\ Orders(R, Places) /\ L = Listed(Places, R)
    BY <1>2, <1>3, <1>6
  <2>2. /\ Cardinality(Places) \in Nat /\ L \in [1 .. Cardinality(Places) -> Places]
        /\ \A j, k \in 1 .. Cardinality(Places) : j < k => <<L[j], L[k]>> \in R /\ L[j] # L[k]
    BY <2>1, ListedFacts
  <2> QED BY <1>6, <2>2
<1>8. ASSUME NEW p \in Places PROVE \E k \in 1 .. len : L[k] = p
  <2>1. IsFiniteSet(Places) /\ Orders(R, Places) /\ L = Listed(Places, R)
    BY <1>2, <1>3, <1>6
  <2>2. /\ Cardinality(NoLater(Places, R, p)) \in 1 .. Cardinality(Places)
        /\ L[Cardinality(NoLater(Places, R, p))] = p
    BY <2>1, ListedFacts
  <2> QED BY <1>6, <2>2
<1>9. ASSUME NEW j \in 1 .. len, NEW k \in 1 .. len
      PROVE  /\ L[j] \in Places /\ L[k] \in Places
             /\ j < k => NotAfter(L[j], L[k]) /\ L[j] # L[k]
             /\ L[j] = L[k] => j = k
             /\ NotAfter(L[j], L[k]) => j <= k
  <2>1. L[j] \in Places /\ L[k] \in Places
    BY <1>7
  <2>2. j < k => NotAfter(L[j], L[k]) /\ L[j] # L[k]
    BY <1>3, <1>7, <2>1
  <2>3. k < j => NotAfter(L[k], L[j]) /\ L[j] # L[k]
    BY <1>3, <1>7, <2>1
  <2>4. NotAfter(L[j], L[k]) /\ NotAfter(L[k], L[j]) => L[j] = L[k]
    BY <1>3, <2>1 DEF Orders
  <2> QED BY <1>7, <2>1, <2>2, <2>3, <2>4
<1>10. PICK z : z = [k \in 1 .. len |-> SlotAt(L[k])]
  OBVIOUS
<1>11. z \in [1 .. len -> LiveSlots] /\ \A k \in 1 .. len : z[k] = SlotAt(L[k]) /\ L[k] \in Places
  BY <1>4, <1>7, <1>10
<1>12. \A j, k \in 1 .. len : z[j] = z[k] => j = k
  BY <1>9, <1>11, PlacesAreSlots
<1>13. ASSUME NEW i \in LiveSlots PROVE \E k \in 1 .. len : z[k] = i
  <2>1. PICK p \in Places : SlotAt(p) = i
    BY PlacesAreSlots
  <2>2. PICK k \in 1 .. len : L[k] = p
    BY <1>8
  <2> QED BY <1>11, <2>1, <2>2
<1>14. SnapOrders = [k \in 1 .. len |-> slots[z[k]].order]
  <2>1. SnapOrders = [k \in DOMAIN L |-> slots[SlotAt(L[k])].order]
    BY <1>2 DEF SnapOrders
  <2>2. DOMAIN L = 1 .. len
    BY <1>7
  <2> QED BY <1>11, <2>1, <2>2
<1>15. ASSUME NEW k \in 1 .. len, NEW s \in Sides, NEW l \in LevelIdxs, z[k] \in At(s, l)
       PROVE  /\ l \in occupied[s] /\ ListOf(s, l, Fifo(s, l)) /\ Len(Fifo(s, l)) \in Nat
              /\ \E n \in 1 .. Len(Fifo(s, l)) : L[k] = Along(s, l, n) /\ z[k] = Fifo(s, l)[n]
  <2>1. PICK s2 \in Sides : \E l2 \in occupied[s2] : \E n \in 1 .. Len(Fifo(s2, l2)) :
           L[k] = Along(s2, l2, n) /\ SlotAt(L[k]) = Fifo(s2, l2)[n] /\ SlotAt(L[k]) \in At(s2, l2)
    BY <1>11, PlaceFacts
  <2>2. PICK l2 \in occupied[s2] : \E n \in 1 .. Len(Fifo(s2, l2)) :
           L[k] = Along(s2, l2, n) /\ SlotAt(L[k]) = Fifo(s2, l2)[n] /\ SlotAt(L[k]) \in At(s2, l2)
    BY <2>1
  <2>3. s2 = s /\ l2 = l
    BY <1>11, <1>15, <2>2 DEF At
  <2>4. ListOf(s, l, Fifo(s, l)) /\ Len(Fifo(s, l)) \in Nat
    BY <2>3, QueueOf
  <2> QED BY <1>11, <2>2, <2>3, <2>4
<1>16. ASSUME NEW s \in Sides, NEW l \in LevelIdxs, NEW j \in 1 .. len, NEW k \in 1 .. len,
              NEW m \in Nat, NEW n \in Nat, L[j] = Along(s, l, m), L[k] = Along(s, l, n)
       PROVE  (j < k <=> m < n) /\ (j = k <=> m = n)
  <2>1. (j < k => m <= n /\ m # n) /\ (k < j => n <= m /\ m # n) /\ (j = k => m = n)
    BY <1>9, <1>16 DEF NotAfter, Along
  <2> QED BY <2>1
<1>17. ASSUME NEW j \in 1 .. len, NEW k \in 1 .. len, slots[z[j]].next = z[k]
       PROVE  j < k /\ \A m \in 1 .. len : j < m /\ m < k => ~ Together(z[j], z[m])
  <2>1. PICK i \in LiveSlots : i = z[j]
    BY <1>11
  <2>2. PICK s \in Sides, l \in LevelIdxs : /\ s = slots[i].order.side /\ l = Lv(i) /\ z[j] \in At(s, l)
                                            /\ z[k] \in At(s, l) /\ z[k] # NIL
    <3>1. slots[i].order.side \in Sides /\ slots[i].level \in LevelIdxs
          /\ i \in At(slots[i].order.side, slots[i].level)
      BY Neighbours DEF BookInv
    <3>2. z[k] # NIL
      BY <1>11, SlotsAreNats DEF LiveSlots
    <3>3. Mirrored(i)
      BY DEF BookInv, ListsLinked
    <3>4. z[k] \in At(slots[i].order.side, slots[i].level)
      BY <1>17, <2>1, <3>2, <3>3 DEF Mirrored
    <3> QED BY <2>1, <3>1, <3>2, <3>4 DEF Lv
  <2>3. PICK q : q = Fifo(s, l) /\ ListOf(s, l, q) /\ Len(q) \in Nat
    BY <1>15, <2>2
  <2>4. PICK a \in 1 .. Len(q) : L[j] = Along(s, l, a) /\ z[j] = q[a]
    BY <1>15, <2>2, <2>3
  <2>5. PICK b \in 1 .. Len(q) : L[k] = Along(s, l, b) /\ z[k] = q[b]
    BY <1>15, <2>2, <2>3
  <2>6. b = a + 1
    <3>1. slots[q[a]].next = IF a = Len(q) THEN NIL ELSE q[a + 1]
      BY <2>3 DEF ListOf, LinkedUp
    <3>2. a # Len(q) /\ q[a + 1] = q[b]
      BY <1>17, <2>2, <2>4, <2>5, <3>1
    <3>3. a + 1 \in 1 .. Len(q)
      BY <2>3, <3>2
    <3> QED BY <2>3, <3>2, <3>3 DEF ListOf
  <2>7. j < k
    BY <1>16, <2>3, <2>4, <2>5, <2>6
  <2>8. ASSUME NEW m \in 1 .. len, j < m, m < k, Together(z[j], z[m]) PROVE FALSE
    <3>1. z[m] \in At(s, l)
      BY <1>11, <2>1, <2>2, <2>8 DEF Together, At, LiveSlots, Lv
    <3>2. PICK c \in 1 .. Len(q) : L[m] = Along(s, l, c)
      BY <1>15, <2>3, <3>1
    <3>3. a < c /\ c < b
      BY <1>16, <2>3, <2>4, <2>5, <2>8, <3>2
    <3> QED BY <2>3, <2>6, <3>3
  <2> QED BY <2>7, <2>8
<1>18. ASSUME NEW s \in Sides, NEW l \in LevelIdxs, NEW j \in 1 .. len, NEW k \in 1 .. len,
              z[j] \in At(s, l)
       PROVE  /\ levels[s][l].head = z[k] => k <= j
              /\ levels[s][l].tail = z[k] => j <= k
  <2>1. PICK q : q = Fifo(s, l) /\ ListOf(s, l, q) /\ Len(q) \in Nat
    BY <1>15, <1>18
  <2>2. PICK a \in 1 .. Len(q) : L[j] = Along(s, l, a) /\ z[j] = q[a]
    BY <1>15, <1>18, <2>1
  <2>3. 1 \in 1 .. Len(q) /\ Len(q) \in 1 .. Len(q)
    BY <2>1, <2>2
  <2>4. /\ levels[s][l].head = q[1] /\ levels[s][l].tail = q[Len(q)]
        /\ q[1] \in At(s, l) /\ q[Len(q)] \in At(s, l)
    BY <2>1, <2>3 DEF ListOf, LinkedUp
  <2>5. ASSUME NEW c \in 1 .. Len(q), z[k] = q[c] PROVE L[k] = Along(s, l, c)
    <3>1. z[k] \in At(s, l)
      BY <2>1, <2>5 DEF ListOf
    <3>2. PICK d \in 1 .. Len(q) : L[k] = Along(s, l, d) /\ z[k] = q[d]
      BY <1>15, <2>1, <3>1
    <3>3. \A x, y \in 1 .. Len(q) : q[x] = q[y] => x = y
      BY <2>1 DEF ListOf
    <3>4. d = c
      BY <2>5, <3>2, <3>3
    <3> QED BY <3>2, <3>4
  <2>6. ASSUME z[k] = q[1] PROVE k <= j
    <3>1. L[k] = Along(s, l, 1)
      BY <2>3, <2>5, <2>6
    <3>2. (j < k <=> a < 1) /\ (j = k <=> a = 1)
      BY <1>16, <2>1, <2>2, <3>1
    <3> QED BY <2>1, <2>2, <3>2
  <2>7. ASSUME z[k] = q[Len(q)] PROVE j <= k
    <3>1. L[k] = Along(s, l, Len(q))
      BY <2>3, <2>5, <2>7
    <3>2. k < j <=> Len(q) < a
      BY <1>16, <2>1, <2>2, <3>1
    <3> QED BY <2>1, <2>2, <3>2
  <2> QED BY <2>4, <2>6, <2>7
<1> QED BY <1>11, <1>12, <1>13, <1>14, <1>17, <1>18 DEF SnapLists

-----------------------------------------------------------------------------
(* What restore() makes of the snapshot: order k of it is in slot z[k]     *)
(* before and in slot k - 1 after.                                         *)

LEMMA SnapFacts ==
  ASSUME BookInv, NEW z, SnapLists(z), NEW os, os = SnapOrders
  PROVE  /\ len \in Nat /\ len <= MaxLiveOrders /\ DOMAIN os = 1 .. len /\ Len(os) = len
         /\ \A k \in 1 .. len :
              /\ z[k] \in LiveSlots /\ z[k] \in SlotIdxs /\ z[k] # NIL
              /\ os[k] = slots[z[k]].order
              /\ LevelOf(os[k]) = Lv(z[k]) /\ Lv(z[k]) \in LevelIdxs /\ os[k].side \in Sides
         /\ \A s, l : Members(os, s, l) = {k \in 1 .. len : z[k] \in At(s, l)}
         /\ \A k \in 1 .. len : Peers(os, k) = {m \in 1 .. len : z[m] \in At(os[k].side, Lv(z[k]))}
<1>1. len \in Nat /\ len <= MaxLiveOrders
  BY SlotsAreNats DEF BookInv, BookTyped
<1>2. os = [k \in 1 .. len |-> slots[z[k]].order]
  BY DEF SnapLists
<1>3. DOMAIN os = 1 .. len /\ Len(os) = len
  BY <1>1, <1>2
<1>4. ASSUME NEW k \in 1 .. len
      PROVE  /\ z[k] \in LiveSlots /\ z[k] \in SlotIdxs /\ z[k] # NIL
             /\ os[k] = slots[z[k]].order
             /\ LevelOf(os[k]) = Lv(z[k]) /\ Lv(z[k]) \in LevelIdxs /\ os[k].side \in Sides
  <2>1. PICK i \in LiveSlots : i = z[k]
    BY DEF SnapLists
  <2>2. i \in SlotIdxs /\ i # NIL /\ Lv(i) \in LevelIdxs /\ slots[i].order.side \in Sides
    BY Neighbours DEF BookInv, Lv
  <2>3. os[k] = slots[i].order
    BY <1>2, <2>1
  <2>4. Lv(i) = PriceToIdx(slots[i].order.price)
    BY PriceOfLevel
  <2> QED BY <2>1, <2>2, <2>3, <2>4 DEF LevelOf
<1>5. ASSUME NEW s, NEW l PROVE Members(os, s, l) = {k \in 1 .. len : z[k] \in At(s, l)}
  <2>1. ASSUME NEW k \in 1 .. len
        PROVE  os[k].side = s /\ LevelOf(os[k]) = l <=> z[k] \in At(s, l)
    <3>1. PICK i \in LiveSlots : i = z[k] /\ os[k] = slots[i].order /\ LevelOf(os[k]) = slots[i].level
      BY <1>4 DEF Lv
    <3> QED BY <3>1 DEF At, LiveSlots
  <2> QED BY <1>3, <2>1 DEF Members
<1>6. ASSUME NEW k \in 1 .. len
      PROVE  Peers(os, k) = {m \in 1 .. len : z[m] \in At(os[k].side, Lv(z[k]))}
  BY <1>4, <1>5 DEF Peers
<1> QED BY <1>1, <1>3, <1>4, <1>5, <1>6

(* A snapshot passes the checks of restore().                              *)
LEMMA SnapRestorable ==
  ASSUME BookInv, NEW z, SnapLists(z)
  PROVE  Restorable(SnapOrders)
<1>1. PICK os : os = SnapOrders
  OBVIOUS
<1>2. /\ len \in Nat /\ len <= MaxLiveOrders /\ DOMAIN os = 1 .. len /\ Len(os) = len
      /\ \A k \in 1 .. len : z[k] \in LiveSlots /\ os[k] = slots[z[k]].order
  BY <1>1, SnapFacts
<1>3. ASSUME NEW k \in 1 .. len
      PROVE  /\ OnGrid(os[k].price) /\ os[k].remaining # 0
             /\ \A j \in 1 .. k - 1 : os[j].id # os[k].id
  <2>1. PICK i \in LiveSlots : i = z[k] /\ os[k] = slots[i].order
    BY <1>2
  <2>2. OnGrid(slots[i].order.price) /\ slots[i].order.remaining # 0
    BY PriceOfLevel
  <2>3. ASSUME NEW j \in 1 .. k - 1, os[j].id = os[k].id PROVE FALSE
    <3>1. j \in 1 .. len /\ j # k
      BY <1>2
    <3>2. PICK h \in LiveSlots : h = z[j] /\ os[j] = slots[h].order
      BY <1>2, <3>1
    <3>3. index[slots[h].order.id] = h /\ index[slots[i].order.id] = i
      BY DEF BookInv, IndexInverse
    <3>4. z[j] = z[k]
      BY <2>1, <2>3, <3>2, <3>3
    <3> QED BY <3>1, <3>4 DEF SnapLists
  <2> QED BY <2>1, <2>2, <2>3
<1>4. Restorable(os)
  BY <1>2, <1>3 DEF Restorable
<1> QED BY <1>1, <1>4

(* The new slot of each live slot.                                         *)
Renumbers(to, z) ==
  /\ to \in [LiveSlots \cup {NIL} -> (0 .. len - 1) \cup {NIL}]
  /\ to[NIL] = NIL
  /\ \A k \in 1 .. len : to[z[k]] = k - 1

LEMMA RenumberingExists ==
  ASSUME BookInv, NEW z, SnapLists(z)
  PROVE  \E to : Renumbers(to, z)
<1>1. len \in Nat /\ NIL \notin LiveSlots
  BY SlotsAreNats DEF BookInv, BookTyped, LiveSlots
<1> DEFINE w(i) == CHOOSE k \in 1 .. len : z[k] = i
           to == [i \in LiveSlots \cup {NIL} |-> IF i = NIL THEN NIL ELSE w(i) - 1]
<1>2. ASSUME NEW i \in LiveSlots PROVE w(i) \in 1 .. len /\ z[w(i)] = i
  <2>1. \E k \in 1 .. len : z[k] = i
    BY DEF SnapLists
  <2> QED BY <2>1
<1>3. ASSUME NEW k \in 1 .. len PROVE z[k] \in LiveSlots /\ w(z[k]) = k
  <2>1. z[k] \in LiveSlots
    BY DEF SnapLists
  <2>2. w(z[k]) \in 1 .. len /\ z[w(z[k])] = z[k]
    BY <1>2, <2>1
  <2> HIDE DEF w
  <2> QED BY <2>1, <2>2 DEF SnapLists
<1> HIDE DEF w
<1>4. \A i \in LiveSlots : w(i) - 1 \in 0 .. len - 1
  BY <1>1, <1>2
<1>5. Renumbers(to, z)
  BY <1>1, <1>3, <1>4 DEF Renumbers
<1> QED BY <1>5

(* Links lead to live slots or nowhere.                                    *)
LEMMA LinksLive ==
  ASSUME BookInv
  PROVE  /\ \A i \in LiveSlots : /\ slots[i].next \in LiveSlots \cup {NIL}
                                 /\ slots[i].prev \in LiveSlots \cup {NIL}
         /\ \A s \in Sides, l \in LevelIdxs : /\ levels[s][l].head \in LiveSlots \cup {NIL}
                                              /\ levels[s][l].tail \in LiveSlots \cup {NIL}
         /\ \A id \in OrderIds : index[id] \in LiveSlots \cup {NIL}
<1>1. \A s, l : At(s, l) \subseteq LiveSlots
  BY DEF At, LiveSlots
<1>2. \A i \in LiveSlots : Mirrored(i)
  BY DEF BookInv, ListsLinked
<1>3. \A s \in Sides, l \in LevelIdxs : Ended(s, l)
  BY DEF BookInv, ListsLinked
<1>4. \A i \in LiveSlots : /\ slots[i].next \in LiveSlots \cup {NIL}
                           /\ slots[i].prev \in LiveSlots \cup {NIL}
  BY <1>1, <1>2 DEF Mirrored
<1>5. \A s \in Sides, l \in LevelIdxs : /\ levels[s][l].head \in LiveSlots \cup {NIL}
                                         /\ levels[s][l].tail \in LiveSlots \cup {NIL}
  BY <1>1, <1>3 DEF Ended
<1> QED BY <1>4, <1>5, IndexedIsLive

LEMMA RestoredSlotIs ==
  ASSUME BookInv, NEW z, SnapLists(z), NEW os, os = SnapOrders, NEW to, Renumbers(to, z),
         NEW k \in 1 .. len
  PROVE  RestoredSlot(os, k) = [order |-> slots[z[k]].order, level |-> Lv(z[k]),
                                prev |-> to[slots[z[k]].prev], next |-> to[slots[z[k]].next]]
<1>1. /\ len \in Nat
      /\ \A m \in 1 .. len : z[m] \in LiveSlots
      /\ os[k] = slots[z[k]].order /\ LevelOf(os[k]) = Lv(z[k])
  BY SnapFacts
<1>2. PICK i \in LiveSlots, s \in Sides, l \in LevelIdxs :
        i = z[k] /\ s = slots[i].order.side /\ l = Lv(i) /\ i \in At(s, l) /\ Mirrored(i)
  <2>1. PICK i \in LiveSlots : i = z[k]
    BY <1>1
  <2>2. slots[i].order.side \in Sides /\ slots[i].level \in LevelIdxs
        /\ i \in At(slots[i].order.side, slots[i].level) /\ Mirrored(i)
    BY Neighbours DEF BookInv
  <2> QED BY <2>1, <2>2 DEF Lv
<1>3. PICK P : P = Peers(os, k) /\ P = {m \in 1 .. len : z[m] \in At(s, l)}
  BY <1>1, <1>2, SnapFacts
<1>4. \A m \in P : m \in 1 .. len /\ Together(z[k], z[m])
  BY <1>2, <1>3 DEF At, Together, Lv
<1>5. PICK after : after = {j \in P : j > k}
  OBVIOUS
<1>6. PICK before : before = {j \in P : j < k}
  OBVIOUS
<1>7. (IF after = {} THEN NIL ELSE Min(after) - 1) = to[slots[i].next]
  <2>1. CASE slots[i].next = NIL
    <3>1. levels[s][l].tail = z[k]
      BY <1>2, <2>1 DEF Mirrored, Lv
    <3>2. \A j \in P : j <= k
      BY <1>3, <3>1 DEF SnapLists
    <3>3. after = {}
      BY <1>1, <1>4, <1>5, <3>2
    <3> QED BY <2>1, <3>3 DEF Renumbers
  <2>2. CASE slots[i].next # NIL
    <3>1. slots[i].next \in At(s, l) /\ slots[i].next \in LiveSlots
      BY <1>2, <2>2 DEF Mirrored, Lv, At, LiveSlots
    <3>2. PICK j \in 1 .. len : z[j] = slots[i].next
      BY <3>1 DEF SnapLists
    <3>3. k < j /\ \A m \in 1 .. len : k < m /\ m < j => ~ Together(z[k], z[m])
      BY <1>2, <3>2 DEF SnapLists
    <3>4. j \in after
      BY <1>3, <1>5, <3>1, <3>2, <3>3
    <3>5. ASSUME NEW m \in after PROVE m \in Int /\ j <= m
      BY <1>4, <1>5, <3>3
    <3>6. Min(after) = j
      <4>1. j \in after /\ \A y \in after : j <= y /\ y \in Int
        BY <3>4, <3>5
      <4>2. \A x \in after : (\A y \in after : x <= y) => x = j
        BY <4>1
      <4> QED BY <4>1, <4>2 DEF Min
    <3>7. to[slots[i].next] = j - 1
      BY <3>2 DEF Renumbers
    <3> QED BY <3>4, <3>6, <3>7
  <2> QED BY <2>1, <2>2
<1>8. (IF before = {} THEN NIL ELSE Max(before) - 1) = to[slots[i].prev]
  <2>1. CASE slots[i].prev = NIL
    <3>1. levels[s][l].head = z[k]
      BY <1>2, <2>1 DEF Mirrored, Lv
    <3>2. \A j \in P : k <= j
      BY <1>3, <3>1 DEF SnapLists
    <3>3. before = {}
      BY <1>1, <1>4, <1>6, <3>2
    <3> QED BY <2>1, <3>3 DEF Renumbers
  <2>2. CASE slots[i].prev # NIL
    <3>1. slots[i].prev \in At(s, l) /\ slots[i].prev \in LiveSlots /\ slots[slots[i].prev].next = i
      BY <1>2, <2>2 DEF Mirrored, Lv, At, LiveSlots
    <3>2. PICK j \in 1 .. len : z[j] = slots[i].prev
      BY <3>1 DEF SnapLists
    <3>3. j < k /\ \A m \in 1 .. len : j < m /\ m < k => ~ Together(z[j], z[m])
      BY <1>2, <3>1, <3>2 DEF SnapLists
    <3>4. j \in before
      BY <1>3, <1>6, <3>1, <3>2, <3>3
    <3>5. ASSUME NEW m \in before PROVE m \in Int /\ m <= j
      <4>1. m \in 1 .. len /\ z[m] \in At(s, l) /\ m < k
        BY <1>3, <1>6
      <4>2. Together(z[j], z[m])
        BY <3>1, <3>2, <4>1 DEF Together, At, Lv
      <4> QED BY <3>3, <4>1, <4>2
    <3>6. Max(before) = j
      <4>1. j \in before /\ \A y \in before : y <= j /\ y \in Int
        BY <3>4, <3>5
      <4>2. \A x \in before : (\A y \in before : x >= y) => x = j
        BY <4>1
      <4> QED BY <4>1, <4>2 DEF Max
    <3>7. to[slots[i].prev] = j - 1
      BY <3>2 DEF Renumbers
    <3> QED BY <3>4, <3>6, <3>7
  <2> QED BY <2>1, <2>2
<1>9. RestoredSlot(os, k) = [order |-> os[k], level |-> LevelOf(os[k]),
                             prev |-> IF before = {} THEN NIL ELSE Max(before) - 1,
                             next |-> IF after = {} THEN NIL ELSE Min(after) - 1]
  BY <1>3, <1>5, <1>6 DEF RestoredSlot
<1> QED BY <1>1, <1>2, <1>7, <1>8, <1>9

LEMMA RestoredLevelIs ==
  ASSUME BookInv, Chains, NEW z, SnapLists(z), NEW os, os = SnapOrders, NEW to, Renumbers(to, z),
         NEW s \in Sides, NEW l \in LevelIdxs
  PROVE  /\ RestoredLevel(os, s, l) =
              [head |-> to[levels[s][l].head], tail |-> to[levels[s][l].tail],
               total |-> levels[s][l].total, count |-> levels[s][l].count]
         /\ Members(os, s, l) # {} <=> l \in occupied[s]
<1>1. /\ len \in Nat /\ DOMAIN os = 1 .. len
      /\ \A k \in 1 .. len : z[k] \in LiveSlots /\ os[k] = slots[z[k]].order
  BY SnapFacts
<1>2. PICK m : m = Members(os, s, l) /\ m = {k \in 1 .. len : z[k] \in At(s, l)}
  BY SnapFacts
<1>3. \A i \in At(s, l) : i \in LiveSlots /\ \E k \in m : z[k] = i
  <2>1. ASSUME NEW i \in At(s, l) PROVE i \in LiveSlots
    BY DEF At, LiveSlots
  <2>2. \A i \in LiveSlots : \E k \in 1 .. len : z[k] = i
    BY DEF SnapLists
  <2> QED BY <1>2, <2>1, <2>2
<1>4. m \in SUBSET (1 .. len) /\ IsFiniteSet(m)
  <2>1. IsFiniteSet(1 .. len)
    BY <1>1, IntervalsFinite
  <2> QED BY <1>2, <2>1, FS_Subset
<1>5. PICK h : h = [k \in m |-> z[k]]
  OBVIOUS
<1>6. /\ h \in [m -> At(s, l)]
      /\ \A x, y \in m : h[x] = h[y] => x = y
      /\ \A i \in At(s, l) : \E y \in m : h[y] = i
  <2>1. \A j, k \in 1 .. len : z[j] = z[k] => j = k
    BY DEF SnapLists
  <2> QED BY <1>2, <1>3, <1>4, <1>5, <2>1
<1>7. Cardinality(m) = Cardinality(At(s, l))
  <2>1. h \in Bijection(m, At(s, l))
    BY <1>6 DEF Bijection, Injection, Surjection, IsInjective
  <2>2. ExistsBijection(m, At(s, l))
    BY <2>1 DEF ExistsBijection
  <2> QED BY <1>4, <2>2, FS_Bijection
<1>8. levels[s][l].count = Cardinality(At(s, l)) /\ levels[s][l].count \in Nat
  BY AtFinite DEF BookInv, CountsRight
<1>9. m # {} <=> l \in Occupied(s)
  <2>1. m # {} <=> Cardinality(m) # 0
    BY <1>4, FS_EmptySet
  <2> QED BY <1>7, <1>8, <2>1 DEF Occupied
<1>10. Members(os, s, l) # {} <=> l \in occupied[s]
  BY <1>2, <1>9, OccupiedBits
<1>11. CASE m = {}
  <2>1. levels[s][l].count = 0
    BY <1>8, <1>9, <1>11 DEF Occupied
  <2>2. levels[s][l] = EmptyLevel
    <3>1. PICK line : Chain(s, line)
      BY DEF Chains
    <3>2. ValidLevel(s, l)
      BY <3>1, LevelIsValid
    <3> QED BY <2>1, <3>2 DEF ValidLevel
  <2>3. RestoredLevel(os, s, l) = EmptyLevel
    BY <1>2, <1>11 DEF RestoredLevel
  <2> QED BY <1>10, <2>2, <2>3 DEF EmptyLevel, Renumbers
<1>12. CASE m # {}
  <2>1. levels[s][l].head # NIL
    BY <1>9, <1>12, HeadExists
  <2>2. levels[s][l].head \in At(s, l) /\ levels[s][l].tail \in At(s, l)
    BY <2>1 DEF BookInv, ListsLinked, Ended
  <2>3. PICK a \in m : z[a] = levels[s][l].head
    BY <1>3, <2>2
  <2>4. PICK b \in m : z[b] = levels[s][l].tail
    BY <1>3, <2>2
  <2>5. \A k \in m : a <= k /\ k <= b /\ k \in Int
    BY <1>2, <2>3, <2>4 DEF SnapLists
  <2>6. Min(m) = a
    <3>1. \A x \in m : (\A y \in m : x <= y) => x = a
      BY <2>5
    <3> QED BY <2>5, <3>1 DEF Min
  <2>7. Max(m) = b
    <3>1. \A x \in m : (\A y \in m : x >= y) => x = b
      BY <2>5
    <3> QED BY <2>5, <3>1 DEF Max
  <2>8. to[levels[s][l].head] = a - 1 /\ to[levels[s][l].tail] = b - 1
    BY <1>4, <2>3, <2>4 DEF Renumbers
  <2>9. SumFunctionOnSet([i \in DOMAIN os |-> os[i].remaining], m) = levels[s][l].total
    <3>1. PICK f : f = [i \in DOMAIN os |-> os[i].remaining]
      OBVIOUS
    <3>2. ASSUME NEW y \in m PROVE Quantities[h[y]] = f[y] /\ f[y] \in Int
      <4>1. PICK i \in LiveSlots : i = h[y] /\ i = z[y] /\ i \in SlotIdxs
        BY <1>1, <1>4, <1>5 DEF LiveSlots
      <4>2. f[y] = slots[i].order.remaining
        BY <1>1, <1>4, <3>1, <4>1
      <4>3. Quantities[i] = slots[i].order.remaining /\ Quantities[i] \in Int
        BY <4>1, QuantitiesTyped DEF Quantities
      <4> QED BY <4>1, <4>2, <4>3
    <3>3. PICK A : /\ A = At(s, l) /\ IsFiniteSet(A) /\ h \in [m -> A]
                   /\ \A i \in A : \E y \in m : h[y] = i
      BY <1>6, AtFinite
    <3>4. SumFunctionOnSet(f, m) = SumFunctionOnSet(Quantities, At(s, l))
      <4>1. IsFiniteSet(m) /\ (\A y \in m : f[y] \in Int)
        BY <1>4, <3>2
      <4>2. \A y \in m : Quantities[h[y]] = f[y]
        BY <3>2
      <4>3. \A x, y \in m : h[x] = h[y] => x = y
        BY <1>6
      <4>4. SumFunctionOnSet(f, m) = SumFunctionOnSet(Quantities, A)
        BY <3>3, <4>1, <4>2, <4>3, SumRenamed
      <4> QED BY <3>3, <4>4
    <3> QED BY <3>1, <3>4, TotalOfLevel
  <2>10. RestoredLevel(os, s, l) =
           [head |-> Min(m) - 1, tail |-> Max(m) - 1,
            total |-> SumFunctionOnSet([i \in DOMAIN os |-> os[i].remaining], m),
            count |-> Cardinality(m)]
    BY <1>2, <1>12 DEF RestoredLevel
  <2> QED BY <1>7, <1>8, <1>10, <2>6, <2>7, <2>8, <2>9, <2>10
<1> QED BY <1>11, <1>12

-----------------------------------------------------------------------------
(* So a restart renames the slots: prices, quantities and places in the    *)
(* queues stay, links follow the new names, and the free list is that of a *)
(* fresh arena.                                                            *)

(* `to` gives each live slot a name of its own below len.                  *)
Renames(to) ==
  /\ to[NIL] = NIL
  /\ \A i \in LiveSlots : to[i] \in 0 .. len - 1
  /\ \A i, j \in LiveSlots : to[i] = to[j] => i = j
  /\ \A n \in 0 .. len - 1 : \E i \in LiveSlots : to[i] = n

(* The book under the names of `to`; the free slots are a fresh arena's.   *)
Renamed(to) ==
  /\ Renames(to)
  /\ slots' = [n \in SlotIdxs |-> slots'[n]]
  /\ \A i \in LiveSlots :
       slots'[to[i]] = [order |-> slots[i].order, level |-> Lv(i),
                        prev |-> to[slots[i].prev], next |-> to[slots[i].next]]
  /\ \A n \in SlotIdxs :
       n >= len => slots'[n] = FreeSlot(IF n + 1 < MaxLiveOrders THEN n + 1 ELSE NIL)
  /\ freeHead' = IF len < MaxLiveOrders THEN len ELSE NIL
  /\ len' = len
  /\ levels' = [s \in Sides |-> [l \in LevelIdxs |->
                  [head |-> to[levels[s][l].head], tail |-> to[levels[s][l].tail],
                   total |-> levels[s][l].total, count |-> levels[s][l].count]]]
  /\ UNCHANGED <<occupied, best>>
  /\ index' = [id \in OrderIds |-> to[index[id]]]

LEMMA RenumbersRenames ==
  ASSUME BookInv, NEW z, SnapLists(z), NEW to, Renumbers(to, z)
  PROVE  Renames(to)
<1>1. len \in Nat
  BY SlotsAreNats DEF BookInv, BookTyped
<1>2. \A i \in LiveSlots : \E k \in 1 .. len : z[k] = i /\ to[i] = k - 1
  BY DEF SnapLists, Renumbers
<1>3. \A k \in 1 .. len : z[k] \in LiveSlots /\ to[z[k]] = k - 1
  BY DEF SnapLists, Renumbers
<1>4. \A i \in LiveSlots : to[i] \in 0 .. len - 1
  BY <1>1, <1>2
<1>5. ASSUME NEW i \in LiveSlots, NEW j \in LiveSlots, to[i] = to[j] PROVE i = j
  <2>1. PICK k \in 1 .. len : z[k] = i /\ to[i] = k - 1
    BY <1>2
  <2>2. PICK m \in 1 .. len : z[m] = j /\ to[j] = m - 1
    BY <1>2
  <2>3. k = m
    <3>1. k - 1 = m - 1
      BY <1>5, <2>1, <2>2
    <3>2. k \in Int /\ m \in Int
      OBVIOUS
    <3> QED BY <3>1, <3>2
  <2> QED BY <2>1, <2>2, <2>3
<1>6. ASSUME NEW n \in 0 .. len - 1 PROVE \E i \in LiveSlots : to[i] = n
  <2>1. n + 1 \in 1 .. len /\ (n + 1) - 1 = n
    BY <1>1
  <2> QED BY <1>3, <2>1
<1> QED BY <1>4, <1>5, <1>6 DEF Renames, Renumbers

LEMMA RestoreRenames ==
  ASSUME BookInv, Chains, Restore(SnapOrders)
  PROVE  \E to : Renamed(to)
<1>1. PICK z : SnapLists(z)
  BY SnapshotLists
<1>2. PICK to : Renumbers(to, z)
  BY <1>1, RenumberingExists
<1>3. PICK os : os = SnapOrders
  OBVIOUS
<1>4. /\ len \in Nat /\ len <= MaxLiveOrders /\ DOMAIN os = 1 .. len /\ Len(os) = len
      /\ \A k \in 1 .. len : z[k] \in LiveSlots /\ os[k] = slots[z[k]].order
  BY <1>1, <1>3, SnapFacts
<1>5. Renames(to)
  BY <1>1, <1>2, RenumbersRenames
<1>6. /\ slots' = [i \in SlotIdxs |->
                     IF i < len THEN RestoredSlot(os, i + 1)
                     ELSE FreeSlot(IF i + 1 < MaxLiveOrders THEN i + 1 ELSE NIL)]
      /\ freeHead' = IF len < MaxLiveOrders THEN len ELSE NIL
      /\ len' = len
      /\ levels' = [s \in Sides |-> [l \in LevelIdxs |-> RestoredLevel(os, s, l)]]
      /\ occupied' = [s \in Sides |-> RestoredOccupied(os, s)]
      /\ best' = [s \in Sides |-> RestoredBest(os, s)]
      /\ index' = [id \in OrderIds |->
                     LET m == {i \in DOMAIN os : os[i].id = id}
                     IN  IF m = {} THEN NIL ELSE Min(m) - 1]
  BY <1>3, <1>4 DEF Restore
<1>7. ASSUME NEW i \in LiveSlots
      PROVE  slots'[to[i]] = [order |-> slots[i].order, level |-> Lv(i),
                              prev |-> to[slots[i].prev], next |-> to[slots[i].next]]
  <2>1. PICK k \in 1 .. len : z[k] = i
    BY <1>1 DEF SnapLists
  <2>2. to[i] = k - 1
    BY <1>2, <2>1 DEF Renumbers
  <2>3. k - 1 \in SlotIdxs /\ k - 1 < len /\ (k - 1) + 1 = k
    BY <1>4, SlotsAreNats DEF SlotIdxs
  <2>4. slots'[k - 1] = RestoredSlot(os, k)
    BY <1>6, <2>3
  <2>5. RestoredSlot(os, k) = [order |-> slots[z[k]].order, level |-> Lv(z[k]),
                               prev |-> to[slots[z[k]].prev], next |-> to[slots[z[k]].next]]
    BY <1>1, <1>2, <1>3, RestoredSlotIs
  <2> QED BY <2>1, <2>2, <2>4, <2>5
<1>8. ASSUME NEW n \in SlotIdxs, n >= len
      PROVE  slots'[n] = FreeSlot(IF n + 1 < MaxLiveOrders THEN n + 1 ELSE NIL)
  <2>1. ~ (n < len)
    BY <1>4, <1>8, SlotsAreNats
  <2> QED BY <1>6, <2>1
<1>9. levels' = [s \in Sides |-> [l \in LevelIdxs |->
                   [head |-> to[levels[s][l].head], tail |-> to[levels[s][l].tail],
                    total |-> levels[s][l].total, count |-> levels[s][l].count]]]
  <2>1. \A s \in Sides, l \in LevelIdxs :
          RestoredLevel(os, s, l) =
            [head |-> to[levels[s][l].head], tail |-> to[levels[s][l].tail],
             total |-> levels[s][l].total, count |-> levels[s][l].count]
    BY <1>1, <1>2, <1>3, RestoredLevelIs
  <2> QED BY <1>6, <2>1
<1>10. ASSUME NEW s \in Sides PROVE RestoredOccupied(os, s) = occupied[s]
  <2>1. \A l \in LevelIdxs : Members(os, s, l) # {} <=> l \in occupied[s]
    BY <1>1, <1>2, <1>3, RestoredLevelIs
  <2>2. occupied[s] \in SUBSET LevelIdxs
    BY DEF BookInv, BookTyped
  <2> QED BY <2>1, <2>2 DEF RestoredOccupied
<1>11. occupied' = occupied
  <2>1. occupied = [s \in Sides |-> occupied[s]]
    BY DEF BookInv, BookTyped
  <2> QED BY <1>6, <1>10, <2>1
<1>12. best' = best
  <2>1. best = [s \in Sides |-> best[s]]
    BY DEF BookInv, BookTyped
  <2>2. ASSUME NEW s \in Sides PROVE RestoredBest(os, s) = best[s]
    <3>1. best[s] = BestOf(s, occupied[s])
      BY BestIsFound, OccupiedBits
    <3>2. RestoredBest(os, s) = BestOf(s, occupied[s])
      <4>1. PICK O : O = occupied[s] /\ O = RestoredOccupied(os, s)
        BY <1>10
      <4>2. RestoredBest(os, s) = IF O = {} THEN NIL
                                  ELSE CHOOSE l \in O : \A m \in O \ {l} : Better(s, l, m)
        BY <4>1 DEF RestoredBest
      <4> QED BY <4>1, <4>2 DEF BestOf
    <3> QED BY <3>1, <3>2
  <2> QED BY <1>6, <2>1, <2>2
<1>13. index' = [id \in OrderIds |-> to[index[id]]]
  <2>1. ASSUME NEW id \in OrderIds PROVE index'[id] = to[index[id]]
    <3>1. PICK m : m = {i \in 1 .. len : os[i].id = id}
      OBVIOUS
    <3>2. index'[id] = IF m = {} THEN NIL ELSE Min(m) - 1
      BY <1>4, <1>6, <3>1
    <3>3. ASSUME NEW k \in m PROVE k \in 1 .. len /\ index[id] = z[k] /\ z[k] # NIL
      <4>1. PICK i \in LiveSlots : i = z[k] /\ os[k] = slots[i].order /\ k \in 1 .. len
        BY <1>4, <3>1
      <4>2. index[slots[i].order.id] = i
        BY DEF BookInv, IndexInverse
      <4>3. i # NIL
        BY SlotsAreNats DEF LiveSlots
      <4> QED BY <3>1, <4>1, <4>2, <4>3
    <3>4. CASE index[id] = NIL
      <4>1. m = {}
        BY <3>3, <3>4
      <4> QED BY <1>5, <3>2, <3>4, <4>1 DEF Renames
    <3>5. CASE index[id] # NIL
      <4>1. PICK i \in LiveSlots : i = index[id] /\ slots[i].order.id = id
        BY <3>5, IndexedIsLive DEF BookInv
      <4>2. PICK k \in 1 .. len : z[k] = i
        BY <1>1 DEF SnapLists
      <4>3. k \in m
        BY <1>4, <3>1, <4>1, <4>2
      <4>4. \A j \in m : j = k
        BY <1>1, <3>3, <4>1, <4>2 DEF SnapLists
      <4>5. Min(m) = k
        <5>1. k \in Int /\ k <= k
          OBVIOUS
        <5>2. m = {k}
          BY <4>3, <4>4
        <5>3. \A x \in {k} : (\A y \in {k} : x <= y) <=> x = k
          BY <5>1
        <5> QED BY <5>2, <5>3 DEF Min
      <4>6. to[i] = k - 1
        BY <1>2, <4>2 DEF Renumbers
      <4> QED BY <3>2, <4>1, <4>3, <4>5, <4>6
    <3> QED BY <3>4, <3>5
  <2>2. DOMAIN index' = OrderIds /\ index' = [id \in OrderIds |-> index'[id]]
    BY <1>6
  <2> QED BY <2>1, <2>2
<1>14. slots' = [n \in SlotIdxs |-> slots'[n]]
  BY <1>6
<1>15. Renamed(to)
  BY <1>5, <1>6, <1>7, <1>8, <1>9, <1>11, <1>12, <1>13, <1>14 DEF Renamed
<1> QED BY <1>15

-----------------------------------------------------------------------------
(* The renamed book, field by field.                                       *)
LEMMA NewNames ==
  ASSUME BookInv, NEW to, Renamed(to)
  PROVE  /\ len \in Nat /\ len <= MaxLiveOrders /\ to[NIL] = NIL
         /\ \A i \in LiveSlots : to[i] \in SlotIdxs /\ to[i] # NIL /\ to[i] < len
         /\ \A i, j \in LiveSlots \cup {NIL} : to[i] = to[j] => i = j
         /\ \A i \in LiveSlots \cup {NIL} : to[i] \in SlotIdxs \cup {NIL} /\ (to[i] = NIL <=> i = NIL)
<1>1. len \in Nat /\ len <= MaxLiveOrders
  BY SlotsAreNats DEF BookInv, BookTyped
<1>2. Renames(to)
  BY DEF Renamed
<1>3. ASSUME NEW i \in LiveSlots PROVE to[i] \in SlotIdxs /\ to[i] # NIL /\ to[i] < len
  <2>1. to[i] \in 0 .. len - 1
    BY <1>2 DEF Renames
  <2>2. to[i] \in SlotIdxs /\ to[i] < len
    BY <1>1, <2>1, SlotsAreNats DEF SlotIdxs
  <2> QED BY <2>2, SlotsAreNats
<1>4. \A i, j \in LiveSlots \cup {NIL} : to[i] = to[j] => i = j
  BY <1>2, <1>3 DEF Renames
<1>5. to[NIL] = NIL
  BY <1>2 DEF Renames
<1>6. \A i \in LiveSlots \cup {NIL} : to[i] \in SlotIdxs \cup {NIL} /\ (to[i] = NIL <=> i = NIL)
  BY <1>3, <1>5
<1> QED BY <1>1, <1>3, <1>4, <1>5, <1>6

LEMMA NewSlots ==
  ASSUME BookInv, NEW to, Renamed(to)
  PROVE  /\ \A i \in LiveSlots : /\ slots'[to[i]].order = slots[i].order
                                 /\ slots'[to[i]].level = slots[i].level
                                 /\ slots'[to[i]].prev = to[slots[i].prev]
                                 /\ slots'[to[i]].next = to[slots[i].next]
                                 /\ to[i] \in LiveSlots'
         /\ \A n \in LiveSlots' : \E i \in LiveSlots : n = to[i]
         /\ \A n \in SlotIdxs : n >= len =>
              /\ slots'[n] = FreeSlot(IF n + 1 < MaxLiveOrders THEN n + 1 ELSE NIL)
              /\ ~ Live(n)'
<1>1. ASSUME NEW i \in LiveSlots
      PROVE  /\ slots'[to[i]].order = slots[i].order
             /\ slots'[to[i]].level = slots[i].level
             /\ slots'[to[i]].prev = to[slots[i].prev]
             /\ slots'[to[i]].next = to[slots[i].next]
  <2>1. slots'[to[i]] = [order |-> slots[i].order, level |-> Lv(i),
                         prev |-> to[slots[i].prev], next |-> to[slots[i].next]]
    BY DEF Renamed
  <2> QED BY <2>1 DEF Lv
<1>2. ASSUME NEW i \in LiveSlots PROVE to[i] \in LiveSlots'
  <2>1. to[i] \in SlotIdxs /\ slots[i].order # NoOrder
    BY NewNames DEF LiveSlots, Live
  <2> QED BY <1>1, <2>1 DEF LiveSlots, Live
<1>3. ASSUME NEW n \in SlotIdxs, n >= len
      PROVE  slots'[n] = FreeSlot(IF n + 1 < MaxLiveOrders THEN n + 1 ELSE NIL) /\ ~ Live(n)'
  <2>1. slots'[n] = FreeSlot(IF n + 1 < MaxLiveOrders THEN n + 1 ELSE NIL)
    BY <1>3 DEF Renamed
  <2>2. slots'[n].order = NoOrder
    BY <2>1 DEF FreeSlot
  <2> QED BY <2>1, <2>2 DEF Live
<1>4. ASSUME NEW n \in LiveSlots' PROVE \E i \in LiveSlots : n = to[i]
  <2>1. n \in SlotIdxs /\ Live(n)'
    BY DEF LiveSlots
  <2>2. n \in 0 .. len - 1
    BY <1>3, <2>1, NewNames, SlotsAreNats
  <2> QED BY <2>2 DEF Renamed, Renames
<1> QED BY <1>1, <1>2, <1>3, <1>4

LEMMA NewAt ==
  ASSUME BookInv, NEW to, Renamed(to), NEW s, NEW l
  PROVE  /\ \A i \in LiveSlots : to[i] \in At(s, l)' <=> i \in At(s, l)
         /\ \A n \in At(s, l)' : \E i \in At(s, l) : n = to[i]
<1>1. ASSUME NEW i \in LiveSlots PROVE to[i] \in At(s, l)' <=> i \in At(s, l)
  <2>1. /\ slots'[to[i]].order = slots[i].order /\ slots'[to[i]].level = slots[i].level
        /\ to[i] \in LiveSlots'
    BY NewSlots
  <2> QED BY <2>1 DEF At, LiveSlots
<1>2. ASSUME NEW n \in At(s, l)' PROVE \E i \in At(s, l) : n = to[i]
  <2>1. n \in LiveSlots'
    BY DEF At, LiveSlots
  <2>2. PICK i \in LiveSlots : n = to[i]
    BY <2>1, NewSlots
  <2> QED BY <1>1, <2>2
<1> QED BY <1>1, <1>2

LEMMA NewLevels ==
  ASSUME BookInv, NEW to, Renamed(to), NEW s \in Sides, NEW l \in LevelIdxs
  PROVE  /\ levels'[s][l].head = to[levels[s][l].head]
         /\ levels'[s][l].tail = to[levels[s][l].tail]
         /\ levels'[s][l].total = levels[s][l].total
         /\ levels'[s][l].count = levels[s][l].count
<1>1. levels'[s][l] = [head |-> to[levels[s][l].head], tail |-> to[levels[s][l].tail],
                       total |-> levels[s][l].total, count |-> levels[s][l].count]
  BY DEF Renamed
<1> QED BY <1>1

-----------------------------------------------------------------------------
(* The renamed book has the invariant, part by part.                       *)
LEMMA RenamedTyped == ASSUME BookInv, NEW to, Renamed(to) PROVE BookTyped'
<1>1. BookTyped
  BY DEF BookInv
<1>2. ASSUME NEW n \in SlotIdxs PROVE slots'[n] \in Slot
  <2>1. CASE n < len
    <3>1. n \in 0 .. len - 1
      BY <2>1, NewNames, SlotsAreNats
    <3>2. PICK i \in LiveSlots : n = to[i]
      BY <3>1 DEF Renamed, Renames
    <3>3. slots'[n] = [order |-> slots[i].order, level |-> Lv(i),
                       prev |-> to[slots[i].prev], next |-> to[slots[i].next]]
      BY <3>2 DEF Renamed
    <3>4. /\ slots[i].order \in Order \cup {NoOrder}
          /\ Lv(i) \in LevelIdxs \cup {NIL}
      BY <1>1, SlotTyped DEF LiveSlots, Lv
    <3>5. to[slots[i].prev] \in SlotIdxs \cup {NIL} /\ to[slots[i].next] \in SlotIdxs \cup {NIL}
      BY LinksLive, NewNames
    <3> QED BY <3>3, <3>4, <3>5 DEF Slot
  <2>2. CASE ~ (n < len)
    <3>1. n >= len
      BY <2>2, NewNames, SlotsAreNats
    <3>2. PICK m : m = IF n + 1 < MaxLiveOrders THEN n + 1 ELSE NIL
      OBVIOUS
    <3>3. m \in SlotIdxs \cup {NIL}
      BY <3>2, SlotsAreNats DEF SlotIdxs
    <3>4. slots'[n] = FreeSlot(m)
      BY <3>1, <3>2, NewSlots
    <3> QED BY <3>3, <3>4 DEF FreeSlot, Slot
  <2> QED BY <2>1, <2>2
<1>3. slots' \in [SlotIdxs -> Slot]
  <2>1. slots' = [n \in SlotIdxs |-> slots'[n]]
    BY DEF Renamed
  <2> QED BY <1>2, <2>1
<1>4. freeHead' \in SlotIdxs \cup {NIL}
  <2>1. freeHead' = IF len < MaxLiveOrders THEN len ELSE NIL
    BY DEF Renamed
  <2> QED BY <2>1, NewNames, SlotsAreNats DEF SlotIdxs
<1>5. len' \in 0 .. MaxLiveOrders
  BY <1>1 DEF BookTyped, Renamed
<1>6. levels' \in [Sides -> [LevelIdxs -> Level]]
  <2>1. ASSUME NEW s \in Sides, NEW l \in LevelIdxs
        PROVE  [head |-> to[levels[s][l].head], tail |-> to[levels[s][l].tail],
                total |-> levels[s][l].total, count |-> levels[s][l].count] \in Level
    <3>1. to[levels[s][l].head] \in SlotIdxs \cup {NIL} /\ to[levels[s][l].tail] \in SlotIdxs \cup {NIL}
      BY LinksLive, NewNames
    <3>2. levels[s][l].total \in Nat /\ levels[s][l].count \in Nat
      BY <1>1, LevelTyped
    <3> QED BY <3>1, <3>2 DEF Level
  <2>2. levels' = [s \in Sides |-> [l \in LevelIdxs |->
                    [head |-> to[levels[s][l].head], tail |-> to[levels[s][l].tail],
                     total |-> levels[s][l].total, count |-> levels[s][l].count]]]
    BY DEF Renamed
  <2> QED BY <2>1, <2>2
<1>7. occupied' \in [Sides -> SUBSET LevelIdxs] /\ best' \in [Sides -> LevelIdxs \cup {NIL}]
  BY <1>1 DEF BookTyped, Renamed
<1>8. index' \in [OrderIds -> SlotIdxs \cup {NIL}]
  <2>1. \A id \in OrderIds : to[index[id]] \in SlotIdxs \cup {NIL}
    BY LinksLive, NewNames
  <2> QED BY <2>1 DEF Renamed
<1> QED BY <1>3, <1>4, <1>5, <1>6, <1>7, <1>8 DEF BookTyped

LEMMA RenamedLinked == ASSUME BookInv, NEW to, Renamed(to) PROVE ListsLinked'
<1>1. ASSUME NEW n \in LiveSlots' PROVE Mirrored(n)'
  <2>1. PICK i \in LiveSlots : n = to[i]
    BY NewSlots
  <2>2. PICK s \in Sides, l \in LevelIdxs : /\ s = slots[i].order.side /\ l = slots[i].level
                                            /\ i \in At(s, l) /\ Mirrored(i)
    BY Neighbours DEF BookInv, ListsLinked
  <2>3. PICK p \in LiveSlots \cup {NIL} : p = slots[i].prev
    BY LinksLive
  <2>4. PICK x \in LiveSlots \cup {NIL} : x = slots[i].next
    BY LinksLive
  <2>5. /\ slots'[n].order.side = s /\ slots'[n].level = l
        /\ slots'[n].prev = to[p] /\ slots'[n].next = to[x]
    BY <2>1, <2>2, <2>3, <2>4, NewSlots
  <2>6. /\ p = NIL => levels[s][l].head = i
        /\ p # NIL => p \in At(s, l) /\ slots[p].next = i
        /\ x = NIL => levels[s][l].tail = i
        /\ x # NIL => x \in At(s, l) /\ slots[x].prev = i
    BY <2>2, <2>3, <2>4 DEF Mirrored
  <2>7. (to[p] = NIL <=> p = NIL) /\ (to[x] = NIL <=> x = NIL)
    BY NewNames
  <2>8. p = NIL => levels'[s][l].head = n
    BY <2>1, <2>6, NewLevels
  <2>9. x = NIL => levels'[s][l].tail = n
    BY <2>1, <2>6, NewLevels
  <2>10. ASSUME p # NIL PROVE to[p] \in At(s, l)' /\ slots'[to[p]].next = n
    <3>1. p \in LiveSlots /\ p \in At(s, l) /\ slots[p].next = i
      BY <2>6, <2>10
    <3> QED BY <2>1, <3>1, NewAt, NewSlots
  <2>11. ASSUME x # NIL PROVE to[x] \in At(s, l)' /\ slots'[to[x]].prev = n
    <3>1. x \in LiveSlots /\ x \in At(s, l) /\ slots[x].prev = i
      BY <2>6, <2>11
    <3> QED BY <2>1, <3>1, NewAt, NewSlots
  <2> QED BY <2>5, <2>7, <2>8, <2>9, <2>10, <2>11 DEF Mirrored
<1>2. ASSUME NEW s \in Sides, NEW l \in LevelIdxs PROVE Ended(s, l)'
  <2>1. PICK h \in LiveSlots \cup {NIL} : h = levels[s][l].head
    BY LinksLive
  <2>2. PICK t \in LiveSlots \cup {NIL} : t = levels[s][l].tail
    BY LinksLive
  <2>3. /\ h # NIL => h \in At(s, l) /\ slots[h].prev = NIL
        /\ t # NIL => t \in At(s, l) /\ slots[t].next = NIL
        /\ h = NIL <=> t = NIL
    BY <2>1, <2>2 DEF BookInv, ListsLinked, Ended
  <2>4. levels'[s][l].head = to[h] /\ levels'[s][l].tail = to[t]
    BY <2>1, <2>2, NewLevels
  <2>5. to[NIL] = NIL /\ (to[h] = NIL <=> h = NIL) /\ (to[t] = NIL <=> t = NIL)
    BY NewNames
  <2>6. ASSUME h # NIL PROVE to[h] \in At(s, l)' /\ slots'[to[h]].prev = NIL
    <3>1. h \in LiveSlots /\ h \in At(s, l) /\ slots[h].prev = NIL
      BY <2>3, <2>6
    <3> QED BY <2>5, <3>1, NewAt, NewSlots
  <2>7. ASSUME t # NIL PROVE to[t] \in At(s, l)' /\ slots'[to[t]].next = NIL
    <3>1. t \in LiveSlots /\ t \in At(s, l) /\ slots[t].next = NIL
      BY <2>3, <2>7
    <3> QED BY <2>5, <3>1, NewAt, NewSlots
  <2> QED BY <2>3, <2>4, <2>5, <2>6, <2>7 DEF Ended
<1> QED BY <1>1, <1>2 DEF ListsLinked

LEMMA RenamedEnds == ASSUME BookInv, NEW to, Renamed(to) PROVE ListsEnd'
<1>1. PICK age \in [SlotIdxs -> Nat] :
        \A i \in LiveSlots : slots[i].next # NIL => age[i] < age[slots[i].next]
  BY DEF BookInv, ListsEnd
<1> DEFINE was(n) == CHOOSE i \in LiveSlots : to[i] = n
<1>2. ASSUME NEW i \in LiveSlots PROVE was(to[i]) = i /\ to[i] \in SlotIdxs /\ i \in SlotIdxs
  <2>1. was(to[i]) \in LiveSlots /\ to[was(to[i])] = to[i]
    OBVIOUS
  <2> HIDE DEF was
  <2> QED BY <2>1, NewNames DEF LiveSlots
<1> HIDE DEF was
<1>3. PICK new : new = [n \in SlotIdxs |-> IF n \in LiveSlots' THEN age[was(n)] ELSE 0]
  OBVIOUS
<1>4. ASSUME NEW i \in LiveSlots PROVE new[to[i]] = age[i]
  BY <1>2, <1>3, NewSlots
<1>5. new \in [SlotIdxs -> Nat]
  <2>1. ASSUME NEW n \in LiveSlots' PROVE age[was(n)] \in Nat
    <3>1. PICK i \in LiveSlots : n = to[i]
      BY NewSlots
    <3> QED BY <1>2, <3>1
  <2> QED BY <1>3, <2>1
<1>6. ASSUME NEW n \in LiveSlots', slots'[n].next # NIL PROVE new[n] < new[slots'[n].next]
  <2>1. PICK i \in LiveSlots : n = to[i]
    BY NewSlots
  <2>2. PICK x \in LiveSlots \cup {NIL} : x = slots[i].next
    BY LinksLive
  <2>3. slots'[n].next = to[x]
    BY <2>1, <2>2, NewSlots
  <2>4. x # NIL /\ x \in LiveSlots
    BY <1>6, <2>2, <2>3, NewNames
  <2>5. age[i] < age[x]
    BY <1>1, <2>2, <2>4
  <2> QED BY <1>4, <2>1, <2>3, <2>4, <2>5
<1> QED BY <1>5, <1>6 DEF ListsEnd

LEMMA SameSize ==
  ASSUME NEW S, IsFiniteSet(S), NEW R, NEW h, \A x \in S : h[x] \in R,
         \A x, y \in S : h[x] = h[y] => x = y, \A y \in R : \E x \in S : h[x] = y
  PROVE  IsFiniteSet(R) /\ Cardinality(R) = Cardinality(S)
<1>1. PICK g : g = [x \in S |-> h[x]]
  OBVIOUS
<1>2. g \in Bijection(S, R)
  BY <1>1 DEF Bijection, Injection, Surjection, IsInjective
<1>3. ExistsBijection(S, R)
  BY <1>2 DEF ExistsBijection
<1> QED BY <1>3, FS_Bijection

LEMMA RenamedCounts == ASSUME BookInv, NEW to, Renamed(to) PROVE CountsRight'
<1>1. CountsRight
  BY DEF BookInv
<1>2. ASSUME NEW s \in Sides, NEW l \in LevelIdxs PROVE levels'[s][l].count = Cardinality(At(s, l)')
  <2>1. \A i \in At(s, l) : i \in LiveSlots
    BY DEF At, LiveSlots
  <2>2. \A i, j \in At(s, l) : to[i] = to[j] => i = j
    BY <2>1, NewNames
  <2>3. \A i \in At(s, l) : to[i] \in At(s, l)'
    BY <2>1, NewAt
  <2>4. \A n \in At(s, l)' : \E i \in At(s, l) : to[i] = n
    BY NewAt
  <2>5. PICK A : A = At(s, l) /\ IsFiniteSet(A)
    BY AtFinite
  <2>6. PICK B : B = At(s, l)'
    OBVIOUS
  <2>7. /\ \A i \in A : to[i] \in B
        /\ \A i, j \in A : to[i] = to[j] => i = j
        /\ \A n \in B : \E i \in A : to[i] = n
    BY <2>2, <2>3, <2>4, <2>5, <2>6
  <2>8. Cardinality(B) = Cardinality(A)
    BY <2>5, <2>7, SameSize
  <2> QED BY <1>1, <2>5, <2>6, <2>8, NewLevels DEF CountsRight
<1>3. len' = Cardinality(LiveSlots')
  <2>1. \A i, j \in LiveSlots : to[i] = to[j] => i = j
    BY NewNames
  <2>2. \A i \in LiveSlots : to[i] \in LiveSlots'
    BY NewSlots
  <2>3. \A n \in LiveSlots' : \E i \in LiveSlots : to[i] = n
    BY NewSlots
  <2>4. PICK A : A = LiveSlots /\ IsFiniteSet(A)
    BY AtFinite
  <2>5. PICK B : B = LiveSlots'
    OBVIOUS
  <2>6. /\ \A i \in A : to[i] \in B
        /\ \A i, j \in A : to[i] = to[j] => i = j
        /\ \A n \in B : \E i \in A : to[i] = n
    BY <2>1, <2>2, <2>3, <2>4, <2>5
  <2>7. Cardinality(B) = Cardinality(A)
    BY <2>4, <2>6, SameSize
  <2> QED BY <1>1, <2>4, <2>5, <2>7 DEF CountsRight, Renamed
<1> QED BY <1>2, <1>3 DEF CountsRight

(* Any sum over the slots is one of partial sums.                          *)
LEMMA IsSumsTo ==
  ASSUME NEW w \in [SlotIdxs -> Nat]
  PROVE  SumsTo(w, SumFunctionOnSet(w, SlotIdxs))
<1>1. PICK acc : acc = [k \in 0 .. MaxLiveOrders |-> SumFunctionOnSet(w, 0 .. k - 1)]
  OBVIOUS
<1>2. MaxLiveOrders \in Nat
  BY SlotsAreNats
<1>3. ASSUME NEW k \in 0 .. MaxLiveOrders
      PROVE  /\ acc[k] = SumFunctionOnSet(w, 0 .. k - 1)
             /\ IsFiniteSet(0 .. k - 1)
             /\ \A y \in 0 .. k - 1 : w[y] \in Nat /\ w[y] \in Int
  <2>1. 0 \in Int /\ k - 1 \in Int
    OBVIOUS
  <2>2. IsFiniteSet(0 .. k - 1)
    BY <2>1, IntervalsFinite
  <2>3. 0 .. k - 1 \subseteq SlotIdxs
    BY <1>2 DEF SlotIdxs
  <2> QED BY <1>1, <2>2, <2>3
<1>4. ASSUME NEW j \in 0 .. MaxLiveOrders, NEW k \in 0 .. MaxLiveOrders, j <= k
      PROVE  acc[k] \in Nat /\ acc[j] <= acc[k]
  <2>1. PICK S : /\ S = 0 .. k - 1 /\ IsFiniteSet(S) /\ (\A y \in S : w[y] \in Nat)
                 /\ acc[k] = SumFunctionOnSet(w, S)
    BY <1>3
  <2>2. PICK R : R = 0 .. j - 1 /\ acc[j] = SumFunctionOnSet(w, R)
    BY <1>3
  <2>3. R \in SUBSET S
    BY <1>4, <2>1, <2>2
  <2> QED BY <2>1, <2>2, <2>3, SumNat
<1>5. acc \in [0 .. MaxLiveOrders -> Nat]
  BY <1>1, <1>4
<1>6. acc[0] = 0
  <2>1. 0 .. 0 - 1 = {} /\ 0 \in 0 .. MaxLiveOrders
    BY <1>2
  <2> QED BY <1>3, <2>1, SumEmpty
<1>7. acc[MaxLiveOrders] = SumFunctionOnSet(w, SlotIdxs)
  BY <1>2, <1>3 DEF SlotIdxs
<1>8. ASSUME NEW k \in SlotIdxs PROVE acc[k + 1] = acc[k] + w[k]
  <2>1. k + 1 \in 0 .. MaxLiveOrders /\ k \in 0 .. MaxLiveOrders /\ (k + 1) - 1 = k /\ k \in 0 .. k
    BY <1>2 DEF SlotIdxs
  <2>2. PICK S : S = 0 .. k /\ IsFiniteSet(S) /\ (\A y \in S : w[y] \in Int)
                 /\ acc[k + 1] = SumFunctionOnSet(w, S) /\ k \in S
    BY <1>3, <2>1
  <2>3. S \ {k} = 0 .. k - 1
    BY <2>1, <2>2
  <2>4. acc[k] = SumFunctionOnSet(w, S \ {k})
    BY <1>3, <2>1, <2>3
  <2>5. SumFunctionOnSet(w, S) = w[k] + SumFunctionOnSet(w, S \ {k})
    BY <2>2, SumStep
  <2>6. acc[k] \in Nat /\ w[k] \in Nat
    BY <1>5, <2>1
  <2> QED BY <2>2, <2>4, <2>5, <2>6
<1> QED BY <1>4, <1>5, <1>6, <1>7, <1>8 DEF SumsTo

LEMMA RenamedTotals == ASSUME BookInv, BookTyped', NEW to, Renamed(to) PROVE TotalsRight'
<1>1. ASSUME NEW s \in Sides, NEW l \in LevelIdxs
      PROVE  SumsTo(QtysAt(s, l)', levels'[s][l].total)
  <2>1. PICK A : A = At(s, l) /\ IsFiniteSet(A) /\ A \subseteq LiveSlots /\ A \subseteq SlotIdxs
    <3>1. At(s, l) \subseteq LiveSlots /\ At(s, l) \subseteq SlotIdxs
      BY DEF At, LiveSlots
    <3> QED BY <3>1, AtFinite
  <2>2. PICK B : B = At(s, l)' /\ B \subseteq SlotIdxs /\ B \subseteq LiveSlots'
    BY DEF At, LiveSlots
  <2>3. PICK w : w = QtysAt(s, l)'
    OBVIOUS
  <2>4. w = [n \in SlotIdxs |-> IF n \in B THEN slots'[n].order.remaining ELSE 0]
    BY <2>2, <2>3 DEF QtysAt
  <2>5. /\ \A i \in A : to[i] \in B
        /\ \A i, j \in A : to[i] = to[j] => i = j
        /\ \A n \in B : \E i \in A : to[i] = n
    <3>1. \A i \in A : to[i] \in B
      BY <2>1, <2>2, NewAt
    <3>2. \A i, j \in A : to[i] = to[j] => i = j
      BY <2>1, NewNames
    <3>3. \A n \in B : \E i \in A : to[i] = n
      BY <2>1, <2>2, NewAt
    <3> QED BY <3>1, <3>2, <3>3
  <2>6. ASSUME NEW i \in A
        PROVE  w[to[i]] = Quantities[i] /\ Quantities[i] \in Nat /\ Quantities[i] \in Int
    <3>1. slots'[to[i]].order = slots[i].order
      BY <2>1, NewSlots
    <3>2. w[to[i]] = slots'[to[i]].order.remaining
      BY <2>2, <2>4, <2>5
    <3>3. Quantities[i] = slots[i].order.remaining /\ Quantities[i] \in Nat
      BY <2>1, QuantitiesTyped DEF Quantities
    <3> QED BY <3>1, <3>2, <3>3
  <2>7. w \in [SlotIdxs -> Nat]
    <3>1. ASSUME NEW n \in B PROVE slots'[n].order.remaining \in Nat
      <4>1. PICK i \in A : n = to[i]
        BY <2>5
      <4> QED BY <2>2, <2>4, <2>6, <4>1
    <3> QED BY <2>4, <3>1
  <2>8. IsFiniteSet(B)
    BY <2>1, <2>5, SameSize
  <2>9. PICK h : h = [i \in A |-> to[i]]
    OBVIOUS
  <2>10. /\ h \in [A -> B]
         /\ \A i \in A : w[h[i]] = Quantities[i]
         /\ \A i, j \in A : h[i] = h[j] => i = j
         /\ \A n \in B : \E i \in A : h[i] = n
    BY <2>5, <2>6, <2>9
  <2>11. SumFunctionOnSet(Quantities, A) = SumFunctionOnSet(w, B)
    <3>1. \A i \in A : Quantities[i] \in Int
      BY <2>6
    <3> QED BY <2>1, <2>8, <2>10, <3>1, SumRenamed
  <2>12. PICK R : R = SlotIdxs \ B
    OBVIOUS
  <2>13. IsFiniteSet(R) /\ R \cap B = {} /\ B \cup R = SlotIdxs
    BY <2>2, <2>12, SlotsAreNats, FS_Subset
  <2>14. \A n \in R : w[n] = 0
    BY <2>4, <2>12
  <2>15. SumFunctionOnSet(w, R) = 0
    BY <2>13, <2>14, SumZeros
  <2>16. SumFunctionOnSet(w, SlotIdxs) = SumFunctionOnSet(w, B) + SumFunctionOnSet(w, R)
    <3>1. \A n \in B \cup R : w[n] \in Int
      BY <2>7, <2>13
    <3>2. SumFunctionOnSet(w, B \cup R) = SumFunctionOnSet(w, B) + SumFunctionOnSet(w, R)
      BY <2>8, <2>13, <3>1, SumUnion
    <3> QED BY <2>13, <3>2
  <2>17. SumFunctionOnSet(w, B) \in Int
    <3>1. \A n \in B : w[n] \in Int
      BY <2>2, <2>7
    <3> QED BY <2>8, <3>1, SumStep
  <2>18. SumFunctionOnSet(w, SlotIdxs) = SumFunctionOnSet(Quantities, A)
    BY <2>11, <2>15, <2>16, <2>17
  <2>19. levels'[s][l].total = SumFunctionOnSet(w, SlotIdxs)
    BY <2>1, <2>18, TotalOfLevel, NewLevels
  <2> QED BY <2>3, <2>7, <2>19, IsSumsTo
<1> QED BY <1>1 DEF TotalsRight, SumsTo

LEMMA RenamedFree == ASSUME BookInv, NEW to, Renamed(to) PROVE FreeStack'
<1>1. PICK m \in Nat : m = MaxLiveOrders - len
  BY NewNames, SlotsAreNats
<1>2. len \in Nat /\ MaxLiveOrders \in Nat /\ SlotIdxs = 0 .. MaxLiveOrders - 1
  BY NewNames, SlotsAreNats DEF SlotIdxs
<1>3. PICK f : f = [k \in 1 .. m |-> MaxLiveOrders - k]
  OBVIOUS
<1>4. ASSUME NEW k \in 1 .. m
      PROVE  f[k] = MaxLiveOrders - k /\ f[k] \in SlotIdxs /\ f[k] >= len
  BY <1>1, <1>2, <1>3
<1>5. freeHead' = IF m = 0 THEN NIL ELSE f[m]
  <2>1. freeHead' = IF len < MaxLiveOrders THEN len ELSE NIL
    BY DEF Renamed
  <2>2. (len < MaxLiveOrders <=> m # 0) /\ (m # 0 => f[m] = len)
    BY <1>1, <1>2, <1>3
  <2> QED BY <2>1, <2>2
<1>6. ASSUME NEW k \in 1 .. m
      PROVE  ~ Live(f[k])' /\ slots'[f[k]].next = IF k = 1 THEN NIL ELSE f[k - 1]
  <2>1. PICK n \in SlotIdxs : n = f[k] /\ n >= len /\ n = MaxLiveOrders - k
    BY <1>4
  <2>2. slots'[n] = FreeSlot(IF n + 1 < MaxLiveOrders THEN n + 1 ELSE NIL) /\ ~ Live(n)'
    BY <2>1, NewSlots
  <2>3. slots'[n].next = IF n + 1 < MaxLiveOrders THEN n + 1 ELSE NIL
    BY <2>2 DEF FreeSlot
  <2>4. n + 1 < MaxLiveOrders <=> k # 1
    BY <1>2, <2>1
  <2>5. k # 1 => f[k - 1] = n + 1
    BY <1>1, <1>2, <1>3, <2>1
  <2>6. ~ Live(f[k])'
    BY <2>1, <2>2
  <2> QED BY <2>1, <2>3, <2>4, <2>5, <2>6
<1>7. \A j, k \in 1 .. m : f[j] = f[k] => j = k
  <2>1. ASSUME NEW j \in 1 .. m, NEW k \in 1 .. m, f[j] = f[k] PROVE j = k
    <3>1. MaxLiveOrders - j = MaxLiveOrders - k
      BY <1>4, <2>1
    <3> QED BY <1>2, <3>1
  <2> QED BY <2>1
<1>8. ASSUME NEW n \in SlotIdxs \ LiveSlots' PROVE \E k \in 1 .. m : f[k] = n
  <2>1. n >= len
    <3>1. ASSUME ~ (n >= len) PROVE FALSE
      <4>1. n \in 0 .. len - 1
        BY <1>2, <3>1
      <4>2. PICK i \in LiveSlots : to[i] = n
        BY <4>1 DEF Renamed, Renames
      <4> QED BY <1>8, <4>2, NewSlots
    <3> QED BY <3>1
  <2>2. MaxLiveOrders - n \in 1 .. m /\ MaxLiveOrders - (MaxLiveOrders - n) = n
    BY <1>1, <1>2, <2>1
  <2> QED BY <1>4, <2>2
<1>9. f \in [1 .. m -> SlotIdxs]
  BY <1>3, <1>4
<1>10. Stacked(f, m)'
  BY <1>5, <1>6, <1>7, <1>8 DEF Stacked
<1>11. m = MaxLiveOrders - len'
  BY <1>1 DEF Renamed
<1> QED BY <1>9, <1>10, <1>11 DEF FreeStack

LEMMA RenamedIndex == ASSUME BookInv, NEW to, Renamed(to) PROVE IndexInverse'
<1>1. ASSUME NEW id \in OrderIds PROVE index'[id] = to[index[id]]
  BY DEF Renamed
<1>2. ASSUME NEW id \in OrderIds, index'[id] # NIL
      PROVE  Live(index[id])' /\ slots'[index'[id]].order.id = id
  <2>1. index[id] # NIL
    BY <1>1, <1>2, NewNames
  <2>2. PICK i \in LiveSlots : i = index[id] /\ slots[i].order.id = id
    BY <2>1, IndexedIsLive
  <2>3. index'[id] = to[i] /\ to[i] \in LiveSlots' /\ slots'[to[i]].order = slots[i].order
    BY <1>1, <2>2, NewSlots
  <2>4. Live(to[i])'
    BY <2>3 DEF LiveSlots
  <2>5. Live(index[id])'
    BY <2>3, <2>4
  <2> QED BY <2>2, <2>3, <2>5
<1>3. ASSUME NEW n \in LiveSlots' PROVE index'[slots'[n].order.id] = n
  <2>1. PICK i \in LiveSlots : n = to[i]
    BY NewSlots
  <2>2. slots'[n].order = slots[i].order
    BY <2>1, NewSlots
  <2>3. slots[i].order.id \in OrderIds /\ index[slots[i].order.id] = i
    BY LiveTyped DEF BookInv, IndexInverse, LiveSlots
  <2> QED BY <1>1, <2>1, <2>2, <2>3
<1> QED BY <1>2, <1>3 DEF IndexInverse

LEMMA RenamedRest ==
  ASSUME BookInv, NEW to, Renamed(to)
  PROVE  BestIsTrue' /\ OrdersInPlace' /\ SidesApart' /\ \A s \in Sides : Occupied(s)' = Occupied(s)
<1>1. \A s \in Sides, l \in LevelIdxs : levels'[s][l].count = levels[s][l].count
  BY NewLevels
<1>2. ASSUME NEW s \in Sides PROVE Occupied(s)' = Occupied(s)
  BY <1>1 DEF Occupied
<1>3. best' = best /\ occupied' = occupied
  BY DEF Renamed
<1>4. BestIsTrue'
  <2>1. ASSUME NEW s \in Sides
        PROVE  {l \in LevelIdxs : levels'[s][l].count > 0} = {l \in LevelIdxs : levels[s][l].count > 0}
    BY <1>1
  <2>2. BestIsTrue
    BY DEF BookInv
  <2> QED BY <1>3, <2>1, <2>2 DEF BestIsTrue, Better
<1>5. OrdersInPlace'
  <2>1. ASSUME NEW n \in LiveSlots'
        PROVE  /\ slots'[n].order.remaining > 0
               /\ OnGrid(slots'[n].order.price)
               /\ slots'[n].level = PriceToIdx(slots'[n].order.price)
    <3>1. PICK i \in LiveSlots : n = to[i]
      BY NewSlots
    <3>2. slots'[n].order = slots[i].order /\ slots'[n].level = slots[i].level
      BY <3>1, NewSlots
    <3> QED BY <3>2 DEF BookInv, OrdersInPlace
  <2> QED BY <2>1 DEF OrdersInPlace, OnGrid, PriceToIdx
<1>6. SidesApart'
  <2>1. Occupied("Bid")' = Occupied("Bid") /\ Occupied("Ask")' = Occupied("Ask")
    BY <1>2 DEF Sides
  <2> QED BY <2>1 DEF BookInv, SidesApart
<1> QED BY <1>2, <1>4, <1>5, <1>6

LEMMA RenamedInv == ASSUME BookInv, NEW to, Renamed(to) PROVE BookInv'
BY RenamedTyped, RenamedLinked, RenamedEnds, RenamedCounts, RenamedTotals, RenamedFree,
   RenamedIndex, RenamedRest DEF BookInv

-----------------------------------------------------------------------------
(* ... and its chains are the old ones under the new names, so that the    *)
(* oracle's book does not change.                                          *)
LEMMA RenamedChain ==
  ASSUME BookInv, NEW to, Renamed(to), NEW s \in Sides, NEW q, Chain(s, q),
         NEW r, r = [k \in 1 .. Len(q) |-> to[q[k]]]
  PROVE  /\ Chain(s, r)' /\ Len(r) = Len(q)
         /\ \A k \in 1 .. Len(q) : slots'[r[k]].order = slots[q[k]].order
<1>1. PICK n \in Nat : n = Len(q)
  BY ChainTyped
<1>2. ASSUME NEW k \in 1 .. n
      PROVE  \E i \in LiveSlots : /\ i = q[k] /\ r[k] = to[i] /\ to[i] \in SlotIdxs /\ to[i] \in LiveSlots'
                                  /\ slots[i].order.side = s
                                  /\ slots'[to[i]].order = slots[i].order
                                  /\ slots'[to[i]].level = slots[i].level
                                  /\ slots'[to[i]].next = to[slots[i].next]
  <2>1. PICK i \in LiveSlots : i = q[k] /\ slots[i].order.side = s
    BY <1>1, ChainTyped
  <2>2. r[k] = to[i]
    BY <1>1, <2>1
  <2>3. to[i] \in SlotIdxs
    BY NewNames
  <2> QED BY <2>1, <2>2, <2>3, NewSlots
<1>3. Len(r) = n /\ r \in Seq(SlotIdxs)
  <2>1. r \in [1 .. n -> SlotIdxs]
    BY <1>1, <1>2
  <2> QED BY <1>1, <2>1, LenProperties
<1>4. ASSUME NEW k \in 1 .. n
      PROVE  /\ r[k] \in LiveSlots' /\ slots'[r[k]].order.side = s
             /\ slots'[r[k]].order = slots[q[k]].order
             /\ Lv(r[k])' = Lv(q[k])
             /\ slots'[r[k]].next = to[slots[q[k]].next]
             /\ slots[q[k]].next \in LiveSlots \cup {NIL}
  <2>1. PICK i \in LiveSlots : /\ i = q[k] /\ r[k] = to[i] /\ to[i] \in LiveSlots'
                               /\ slots[i].order.side = s
                               /\ slots'[to[i]].order = slots[i].order
                               /\ slots'[to[i]].level = slots[i].level
                               /\ slots'[to[i]].next = to[slots[i].next]
    BY <1>2
  <2>2. slots'[r[k]].level = slots[q[k]].level
    BY <2>1
  <2>3. Lv(r[k])' = Lv(q[k])
    BY <2>1, <2>2 DEF Lv
  <2> QED BY <2>1, <2>3, LinksLive
<1>5. ASSUME NEW j \in 1 .. n, NEW k \in 1 .. n, r[j] = r[k] PROVE j = k
  <2>1. q[j] \in LiveSlots /\ q[k] \in LiveSlots /\ to[q[j]] = to[q[k]]
    BY <1>1, <1>2, <1>5
  <2>2. q[j] = q[k]
    BY <2>1, NewNames
  <2> QED BY <1>1, <2>2 DEF Chain
<1>6. ASSUME NEW m \in LiveSlots', slots'[m].order.side = s PROVE \E k \in 1 .. n : r[k] = m
  <2>1. PICK i \in LiveSlots : m = to[i] /\ slots'[m].order = slots[i].order
    BY NewSlots
  <2>2. PICK k \in 1 .. n : q[k] = i
    BY <1>1, <1>6, <2>1 DEF Chain
  <2> QED BY <1>2, <2>1, <2>2
<1>7. ASSUME NEW j \in 1 .. n, NEW k \in 1 .. n, j < k PROVE ~ Better(s, Lv(r[k])', Lv(r[j])')
  <2>1. ~ Better(s, Lv(q[k]), Lv(q[j]))
    BY <1>1, <1>7 DEF Chain
  <2> QED BY <1>4, <2>1
<1>8. ASSUME NEW k \in 1 .. n, slots'[r[k]].next # NIL
      PROVE  k + 1 \in 1 .. n /\ r[k + 1] = slots'[r[k]].next
  <2>1. slots[q[k]].next # NIL
    <3>1. to[slots[q[k]].next] # NIL
      BY <1>4, <1>8
    <3> QED BY <3>1, NewNames
  <2>2. k + 1 \in 1 .. n /\ q[k + 1] = slots[q[k]].next
    BY <1>1, <2>1 DEF Chain
  <2> QED BY <1>2, <1>4, <2>2
<1>9. ASSUME NEW k \in 1 .. n, k + 1 \in 1 .. n, slots'[r[k]].next = NIL
      PROVE  Lv(r[k])' # Lv(r[k + 1])'
  <2>1. slots[q[k]].next = NIL
    <3>1. PICK x \in LiveSlots \cup {NIL} : x = slots[q[k]].next /\ to[x] = NIL
      BY <1>4, <1>9
    <3> QED BY <3>1, NewNames
  <2>2. Lv(q[k]) # Lv(q[k + 1])
    BY <1>1, <1>9, <2>1 DEF Chain
  <2>3. Lv(r[k])' = Lv(q[k])
    BY <1>4
  <2>4. Lv(r[k + 1])' = Lv(q[k + 1])
    BY <1>4, <1>9
  <2> QED BY <2>2, <2>3, <2>4
<1>10. Chain(s, r)'
  BY <1>3, <1>4, <1>5, <1>6, <1>7, <1>8, <1>9, Zenon DEF Chain, Better
<1> QED BY <1>1, <1>3, <1>4, <1>10

(* Restarting leaves the oracle where it is.                               *)
LEMMA RenamedBook ==
  ASSUME BookInv, Chains, book = OracleBook, book' = OracleBook', NEW to, Renamed(to)
  PROVE  Chains' /\ book' = book
<1>1. BookInv'
  BY RenamedInv
<1>2. ASSUME NEW s \in Sides PROVE book'[s] = book[s] /\ \E q : q = Line(s)' /\ Chain(s, q)'
  <2>1. PICK q : q = Line(s) /\ Chain(s, q)
    BY DEF Chains
  <2>2. PICK r : r = [k \in 1 .. Len(q) |-> to[q[k]]]
    OBVIOUS
  <2>3. /\ Chain(s, r)' /\ Len(r) = Len(q)
        /\ \A k \in 1 .. Len(q) : slots'[r[k]].order = slots[q[k]].order
    BY <2>1, <2>2, RenamedChain
  <2>4. Line(s)' = r /\ book'[s] = [k \in 1 .. Len(r) |-> slots'[r[k]].order]
    BY <1>1, <2>3, BookTurns
  <2>5. book[s] = [k \in 1 .. Len(q) |-> slots[q[k]].order]
    BY <2>1, BookRead
  <2>6. book'[s] = book[s]
    BY <2>3, <2>4, <2>5
  <2> QED BY <2>3, <2>4, <2>6
<1>3. Chains'
  BY <1>2, ChainsKnown DEF LinesChained
<1>4. book = [s \in Sides |-> book[s]] /\ book' = [s \in Sides |-> book'[s]]
  BY DEF OracleBook
<1> QED BY <1>2, <1>3, <1>4

LEMMA RestartSim ==
  ASSUME RInv, Restart, book' = OracleBook'
  PROVE  RInv' /\ UNCHANGED <<book, taker, out>>
<1>1. BookInv /\ Chains /\ book = OracleBook /\ LoopInv
  BY DEF RInv, IInv
<1>2. /\ taker = NoOrder /\ taker' = NoOrder /\ out' = out /\ lvl' = lvl /\ cur' = cur
      /\ Restore(SnapOrders)
  BY DEF Restart, Quiescent
<1>3. PICK to : Renamed(to)
  BY <1>1, <1>2, RestoreRenames
<1>4. BookInv' /\ Chains' /\ book' = book /\ len' = len
  <2>1. BookInv'
    BY <1>1, <1>3, RenamedInv
  <2>2. Chains' /\ book' = book
    BY <1>1, <1>3, RenamedBook
  <2>3. len' = len
    BY <1>3 DEF Renamed
  <2> QED BY <2>1, <2>2, <2>3
<1>5. lvl' = NIL /\ cur' = NIL
  BY <1>1, <1>2 DEF LoopInv
<1>6. LoopInv'
  BY <1>1, <1>2, <1>5 DEF LoopInv
<1>7. CursorAtHead' /\ FreeSlotForTaker'
  BY <1>2, <1>5 DEF CursorAtHead, FreeSlotForTaker
<1>8. WithinLimit'
  BY <1>5, NoLimit
<1>9. RoomForEvents'
  BY <1>2, <1>4 DEF RInv, RoomForEvents, Pending
<1> QED BY <1>2, <1>4, <1>6, <1>7, <1>8, <1>9 DEF RInv, IInv

(* The invariant of an engine that is restarted, while nothing is damaged. *)
Sound == ~ damaged => RInv

LEMMA SoundStep ==
  ASSUME Sound, [RestartNext]_<<vars, damaged, book>>
  PROVE  Sound' /\ (View!Next \/ UNCHANGED <<book, taker, out>>)
<1>1. ASSUME ~ damaged, NextOrRestart, book' = OracleBook', UNCHANGED damaged
      PROVE  Sound' /\ (View!Next \/ UNCHANGED <<book, taker, out>>)
  <2>1. ASSUME Next PROVE RInv' /\ (View!Next \/ UNCHANGED <<book, taker, out>>)
    BY <1>1, <2>1, StepSim DEF Sound, Simulated
  <2>2. ASSUME Restart PROVE RInv' /\ UNCHANGED <<book, taker, out>>
    BY <1>1, <2>2, RestartSim DEF Sound
  <2> QED BY <1>1, <2>1, <2>2 DEF NextOrRestart, Sound
<1>2. ASSUME Damage, UNCHANGED book PROVE Sound' /\ UNCHANGED <<book, taker, out>>
  BY <1>2 DEF Damage, Sound
<1>3. ASSUME Stopped PROVE Sound' /\ UNCHANGED <<book, taker, out>>
  BY <1>3 DEF Stopped, Sound, vars
<1>4. ASSUME UNCHANGED <<vars, damaged, book>> PROVE Sound' /\ UNCHANGED <<book, taker, out>>
  <2>1. UNCHANGED vars /\ book' = book /\ damaged' = damaged /\ taker' = taker /\ out' = out
    BY <1>4 DEF vars
  <2>2. OracleBook' = OracleBook
    BY <2>1, BookHeld
  <2>3. ASSUME RInv PROVE RInv'
    BY <2>1, <2>2, <2>3, StepSim DEF RInv
  <2> QED BY <2>1, <2>3 DEF Sound
<1> QED BY <1>1, <1>2, <1>3, <1>4 DEF RestartNext

LEMMA StaysSound == RestartSpec => []Sound
<1>1. RestartInit => Sound
  BY StartSim DEF RestartInit, Sound
<1>2. Sound /\ [RestartNext]_<<vars, damaged, book>> => Sound'
  BY SoundStep
<1> QED BY <1>1, <1>2, PTL DEF RestartSpec

-----------------------------------------------------------------------------
(* The theorems.                                                           *)

(* The fast engine implements the oracle: read side by side along the      *)
(* lists, its book changes as the sorted vectors of the oracle do and it   *)
(* says the same, event by event, in every step of apply() (book.rs:       *)
(* "must reproduce its output streams byte-for-byte").                     *)
THEOREM EngineImplementsOracle == ViewSpec => StepsOfOracle
<1>1. ViewInit => View!Init
  BY StartSim DEF ViewInit
<1>2. RInv /\ [ViewNext]_<<vars, book>> => [View!Next]_(View!vars)
  <2>1. ASSUME RInv, ViewNext PROVE View!Next \/ UNCHANGED <<book, taker, out>>
    BY <2>1, StepSim DEF ViewNext, Simulated
  <2>2. ASSUME UNCHANGED <<vars, book>> PROVE UNCHANGED <<book, taker, out>>
    BY <2>2 DEF vars
  <2> QED BY <2>1, <2>2 DEF View!vars
<1>3. ViewSpec => View!Init /\ [][View!Next]_(View!vars)
  BY <1>1, <1>2, Refines, PTL DEF ViewSpec
<1> QED BY <1>3 DEF StepsOfOracle

(* Between two applies both engines have the same answer to every input    *)
(* that may come, rejection by rejection: is_full and the index, the level *)
(* totals and the lists of the one (can_fill_fully) against the vectors of *)
(* the other.                                                              *)
THEOREM EnginesAgree == ViewSpec => []VerdictsAgree
<1>1. RInv => VerdictsAgree
  BY VerdictsView DEF RInv, IInv
<1> QED BY <1>1, Refines, PTL

(* validate() returns Ok after every step of the engine, in the middle of  *)
(* a match as well, and after every restart: whatever inputs came before,  *)
(* its walks along the links meet every live slot once and every free slot *)
(* once, and find the counts, totals, bits, cached levels and index        *)
(* entries that the engine keeps (I1, I3 to I9), until something else      *)
(* damages the book.                                                       *)
THEOREM EngineIsValid == RestartSpec => []ValidatorPasses
<1>1. Sound => ValidatorPasses
  BY BookIsValid DEF Sound, RInv, IInv, ValidatorPasses
<1> QED BY <1>1, StaysSound, PTL

(* The two state hashes are computed from the same words (lib.rs:          *)
(* "byte-identical"), at every step and wherever the orders live: the      *)
(* engine's, from cached totals and counts and from walks along the links  *)
(* of slots that were freed, reused and renumbered by restarts, are the    *)
(* sums, lengths and orders of the oracle's vectors.                       *)
THEOREM HashesStayEqual == RestartSpec => []HashesAgree
<1>1. Sound => HashesAgree
  BY HashView DEF Sound, RInv, IInv, HashesAgree
<1> QED BY <1>1, StaysSound, PTL

(* restore() refuses no snapshot of the engine: between any two applies    *)
(* the orders that snapshot() lists fit the arena, are on the grid, have   *)
(* something left and have ids of their own.                               *)
THEOREM SnapshotsRestore == RestartSpec => []EverySnapshotRestorable
<1>1. ASSUME BookInv, Chains PROVE Restorable(SnapOrders)
  BY <1>1, SnapshotLists, SnapRestorable
<1>2. Sound => EverySnapshotRestorable
  BY <1>1 DEF Sound, RInv, IInv, EverySnapshotRestorable, SnapshotRestorable
<1> QED BY <1>2, StaysSound, PTL

(* Restarts do not show (determinism.rs: a snapshot in the middle and a    *)
(* replay of the rest give what a full replay gives): an engine that may   *)
(* be restored from its own snapshot between any two applies, any number   *)
(* of times, does and emits only what the oracle, which never stops, does  *)
(* and emits.                                                              *)
THEOREM RestartsDoNotShow == RestartSpec => RestartsInvisible
<1>1. RestartInit => View!Init
  BY StartSim DEF RestartInit
<1>2. Sound /\ [RestartNext]_<<vars, damaged, book>> => [View!Next]_(View!vars)
  BY SoundStep DEF View!vars
<1>3. RestartSpec => View!Init /\ [][View!Next]_(View!vars)
  BY <1>1, <1>2, StaysSound, PTL DEF RestartSpec
<1> QED BY <1>3 DEF RestartsInvisible

=============================================================================
